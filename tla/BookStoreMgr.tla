----------------------------- MODULE BookStoreMgr -----------------------------
(***************************************************************************)
(* The book store of the game server (Mongo/bookStoreMgr.cpp, book.cpp),   *)
(* which the console of main.cpp drives: books and money in memory, and    *)
(* two collections of mongod that every operation writes one after the     *)
(* other, the book first and the money second.                             *)
(*                                                                         *)
(* The process may end between the two writes.  The connection to mongod   *)
(* does not reconnect: from the first call that fails on it nothing is     *)
(* read or written any more, and nobody looks at the results.  mongod may  *)
(* also answer a single call with an error, which findJson reads as "no    *)
(* document" and db_count as 0.  Money and prices are integers here.       *)
(***************************************************************************)
EXTENDS Integers, FiniteSets, FiniteSetsExt

CONSTANTS
  BookNo,        \* the book numbers typed at the console
  Trunc,         \* what a Book's m_szBookNo keeps of a number
  Price, Num, Cost,   \* the prices, amounts and costs typed at the console
  InitFund,
  NoBook,        \* no book, no document
  MaxBooks,      \* bound: bookIds
  MaxOps         \* bound: operations of the console

ASSUME BookStoreAssumption ==
  /\ Trunc \in [BookNo -> BookNo]
  /\ \A b \in BookNo : Trunc[Trunc[b]] = Trunc[b]
  /\ Price \subseteq Nat /\ Num \subseteq Int /\ Cost \subseteq Nat
  /\ NoBook \notin Int /\ NoBook \notin [no : BookNo, stock : Int, price : Price]
  /\ InitFund \in Nat /\ MaxBooks \in Nat /\ MaxOps \in Nat

BookId == 1 .. MaxBooks
Book == [no : BookNo, stock : Int, price : Price]
NoBooks == [i \in BookId |-> NoBook]

VARIABLES
  pc,            \* "off", "idle", or "store" between the two writes
  m_BookMap, m_BookNoMap, m_dMoney,
  due,           \* what the operation under way adds to m_dMoney
  m_MongoConn,   \* "ok" or "failed"
  books,         \* the book collection
  store,         \* the book store collection: NoBook, or one document's money
  net,           \* history: what the operations in books have earned
  gap,           \* history: how much of that was cut off before store
  misread,       \* history: mongod has answered a call with an error
  ops            \* history: operations so far

memVars == <<m_BookMap, m_BookNoMap, m_dMoney>>
vars == <<pc, memVars, due, m_MongoConn, books, store, net, gap, misread, ops>>

(* The type invariant of the book store. *)
TypeOK ==
  /\ pc \in {"off", "idle", "store"}
  /\ m_BookMap \in [BookId -> Book \cup {NoBook}]
  /\ m_BookNoMap \in [BookNo -> 0 .. MaxBooks]
  /\ books \in [BookId -> Book \cup {NoBook}]
  /\ \A i \in BookId : books[i] # NoBook => books[i].no = Trunc[books[i].no]
  /\ m_dMoney \in Nat /\ due \in Int /\ net \in Int /\ gap \in Int
  /\ store = NoBook \/ store \in Nat
  /\ m_MongoConn \in {"ok", "failed"} /\ misread \in BOOLEAN /\ ops \in 0 .. MaxOps

Off ==
  /\ pc' = "off"
  /\ m_BookMap' = NoBooks
  /\ m_BookNoMap' = [b \in BookNo |-> 0]
  /\ m_dMoney' = InitFund
  /\ due' = 0

Init ==
  /\ pc = "off"
  /\ m_BookMap = NoBooks
  /\ m_BookNoMap = [b \in BookNo |-> 0]
  /\ m_dMoney = InitFund
  /\ due = 0
  /\ m_MongoConn = "failed"
  /\ books = NoBooks
  /\ store = NoBook
  /\ net = 0 /\ gap = 0 /\ misread = FALSE /\ ops = 0

-------------------------------------------------------------------------------
(* The ids of the documents numbered b, in a table of books.                 *)
Numbered(b, tab) == {i \in BookId : tab[i] # NoBook /\ tab[i].no = b}

(* The loop of loadFromDB over the documents it got: an insert keeps the     *)
(* entry that is there.                                                      *)
LoadBooks(tab) ==
  /\ m_BookMap' = tab
  /\ m_BookNoMap' = [b \in BookNo |->
       IF Numbered(b, tab) = {} THEN 0 ELSE Min(Numbered(b, tab))]

(* main: connectDB has succeeded, and BookStoreMgr's constructor calls       *)
(* loadFromDB.  The cursor may break off after some of the documents; the    *)
(* money is InitFund unless there are books and the store's document was     *)
(* found.  (Where the first call fails the process ends.)                    *)
Load ==
  /\ pc = "off"
  /\ pc' = "idle"
  /\ \/ /\ LoadBooks(books)
        /\ m_MongoConn' = "ok"
        /\ m_dMoney' = IF books = NoBooks \/ store = NoBook THEN InitFund ELSE store
        /\ UNCHANGED misread
     \/ /\ LoadBooks(books)
        /\ m_MongoConn' \in {"ok", "failed"}
        /\ m_dMoney' = InitFund
        /\ misread' = (misread \/ m_MongoConn' = "ok")
     \/ /\ \E n \in BookId :
             LoadBooks([i \in BookId |-> IF i < n THEN books[i] ELSE NoBook])
        /\ m_MongoConn' = "failed"
        /\ m_dMoney' = InitFund
        /\ UNCHANGED misread
  /\ UNCHANGED <<due, books, store, net, gap, ops>>

(* The first write of an operation that earns d, on a connection that is up  *)
(* or not: saveBookToDB.                                                     *)
SaveBookToDB(id, d, up) ==
  /\ due' = d
  /\ pc' = "store"
  /\ ops < MaxOps /\ ops' = ops + 1
  /\ \/ /\ up
        /\ books' = [books EXCEPT ![id] = m_BookMap'[id]]
        /\ net' = net + d
        /\ m_MongoConn' = "ok"
     \/ /\ m_MongoConn' = "failed"
        /\ UNCHANGED <<books, net>>
  /\ UNCHANGED <<m_dMoney, store, gap>>

(* sold, with enough money from the customer: Book::minusStock refuses       *)
(* amounts that are not positive or exceed the stock.                        *)
Sold(no, num) ==
  LET id == m_BookNoMap[no] IN
  /\ pc = "idle" /\ id # 0
  /\ num > 0 /\ num <= m_BookMap[id].stock
  /\ m_BookMap' = [m_BookMap EXCEPT ![id].stock = @ - num]
  /\ SaveBookToDB(id, m_BookMap[id].price * num, m_MongoConn = "ok")
  /\ UNCHANGED <<m_BookNoMap, misread>>

CanPay(cost) == cost <= m_dMoney

(* stock that forgets saveBookToDB. *)
StockUnsaved(no, num, cost) ==
  LET id == m_BookNoMap[no] IN
  /\ pc = "idle" /\ id # 0 /\ ops < MaxOps
  /\ CanPay(cost)
  /\ m_BookMap' = [m_BookMap EXCEPT ![id].stock = IF num > 0 THEN @ + num ELSE @]
  /\ due' = -cost /\ pc' = "store" /\ ops' = ops + 1
  /\ net' = IF m_MongoConn = "ok" THEN net - cost ELSE net
  /\ UNCHANGED <<m_BookNoMap, m_dMoney, m_MongoConn, books, store, gap, misread>>

(* stock: Book::addStock ignores amounts that are not positive; the cost is  *)
(* paid all the same.                                                        *)
Stock(no, num, cost) ==
  LET id == m_BookNoMap[no] IN
  /\ pc = "idle" /\ id # 0
  /\ CanPay(cost)
  /\ m_BookMap' = [m_BookMap EXCEPT ![id].stock = IF num > 0 THEN @ + num ELSE @]
  /\ SaveBookToDB(id, -cost, m_MongoConn = "ok")
  /\ UNCHANGED <<m_BookNoMap, misread>>

(* getBookCount: the outcomes of db_count, each with what it leaves of the   *)
(* connection.                                                               *)
GetBookCount ==
  [count : {0}, up : {FALSE}, error : {FALSE}] \cup
    (IF m_MongoConn = "failed" THEN {} ELSE
      {[count |-> 0, up |-> TRUE, error |-> TRUE],
       [count |-> Cardinality({i \in BookId : books[i] # NoBook}),
        up |-> TRUE, error |-> FALSE]})

(* The bookId of the last book again. *)
NewIdReused(count) == IF count = 0 THEN 1 ELSE count

NewId(count) == count + 1

(* setNewBook: neither insert replaces an entry that is there.               *)
AddBook(no, price, num, cost) ==
  /\ CanPay(cost)
  /\ \E c \in GetBookCount :
       LET id == NewId(c.count)
           book == [no |-> Trunc[no], stock |-> num, price |-> price]
       IN
       /\ c.count < MaxBooks
       /\ m_BookMap' = IF m_BookMap[id] # NoBook THEN m_BookMap
                       ELSE [m_BookMap EXCEPT ![id] = book]
       /\ m_BookNoMap' = IF m_BookNoMap[no] # 0 THEN m_BookNoMap
                         ELSE [m_BookNoMap EXCEPT ![no] = id]
       /\ misread' = (misread \/ c.error)
       /\ SaveBookToDB(id, -cost, c.up)

(* setNewBook without the look at m_BookNoMap. *)
SetNewBookAgain(no, price, num, cost) ==
  /\ pc = "idle"
  /\ AddBook(no, price, num, cost)

SetNewBook(no, price, num, cost) ==
  /\ pc = "idle"
  /\ m_BookNoMap[no] = 0
  /\ AddBook(no, price, num, cost)

(* The second write, of the money before the operation. *)
SaveBookStoreEarly ==
  /\ pc = "store"
  /\ m_dMoney' = m_dMoney + due
  /\ store' = IF m_MongoConn = "ok" THEN m_dMoney ELSE store
  /\ pc' = "idle" /\ due' = 0
  /\ UNCHANGED <<m_BookMap, m_BookNoMap, m_MongoConn, books, net, gap, misread, ops>>

(* The second write of every operation, saveBookStore.                       *)
SaveBookStore ==
  /\ pc = "store"
  /\ m_dMoney' = m_dMoney + due
  /\ \/ /\ m_MongoConn = "ok"
        /\ store' = m_dMoney'
        /\ UNCHANGED <<m_MongoConn, gap>>
     \/ /\ m_MongoConn' = "failed"
        /\ gap' = IF m_MongoConn = "ok" THEN gap + due ELSE gap
        /\ UNCHANGED store
  /\ pc' = "idle" /\ due' = 0
  /\ UNCHANGED <<m_BookMap, m_BookNoMap, books, net, misread, ops>>

(* The process ends, by "quit" or a crash.                                   *)
Quit ==
  /\ pc # "off"
  /\ gap' = IF pc = "store" /\ m_MongoConn = "ok" THEN gap + due ELSE gap
  /\ m_MongoConn' = "failed"
  /\ Off
  /\ UNCHANGED <<books, store, net, misread, ops>>

Next ==
  \/ Load
  \/ \E no \in BookNo, num \in Num : Sold(no, num)
  \/ \E no \in BookNo, num \in Num, cost \in Cost : Stock(no, num, cost)
  \/ \E no \in BookNo, price \in Price, num \in Num, cost \in Cost :
       SetNewBook(no, price, num, cost)
  \/ SaveBookStore
  \/ Quit

Spec == Init /\ [][Next]_vars

-------------------------------------------------------------------------------
(* The money in mongod is what the operations recorded in the book           *)
(* collection have earned, except for those that were cut off between their  *)
(* two writes: no crash, lost connection or reload loses or repeats any      *)
(* other amount (bookStoreMgr.cpp:54-56, 80-82, 103-104, 153-183).           *)
MoneyMatchesBooks ==
  ~misread =>
    (IF store = NoBook THEN InitFund ELSE store)
      = InitFund + net - gap - (IF pc = "store" /\ m_MongoConn = "ok" THEN due ELSE 0)

(* While the connection holds, memory and mongod agree between operations,   *)
(* so the next start finds the store as it was left                          *)
(* (bookStoreMgr.cpp:112-127, 153-196).                                      *)
MemoryIsStored ==
  pc = "idle" /\ m_MongoConn = "ok" /\ ~misread =>
    /\ m_BookMap = books
    /\ m_dMoney = IF store = NoBook THEN InitFund ELSE store

(* Two book numbers lead to one book only after a count has failed           *)
(* (bookStoreMgr.cpp:101-104, mongoMgr.cpp:72-76).                           *)
SharedIdExplained ==
  m_MongoConn = "ok" /\ ~misread =>
    \A a, b \in BookNo : m_BookNoMap[a] = m_BookNoMap[b] /\ a # b => m_BookNoMap[a] = 0

(* A book of the collection that its number does not lead to, and that can   *)
(* be neither sold nor stocked, has a number that was cut to the size of     *)
(* m_szBookNo (book.cpp:25-26, bookStoreMgr.cpp:104, 173).                   *)
HiddenBookExplained ==
  pc = "idle" /\ m_MongoConn = "ok" /\ ~misread =>
    \A i \in BookId : books[i] # NoBook =>
      \/ m_BookNoMap[books[i].no] = i
      \/ \E b \in BookNo : b # Trunc[b] /\ Trunc[b] = books[i].no
===============================================================================
