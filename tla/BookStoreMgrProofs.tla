-------------------------- MODULE BookStoreMgrProofs --------------------------
(***************************************************************************)
(* Proofs about the book store, for any book numbers and any effect of     *)
(* their truncation, any prices, amounts and costs, and any number of      *)
(* books and operations, with mongod failing and the process ending at any *)
(* moment.                                                                 *)
(***************************************************************************)
EXTENDS BookStoreMgr, FiniteSetTheorems, WellFoundedInduction, TLAPS

USE BookStoreAssumption DEF Book

-------------------------------------------------------------------------------
(* A set of naturals that is not empty has a smallest element.               *)
LEMMA MinIn ==
  ASSUME NEW S \in SUBSET Nat, S # {}
  PROVE  Min(S) \in S
<1>1. PICK x \in S : \A y \in S : ~(<<y, x>> \in OpToRel(<, Nat))
  BY WFMin, NatLessThanWellFounded, Zenon
<1>2. \A y \in S : y < x => <<y, x>> \in OpToRel(<, Nat)
  BY ZenonT(30) DEF OpToRel
<1>3. \A y \in S : ~(y < x)
  BY <1>1, <1>2, Zenon
<1>4. \A y \in S : x <= y
  BY <1>3
<1> QED
  BY <1>4, Zenon DEF Min

Tables == [BookId -> Book \cup {NoBook}]

Tight(tab) == \A i \in BookId : tab[i] # NoBook => tab[i].no = Trunc[tab[i].no]

(* The entry of every number leads to a book with that number, if it was     *)
(* loaded, or to one that was added under it.                                *)
LEMMA LoadedNumbers ==
  ASSUME NEW tab \in Tables, LoadBooks(tab), NEW b \in BookNo
  PROVE  /\ m_BookNoMap'[b] = 0 => Numbered(b, tab) = {}
         /\ m_BookNoMap'[b] # 0 => m_BookNoMap'[b] \in Numbered(b, tab)
<1>1. Numbered(b, tab) \in SUBSET Nat /\ 0 \notin Numbered(b, tab)
  BY DEF Numbered, BookId
<1>2. m_BookNoMap'[b] = IF Numbered(b, tab) = {} THEN 0 ELSE Min(Numbered(b, tab))
  BY DEF LoadBooks
<1> QED
  BY <1>1, <1>2, MinIn

LEMMA CountType ==
  ASSUME NEW tab \in Tables
  PROVE  /\ IsFiniteSet({i \in BookId : tab[i] # NoBook})
         /\ Cardinality({i \in BookId : tab[i] # NoBook}) \in Nat
<1>1. IsFiniteSet(BookId)
  BY FS_Interval DEF BookId
<1> QED
  BY <1>1, FS_Subset, FS_CardinalityType

-------------------------------------------------------------------------------
(* Types, and what they rest on: only a running process is connected, an     *)
(* operation never takes more money than there is, and a number's entry      *)
(* leads to a book.                                                          *)

NumbersLead ==
  \A b \in BookNo : m_BookNoMap[b] # 0 => m_BookMap[m_BookNoMap[b]] # NoBook

TInv ==
  /\ TypeOK
  /\ m_MongoConn = "ok" => pc # "off"
  /\ pc = "store" => m_dMoney + due >= 0
  /\ Tight(m_BookMap)
  /\ NumbersLead

(* What sold, stock and setNewBook have in common ...                        *)
Writes(id, d, up) ==
  /\ pc = "idle"
  /\ d \in Int /\ m_dMoney + d >= 0
  /\ up => m_MongoConn = "ok"
  /\ m_BookMap' \in Tables
  /\ m_BookMap'[id] # NoBook
  /\ m_BookMap'[id].no = Trunc[m_BookMap'[id].no]
  /\ \A j \in BookId \ {id} : m_BookMap'[j] = m_BookMap[j]
  /\ SaveBookToDB(id, d, up)

(* ... what the first two do to a book ...                                   *)
Changes(id) ==
  /\ UNCHANGED <<m_BookNoMap, misread>>
  /\ m_BookMap[id] # NoBook
  /\ m_BookMap'[id].no = m_BookMap[id].no

(* ... and how the third adds one, after counting the books.                 *)
Adds(no, id, c) ==
  /\ c \in GetBookCount
  /\ id = c.count + 1
  /\ m_BookNoMap[no] = 0
  /\ m_BookNoMap' = [m_BookNoMap EXCEPT ![no] = id]
  /\ m_BookMap[id] = NoBook => m_BookMap'[id].no = Trunc[no]
  /\ m_BookMap[id] # NoBook => m_BookMap'[id] = m_BookMap[id]
  /\ misread' = (misread \/ c.error)

Operates ==
  \E id \in BookId, d \in Int :
    \/ Writes(id, d, m_MongoConn = "ok") /\ Changes(id)
    \/ \E no \in BookNo, c \in GetBookCount : Writes(id, d, c.up) /\ Adds(no, id, c)

LEMMA SoldKind ==
  ASSUME TInv, NEW no \in BookNo, NEW num \in Num, Sold(no, num)
  PROVE  Operates
<1> DEFINE id == m_BookNoMap[no]
           d == m_BookMap[id].price * num
<1>1. id \in BookId /\ m_BookMap[id] \in Book /\ m_BookMap[id] # NoBook
  BY DEF TInv, TypeOK, NumbersLead, BookId, Sold
<1>2. num \in Nat /\ num > 0 /\ m_BookMap[id].price \in Nat
  BY <1>1 DEF Sold
<1>3. d \in Nat
  BY <1>2
<1>4. d \in Int /\ m_dMoney + d >= 0
  BY <1>3 DEF TInv, TypeOK
<1>5. m_BookMap' = [m_BookMap EXCEPT ![id].stock = @ - num]
  BY DEF Sold
<1>6. /\ m_BookMap' \in Tables /\ m_BookMap'[id] \in Book
      /\ m_BookMap'[id].no = m_BookMap[id].no
      /\ \A j \in BookId \ {id} : m_BookMap'[j] = m_BookMap[j]
  BY <1>1, <1>2, <1>5 DEF TInv, TypeOK, Tables
<1>7. SaveBookToDB(id, d, m_MongoConn = "ok") /\ pc = "idle" /\ UNCHANGED <<m_BookNoMap, misread>>
  BY DEF Sold
<1> HIDE DEF id, d
<1>8. m_BookMap'[id].no = Trunc[m_BookMap'[id].no]
  BY <1>1, <1>6 DEF TInv, Tight
<1>9. Writes(id, d, m_MongoConn = "ok")
  BY <1>4, <1>6, <1>7, <1>8 DEF Writes
<1>10. Changes(id)
  BY <1>1, <1>6, <1>7 DEF Changes
<1> QED
  BY <1>1, <1>4, <1>9, <1>10 DEF Operates

LEMMA StockKind ==
  ASSUME TInv, NEW no \in BookNo, NEW num \in Num, NEW cost \in Cost, Stock(no, num, cost)
  PROVE  Operates
<1> DEFINE id == m_BookNoMap[no]
           d == -cost
<1>1. id \in BookId /\ m_BookMap[id] \in Book /\ m_BookMap[id] # NoBook
  BY DEF TInv, TypeOK, NumbersLead, BookId, Stock
<1>2. d \in Int /\ m_dMoney + d >= 0
  BY DEF TInv, TypeOK, Stock, CanPay
<1>3. m_BookMap' = [m_BookMap EXCEPT ![id].stock = IF num > 0 THEN @ + num ELSE @]
  BY DEF Stock
<1>4. /\ m_BookMap' \in Tables /\ m_BookMap'[id] \in Book
      /\ m_BookMap'[id].no = m_BookMap[id].no
      /\ \A j \in BookId \ {id} : m_BookMap'[j] = m_BookMap[j]
  BY <1>1, <1>3 DEF TInv, TypeOK, Tables
<1>5. SaveBookToDB(id, d, m_MongoConn = "ok") /\ pc = "idle" /\ UNCHANGED <<m_BookNoMap, misread>>
  BY DEF Stock
<1> HIDE DEF id, d
<1>6. m_BookMap'[id].no = Trunc[m_BookMap'[id].no]
  BY <1>1, <1>4 DEF TInv, Tight
<1>7. Writes(id, d, m_MongoConn = "ok")
  BY <1>2, <1>4, <1>5, <1>6 DEF Writes
<1>8. Changes(id)
  BY <1>1, <1>4, <1>5 DEF Changes
<1> QED
  BY <1>1, <1>2, <1>7, <1>8 DEF Operates

LEMMA CountKinds ==
  ASSUME TInv, NEW c \in GetBookCount
  PROVE  /\ c.count \in Nat
         /\ c.up => m_MongoConn = "ok"
         /\ \/ c.error
            \/ ~c.up
            \/ c.count = Cardinality({i \in BookId : books[i] # NoBook})
<1>1. Cardinality({i \in BookId : books[i] # NoBook}) \in Nat
  BY CountType, Zenon DEF TInv, TypeOK, Tables
<1> DEFINE n == Cardinality({i \in BookId : books[i] # NoBook})
<1> HIDE DEF n
<1>2. \/ c \in [count : {0}, up : {FALSE}, error : {FALSE}]
      \/ m_MongoConn = "ok" /\ c = [count |-> 0, up |-> TRUE, error |-> TRUE]
      \/ m_MongoConn = "ok" /\ c = [count |-> n, up |-> TRUE, error |-> FALSE]
  BY Zenon DEF GetBookCount, n, TInv, TypeOK
<1>3. n \in Nat
  BY <1>1 DEF n
<1>4. CASE c \in [count : {0}, up : {FALSE}, error : {FALSE}]
  <2>1. c.count = 0
    BY <1>4
  <2>2. c.up = FALSE
    BY <1>4, Zenon
  <2> QED
    BY <2>1, <2>2
<1>5. CASE m_MongoConn = "ok" /\ c = [count |-> 0, up |-> TRUE, error |-> TRUE]
  BY <1>5
<1>6. CASE m_MongoConn = "ok" /\ c = [count |-> n, up |-> TRUE, error |-> FALSE]
  <2>1. c.count = n
    BY <1>6
  <2> QED
    BY <1>3, <1>6, <2>1 DEF n
<1> QED
  BY <1>2, <1>4, <1>5, <1>6, Zenon

LEMMA AddKind ==
  ASSUME TInv, NEW no \in BookNo, NEW price \in Price, NEW num \in Num, NEW cost \in Cost,
         SetNewBook(no, price, num, cost)
  PROVE  Operates
<1> DEFINE book == [no |-> Trunc[no], stock |-> num, price |-> price]
           d == -cost
<1>1. PICK c \in GetBookCount :
        /\ c.count < MaxBooks
        /\ m_BookMap' = IF m_BookMap[NewId(c.count)] # NoBook THEN m_BookMap
                        ELSE [m_BookMap EXCEPT ![NewId(c.count)] = book]
        /\ m_BookNoMap' = IF m_BookNoMap[no] # 0 THEN m_BookNoMap
                          ELSE [m_BookNoMap EXCEPT ![no] = NewId(c.count)]
        /\ misread' = (misread \/ c.error)
        /\ SaveBookToDB(NewId(c.count), d, c.up)
  BY Zenon DEF SetNewBook, AddBook
<1> DEFINE id == c.count + 1
<1>2. id \in BookId /\ NewId(c.count) = id
  <2>1. c.count \in Nat
    BY CountKinds, Zenon
  <2>2. c.count < MaxBooks
    BY <1>1
  <2> QED
    BY <2>1, <2>2 DEF BookId, NewId
<1>3. d \in Int /\ m_dMoney + d >= 0 /\ pc = "idle" /\ m_BookNoMap[no] = 0
  BY DEF TInv, TypeOK, SetNewBook, AddBook, CanPay
<1>4. book \in Book /\ book # NoBook /\ book.no = Trunc[no] /\ Trunc[book.no] = book.no
  <2>1. Trunc[no] \in BookNo /\ num \in Int /\ Trunc[Trunc[no]] = Trunc[no]
    OBVIOUS
  <2>2. book \in Book /\ book.no = Trunc[no]
    BY <2>1
  <2> QED
    BY <2>1, <2>2
<1> HIDE DEF id, d, book
<1>5. m_BookMap' = IF m_BookMap[id] # NoBook THEN m_BookMap
                   ELSE [m_BookMap EXCEPT ![id] = book]
  BY <1>1, <1>2
<1>6. /\ m_BookMap' \in Tables /\ m_BookMap'[id] # NoBook
      /\ \A j \in BookId \ {id} : m_BookMap'[j] = m_BookMap[j]
      /\ m_BookMap[id] = NoBook => m_BookMap'[id] = book
      /\ m_BookMap[id] # NoBook => m_BookMap'[id] = m_BookMap[id]
  BY <1>2, <1>4, <1>5 DEF TInv, TypeOK, Tables
<1>7. m_BookMap'[id].no = Trunc[m_BookMap'[id].no]
  BY <1>2, <1>4, <1>6 DEF TInv, Tight
<1>8. Writes(id, d, c.up)
  <2>1. c.up => m_MongoConn = "ok"
    BY CountKinds, Zenon
  <2>2. SaveBookToDB(id, d, c.up)
    BY <1>1, <1>2
  <2> QED
    BY <1>3, <1>6, <1>7, <2>1, <2>2 DEF Writes
<1>9. Adds(no, id, c)
  <2>1. m_BookNoMap' = [m_BookNoMap EXCEPT ![no] = id] /\ id = c.count + 1
    BY <1>1, <1>2, <1>3 DEF id
  <2> QED
    BY <1>1, <1>3, <1>4, <1>6, <2>1, Zenon DEF Adds
<1> QED
  BY <1>2, <1>3, <1>8, <1>9 DEF Operates

(* Every step is an operation, or one of the three others.                   *)
LEMMA StepKinds ==
  ASSUME TInv, [Next]_vars
  PROVE  Operates \/ Load \/ SaveBookStore \/ Quit \/ UNCHANGED vars
BY SoldKind, StockKind, AddKind DEF Next

-------------------------------------------------------------------------------
(* Type correctness. *)

(* The book is saved, or nothing is and the connection is gone.              *)
Outcome(id, d) ==
  /\ pc' = "store" /\ due' = d /\ ops' = ops + 1 /\ ops < MaxOps
  /\ UNCHANGED <<m_dMoney, store, gap>>
  /\ \/ /\ m_MongoConn = "ok" /\ m_MongoConn' = "ok"
        /\ books' = [books EXCEPT ![id] = m_BookMap'[id]]
        /\ net' = net + d
     \/ m_MongoConn' = "failed" /\ UNCHANGED <<books, net>>

LEMMA WritesOutcome ==
  ASSUME NEW id, NEW d, NEW up, Writes(id, d, up)
  PROVE  Outcome(id, d)
BY DEF Writes, SaveBookToDB, Outcome

(* Every operation writes, and either changes a book or adds one.            *)
LEMMA OperatesKinds ==
  ASSUME Operates
  PROVE  \E id \in BookId, d \in Int :
           /\ pc = "idle" /\ m_dMoney + d >= 0
           /\ m_BookMap' \in Tables
           /\ m_BookMap'[id] # NoBook
           /\ m_BookMap'[id].no = Trunc[m_BookMap'[id].no]
           /\ \A j \in BookId \ {id} : m_BookMap'[j] = m_BookMap[j]
           /\ Outcome(id, d)
           /\ Changes(id) \/ \E no \in BookNo, c \in GetBookCount : Adds(no, id, c) /\ (m_MongoConn' = "ok" => c.up)
<1>1. PICK id \in BookId, d \in Int :
        \/ Writes(id, d, m_MongoConn = "ok") /\ Changes(id)
        \/ \E no \in BookNo, c \in GetBookCount : Writes(id, d, c.up) /\ Adds(no, id, c)
  BY DEF Operates
<1>2. CASE Writes(id, d, m_MongoConn = "ok") /\ Changes(id)
  BY <1>2, WritesOutcome, Zenon DEF Writes
<1>3. ASSUME NEW no \in BookNo, NEW c \in GetBookCount, Writes(id, d, c.up), Adds(no, id, c)
      PROVE  /\ pc = "idle" /\ m_dMoney + d >= 0
             /\ m_BookMap' \in Tables
             /\ m_BookMap'[id] # NoBook
             /\ m_BookMap'[id].no = Trunc[m_BookMap'[id].no]
             /\ \A j \in BookId \ {id} : m_BookMap'[j] = m_BookMap[j]
             /\ Outcome(id, d)
             /\ m_MongoConn' = "ok" => c.up
  <2>1. Outcome(id, d)
    BY <1>3, WritesOutcome
  <2>2. m_MongoConn' = "ok" => c.up
    BY <1>3 DEF Writes, SaveBookToDB
  <2> QED
    BY <1>3, <2>1, <2>2 DEF Writes
<1> QED
  BY <1>1, <1>2, <1>3

LEMMA OperatesTypes ==
  ASSUME TInv, Operates
  PROVE  TInv'
<1>1. PICK id \in BookId, d \in Int :
           /\ pc = "idle" /\ m_dMoney + d >= 0
           /\ m_BookMap' \in Tables
           /\ m_BookMap'[id] # NoBook
           /\ m_BookMap'[id].no = Trunc[m_BookMap'[id].no]
           /\ \A j \in BookId \ {id} : m_BookMap'[j] = m_BookMap[j]
           /\ Outcome(id, d)
           /\ Changes(id) \/ \E no \in BookNo, c \in GetBookCount : Adds(no, id, c)
  BY OperatesKinds
<1>2. Tight(m_BookMap')
  BY <1>1 DEF Tight, TInv
<1>3. books' \in Tables /\ Tight(books')
  <2>1. books \in Tables /\ Tight(books)
    BY DEF TInv, TypeOK, Tables, Tight
  <2>2. CASE books' = books
    BY <2>1, <2>2
  <2>3. CASE books' = [books EXCEPT ![id] = m_BookMap'[id]]
    BY <1>1, <2>1, <2>3 DEF Tables, Tight
  <2> QED
    BY <1>1, <2>2, <2>3 DEF Outcome
<1>4. m_BookNoMap' \in [BookNo -> 0 .. MaxBooks] /\ NumbersLead' /\ misread' \in BOOLEAN
  <2>0. m_BookNoMap \in [BookNo -> 0 .. MaxBooks] /\ misread \in BOOLEAN /\ NumbersLead
    BY DEF TInv, TypeOK
  <2>1. \A i \in BookId : m_BookMap[i] # NoBook => m_BookMap'[i] # NoBook
    BY <1>1
  <2>2. CASE Changes(id)
    <3>1. m_BookNoMap' = m_BookNoMap /\ misread' = misread
      BY <2>2 DEF Changes
    <3> QED
      BY <2>0, <2>1, <3>1 DEF NumbersLead, BookId
  <2>3. ASSUME NEW no \in BookNo, NEW c \in GetBookCount, Adds(no, id, c)
        PROVE  /\ m_BookNoMap' \in [BookNo -> 0 .. MaxBooks] /\ NumbersLead'
               /\ misread' \in BOOLEAN
    <3>1. m_BookNoMap' = [m_BookNoMap EXCEPT ![no] = id]
      BY <2>3 DEF Adds
    <3>2. m_BookNoMap' \in [BookNo -> 0 .. MaxBooks] /\ NumbersLead'
      BY <1>1, <2>0, <2>1, <3>1 DEF NumbersLead, BookId
    <3>3. misread' \in BOOLEAN
      BY <2>3 DEF Adds
    <3> QED
      BY <3>2, <3>3
  <2> QED
    BY <1>1, <2>2, <2>3
<1>5. /\ pc' = "store" /\ m_dMoney' \in Nat /\ due' \in Int /\ m_dMoney' + due' >= 0
      /\ net' \in Int /\ gap' \in Int /\ (store' = NoBook \/ store' \in Nat)
      /\ m_MongoConn' \in {"ok", "failed"} /\ ops' \in 0 .. MaxOps
  BY <1>1 DEF Outcome, TInv, TypeOK
<1> QED
  BY <1>1, <1>2, <1>3, <1>4, <1>5, Zenon DEF TInv, TypeOK, Tables, Tight

LEMMA LoadTypes ==
  ASSUME TInv, Load
  PROVE  TInv'
<1>1. PICK tab \in Tables : LoadBooks(tab) /\ Tight(tab)
  <2>1. books \in Tables /\ Tight(books)
    BY DEF TInv, TypeOK, Tables, Tight
  <2>2. CASE LoadBooks(books)
    BY <2>1, <2>2
  <2>3. ASSUME NEW n \in BookId,
               LoadBooks([i \in BookId |-> IF i < n THEN books[i] ELSE NoBook])
        PROVE  \E tab \in Tables : LoadBooks(tab) /\ Tight(tab)
    <3> DEFINE tab == [i \in BookId |-> IF i < n THEN books[i] ELSE NoBook]
    <3>1. tab \in Tables /\ Tight(tab)
      BY <2>1 DEF Tables, Tight
    <3> QED
      BY <2>3, <3>1
  <2> QED
    BY <2>2, <2>3, Zenon DEF Load
<1>2. m_BookMap' = tab
  BY <1>1 DEF LoadBooks
<1>3. \A b \in BookNo : /\ m_BookNoMap'[b] \in 0 .. MaxBooks
                        /\ m_BookNoMap'[b] # 0 => tab[m_BookNoMap'[b]] # NoBook
  BY <1>1, LoadedNumbers DEF Numbered, BookId
<1>4. m_BookNoMap' \in [BookNo -> 0 .. MaxBooks]
  <2>1. m_BookNoMap' = [b \in BookNo |->
          IF Numbered(b, tab) = {} THEN 0 ELSE Min(Numbered(b, tab))]
    BY <1>1 DEF LoadBooks
  <2> QED
    BY <1>3, <2>1
<1>5. NumbersLead' /\ m_BookMap' \in Tables /\ Tight(m_BookMap')
  BY <1>1, <1>2, <1>3 DEF NumbersLead
<1>6. m_dMoney' \in Nat /\ m_MongoConn' \in {"ok", "failed"}
  BY DEF Load, TInv, TypeOK
<1>7. misread' \in BOOLEAN
  BY Zenon DEF Load, TInv, TypeOK
<1>8. pc' = "idle" /\ UNCHANGED <<due, books, store, net, gap, ops>>
  BY DEF Load
<1> QED
  BY <1>4, <1>5, <1>6, <1>7, <1>8 DEF TInv, TypeOK, Tables

LEMMA TInvStep ==
  ASSUME TInv, [Next]_vars
  PROVE  TInv'
<1>1. CASE SaveBookStore
  <2>1. m_dMoney' \in Nat /\ (store' = NoBook \/ store' \in Nat) /\ gap' \in Int
    BY <1>1 DEF SaveBookStore, TInv, TypeOK
  <2>2. /\ pc' = "idle" /\ due' = 0 /\ m_MongoConn' \in {"ok", "failed"}
        /\ UNCHANGED <<m_BookMap, m_BookNoMap, books, net, misread, ops>>
    BY <1>1 DEF SaveBookStore, TInv, TypeOK
  <2>3. Tight(m_BookMap)' /\ NumbersLead'
    BY <2>2 DEF TInv, Tight, NumbersLead
  <2> QED
    BY <2>1, <2>2, <2>3 DEF TInv, TypeOK
<1>2. CASE Quit
  <2>1. gap' \in Int /\ m_BookMap' \in Tables /\ Tight(m_BookMap')
    BY <1>2 DEF Quit, Off, NoBooks, Tables, Tight, TInv, TypeOK
  <2>2. m_BookNoMap' \in [BookNo -> 0 .. MaxBooks] /\ \A b \in BookNo : m_BookNoMap'[b] = 0
    BY <1>2 DEF Quit, Off
  <2>3. /\ pc' = "off" /\ due' = 0 /\ m_MongoConn' = "failed" /\ m_dMoney' = InitFund
        /\ UNCHANGED <<books, store, net, misread, ops>>
    BY <1>2 DEF Quit, Off
  <2> QED
    BY <2>1, <2>2, <2>3 DEF TInv, TypeOK, Tables, NumbersLead
<1>3. CASE UNCHANGED vars
  BY <1>3 DEF vars, memVars, TInv, TypeOK, Tight, NumbersLead
<1> QED
  BY <1>1, <1>2, <1>3, StepKinds, OperatesTypes, LoadTypes

LEMMA TInvHolds == Spec => []TInv
<1>1. Init => TInv
  <2> SUFFICES ASSUME Init PROVE TInv
    OBVIOUS
  <2>1. m_BookMap \in Tables /\ books \in Tables /\ \A i \in BookId : m_BookMap[i] = NoBook /\ books[i] = NoBook
    BY DEF Init, NoBooks, Tables
  <2>2. m_BookNoMap \in [BookNo -> 0 .. MaxBooks] /\ \A b \in BookNo : m_BookNoMap[b] = 0
    BY DEF Init
  <2>3. misread \in BOOLEAN
    BY Zenon DEF Init
  <2>4. /\ pc = "off" /\ m_dMoney = InitFund /\ due = 0 /\ m_MongoConn = "failed"
        /\ store = NoBook /\ net = 0 /\ gap = 0 /\ ops = 0
    BY DEF Init
  <2> QED
    BY <2>1, <2>2, <2>3, <2>4 DEF TInv, TypeOK, Tight, NumbersLead, Tables
<1>2. TInv /\ [Next]_vars => TInv'
  BY TInvStep
<1> QED
  BY <1>1, <1>2, PTL DEF Spec

(* TypeOK holds throughout: in particular the money is never negative, and   *)
(* every book in mongod is numbered as m_szBookNo leaves it.                 *)
THEOREM BookStoreTypeCorrect == Spec => []TypeOK
BY TInvHolds, PTL DEF TInv
-------------------------------------------------------------------------------
(* The money.  While the connection holds and no answer was wrong, memory    *)
(* and mongod agree; and the store has no document before the first book.    *)

StoredMoney == IF store = NoBook THEN InitFund ELSE store

Agree == m_MongoConn = "ok" /\ ~misread => m_dMoney = StoredMoney /\ m_BookMap = books

BooksFirst ==
  /\ books = NoBooks => store = NoBook
  /\ pc = "store" /\ m_MongoConn = "ok" => books # NoBooks

MInv == MoneyMatchesBooks /\ Agree /\ BooksFirst

LEMMA MisreadStays ==
  ASSUME Operates \/ Load
  PROVE  misread => misread'
<1>1. CASE Operates
  BY <1>1, OperatesKinds, Zenon DEF Changes, Adds
<1>2. CASE Load
  BY <1>2, Zenon DEF Load
<1> QED
  BY <1>1, <1>2

LEMMA MoneyOperates ==
  ASSUME TInv, MInv, Operates
  PROVE  MInv'
<1>1. PICK id \in BookId, d \in Int :
        /\ pc = "idle"
        /\ m_BookMap' \in Tables /\ m_BookMap'[id] # NoBook
        /\ \A j \in BookId \ {id} : m_BookMap'[j] = m_BookMap[j]
        /\ Outcome(id, d)
  BY OperatesKinds
<1>2. misread => misread'
  BY MisreadStays
<1>3. books \in Tables /\ m_BookMap \in Tables /\ net \in Int /\ gap \in Int
  BY DEF TInv, TypeOK, Tables
<1>4. pc' = "store" /\ due' = d /\ UNCHANGED <<m_dMoney, store, gap>>
  BY <1>1 DEF Outcome
<1>5. CASE /\ m_MongoConn = "ok" /\ m_MongoConn' = "ok"
           /\ books' = [books EXCEPT ![id] = m_BookMap'[id]]
           /\ net' = net + d
  <2>1. StoredMoney' = StoredMoney
    BY <1>4 DEF StoredMoney
  <2>2. MoneyMatchesBooks'
    <3>1. ~misread => StoredMoney = InitFund + net - gap
      BY <1>1, <1>3 DEF MInv, MoneyMatchesBooks, StoredMoney
    <3>2. InitFund + (net + d) - gap - d = InitFund + net - gap
      BY <1>3
    <3> QED
      BY <1>2, <1>4, <1>5, <2>1, <3>1, <3>2 DEF MoneyMatchesBooks, StoredMoney
  <2>3. Agree'
    <3>1. ASSUME m_BookMap = books
          PROVE  m_BookMap' = books'
      BY <1>1, <1>3, <1>5, <3>1 DEF Tables
    <3> QED
      BY <1>2, <1>4, <1>5, <2>1, <3>1 DEF Agree, MInv
  <2>4. books' # NoBooks
    BY <1>1, <1>3, <1>5 DEF NoBooks, Tables
  <2> QED
    BY <2>2, <2>3, <2>4 DEF MInv, BooksFirst
<1>6. CASE m_MongoConn' = "failed" /\ UNCHANGED <<books, net>>
  <2>1. MoneyMatchesBooks'
    BY <1>1, <1>2, <1>3, <1>4, <1>6, Zenon DEF MInv, MoneyMatchesBooks
  <2>2. Agree' /\ BooksFirst'
    BY <1>4, <1>6 DEF Agree, BooksFirst, MInv
  <2> QED
    BY <2>1, <2>2 DEF MInv
<1> QED
  BY <1>1, <1>5, <1>6 DEF Outcome

LEMMA MoneyLoad ==
  ASSUME TInv, MInv, Load
  PROVE  MInv'
<1>1. misread => misread'
  BY MisreadStays
<1>2. pc = "off" /\ pc' = "idle" /\ UNCHANGED <<due, books, store, net, gap>>
  BY DEF Load
<1>3. MoneyMatchesBooks'
  BY <1>1, <1>2 DEF MInv, MoneyMatchesBooks
<1>4. BooksFirst'
  BY <1>2 DEF MInv, BooksFirst
<1>5. ASSUME m_MongoConn' = "ok", ~misread'
      PROVE  LoadBooks(books) /\ m_dMoney' = IF books = NoBooks \/ store = NoBook THEN InitFund ELSE store
  BY <1>5, Zenon DEF Load
<1>6. Agree'
  BY <1>2, <1>5 DEF Agree, StoredMoney, LoadBooks, MInv, BooksFirst
<1> QED
  BY <1>3, <1>4, <1>6 DEF MInv

LEMMA MoneySave ==
  ASSUME TInv, MInv, SaveBookStore
  PROVE  MInv'
<1>1. net \in Int /\ gap \in Int /\ due \in Int /\ m_dMoney \in Nat /\ m_dMoney + due \in Nat
  BY DEF TInv, TypeOK, SaveBookStore
<1>2. /\ pc = "store" /\ pc' = "idle" /\ m_dMoney' = m_dMoney + due
      /\ UNCHANGED <<m_BookMap, books, net, misread>>
  BY DEF SaveBookStore
<1>3. CASE m_MongoConn = "ok" /\ store' = m_dMoney' /\ UNCHANGED <<m_MongoConn, gap>>
  <2>1. store' # NoBook /\ StoredMoney' = m_dMoney + due
    BY <1>1, <1>2, <1>3 DEF StoredMoney
  <2>2. ~misread => m_dMoney = InitFund + net - gap - due
    BY <1>2, <1>3 DEF MInv, Agree, MoneyMatchesBooks, StoredMoney
  <2>3. ~misread => m_dMoney + due = InitFund + net - gap
    BY <1>1, <2>2
  <2>4. MoneyMatchesBooks'
    BY <1>1, <1>2, <1>3, <2>1, <2>3 DEF MoneyMatchesBooks, StoredMoney
  <2>5. Agree' /\ BooksFirst'
    BY <1>2, <1>3, <2>1 DEF MInv, Agree, BooksFirst
  <2> QED
    BY <2>4, <2>5 DEF MInv
<1>4. CASE /\ m_MongoConn' = "failed" /\ UNCHANGED store
           /\ gap' = IF m_MongoConn = "ok" THEN gap + due ELSE gap
  <2>1. MoneyMatchesBooks'
    <3>1. ~misread => StoredMoney
                        = InitFund + net - gap - (IF m_MongoConn = "ok" THEN due ELSE 0)
      BY <1>2 DEF MInv, MoneyMatchesBooks, StoredMoney
    <3>2. InitFund + net - gap - (IF m_MongoConn = "ok" THEN due ELSE 0)
            = InitFund + net - gap' - 0
      BY <1>1, <1>4
    <3> QED
      BY <1>2, <1>4, <3>1, <3>2 DEF MoneyMatchesBooks, StoredMoney
  <2>2. Agree' /\ BooksFirst'
    BY <1>2, <1>4 DEF MInv, Agree, BooksFirst
  <2> QED
    BY <2>1, <2>2 DEF MInv
<1> QED
  BY <1>3, <1>4 DEF SaveBookStore

LEMMA MoneyQuit ==
  ASSUME TInv, MInv, Quit
  PROVE  MInv'
<1>1. net \in Int /\ gap \in Int /\ due \in Int
  BY DEF TInv, TypeOK
<1>2. /\ gap' = IF pc = "store" /\ m_MongoConn = "ok" THEN gap + due ELSE gap
      /\ m_MongoConn' = "failed" /\ pc' = "off"
      /\ UNCHANGED <<books, store, net, misread>>
  BY DEF Quit, Off
<1>3. MoneyMatchesBooks'
  <2> DEFINE pending == IF pc = "store" /\ m_MongoConn = "ok" THEN due ELSE 0
  <2>1. ~misread => StoredMoney = InitFund + net - gap - pending
    BY DEF MInv, MoneyMatchesBooks, StoredMoney
  <2>2. InitFund + net - gap - pending = InitFund + net - gap' - 0
    BY <1>1, <1>2
  <2> QED
    BY <1>2, <2>1, <2>2 DEF MoneyMatchesBooks, StoredMoney
<1>4. Agree' /\ BooksFirst'
  BY <1>2 DEF MInv, Agree, BooksFirst
<1> QED
  BY <1>3, <1>4 DEF MInv

LEMMA MInvHolds == Spec => []MInv
<1>1. Init => MInv
  BY DEF Init, MInv, MoneyMatchesBooks, Agree, BooksFirst
<1>2. TInv /\ MInv /\ [Next]_vars => MInv'
  <2>1. MInv /\ UNCHANGED vars => MInv'
    BY DEF vars, memVars, MInv, MoneyMatchesBooks, Agree, StoredMoney, BooksFirst
  <2> QED
    BY <2>1, StepKinds, MoneyOperates, MoneyLoad, MoneySave, MoneyQuit
<1> QED
  BY <1>1, <1>2, TInvHolds, PTL DEF Spec

(* The money in mongod accounts for every operation of the book collection   *)
(* but those that were cut off between their two writes.                     *)
THEOREM MoneyAccounted == Spec => []MoneyMatchesBooks
BY MInvHolds, PTL DEF MInv

(* Between operations memory and mongod agree as long as the connection      *)
(* holds.                                                                    *)
THEOREM MemoryStored == Spec => []MemoryIsStored
<1>1. MInv => MemoryIsStored
  BY DEF MInv, Agree, StoredMoney, MemoryIsStored
<1> QED
  BY <1>1, MInvHolds, PTL
-------------------------------------------------------------------------------
(* The numbers.  As long as no count was wrong the ids in mongod are         *)
(* 1 .. n, so that a new book gets an id that is free; and two books with    *)
(* one number, or one its number does not lead to, show that a number was    *)
(* cut.                                                                      *)

Dense ==
  \E n \in 0 .. MaxBooks : \A i \in BookId : books[i] # NoBook <=> i <= n

Cut(no) == \E b \in BookNo : b # Trunc[b] /\ Trunc[b] = no

TwinsCut ==
  \A i, j \in BookId :
    books[i] # NoBook /\ books[j] # NoBook /\ i # j /\ books[i].no = books[j].no
      => Cut(books[i].no)

Distinct ==
  \A a, b \in BookNo : m_BookNoMap[a] = m_BookNoMap[b] /\ a # b => m_BookNoMap[a] = 0

Found ==
  \A i \in BookId : books[i] # NoBook => m_BookNoMap[books[i].no] = i \/ Cut(books[i].no)

NInv ==
  ~misread =>
    /\ Dense /\ TwinsCut
    /\ m_MongoConn = "ok" => Distinct /\ Found

LEMMA DenseCount ==
  ASSUME NEW n \in 0 .. MaxBooks, \A i \in BookId : books[i] # NoBook <=> i <= n
  PROVE  Cardinality({i \in BookId : books[i] # NoBook}) = n
<1>1. {i \in BookId : books[i] # NoBook} = 1 .. n
  BY DEF BookId
<1>2. Cardinality(1 .. n) = n
  BY FS_Interval
<1> QED
  BY <1>1, <1>2, Zenon

HIDE BookStoreAssumption DEF Book

(* A book that is changed keeps its number, and every entry stays.           *)
LEMMA NumbersChange ==
  ASSUME NEW id \in BookId, books \in Tables, m_BookMap = books,
         Changes(id), books' = [books EXCEPT ![id] = m_BookMap'[id]],
         m_BookMap'[id] # NoBook, Dense, TwinsCut, Distinct, Found
  PROVE  Dense' /\ TwinsCut' /\ Distinct' /\ Found'
<1>1. \A i \in BookId : /\ books'[i] # NoBook <=> books[i] # NoBook
                        /\ books[i] # NoBook => books'[i].no = books[i].no
  BY DEF Changes, Tables
<1>2. m_BookNoMap' = m_BookNoMap
  BY DEF Changes
<1>3. Dense'
  BY <1>1 DEF Dense
<1>4. TwinsCut'
  <2> SUFFICES ASSUME NEW i \in BookId, NEW j \in BookId, i # j,
                      books'[i] # NoBook, books'[j] # NoBook, books'[i].no = books'[j].no
               PROVE  Cut(books'[i].no)
    BY DEF TwinsCut, Cut
  <2>1. books[i] # NoBook /\ books[j] # NoBook /\ books[i].no = books[j].no
    BY <1>1
  <2>2. Cut(books[i].no)
    BY <2>1 DEF TwinsCut
  <2> QED
    BY <1>1, <2>1, <2>2
<1>5. Distinct'
  BY <1>2 DEF Distinct
<1>6. Found'
  <2> SUFFICES ASSUME NEW i \in BookId, books'[i] # NoBook
               PROVE  m_BookNoMap'[books'[i].no] = i \/ Cut(books'[i].no)
    BY DEF Found, Cut
  <2>1. books[i] # NoBook /\ books'[i].no = books[i].no
    BY <1>1
  <2> QED
    BY <1>2, <2>1 DEF Found
<1> QED
  BY <1>3, <1>4, <1>5, <1>6

(* A book that is added gets the next id, which no entry led to.             *)
LEMMA NumbersAdd ==
  ASSUME TInv, NEW id \in BookId, NEW no \in BookNo, NEW c \in GetBookCount, m_BookMap = books,
         Adds(no, id, c), c.up, ~c.error, books' = [books EXCEPT ![id] = m_BookMap'[id]],
         m_BookMap'[id] # NoBook, Dense, TwinsCut, Distinct, Found
  PROVE  Dense' /\ TwinsCut' /\ Distinct' /\ Found'
<1>1. PICK n \in 0 .. MaxBooks : \A i \in BookId : books[i] # NoBook <=> i <= n
  BY DEF Dense
<1>2. id = n + 1
  <2>1. c.count = Cardinality({i \in BookId : books[i] # NoBook})
    BY CountKinds
  <2>2. c.count = n
    BY <1>1, <2>1, DenseCount
  <2> QED
    BY <2>2 DEF Adds
<1>3. books \in Tables
  BY DEF TInv, TypeOK, Tables
<1>4. books[id] = NoBook
  BY <1>1, <1>2
<1>5. /\ books'[id] # NoBook /\ books'[id].no = Trunc[no]
      /\ \A i \in BookId \ {id} : books'[i] = books[i]
  BY <1>3, <1>4 DEF Adds, Tables
<1>6. Dense'
  <2>1. n + 1 \in 0 .. MaxBooks
    BY <1>2 DEF BookId
  <2>2. \A i \in BookId : books'[i] # NoBook <=> i <= n + 1
    BY <1>1, <1>2, <1>5 DEF BookId
  <2> QED
    BY <2>1, <2>2 DEF Dense
<1>7. /\ m_BookNoMap[no] = 0 /\ m_BookNoMap'[no] = id
      /\ \A b \in BookNo \ {no} : m_BookNoMap'[b] = m_BookNoMap[b]
  BY DEF Adds, TInv, TypeOK
<1>8. \A b \in BookNo : m_BookNoMap[b] # id
  <2>1. id # 0
    BY DEF BookId
  <2> QED
    BY <1>4, <2>1 DEF TInv, NumbersLead
<1>9. Distinct'
  <2> SUFFICES ASSUME NEW a \in BookNo, NEW b \in BookNo, a # b, m_BookNoMap'[a] = m_BookNoMap'[b]
               PROVE  m_BookNoMap'[a] = 0
    BY DEF Distinct
  <2>1. a # no /\ b # no
    BY <1>7, <1>8
  <2> QED
    BY <1>7, <2>1 DEF Distinct
<1>10. Trunc[no] = no \/ Cut(Trunc[no])
  BY DEF Cut
<1>11. \A i \in BookId : books[i] # NoBook /\ books[i].no = no => Cut(no)
  <2>1. \A i \in BookId : i # 0
    BY DEF BookId
  <2> QED
    BY <1>7, <2>1 DEF Found
<1>12. \A i \in BookId : books[i] # NoBook => books[i].no \in BookNo
  BY <1>3, BookStoreAssumption DEF Tables, Book
<1>13. Found'
  <2>1. \A m : Cut(m)' <=> Cut(m)
    BY DEF Cut
  <2> SUFFICES ASSUME NEW i \in BookId, books'[i] # NoBook
               PROVE  m_BookNoMap'[books'[i].no] = i \/ Cut(books'[i].no)
    BY DEF Found, Cut
  <2>2. CASE i = id
    BY <1>5, <1>7, <1>10, <2>2
  <2>3. CASE i # id
    <3>1. books'[i] = books[i] /\ books[i].no \in BookNo
      BY <1>5, <1>12, <2>3
    <3>2. m_BookNoMap[books[i].no] = i \/ Cut(books[i].no)
      BY <3>1 DEF Found
    <3> QED
      BY <1>7, <1>11, <3>1, <3>2
  <2> QED
    BY <2>2, <2>3
<1>14. \A j \in BookId : books[j] # NoBook /\ books[j].no = Trunc[no] => Cut(Trunc[no])
  BY <1>10, <1>11
<1>15. TwinsCut'
  <2> SUFFICES ASSUME NEW i \in BookId, NEW j \in BookId, i # j,
                      books'[i] # NoBook, books'[j] # NoBook, books'[i].no = books'[j].no
               PROVE  Cut(books'[i].no)
    BY DEF TwinsCut, Cut
  <2>1. CASE i = id
    BY <1>5, <1>14, <2>1
  <2>2. CASE j = id
    BY <1>5, <1>14, <2>2
  <2>3. CASE i # id /\ j # id
    <3>1. books'[i] = books[i] /\ books'[j] = books[j]
      BY <1>5, <2>3
    <3> QED
      BY <3>1 DEF TwinsCut
  <2> QED
    BY <2>1, <2>2, <2>3
<1> QED
  BY <1>6, <1>9, <1>13, <1>15

LEMMA NumbersOperate ==
  ASSUME TInv, MInv, NInv, Operates
  PROVE  NInv'
<1> SUFFICES ASSUME ~misread'
             PROVE  Dense' /\ TwinsCut' /\ (m_MongoConn' = "ok" => Distinct' /\ Found')
  BY DEF NInv
<1>1. ~misread
  BY MisreadStays
<1>2. Dense /\ TwinsCut /\ (m_MongoConn = "ok" => Distinct /\ Found)
  BY <1>1 DEF NInv
<1>3. PICK id \in BookId, d \in Int :
        /\ m_BookMap'[id] # NoBook
        /\ Outcome(id, d)
        /\ \/ Changes(id)
           \/ \E no \in BookNo, c \in GetBookCount :
                Adds(no, id, c) /\ (m_MongoConn' = "ok" => c.up)
  BY OperatesKinds
<1>4. CASE m_MongoConn' = "failed" /\ UNCHANGED <<books, net>>
  BY <1>2, <1>4 DEF Dense, TwinsCut, Cut
<1>5. CASE /\ m_MongoConn = "ok" /\ m_MongoConn' = "ok"
           /\ books' = [books EXCEPT ![id] = m_BookMap'[id]]
  <2>1. m_BookMap = books /\ books \in Tables
    BY <1>1, <1>5 DEF MInv, Agree, TInv, TypeOK, Tables
  <2>2. CASE Changes(id)
    BY <1>2, <1>3, <1>5, <2>1, <2>2, NumbersChange, Zenon
  <2>3. ASSUME NEW no \in BookNo, NEW c \in GetBookCount, Adds(no, id, c), c.up
        PROVE  Dense' /\ TwinsCut' /\ Distinct' /\ Found'
    <3>1. ~c.error
      BY <2>3 DEF Adds
    <3> QED
      BY <1>2, <1>3, <1>5, <2>1, <2>3, <3>1, NumbersAdd, Zenon
  <2> QED
    BY <1>3, <1>5, <2>2, <2>3
<1> QED
  BY <1>3, <1>4, <1>5 DEF Outcome

LEMMA NumbersLoad ==
  ASSUME TInv, NInv, Load
  PROVE  NInv'
<1> SUFFICES ASSUME ~misread'
             PROVE  Dense' /\ TwinsCut' /\ (m_MongoConn' = "ok" => Distinct' /\ Found')
  BY DEF NInv
<1>1. Dense /\ TwinsCut /\ UNCHANGED books
  BY MisreadStays DEF NInv, Load
<1>2. Dense' /\ TwinsCut'
  BY <1>1 DEF Dense, TwinsCut, Cut
<1>3. ASSUME m_MongoConn' = "ok"
      PROVE  Distinct' /\ Found'
  <2>1. LoadBooks(books) /\ books \in Tables
    BY <1>3 DEF Load, TInv, TypeOK, Tables
  <2>2. \A b \in BookNo :
          /\ m_BookNoMap'[b] = 0 => Numbered(b, books) = {}
          /\ m_BookNoMap'[b] # 0 => m_BookNoMap'[b] \in Numbered(b, books)
    BY <2>1, LoadedNumbers
  <2>3. Distinct'
    BY <2>2 DEF Distinct, Numbered
  <2>4. ASSUME NEW i \in BookId, books[i] # NoBook
        PROVE  m_BookNoMap'[books[i].no] = i \/ Cut(books[i].no)
    <3>1. books[i].no \in BookNo /\ i \in Numbered(books[i].no, books)
      BY BookStoreAssumption, <2>1, <2>4 DEF Book, Tables, Numbered
    <3>2. m_BookNoMap'[books[i].no] \in Numbered(books[i].no, books)
      BY <2>2, <3>1
    <3> QED
      BY <1>1, <2>4, <3>2 DEF TwinsCut, Numbered
  <2> QED
    BY <1>1, <2>3, <2>4 DEF Found, Cut
<1> QED
  BY <1>2, <1>3

LEMMA NInvHolds == Spec => []NInv
<1>1. Init => NInv
  <2> SUFFICES ASSUME Init PROVE NInv
    OBVIOUS
  <2>1. \A i \in BookId : books[i] = NoBook
    BY DEF Init, NoBooks
  <2>2. Dense
    BY BookStoreAssumption, <2>1 DEF Dense, BookId
  <2>3. TwinsCut /\ Found
    BY <2>1 DEF TwinsCut, Found
  <2>4. m_MongoConn # "ok"
    BY DEF Init
  <2> QED
    BY <2>2, <2>3, <2>4 DEF NInv
<1>2. TInv /\ MInv /\ NInv /\ [Next]_vars => NInv'
  <2>0. /\ UNCHANGED books /\ Dense => Dense'
        /\ UNCHANGED books /\ TwinsCut => TwinsCut'
        /\ UNCHANGED m_BookNoMap /\ Distinct => Distinct'
        /\ UNCHANGED <<books, m_BookNoMap>> /\ Found => Found'
    <3>1. UNCHANGED books /\ Dense => Dense'
      BY DEF Dense
    <3>2. UNCHANGED books /\ TwinsCut => TwinsCut'
      BY DEF TwinsCut, Cut
    <3>3. UNCHANGED m_BookNoMap /\ Distinct => Distinct'
      BY DEF Distinct
    <3>4. UNCHANGED <<books, m_BookNoMap>> /\ Found => Found'
      BY DEF Found, Cut
    <3> QED
      BY <3>1, <3>2, <3>3, <3>4
  <2>1. NInv /\ (SaveBookStore \/ Quit) => NInv'
    BY <2>0 DEF NInv, SaveBookStore, Quit
  <2>2. NInv /\ UNCHANGED vars => NInv'
    BY <2>0 DEF NInv, vars, memVars
  <2> QED
    BY <2>1, <2>2, StepKinds, NumbersOperate, NumbersLoad
<1> QED
  BY <1>1, <1>2, TInvHolds, MInvHolds, PTL DEF Spec

(* Two numbers lead to one book only after a count has failed.               *)
THEOREM IdsNotShared == Spec => []SharedIdExplained
<1>1. NInv => SharedIdExplained
  BY DEF NInv, Distinct, SharedIdExplained
<1> QED
  BY <1>1, NInvHolds, PTL

(* A book that its number does not lead to has a number that was cut.        *)
THEOREM BooksFound == Spec => []HiddenBookExplained
<1>1. NInv => HiddenBookExplained
  BY DEF NInv, Found, Cut, HiddenBookExplained
<1> QED
  BY <1>1, NInvHolds, PTL
===============================================================================
