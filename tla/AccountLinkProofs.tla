--------------------------- MODULE AccountLinkProofs --------------------------
(***************************************************************************)
(* Proofs about two components that share no state: the account server,    *)
(* for any texts, any effect of tighten, any number of accounts, and       *)
(* mongod failing in any of its ways; and the links of the gate, for any   *)
(* servers and any length of their backlogs.                               *)
(***************************************************************************)
EXTENDS AccountMgr, ServerLink, FiniteSetTheorems, SequenceTheorems, TLAPS

USE AccountAssumption DEF PlayerId, Document

-------------------------------------------------------------------------------
(* What a step does: it either leaves the collection and the grants alone or *)
(* is a registration that found its user name free.                          *)

Registers(un, up, find, count, save) ==
  /\ find \in Outcome("find", dbUp)
  /\ count \in Outcome("count", find # "down")
  /\ save \in Outcome("save", count # "down")
  /\ ~(find = "ok" /\ Named(un) # {})
  /\ NewAccount(un, up, count, save)

LEMMA StepKinds ==
  ASSUME [Next]_vars
  PROVE  \/ UNCHANGED <<accounts, granted, lost>>
         \/ \E un, up \in Text, find, count, save \in {"ok", "error", "down"} :
              Registers(un, up, find, count, save)
<1>1. ASSUME NEW un \in Text, NEW up \in Text, HandlePlayerRegist(un, up)
      PROVE  \/ UNCHANGED <<accounts, granted, lost>>
             \/ \E find, count, save \in {"ok", "error", "down"} :
                  Registers(un, up, find, count, save)
  <2>1. \A call, b : Outcome(call, b) \subseteq {"ok", "error", "down"}
    BY DEF Outcome
  <2>2. PICK find \in Outcome("find", dbUp) :
          \/ UNCHANGED <<accounts, granted, lost>>
          \/ /\ ~(find = "ok" /\ Named(un) # {})
             /\ \E count \in Outcome("count", find # "down") :
                  \E save \in Outcome("save", count # "down") :
                    NewAccount(un, up, count, save)
    BY <1>1 DEF HandlePlayerRegist
  <2> QED
    BY <2>1, <2>2 DEF Registers
<1>2. ASSUME NEW un \in Text, NEW up \in Text, HandlePlayerLogin(un, up)
      PROVE  UNCHANGED <<accounts, granted, lost>>
  BY <1>2 DEF HandlePlayerLogin
<1>3. HandleMalformed \/ Restart \/ UNCHANGED vars
      => UNCHANGED <<accounts, granted, lost>>
  BY DEF HandleMalformed, Restart, vars
<1> QED
  BY <1>1, <1>2, <1>3 DEF Next

(* A registration whose update takes effect had a working connection for the *)
(* lookup and the count before it.                                           *)
LEMMA SavedMeansAsked ==
  ASSUME NEW un \in Text, NEW up \in Text, NEW find, NEW count, NEW save,
         Registers(un, up, find, count, save), save = "ok"
  PROVE  /\ "find" \notin Unreliable => Named(un) = {}
         /\ "count" \notin Unreliable => count = "ok"
BY DEF Registers, Outcome

(* What tighten leaves of a document is a document.                          *)
LEMMA StoredType ==
  ASSUME NEW d \in Document
  PROVE  Stored(d) \in Document /\ Stored(d).pi = d.pi /\ Stored(d).un = Tighten[d.un]
BY DEF Stored

-------------------------------------------------------------------------------
(* Type correctness. *)

(* TypeOK holds throughout: the collection and the grants hold documents     *)
(* with playerIds the server handed out.                                     *)
THEOREM AccountTypeCorrect == Spec => []TypeOK
<1>1. Init => TypeOK
  BY DEF Init, TypeOK
<1>2. ASSUME TypeOK, [Next]_vars
      PROVE  TypeOK'
  <2>1. dbUp' \in BOOLEAN
    <3>1. ASSUME NEW un \in Text, NEW up \in Text, HandlePlayerRegist(un, up)
          PROVE  dbUp' = dbUp \/ \E save : dbUp' = (save = "ok")
      BY <3>1, Zenon DEF HandlePlayerRegist, NewAccount
    <3>2. ASSUME NEW un \in Text, NEW up \in Text, HandlePlayerLogin(un, up)
          PROVE  \E find : dbUp' = (dbUp /\ find # "down")
      BY <3>2 DEF HandlePlayerLogin
    <3>3. HandleMalformed \/ Restart \/ UNCHANGED vars => dbUp' = dbUp \/ dbUp' \in BOOLEAN
      BY DEF HandleMalformed, Restart, vars
    <3>4. \A save : (save = "ok") \in BOOLEAN
      OBVIOUS
    <3>5. \A find : (dbUp /\ find # "down") \in BOOLEAN
      OBVIOUS
    <3>6. dbUp \in BOOLEAN
      BY <1>2 DEF TypeOK
    <3> QED
      BY <1>2, <3>1, <3>2, <3>3, <3>4, <3>5, <3>6, Zenon DEF Next
  <2>2. CASE UNCHANGED <<accounts, granted, lost>>
    BY <2>1, <2>2, <1>2 DEF TypeOK
  <2>3. ASSUME NEW un \in Text, NEW up \in Text, NEW find, NEW count, NEW save,
               Registers(un, up, find, count, save)
        PROVE  TypeOK'
    <3> DEFINE d == [pi |-> DbCount(count) + 1, un |-> un, up |-> up]
    <3>1. d \in Document
      BY <2>3 DEF Registers, NewAccount
    <3>2. accounts' \in SUBSET Document
      <4>1. accounts' = Upsert(d) \/ accounts' = accounts
        BY <2>3 DEF Registers, NewAccount
      <4>2. Upsert(d) \in SUBSET Document
        BY <3>1, <1>2, StoredType DEF Upsert, TypeOK
      <4> QED
        BY <4>1, <4>2, <1>2 DEF TypeOK
    <3>3. granted' \in SUBSET Document /\ lost' \in SUBSET granted'
      BY <3>1, <2>3, <1>2 DEF Registers, NewAccount, TypeOK
    <3> QED
      BY <2>1, <3>2, <3>3 DEF TypeOK
  <2> QED
    BY <2>2, <2>3, <1>2, StepKinds
<1> QED
  BY <1>1, <1>2, PTL DEF Spec

-------------------------------------------------------------------------------
(* The inductive invariant: while counts can be relied on, the playerIds in  *)
(* use are 1 .. n for n accounts, so n + 1 is free.                          *)

Ids == {d.pi : d \in accounts}

AccountInv ==
  /\ IsFiniteSet(accounts)
  /\ "count" \notin Unreliable => Ids = 1 .. Cardinality(accounts)
  /\ NamesUnique
  /\ GrantDurable
  /\ \A d \in accounts : \E g \in granted : g.pi = d.pi /\ Tighten[g.un] = d.un

(* What a saved registration does to the collection.                         *)
LEMMA SavedStep ==
  ASSUME TypeOK, AccountInv, NEW d \in Document, accounts' = Upsert(d),
         "count" \notin Unreliable => d.pi = Cardinality(accounts) + 1
  PROVE  /\ IsFiniteSet(accounts')
         /\ "count" \notin Unreliable =>
              /\ accounts' = accounts \cup {Stored(d)}
              /\ Ids' = 1 .. Cardinality(accounts')
<1> DEFINE rest == {e \in accounts : e.pi # d.pi}
<1>1. IsFiniteSet(accounts) /\ Cardinality(accounts) \in Nat
  BY FS_CardinalityType DEF AccountInv
<1>2. IsFiniteSet(rest)
  BY <1>1, FS_Subset
<1>3. IsFiniteSet(accounts')
  BY <1>2, FS_AddElement DEF Upsert
<1>4. ASSUME "count" \notin Unreliable
      PROVE  /\ accounts' = accounts \cup {Stored(d)}
             /\ Ids' = 1 .. Cardinality(accounts')
  <2>1. d.pi = Cardinality(accounts) + 1 /\ Ids = 1 .. Cardinality(accounts)
    BY <1>4 DEF AccountInv
  <2>2. d.pi \notin Ids
    BY <1>1, <2>1
  <2>3. \A e \in accounts : e.pi # d.pi
    BY <2>2 DEF Ids
  <2>4. accounts' = accounts \cup {Stored(d)}
    BY <2>3 DEF Upsert
  <2>5. Stored(d) \notin accounts /\ Stored(d).pi = d.pi
    BY <2>3, StoredType
  <2>6. Cardinality(accounts') = Cardinality(accounts) + 1
    BY <1>1, <2>4, <2>5, FS_AddElement, Zenon
  <2>7. Ids' = Ids \cup {d.pi}
    BY <2>4, <2>5 DEF Ids
  <2>8. \A n \in Nat : 1 .. (n + 1) = (1 .. n) \cup {n + 1}
    OBVIOUS
  <2> QED
    BY <1>1, <2>1, <2>4, <2>6, <2>7, <2>8
<1> QED
  BY <1>3, <1>4

(* Every step preserves AccountInv.                                          *)
LEMMA AccountInvStep ==
  ASSUME TypeOK, AccountInv, [Next]_vars
  PROVE  AccountInv'
<1>1. CASE UNCHANGED <<accounts, granted, lost>>
  BY <1>1 DEF AccountInv, NamesUnique, GrantDurable, Ids
<1>2. ASSUME NEW un \in Text, NEW up \in Text, NEW find, NEW count, NEW save,
             Registers(un, up, find, count, save)
      PROVE  AccountInv'
  <2> DEFINE d == [pi |-> DbCount(count) + 1, un |-> un, up |-> up]
  <2>1. d \in Document /\ granted' = granted \cup {d}
    BY <1>2 DEF Registers, NewAccount
  <2>2. CASE save # "ok"
    <3>1. accounts' = accounts /\ lost' = lost \cup {d}
      BY <1>2, <2>2 DEF Registers, NewAccount
    <3> QED
      BY <2>1, <3>1 DEF AccountInv, NamesUnique, GrantDurable, Ids
  <2>3. CASE save = "ok"
    <3>1. accounts' = Upsert(d) /\ lost' = lost \ {d}
      BY <1>2, <2>3 DEF Registers, NewAccount
    <3>2. "count" \notin Unreliable => d.pi = Cardinality(accounts) + 1
      BY <1>2, <2>3, SavedMeansAsked DEF DbCount
    <3>3. /\ IsFiniteSet(accounts')
          /\ "count" \notin Unreliable =>
               /\ accounts' = accounts \cup {Stored(d)}
               /\ Ids' = 1 .. Cardinality(accounts')
      BY <2>1, <3>1, <3>2, SavedStep
    <3>4. /\ accounts' \subseteq accounts \cup {Stored(d)}
          /\ Stored(d).pi = d.pi
          /\ Stored(d).un = Tighten[un]
      BY <2>1, <3>1, StoredType DEF Upsert
    <3>5. NamesUnique'
      <4>1. "find" \notin Unreliable => \A e \in accounts : e.un # Tighten[un]
        BY <1>2, <2>3, SavedMeansAsked DEF Named
      <4> QED
        BY <3>4, <4>1 DEF AccountInv, NamesUnique
    <3>6. GrantDurable'
      <4> HIDE DEF d
      <4> QED
        BY <2>1, <3>1, <3>3 DEF AccountInv, GrantDurable
    <3>7. \A e \in accounts' : \E g \in granted' : g.pi = e.pi /\ Tighten[g.un] = e.un
      <4>1. d.un = un
        OBVIOUS
      <4> HIDE DEF d
      <4> QED
        BY <2>1, <3>4, <4>1 DEF AccountInv
    <3> QED
      BY <3>3, <3>5, <3>6, <3>7 DEF AccountInv
  <2> QED
    BY <2>2, <2>3
<1> QED
  BY <1>1, <1>2, StepKinds

(* The invariant holds of every account server.                              *)
THEOREM AccountInvariant == Spec => []AccountInv
<1>1. Init => AccountInv
  <2>1. IsFiniteSet({}) /\ Cardinality({}) = 0 /\ 1 .. 0 = {}
    BY FS_EmptySet
  <2> QED
    BY <2>1 DEF Init, AccountInv, Ids, NamesUnique, GrantDurable
<1> QED
  BY <1>1, AccountInvStep, AccountTypeCorrect, PTL DEF Spec

-------------------------------------------------------------------------------
(* The properties. *)

(* No two accounts share a user name as long as lookups can be relied on.    *)
THEOREM NamesStayUnique == Spec => []NamesUnique
BY AccountInvariant, PTL DEF AccountInv

(* A registration that was saved stays in the collection under the playerId  *)
(* the client was told.                                                      *)
THEOREM GrantsStayDurable == Spec => []GrantDurable
BY AccountInvariant, PTL DEF AccountInv

(* No registration touches an account that exists.                           *)
THEOREM AccountsStayPermanent == Spec => AccountsPermanent
<1> DEFINE Permanent == "count" \notin Unreliable => accounts \subseteq accounts'
<1>1. ASSUME TypeOK, AccountInv, [Next]_vars
      PROVE  Permanent
  <2>1. ASSUME NEW un \in Text, NEW up \in Text, NEW find, NEW count, NEW save,
               Registers(un, up, find, count, save), save = "ok"
        PROVE  Permanent
    <3> DEFINE d == [pi |-> DbCount(count) + 1, un |-> un, up |-> up]
    <3>1. d \in Document /\ accounts' = Upsert(d)
      BY <2>1 DEF Registers, NewAccount
    <3>2. "count" \notin Unreliable => d.pi = Cardinality(accounts) + 1
      BY <2>1, SavedMeansAsked DEF DbCount
    <3> HIDE DEF d
    <3> QED
      BY <1>1, <3>1, <3>2, SavedStep
  <2>2. ASSUME NEW un \in Text, NEW up \in Text, NEW find, NEW count, NEW save,
               Registers(un, up, find, count, save), save # "ok"
        PROVE  accounts' = accounts
    BY <2>2 DEF Registers, NewAccount
  <2> QED
    BY <1>1, <2>1, <2>2, StepKinds
<1>2. TypeOK /\ AccountInv /\ [Next]_vars => [Permanent]_vars
  BY <1>1
<1>3. Spec => [][Permanent]_vars
  BY <1>2, AccountInvariant, AccountTypeCorrect, PTL DEF Spec
<1> QED
  BY <1>3 DEF AccountsPermanent

(* Only handlePlayerLogin answers a login.                                   *)
LEMMA OtherReplies ==
  ASSUME [Next]_vars
  PROVE  \/ \E un, up \in Text : HandlePlayerLogin(un, up)
         \/ rsp'.proto # "login"
         \/ UNCHANGED vars
<1>1. ASSUME NEW un \in Text, NEW up \in Text, HandlePlayerRegist(un, up)
      PROVE  rsp'.proto = "regist"
  <2>1. \E code, pi : rsp' = Rsp("regist", code, pi, un, up)
    BY <1>1, Zenon DEF HandlePlayerRegist, NewAccount
  <2> QED
    BY <2>1 DEF Rsp
<1>2. HandleMalformed \/ Restart => rsp'.proto \in {"malformed", "none"}
  BY DEF HandleMalformed, Restart
<1> QED
  BY <1>1, <1>2 DEF Next

(* A login yields a playerId some registration of that name was told,        *)
(* however unreliable mongod is.                                             *)
THEOREM LoginsMatchGrants == Spec => []LoginMatchesGrant
<1>1. Init => LoginMatchesGrant
  BY DEF Init, LoginMatchesGrant
<1>2. ASSUME TypeOK, AccountInv, LoginMatchesGrant, [Next]_vars
      PROVE  LoginMatchesGrant'
  <2>1. ASSUME NEW un \in Text, NEW up \in Text, HandlePlayerLogin(un, up)
        PROVE  LoginMatchesGrant'
    <3>1. granted' = granted
      BY <2>1 DEF HandlePlayerLogin
    <3>2. \/ \E code \in {1, -1} : rsp' = Rsp("login", code, 0, un, up)
          \/ \E d \in Named(un) : rsp' = Rsp("login", 0, d.pi, un, up)
      BY <2>1 DEF HandlePlayerLogin
    <3>3. ASSUME NEW d \in Named(un), rsp' = Rsp("login", 0, d.pi, un, up)
          PROVE  LoginMatchesGrant'
      <4>1. PICK g \in granted : g.pi = d.pi /\ Tighten[g.un] = d.un
        BY <1>2 DEF Named, AccountInv
      <4>2. d.un = Tighten[un]
        BY DEF Named
      <4>3. rsp'.pi = d.pi /\ rsp'.un = un
        BY <3>3 DEF Rsp
      <4> QED
        BY <3>1, <4>1, <4>2, <4>3 DEF LoginMatchesGrant
    <3>4. ASSUME NEW code \in {1, -1}, rsp' = Rsp("login", code, 0, un, up)
          PROVE  LoginMatchesGrant'
      BY <3>4 DEF LoginMatchesGrant, Rsp
    <3> QED
      BY <3>2, <3>3, <3>4
  <2>2. UNCHANGED vars => LoginMatchesGrant'
    BY <1>2 DEF vars, LoginMatchesGrant
  <2> QED
    BY <1>2, <2>1, <2>2, OtherReplies DEF LoginMatchesGrant
<1> QED
  BY <1>1, <1>2, AccountInvariant, AccountTypeCorrect, PTL DEF Spec

(* A login with the registered password is answered "wrong password" only    *)
(* where tighten has changed that password: the registration is in the       *)
(* collection, and no other account has its name.                            *)
THEOREM RefusalsExplained == Spec => []RefusalExplained
<1>1. Init => RefusalExplained
  BY DEF Init, RefusalExplained
<1>2. ASSUME TypeOK, AccountInv, RefusalExplained, [Next]_vars
      PROVE  RefusalExplained'
  <2>1. ASSUME NEW un \in Text, NEW up \in Text, HandlePlayerLogin(un, up)
        PROVE  RefusalExplained'
    <3>1. granted' = granted /\ lost' = lost
      BY <2>1 DEF HandlePlayerLogin
    <3>2. \/ \E code \in {0, 1} : \E pi : rsp' = Rsp("login", code, pi, un, up)
          \/ \E d \in Named(un) : d.up # up /\ rsp' = Rsp("login", -1, 0, un, up)
      BY <2>1 DEF HandlePlayerLogin
    <3>3. ASSUME NEW d \in Named(un), d.up # up, rsp' = Rsp("login", -1, 0, un, up),
                 Unreliable = {}, NEW g \in granted \ lost, g.un = un, g.up = up
          PROVE  Stored(g).up # g.up
      <4>1. Stored(g) \in accounts /\ d \in accounts
        BY <1>2, <3>3 DEF AccountInv, GrantDurable, Named
      <4>2. Stored(g).un = Tighten[un] /\ d.un = Tighten[un]
        BY <3>3 DEF Stored, Named
      <4>3. Stored(g) = d
        BY <1>2, <3>3, <4>1, <4>2 DEF AccountInv, NamesUnique
      <4> QED
        BY <3>3, <4>3
    <3>4. rsp'.un = un /\ rsp'.up = up
      BY <3>2 DEF Rsp
    <3>5. ASSUME NEW code \in {0, 1}, NEW pi, rsp' = Rsp("login", code, pi, un, up)
          PROVE  RefusalExplained'
      BY <3>5 DEF RefusalExplained, Rsp
    <3>6. (\A g \in granted \ lost : Stored(g).up = Stored(g).up') /\ Unreliable' = Unreliable
      BY DEF Stored
    <3> QED
      BY <3>1, <3>2, <3>3, <3>4, <3>5, <3>6 DEF RefusalExplained, Stored
  <2>2. UNCHANGED vars => RefusalExplained'
    BY <1>2 DEF vars, RefusalExplained, Stored
  <2> QED
    BY <1>2, <2>1, <2>2, OtherReplies DEF RefusalExplained
<1> QED
  BY <1>1, <1>2, AccountInvariant, AccountTypeCorrect, PTL DEF Spec

-------------------------------------------------------------------------------
(* The links of the gate. *)

HIDE AccountAssumption DEF PlayerId, Document
USE LinkAssumption

(* The state of one link: what the gate holds, what waits at the server, and *)
(* what the server replies to.  The gate's connection is nowhere while it is *)
(* being made; it is the last one that waits; when the server has accepted   *)
(* it nothing else waits; and while the link is up it is in one of the two   *)
(* places.                                                                   *)
InOrder(l, b, g) ==
  /\ l = "connecting" => g # "current" /\ \A i \in 1 .. Len(b) : b[i] = "old"
  /\ \A i \in 1 .. Len(b) : b[i] = "current" => i = Len(b)
  /\ g = "current" => Len(b) = 0
  /\ l = "up" => g = "current" \/ \E i \in 1 .. Len(b) : b[i] = "current"

Ordered == \A s \in Server : InOrder(link[s], backlog[s], m_GateConn[s])

(* connect: what waits and what the server holds is old from now on.         *)
LEMMA OrderConnect ==
  ASSUME NEW b \in Seq(Conn), NEW g, g # "current", NEW l \in {"connecting", "closed"}
  PROVE  LET old == [i \in DOMAIN b |-> "old"]
         IN  old \in Seq(Conn) /\ Len(old) = Len(b) /\ InOrder(l, old, g)
<1> DEFINE old == [i \in DOMAIN b |-> "old"]
<1>1. old = [i \in 1 .. Len(b) |-> "old"] /\ Len(b) \in Nat
  OBVIOUS
<1>2. old \in Seq(Conn) /\ Len(old) = Len(b)
  BY <1>1 DEF Conn
<1>3. \A i \in 1 .. Len(old) : old[i] = "old"
  BY <1>1, <1>2
<1> HIDE DEF old
<1>4. InOrder(l, old, g)
  BY <1>3 DEF InOrder
<1> QED
  BY <1>2, <1>4 DEF old

(* handle_connect: the new connection waits behind all others.               *)
LEMMA OrderAppend ==
  ASSUME NEW b \in Seq(Conn), NEW g, InOrder("connecting", b, g), NEW l \in {"up", "deaf"}
  PROVE  /\ Append(b, "current") \in Seq(Conn) /\ Len(Append(b, "current")) = Len(b) + 1
         /\ InOrder(l, Append(b, "current"), g)
<1> DEFINE c == Append(b, "current")
<1>1. /\ c \in Seq(Conn) /\ Len(c) = Len(b) + 1 /\ Len(b) \in Nat
      /\ c[Len(b) + 1] = "current"
      /\ \A i \in 1 .. Len(b) : c[i] = b[i]
  BY DEF Conn
<1> HIDE DEF c
<1>2. g # "current" /\ \A i \in 1 .. Len(b) : b[i] = "old"
  BY DEF InOrder
<1>3. \A i \in 1 .. Len(c) : c[i] = "current" => i = Len(c)
  BY <1>1, <1>2
<1>4. Len(c) \in 1 .. Len(c) /\ c[Len(c)] = "current"
  BY <1>1
<1>5. InOrder(l, c, g)
  BY <1>2, <1>3, <1>4 DEF InOrder
<1> QED
  BY <1>1, <1>5 DEF c

(* handle_accept: if the server takes the gate's connection, none waits any  *)
(* more; if it takes an old one, the gate's waits still.                     *)
LEMMA OrderTail ==
  ASSUME NEW b \in Seq(Conn), b # << >>, NEW l, NEW g, InOrder(l, b, g)
  PROVE  /\ Tail(b) \in Seq(Conn) /\ Len(Tail(b)) = Len(b) - 1 /\ Head(b) \in Conn
         /\ l # "connecting" \/ Head(b) = "old"
         /\ InOrder(l, Tail(b), Head(b))
         /\ Head(b) = "old" => InOrder(l, Tail(b), g)
         /\ l # "up" => InOrder(l, Tail(b), g)
<1> DEFINE c == Tail(b)
           h == Head(b)
<1>1. /\ c \in Seq(Conn) /\ Len(c) = Len(b) - 1 /\ Len(b) \in Nat \ {0} /\ h = b[1] /\ h \in Conn
      /\ \A i \in 1 .. Len(c) : c[i] = b[i + 1]
  <2>1. /\ c \in Seq(Conn) /\ Len(c) = Len(b) - 1 /\ h \in Conn
        /\ \A i \in 1 .. Len(c) : c[i] = b[i + 1]
    BY HeadTailProperties
  <2>2. Len(b) \in Nat \ {0} /\ h = b[1]
    BY EmptySeq
  <2> QED
    BY <2>1, <2>2
<1> HIDE DEF c, h
<1>2. \A i \in 1 .. Len(c) : c[i] = "current" => i = Len(c)
  <2> SUFFICES ASSUME NEW i \in 1 .. Len(c), c[i] = "current"
               PROVE  i = Len(c)
    OBVIOUS
  <2>1. b[i + 1] = "current" /\ i + 1 \in 1 .. Len(b)
    BY <1>1
  <2>2. i + 1 = Len(b)
    BY <2>1 DEF InOrder
  <2> QED
    BY <1>1, <2>2
<1>3. l = "connecting" => h = "old" /\ \A i \in 1 .. Len(c) : c[i] = "old"
  BY <1>1 DEF InOrder
<1>4. h = "current" => Len(c) = 0
  <2>1. 1 \in 1 .. Len(b) /\ h = b[1]
    BY <1>1
  <2>2. h = "current" => 1 = Len(b)
    BY <2>1, Zenon DEF InOrder
  <2> QED
    BY <1>1, <2>2
<1>5. g # "current"
  BY <1>1 DEF InOrder
<1>6. l = "up" /\ h = "old" => \E i \in 1 .. Len(c) : c[i] = "current"
  <2> SUFFICES ASSUME l = "up", h = "old"
               PROVE  \E i \in 1 .. Len(c) : c[i] = "current"
    OBVIOUS
  <2>1. PICK i \in 1 .. Len(b) : b[i] = "current"
    BY <1>5 DEF InOrder
  <2>2. i - 1 \in 1 .. Len(c) /\ c[i - 1] = "current"
    BY <1>1, <2>1
  <2> QED
    BY <2>2
<1>7. InOrder(l, c, h)
  BY <1>1, <1>2, <1>3, <1>4, <1>6 DEF InOrder, Conn
<1>8. h = "old" \/ l # "up" => InOrder(l, c, g)
  BY <1>2, <1>3, <1>5, <1>6 DEF InOrder
<1> QED
  BY <1>1, <1>3, <1>7, <1>8 DEF c, h
-------------------------------------------------------------------------------
(* The inductive step, link by link.                                         *)

TInv ==
  /\ link \in [Server -> OpenState \cup {"closed"}]
  /\ backlog \in [Server -> Seq(Conn)]
  /\ \A s \in Server : Len(backlog[s]) <= MaxBacklog
  /\ m_GateConn \in [Server -> Conn \cup {"none"}]
  /\ Ordered

(* What a step does to one link, in terms of the three values of that link.  *)
Fine(l, b, g) ==
  /\ l \in OpenState \cup {"closed"} /\ b \in Seq(Conn) /\ Len(b) <= MaxBacklog
  /\ g \in Conn \cup {"none"} /\ InOrder(l, b, g)

LEMMA ConnectFine ==
  ASSUME TInv, NEW S \in SUBSET Server, NEW resolves \in [Server -> BOOLEAN],
         ConnectTo(S, resolves), NEW s \in Server
  PROVE  Fine(link'[s], backlog'[s], m_GateConn'[s])
<1>1. CASE s \notin S
  BY <1>1 DEF ConnectTo, TInv, Ordered, Fine
<1>2. CASE s \in S
  <2> DEFINE old == [i \in DOMAIN backlog[s] |-> "old"]
  <2>1. /\ link'[s] \in {"connecting", "closed"}
        /\ backlog'[s] = old
        /\ m_GateConn'[s] # "current" /\ m_GateConn'[s] \in Conn \cup {"none"}
    BY <1>2 DEF ConnectTo, TInv, Conn
  <2>2. backlog[s] \in Seq(Conn) /\ Len(backlog[s]) <= MaxBacklog
    BY DEF TInv
  <2>3. old \in Seq(Conn) /\ Len(old) = Len(backlog[s]) /\ InOrder(link'[s], old, m_GateConn'[s])
    BY <2>1, <2>2, OrderConnect
  <2> HIDE DEF old
  <2> QED
    BY <2>1, <2>2, <2>3 DEF Fine, OpenState
<1> QED
  BY <1>1, <1>2

LEMMA StepFine ==
  ASSUME TInv, NEW t \in Server,
         \/ HandleConnect(t) \/ HandleConnectError(t) \/ HandleReadError(t)
         \/ HandleAccept(t) \/ HandleAcceptError(t)
         \/ ServerStops(t) \/ ServerStarts(t)
  PROVE  Fine(link'[t], backlog'[t], m_GateConn'[t])
<1> DEFINE b == backlog[t]
<1>0. Fine(link[t], b, m_GateConn[t])
  BY DEF TInv, Ordered, Fine
<1>1. CASE HandleConnect(t)
  <2>1. /\ link[t] = "connecting" /\ Len(b) < MaxBacklog
        /\ link'[t] \in {"up", "deaf"}
        /\ backlog'[t] = Append(b, "current") /\ m_GateConn' = m_GateConn
    BY <1>1 DEF HandleConnect, TInv
  <2>2. /\ Append(b, "current") \in Seq(Conn) /\ Len(Append(b, "current")) = Len(b) + 1
        /\ InOrder(link'[t], Append(b, "current"), m_GateConn[t])
    BY <1>0, <2>1, OrderAppend DEF Fine
  <2>3. Len(b) + 1 <= MaxBacklog
    BY <1>0, <2>1 DEF Fine
  <2> HIDE DEF b
  <2> QED
    BY <1>0, <2>1, <2>2, <2>3 DEF Fine, OpenState
<1>2. CASE HandleConnectError(t) \/ HandleReadError(t)
  <2>1. link'[t] = "closed" /\ backlog' = backlog /\ m_GateConn' = m_GateConn
    BY <1>2 DEF HandleConnectError, HandleReadError, TInv
  <2> QED
    BY <1>0, <2>1 DEF Fine, InOrder
<1>3. CASE HandleAccept(t) \/ HandleAcceptError(t)
  <2>1. b # << >> /\ backlog'[t] = Tail(b)
    BY <1>3 DEF HandleAccept, HandleAcceptError, TInv
  <2>2. b \in Seq(Conn) /\ InOrder(link[t], b, m_GateConn[t]) /\ Len(b) \in Nat
    BY <1>0 DEF Fine
  <2>3. /\ Tail(b) \in Seq(Conn) /\ Len(Tail(b)) = Len(b) - 1 /\ Head(b) \in Conn
        /\ link[t] # "connecting" \/ Head(b) = "old"
        /\ InOrder(link[t], Tail(b), Head(b))
        /\ Head(b) = "old" => InOrder(link[t], Tail(b), m_GateConn[t])
        /\ link[t] # "up" => InOrder(link[t], Tail(b), m_GateConn[t])
    BY <2>1, <2>2, OrderTail
  <2>4. Len(Tail(b)) <= MaxBacklog
    BY <1>0, <2>2, <2>3 DEF Fine
  <2>5. CASE HandleAccept(t)
    <3>1. m_GateConn'[t] = Head(b) /\ link' = link
      BY <2>5 DEF HandleAccept, TInv
    <3> HIDE DEF b
    <3> QED
      BY <1>0, <2>1, <2>3, <2>4, <3>1 DEF Fine
  <2>6. CASE HandleAcceptError(t)
    <3>1. /\ m_GateConn' = m_GateConn
          /\ Head(b) = "current" => link'[t] = IF link[t] = "up" THEN "eof" ELSE link[t]
          /\ Head(b) # "current" => link' = link
      BY <2>6 DEF HandleAcceptError, Ended, TInv
    <3>2. link'[t] \in OpenState \cup {"closed"}
      BY <1>0, <2>3, <3>1 DEF Fine, OpenState
    <3>3. InOrder(link'[t], Tail(b), m_GateConn[t])
      <4>1. CASE Head(b) = "old"
        BY <2>3, <3>1, <4>1
      <4>2. CASE Head(b) = "current" /\ link[t] # "up"
        BY <2>3, <3>1, <4>2
      <4>3. CASE Head(b) = "current" /\ link[t] = "up"
        <5>1. link'[t] = "eof" /\ m_GateConn[t] # "current"
          BY <2>1, <2>2, <3>1, <4>3, EmptySeq DEF InOrder
        <5>2. \A i \in 1 .. Len(Tail(b)) : Tail(b)[i] = "current" => i = Len(Tail(b))
          BY <2>3 DEF InOrder
        <5> QED
          BY <5>1, <5>2 DEF InOrder
      <4> QED
        BY <2>3, <4>1, <4>2, <4>3 DEF Conn
    <3> HIDE DEF b
    <3> QED
      BY <1>0, <2>1, <2>3, <2>4, <3>1, <3>2, <3>3 DEF Fine
  <2> QED
    BY <1>3, <2>5, <2>6
<1>4. CASE ServerStops(t)
  <2>1. /\ link'[t] = IF link[t] = "up" THEN "eof" ELSE link[t]
        /\ backlog'[t] = << >> /\ m_GateConn'[t] = "none"
    BY <1>4 DEF ServerStops, Ended, TInv
  <2>2. << >> \in Seq(Conn) /\ Len(<< >>) = 0
    OBVIOUS
  <2>3. link'[t] # "up" /\ link'[t] \in OpenState \cup {"closed"}
    BY <1>0, <2>1 DEF Fine, OpenState
  <2> QED
    BY <2>1, <2>2, <2>3 DEF Fine, InOrder
<1>5. CASE ServerStarts(t)
  BY <1>0, <1>5 DEF ServerStarts
<1> QED
  BY <1>1, <1>2, <1>3, <1>4, <1>5

(* The tables keep their domain, and a step of one link leaves the others.   *)
LEMMA StepOthers ==
  ASSUME TInv, NEW t \in Server,
         \/ HandleConnect(t) \/ HandleConnectError(t) \/ HandleReadError(t)
         \/ HandleAccept(t) \/ HandleAcceptError(t)
         \/ ServerStops(t) \/ ServerStarts(t)
  PROVE  /\ \E l : link' = [link EXCEPT ![t] = l]
         /\ \E b : backlog' = [backlog EXCEPT ![t] = b]
         /\ \E g : m_GateConn' = [m_GateConn EXCEPT ![t] = g]
<1>1. /\ link = [link EXCEPT ![t] = link[t]]
      /\ backlog = [backlog EXCEPT ![t] = backlog[t]]
      /\ m_GateConn = [m_GateConn EXCEPT ![t] = m_GateConn[t]]
  BY DEF TInv
<1>2. \E l : link' = [link EXCEPT ![t] = l]
  BY <1>1 DEF HandleConnect, HandleConnectError, HandleReadError, HandleAccept,
     HandleAcceptError, ServerStops, ServerStarts, Ended
<1>3. \E b : backlog' = [backlog EXCEPT ![t] = b]
  BY <1>1 DEF HandleConnect, HandleConnectError, HandleReadError, HandleAccept,
     HandleAcceptError, ServerStops, ServerStarts
<1>4. \E g : m_GateConn' = [m_GateConn EXCEPT ![t] = g]
  BY <1>1 DEF HandleConnect, HandleConnectError, HandleReadError, HandleAccept,
     HandleAcceptError, ServerStops, ServerStarts
<1> QED
  BY <1>2, <1>3, <1>4, Zenon

LEMMA TInvStep ==
  ASSUME TInv, [LinkNext]_linkVars
  PROVE  TInv'
<1>1. SUFFICES /\ \A s \in Server : Fine(link'[s], backlog'[s], m_GateConn'[s])
               /\ link' = [s \in Server |-> link'[s]]
               /\ backlog' = [s \in Server |-> backlog'[s]]
               /\ m_GateConn' = [s \in Server |-> m_GateConn'[s]]
  BY DEF TInv, Ordered, Fine
<1>2. CASE \E resolves \in [Server -> BOOLEAN] : CheckServerAlive(resolves)
  <2>1. PICK resolves \in [Server -> BOOLEAN] : ConnectTo({s \in Server : ~IsOpen(s)}, resolves)
    BY <1>2, Zenon DEF CheckServerAlive
  <2>2. \A s \in Server : Fine(link'[s], backlog'[s], m_GateConn'[s])
    BY <2>1, ConnectFine
  <2> QED
    BY <2>1, <2>2 DEF ConnectTo
<1>3. ASSUME NEW t \in Server,
             \/ HandleConnect(t) \/ HandleConnectError(t) \/ HandleReadError(t)
             \/ HandleAccept(t) \/ HandleAcceptError(t)
             \/ ServerStops(t) \/ ServerStarts(t)
      PROVE  /\ \A s \in Server : Fine(link'[s], backlog'[s], m_GateConn'[s])
             /\ link' = [s \in Server |-> link'[s]]
             /\ backlog' = [s \in Server |-> backlog'[s]]
             /\ m_GateConn' = [s \in Server |-> m_GateConn'[s]]
  <2>1. Fine(link'[t], backlog'[t], m_GateConn'[t])
    BY <1>3, StepFine
  <2>2. PICK l, b, g : /\ link' = [link EXCEPT ![t] = l]
                       /\ backlog' = [backlog EXCEPT ![t] = b]
                       /\ m_GateConn' = [m_GateConn EXCEPT ![t] = g]
    BY <1>3, StepOthers
  <2>3. \A s \in Server \ {t} : /\ link'[s] = link[s] /\ backlog'[s] = backlog[s]
                                /\ m_GateConn'[s] = m_GateConn[s]
    BY <2>2 DEF TInv
  <2>4. \A s \in Server \ {t} : Fine(link'[s], backlog'[s], m_GateConn'[s])
    BY <2>3 DEF TInv, Ordered, Fine
  <2>5. /\ link' = [s \in Server |-> link'[s]]
        /\ backlog' = [s \in Server |-> backlog'[s]]
        /\ m_GateConn' = [s \in Server |-> m_GateConn'[s]]
    BY <2>2, Zenon DEF TInv
  <2> QED
    BY <2>1, <2>4, <2>5
<1>4. CASE UNCHANGED linkVars
  BY <1>4 DEF linkVars, TInv, Ordered, Fine
<1> QED
  BY <1>2, <1>3, <1>4 DEF LinkNext

LEMMA TInvHolds == LinkSpec => []TInv
<1>1. LinkInit => TInv
  <2> SUFFICES ASSUME LinkInit PROVE TInv
    OBVIOUS
  <2>1. << >> \in Seq(Conn) /\ Len(<< >>) = 0
    OBVIOUS
  <2>2. \A s \in Server : link[s] # "up" /\ backlog[s] = << >> /\ m_GateConn[s] = "none"
    BY DEF LinkInit
  <2>3. Ordered
    BY <2>1, <2>2 DEF Ordered, InOrder
  <2> QED
    BY <2>1, <2>2, <2>3 DEF LinkInit, TInv, OpenState
<1>2. TInv /\ [LinkNext]_linkVars => TInv'
  BY TInvStep
<1> QED
  BY <1>1, <1>2, PTL DEF LinkSpec

(* LinkTypeOK holds throughout: no backlog grows past its limit.             *)
THEOREM LinkTypeCorrect == LinkSpec => []LinkTypeOK
<1>1. LinkInit => svrUp \in [Server -> BOOLEAN]
  BY DEF LinkInit
<1>2. svrUp \in [Server -> BOOLEAN] /\ [LinkNext]_linkVars => (svrUp \in [Server -> BOOLEAN])'
  BY Zenon DEF LinkNext, CheckServerAlive, HandleConnect, HandleConnectError, HandleReadError,
     HandleAccept, HandleAcceptError, ServerStops, ServerStarts, linkVars
<1>3. TInv /\ svrUp \in [Server -> BOOLEAN] => LinkTypeOK
  BY DEF TInv, LinkTypeOK
<1> QED
  BY <1>1, <1>2, <1>3, TInvHolds, PTL DEF LinkSpec

(* A server that has accepted the gate's connection replies to that one, for *)
(* the gate's connection is the last that waits at the server and nothing    *)
(* waits once it was accepted.                                               *)
THEOREM LinkRepliesReachGate == LinkSpec => []RepliesReachGate
<1>1. TInv => RepliesReachGate
  BY DEF TInv, Ordered, InOrder, RepliesReachGate
<1> QED
  BY <1>1, TInvHolds, PTL
===============================================================================
