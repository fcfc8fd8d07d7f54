--------------------------- MODULE GameClientProofs ---------------------------
(***************************************************************************)
(* Proofs about two components that share no state: the game server, for   *)
(* any players, any nicknames, any effect of tighten and any number of     *)
(* requests, with mongod failing and the process restarting at any moment; *)
(* and the test client, for any WaitLimit and any bounds on its chains and *)
(* on the replies on their way, with requests, replies, reads, writes and  *)
(* connects failing at any moment.                                         *)
(***************************************************************************)
EXTENDS GameServer, TcpClient, SequenceTheorems, TLAPS

USE GameAssumption

-------------------------------------------------------------------------------
(* What a step does to the data: nothing, or one of the three things that    *)
(* newPlayer and findPlayer do, or a restart.                                *)

Stores(p, n) ==
  /\ m_PlayerInfoMap[p] = NoRole
  /\ m_PlayerInfoMap' = [m_PlayerInfoMap EXCEPT ![p] = n]
  /\ SavePlayer(p, n)

Looks(p) == m_PlayerInfoMap[p] = NoRole /\ FindJson(p)

Idle == UNCHANGED <<m_PlayerInfoMap, players, settled, unsaved>>

(* A request that is handled creates, looks up, or leaves the data alone.    *)
LEMMA HandlerKinds ==
  ASSUME NEW req \in Request, RunFuncHandler(req)
  PROVE  \/ Idle
         \/ \E p \in Player, n \in Nick : Stores(p, n)
         \/ \E p \in Player : Looks(p)
<1>1. CASE req.proto = "create" /\ CreateRoleReq(req)
  <2>1. req.player \in Player /\ req.nick \in Nick
    BY <1>1 DEF Request
  <2> QED
    BY <1>1, <2>1 DEF CreateRoleReq, NewPlayer, Stores, Idle, dataVars
<1>2. CASE req.proto = "enter" /\ EnterGameReq(req)
  <2>1. req.player \in Player
    BY DEF Request
  <2> QED
    BY <1>2, <2>1 DEF EnterGameReq, FindPlayer, Looks, Idle, dataVars
<1>3. CASE req.proto = "bad" /\ BadReq(req)
  BY <1>3 DEF BadReq, Idle, dataVars
<1> QED
  BY <1>1, <1>2, <1>3 DEF RunFuncHandler

LEMMA StepKinds ==
  ASSUME TypeOK, [Next]_vars
  PROVE  \/ Idle
         \/ \E p \in Player, n \in Nick : Stores(p, n)
         \/ \E p \in Player : Looks(p)
         \/ Restart
<1>1. CASE Update
  <2>1. Head(m_MsgQueue) \in Request
    BY <1>1 DEF TypeOK, Update, RunMessage
  <2> QED
    BY <1>1, <2>1, HandlerKinds DEF Update, RunMessage
<1>2. CASE UNCHANGED vars \/ \E req \in Request : OnRecv(req)
  BY <1>2 DEF vars, OnRecv, Idle, dataVars
<1>3. CASE HandleAccept \/ HandleWrite \/ GateReadError \/ ConnectDB
  BY <1>3 DEF HandleAccept, HandleWrite, GateReadError, ConnectDB, Idle, dataVars
<1> QED
  BY <1>1, <1>2, <1>3 DEF Next

-------------------------------------------------------------------------------
(* Type correctness. *)

(* The requests pushed are those popped and those that wait.                 *)
Counted == done + Len(m_MsgQueue) = received

TInv == TypeOK /\ Counted

LEMMA QueueStep ==
  ASSUME TInv, [Next]_vars
  PROVE  /\ m_MsgQueue' \in Seq(Request)
         /\ received' \in 0 .. MaxRequests /\ done' \in 0 .. MaxRequests
         /\ Counted'
<1> USE DEF TInv, TypeOK, Counted
<1>1. CASE Update
  <2>1. /\ m_MsgQueue # <<>> /\ m_MsgQueue' = Tail(m_MsgQueue)
        /\ done' = done + 1 /\ received' = received
    BY <1>1 DEF Update, RunMessage
  <2>2. Len(m_MsgQueue) \in Nat \ {0} /\ Len(Tail(m_MsgQueue)) = Len(m_MsgQueue) - 1
    BY <2>1
  <2>3. Tail(m_MsgQueue) \in Seq(Request)
    BY <2>1
  <2>4. /\ done + Len(m_MsgQueue) = received /\ done \in Nat
        /\ received \in 0 .. MaxRequests
    OBVIOUS
  <2>5. Counted'
    <3>1. Len(m_MsgQueue') = Len(m_MsgQueue) - 1
      BY <2>1, <2>2
    <3>2. done' = done + 1 /\ received' = received
      BY <2>1
    <3>3. done' + Len(m_MsgQueue') = received'
      BY <2>2, <2>4, <3>1, <3>2
    <3> QED
      BY <3>3
  <2>6. done + 1 \in 0 .. MaxRequests
    BY <2>2, <2>4
  <2> QED
    BY <2>1, <2>3, <2>4, <2>5, <2>6
<1>2. ASSUME NEW req \in Request, OnRecv(req)
      PROVE  /\ m_MsgQueue' \in Seq(Request)
             /\ received' \in 0 .. MaxRequests /\ done' \in 0 .. MaxRequests
             /\ Counted'
  <2>1. /\ m_MsgQueue' = Append(m_MsgQueue, req) /\ received' = received + 1
        /\ done' = done /\ received < MaxRequests
    BY <1>2 DEF OnRecv
  <2>2. /\ Append(m_MsgQueue, req) \in Seq(Request)
        /\ Len(Append(m_MsgQueue, req)) = Len(m_MsgQueue) + 1
    OBVIOUS
  <2>3. received + 1 \in 0 .. MaxRequests
    BY <2>1
  <2>4. done + Len(m_MsgQueue) = received /\ done \in Nat /\ Len(m_MsgQueue) \in Nat
    OBVIOUS
  <2>5. Counted'
    <3>1. Len(m_MsgQueue') = Len(m_MsgQueue) + 1
      BY <2>1, <2>2
    <3>2. done' = done /\ received' = received + 1
      BY <2>1
    <3>3. done' + Len(m_MsgQueue') = received'
      BY <2>4, <3>1, <3>2
    <3> QED
      BY <3>3
  <2> QED
    BY <2>1, <2>2, <2>3, <2>5
<1>3. CASE Restart
  <2>1. Len(<<>>) = 0 /\ <<>> \in Seq(Request)
    OBVIOUS
  <2> QED
    BY <1>3, <2>1 DEF Restart
<1>4. CASE HandleAccept \/ HandleWrite \/ GateReadError \/ ConnectDB \/ UNCHANGED vars
  BY <1>4 DEF HandleAccept, HandleWrite, GateReadError, ConnectDB, vars
<1> QED
  BY <1>1, <1>2, <1>3, <1>4 DEF Next

LEMMA DataStep ==
  ASSUME TypeOK, [Next]_vars
  PROVE  /\ m_PlayerInfoMap' \in [Player -> Role] /\ players' \in [Player -> Role]
         /\ settled' \in SUBSET Player /\ unsaved' \in SUBSET Player
<1>1. CASE Idle
  BY <1>1 DEF Idle, TypeOK
<1>2. ASSUME NEW p \in Player, NEW n \in Nick, Stores(p, n)
      PROVE  /\ m_PlayerInfoMap' \in [Player -> Role] /\ players' \in [Player -> Role]
             /\ settled' \in SUBSET Player /\ unsaved' \in SUBSET Player
  BY <1>2 DEF Stores, SavePlayer, TypeOK, Role
<1>3. ASSUME NEW p \in Player, Looks(p)
      PROVE  /\ m_PlayerInfoMap' \in [Player -> Role] /\ players' \in [Player -> Role]
             /\ settled' \in SUBSET Player /\ unsaved' \in SUBSET Player
  BY <1>3 DEF Looks, FindJson, TypeOK, Role
<1>4. CASE Restart
  BY <1>4 DEF Restart, TypeOK, Role
<1> QED
  BY <1>1, <1>2, <1>3, <1>4, StepKinds

LEMMA ConnStep ==
  ASSUME TypeOK, [Next]_vars
  PROVE  /\ m_MongoConn' \in {"none", "ok", "failed"}
         /\ m_GateConn' \in {"none", "open", "writing", "closed"}
         /\ assured' \in SUBSET Player
<1>1. CASE Update
  <2>1. PICK req \in Request : RunFuncHandler(req)
    BY <1>1 DEF Update, RunMessage, TypeOK
  <2>2. m_MongoConn' \in {"none", "ok", "failed"}
    BY <2>1 DEF RunFuncHandler, CreateRoleReq, NewPlayer, SavePlayer, EnterGameReq,
       FindPlayer, FindJson, BadReq, dataVars, TypeOK
  <2>3. m_GateConn' \in {"none", "open", "writing", "closed"}
    BY <1>1 DEF Update, RunMessage, SendMessage, TypeOK
  <2>4. req.player \in Player
    BY DEF Request
  <2>5. assured' \in SUBSET Player
    BY <2>1, <2>4 DEF RunFuncHandler, CreateRoleReq, EnterGameReq, BadReq, TypeOK
  <2> QED
    BY <2>2, <2>3, <2>5
<1>2. CASE \/ \E req \in Request : OnRecv(req)
           \/ HandleAccept \/ HandleWrite \/ GateReadError \/ UNCHANGED vars
  BY <1>2 DEF OnRecv, HandleAccept, HandleWrite, GateReadError, vars, dataVars, TypeOK
<1>3. CASE ConnectDB \/ Restart
  BY <1>3 DEF ConnectDB, Restart, TypeOK
<1> QED
  BY <1>1, <1>2, <1>3 DEF Next

(* Init establishes TypeOK and Counted, and every step keeps them.           *)
LEMMA TInvHolds == Spec => []TInv
<1>1. Init => TInv
  <2>1. Len(<<>>) = 0 /\ <<>> \in Seq(Request)
    OBVIOUS
  <2> QED
    BY <2>1 DEF Init, TInv, TypeOK, Counted, Role
<1>2. TInv /\ [Next]_vars => TInv'
  BY QueueStep, DataStep, ConnStep DEF TInv, TypeOK
<1> QED
  BY <1>1, <1>2, PTL DEF Spec

(* TypeOK holds throughout; in particular update() pops no more requests     *)
(* than onRecv has pushed.                                                   *)
THEOREM GameTypeCorrect == Spec => []TypeOK
BY TInvHolds, PTL DEF TInv

-------------------------------------------------------------------------------
(* The inductive invariant: what mongod holds has been through tighten, what *)
(* the cache holds is there unless its save was lost, what has been looked   *)
(* up or stored is in the cache, and so is every role a player was told of.  *)

StoredTight ==
  \A p \in Player : players[p] # NoRole => Tighten[players[p]] = players[p]

SettledIsCached ==
  \A p \in settled : players[p] # NoRole => m_PlayerInfoMap[p] # NoRole

AssuredIsCached == \A p \in assured : m_PlayerInfoMap[p] # NoRole

DInv == StoredTight /\ CacheIsStored /\ SettledIsCached

LEMMA DInvStep ==
  ASSUME TypeOK, DInv, [Next]_vars
  PROVE  DInv'
<1> USE DEF DInv, StoredTight, CacheIsStored, SettledIsCached, TypeOK, Role
<1>1. CASE Idle
  BY <1>1 DEF Idle
<1>2. ASSUME NEW p \in Player, NEW n \in Nick, Stores(p, n)
      PROVE  DInv'
  <2>1. Tighten[n] \in Nick /\ Tighten[Tighten[n]] = Tighten[n] /\ n # NoRole
    OBVIOUS
  <2>2. /\ m_PlayerInfoMap'[p] = n
        /\ \A q \in Player \ {p} : m_PlayerInfoMap'[q] = m_PlayerInfoMap[q]
    BY <1>2 DEF Stores
  <2>3. CASE /\ players' = [players EXCEPT ![p] = Tighten[n]]
             /\ settled' = settled \cup {p} /\ unsaved' = unsaved \ {p}
    BY <2>1, <2>2, <2>3
  <2>4. CASE unsaved' = unsaved \cup {p} /\ UNCHANGED <<players, settled>>
    BY <2>1, <2>2, <2>4
  <2> QED
    BY <1>2, <2>3, <2>4 DEF Stores, SavePlayer
<1>3. ASSUME NEW p \in Player, Looks(p)
      PROVE  DInv'
  <2>1. CASE /\ m_PlayerInfoMap' = [m_PlayerInfoMap EXCEPT ![p] = players[p]]
             /\ settled' = settled \cup {p} /\ UNCHANGED <<players, unsaved>>
    BY <2>1
  <2>2. CASE Idle
    BY <2>2 DEF Idle
  <2> QED
    BY <1>3, <2>1, <2>2 DEF Looks, FindJson, Idle
<1>4. CASE Restart
  BY <1>4 DEF Restart
<1> QED
  BY <1>1, <1>2, <1>3, <1>4, StepKinds

LEMMA DInvHolds == Spec => []DInv
<1>1. Init => DInv
  BY DEF Init, DInv, StoredTight, CacheIsStored, SettledIsCached
<1>2. TypeOK /\ DInv /\ [Next]_vars => DInv'
  BY DInvStep
<1> QED
  BY <1>1, <1>2, GameTypeCorrect, PTL DEF Spec

(* A role that was shown is the one the next life of the process finds,      *)
(* unless its save was lost.                                                 *)
THEOREM RolesStored == Spec => []CacheIsStored
BY DInvHolds, PTL DEF DInv

(* A stored role is replaced by nothing once this process knows of it: only  *)
(* savePlayer writes to mongod, for players who are not in the cache.        *)
THEOREM RolesKept == Spec => StoredRoleStays
<1>1. TypeOK /\ DInv /\ [Next]_vars
      => [\A p \in settled :
            p \in settled' /\ players[p] # NoRole => players'[p] = players[p]]_vars
  <2> SUFFICES ASSUME TypeOK, DInv, [Next]_vars, NEW p \in settled, players[p] # NoRole
               PROVE  players'[p] = players[p]
    OBVIOUS
  <2>1. m_PlayerInfoMap[p] # NoRole /\ p \in Player
    BY DEF DInv, SettledIsCached, TypeOK
  <2>2. ASSUME NEW q \in Player, NEW n \in Nick, Stores(q, n)
        PROVE  players'[p] = players[p]
    BY <2>1, <2>2 DEF Stores, SavePlayer, TypeOK
  <2>3. ASSUME NEW q \in Player, Looks(q)
        PROVE  players' = players
    BY <2>3 DEF Looks, FindJson
  <2>4. Idle \/ Restart => players' = players
    BY DEF Idle, Restart
  <2> QED
    BY <2>2, <2>3, <2>4, StepKinds
<1> QED
  BY <1>1, GameTypeCorrect, DInvHolds, PTL DEF Spec, StoredRoleStays

-------------------------------------------------------------------------------
(* The answers. *)

AInv == AssuredIsCached /\ AnswersAgree

LEMMA AInvStep ==
  ASSUME TypeOK, AInv, [Next]_vars
  PROVE  AInv'
<1> USE DEF AInv, AssuredIsCached, AnswersAgree
<1>1. CASE Update
  <2>1. PICK req \in Request : RunFuncHandler(req)
    BY <1>1 DEF Update, RunMessage, TypeOK
  <2>2. req.player \in Player
    BY DEF Request
  <2>3. CASE req.proto = "create" /\ CreateRoleReq(req)
    <3>1. req.nick \in Nick
      BY <2>3 DEF Request
    <3>2. m_PlayerInfoMap'[req.player] # NoRole
      BY <2>2, <2>3, <3>1 DEF CreateRoleReq, NewPlayer, TypeOK, dataVars
    <3>3. \A p \in Player : m_PlayerInfoMap[p] # NoRole
                             => m_PlayerInfoMap'[p] = m_PlayerInfoMap[p]
      BY <2>2, <2>3, <3>1 DEF CreateRoleReq, NewPlayer, TypeOK, dataVars
    <3>4. assured' = assured \cup {req.player} /\ rsp'.proto = "create"
      BY <2>3 DEF CreateRoleReq
    <3> QED
      BY <3>2, <3>3, <3>4 DEF TypeOK
  <2>4. CASE req.proto = "enter" /\ EnterGameReq(req)
    <3>1. \A p \in Player : m_PlayerInfoMap[p] # NoRole
                             => m_PlayerInfoMap'[p] = m_PlayerInfoMap[p]
      BY <2>2, <2>4 DEF EnterGameReq, FindPlayer, FindJson, TypeOK, dataVars
    <3>2. /\ rsp'.player = req.player
          /\ rsp'.code = IF m_PlayerInfoMap'[req.player] = NoRole THEN 1 ELSE 0
          /\ assured' = IF rsp'.code = 0 THEN assured \cup {req.player} ELSE assured
      BY <2>4 DEF EnterGameReq
    <3> QED
      BY <3>1, <3>2 DEF TypeOK
  <2>5. CASE req.proto = "bad" /\ BadReq(req)
    BY <2>5 DEF BadReq, dataVars
  <2> QED
    BY <2>1, <2>3, <2>4, <2>5 DEF RunFuncHandler
<1>2. CASE Restart
  BY <1>2 DEF Restart
<1>3. CASE \/ \E req \in Request : OnRecv(req)
           \/ HandleAccept \/ HandleWrite \/ GateReadError
           \/ ConnectDB \/ UNCHANGED vars
  BY <1>3 DEF OnRecv, HandleAccept, HandleWrite, GateReadError, ConnectDB, vars, dataVars
<1> QED
  BY <1>1, <1>2, <1>3 DEF Next

(* No player who was told of a role is told later in the same life of the    *)
(* process that there is none.                                               *)
THEOREM GameAnswersAgree == Spec => []AnswersAgree
<1>1. Init => AInv
  BY DEF Init, AInv, AssuredIsCached, AnswersAgree
<1>2. TypeOK /\ AInv /\ [Next]_vars => AInv'
  BY AInvStep
<1>3. AInv => AnswersAgree
  BY DEF AInv
<1> QED
  BY <1>1, <1>2, <1>3, GameTypeCorrect, PTL DEF Spec

-------------------------------------------------------------------------------
(* The game server implements Roles: every step gives a role, loads one,     *)
(* forgets them all or leaves both tables alone.                             *)
THEOREM GameImplementsRoles == Spec => RolesSpec
<1>1. Init => R!RolesInit
  BY DEF Init, R!RolesInit
<1>2. TypeOK /\ [Next]_vars => [R!RolesNext]_(R!roleVars)
  <2> SUFFICES ASSUME TypeOK, [Next]_vars
               PROVE  [R!RolesNext]_(R!roleVars)
    OBVIOUS
  <2>1. ASSUME NEW p \in Player, NEW n \in Nick, Stores(p, n)
        PROVE  R!Give(p, n)
    BY <2>1 DEF Stores, SavePlayer, R!Give
  <2>2. ASSUME NEW p \in Player, Looks(p)
        PROVE  R!Load(p) \/ UNCHANGED R!roleVars
    <3>1. CASE players[p] = NoRole
      BY <2>2, <3>1 DEF Looks, FindJson, R!roleVars, TypeOK
    <3>2. CASE players[p] # NoRole
      BY <2>2, <3>2 DEF Looks, FindJson, R!Load, R!roleVars
    <3> QED
      BY <3>1, <3>2
  <2>3. Idle => UNCHANGED R!roleVars
    BY DEF Idle, R!roleVars
  <2>4. Restart => R!Forget
    BY DEF Restart, R!Forget
  <2> QED
    BY <2>1, <2>2, <2>3, <2>4, StepKinds DEF R!RolesNext
<1> QED
  BY <1>1, <1>2, GameTypeCorrect, PTL DEF Spec, RolesSpec, R!RolesSpec

-------------------------------------------------------------------------------
(* The test client. *)

HIDE GameAssumption
USE ClientAssumption

-------------------------------------------------------------------------------
(* The counters are naturals within the bound.  A handler that closes the    *)
(* socket turns what was pending into as many errors, so the bound is one on *)
(* the sum.                                                                  *)
CountersOK ==
  /\ socket \in {"closed", "connecting", "broken", "open"}
  /\ starts \in Nat /\ oks \in Nat /\ errs \in Nat /\ reads \in Nat
  /\ writes \in Nat /\ readErrs \in Nat /\ writeErrs \in Nat
  /\ Chains + writes <= MaxChains + 1

(* A connect that was made does not count as long as the socket is closed:   *)
(* its handler will do nothing.                                              *)
ChainInv ==
  /\ NeverGivesUp
  /\ socket = "closed" => starts + errs + readErrs + writeErrs >= 1

(* Without a playerId only requests that need none are answered.             *)
Reply(k) == [req : IF k THEN Asking ELSE {"LOGIN_REQ", "REGIST_REQ"}, code : {-1, 0, 1}]

RobotInv ==
  /\ m_nStep \in Asking \cup Waiting
  /\ count \in 0 .. WaitLimit
  /\ known \in BOOLEAN
  /\ replies \in [Server -> Seq(Reply(known))]
  /\ InFlight <= MaxFlight
  /\ KnowsItself

FlagsOK ==
  /\ polled \in BOOLEAN /\ doubled \in BOOLEAN /\ calm \in BOOLEAN
  /\ account \in BOOLEAN /\ role \in BOOLEAN

ClientInv == CountersOK /\ ChainInv /\ RobotInv /\ FlagsOK

-------------------------------------------------------------------------------
(* The chains. *)

(* What a handler that got an error does to them: it closes the socket and   *)
(* posts a start().                                                          *)
LEMMA CloseChains ==
  ASSUME CountersOK, FlagsOK, ChainInv, Close,
         errs' \in Nat, readErrs' \in Nat, writeErrs' \in Nat, starts' = starts + 1,
         errs' + readErrs' + writeErrs' =
           errs + readErrs + writeErrs + reads + writes + Aborted - 1
  PROVE  CountersOK' /\ ChainInv'
<1>0. /\ starts \in Nat /\ oks \in Nat /\ errs \in Nat /\ reads \in Nat
      /\ writes \in Nat /\ readErrs \in Nat /\ writeErrs \in Nat /\ Aborted \in Nat
  BY DEF CountersOK, Aborted
<1>1. socket' = "closed" /\ reads' = 0 /\ writes' = 0 /\ oks' = oks
  BY DEF Close
<1>2. starts' \in Nat /\ starts' >= 1
  BY <1>0
<1>3. Chains = starts + oks + errs + reads + readErrs + writeErrs + Aborted
  BY DEF Chains, Aborted
<1>4. Chains' = starts' + oks' + errs' + reads' + readErrs' + writeErrs'
  BY <1>0, <1>1 DEF Chains
<1>5. Chains \in Nat
  BY <1>0, <1>3
<1>6. Chains' = starts + 1 + oks + (errs' + readErrs' + writeErrs')
  BY <1>0, <1>1, <1>4
<1>7. Chains' = starts + 1 + oks + (errs + readErrs + writeErrs + reads + writes + Aborted - 1)
  BY <1>0, <1>6, Zenon
<1>8. Chains' = Chains + writes
  BY <1>0, <1>3, <1>7
<1>9. CountersOK'
  BY <1>0, <1>1, <1>2, <1>5, <1>8 DEF CountersOK
<1>10. ~doubled' => ~doubled /\ ~(writes > 0)
  BY Zenon DEF Close
<1>11. NeverGivesUp'
  BY <1>0, <1>5, <1>8, <1>10 DEF ChainInv, NeverGivesUp
<1>12. starts' + errs' + readErrs' + writeErrs' >= 1
  BY <1>2
<1> QED
  BY <1>9, <1>11, <1>12 DEF ChainInv

LEMMA ChainStep ==
  ASSUME CountersOK, FlagsOK, ChainInv, [ClientNext]_clientVars
  PROVE  CountersOK' /\ ChainInv'
<1>0. /\ starts \in Nat /\ oks \in Nat /\ errs \in Nat /\ reads \in Nat
      /\ writes \in Nat /\ readErrs \in Nat /\ writeErrs \in Nat
      /\ doubled \in BOOLEAN /\ Aborted \in Nat
  BY DEF CountersOK, FlagsOK, Aborted
<1>1. CASE HandleConnectError
  BY <1>0, <1>1, CloseChains DEF HandleConnectError
<1>2. CASE HandleReadError
  BY <1>0, <1>2, CloseChains DEF HandleReadError
<1>3. CASE HandleWriteError
  BY <1>0, <1>3, CloseChains DEF HandleWriteError
<1>4. CASE DoSomeThing
  <2>1. UNCHANGED <<socket, oks, errs, reads, readErrs, writeErrs>>
    BY <1>4 DEF DoSomeThing
  <2>2. \/ /\ starts' = starts + 1 /\ writes' = writes /\ doubled' = TRUE /\ Room
        \/ /\ starts' = starts /\ doubled' = doubled
           /\ writes' = writes \/ (Room /\ writes' = writes + 1)
    BY <1>4 DEF DoSomeThing, PostWrite
  <2> QED
    BY <1>0, <2>1, <2>2 DEF CountersOK, ChainInv, NeverGivesUp, Chains, Room
<1>5. CASE Start
  BY <1>0, <1>5 DEF Start, CountersOK, ChainInv, NeverGivesUp, Chains
<1>6. CASE Connect
  BY <1>0, <1>6 DEF Connect, CountersOK, ChainInv, NeverGivesUp, Chains
<1>7. CASE HandleConnect
  <2>1. /\ oks > 0 /\ oks' = oks - 1
        /\ UNCHANGED <<socket, starts, errs, readErrs, writeErrs, doubled>>
    BY <1>7 DEF HandleConnect
  <2>2. \/ socket = "closed" /\ UNCHANGED <<reads, writes>>
        \/ /\ socket # "closed" /\ reads' = reads + 1
           /\ writes' = writes \/ (Room /\ writes' = writes + 1)
    BY <1>7 DEF HandleConnect
  <2> QED
    BY <1>0, <2>1, <2>2 DEF CountersOK, ChainInv, NeverGivesUp, Chains, Room
<1>8. CASE Write
  BY <1>0, <1>8 DEF Write, CountersOK, ChainInv, NeverGivesUp, Chains
<1>9. CASE ReadFails
  BY <1>0, <1>9 DEF ReadFails, CountersOK, ChainInv, NeverGivesUp, Chains
<1>10. CASE (\E s \in Server : HandleRead(s)) \/ CalmDown \/ UNCHANGED clientVars
  <2>1. UNCHANGED <<chainVars, doubled>>
    BY <1>10 DEF HandleRead, CalmDown, clientVars
  <2> QED
    BY <1>0, <2>1 DEF chainVars, CountersOK, ChainInv, NeverGivesUp, Chains
<1> QED
  BY <1>1, <1>2, <1>3, <1>4, <1>5, <1>6, <1>7, <1>8, <1>9, <1>10 DEF ClientNext

-------------------------------------------------------------------------------
(* The robot and the replies. *)

LEMMA NoRepliesOK ==
  ASSUME replies' = NoReplies
  PROVE  replies' \in [Server -> Seq(Reply(known'))] /\ InFlight' = 0
<1>1. \A s \in Server : replies'[s] = << >>
  BY DEF NoReplies
<1>2. Len(replies'["account"]) = 0 /\ Len(replies'["game"]) = 0 /\ Len(replies'["gate"]) = 0
  BY <1>1 DEF Server
<1>3. InFlight' = 0
  BY <1>2 DEF InFlight
<1>4. << >> \in Seq(Reply(known'))
  OBVIOUS
<1> QED
  BY <1>3, <1>4 DEF NoReplies

(* The number of replies on their way.                                       *)
LEMMA InFlightNat ==
  ASSUME replies \in [Server -> Seq(Reply(known))]
  PROVE  /\ \A s \in Server : Len(replies[s]) \in Nat
         /\ Len(replies["account"]) \in Nat /\ Len(replies["game"]) \in Nat
         /\ Len(replies["gate"]) \in Nat /\ InFlight \in Nat
<1>1. \A s \in Server : Len(replies[s]) \in Nat
  <2> SUFFICES ASSUME NEW s \in Server PROVE Len(replies[s]) \in Nat
    OBVIOUS
  <2>1. replies[s] \in Seq(Reply(known))
    OBVIOUS
  <2> QED
    BY <2>1, LenProperties
<1>2. "account" \in Server /\ "game" \in Server /\ "gate" \in Server
  BY DEF Server
<1>3. /\ Len(replies["account"]) \in Nat /\ Len(replies["game"]) \in Nat
      /\ Len(replies["gate"]) \in Nat
  BY <1>1, <1>2
<1> DEFINE a == Len(replies["account"])
           b == Len(replies["game"])
           c == Len(replies["gate"])
<1>4. InFlight = a + b + c /\ a \in Nat /\ b \in Nat /\ c \in Nat
  BY <1>3 DEF InFlight
<1> HIDE DEF a, b, c
<1>5. InFlight \in Nat
  BY <1>4
<1> QED
  BY <1>1, <1>3, <1>5

(* One queue that gets longer or shorter by one.                             *)
LEMMA InFlightChange ==
  ASSUME replies \in [Server -> Seq(Reply(known))], NEW s \in Server, NEW q,
         NEW d \in {-1, 1}, Len(q) = Len(replies[s]) + d, replies' = [replies EXCEPT ![s] = q]
  PROVE  InFlight' = InFlight + d
<1>1. /\ Len(replies["account"]) \in Nat /\ Len(replies["game"]) \in Nat
      /\ Len(replies["gate"]) \in Nat
  BY InFlightNat
<1>2. /\ s \in {"account", "game", "gate"}
      /\ replies'["account"] = IF s = "account" THEN q ELSE replies["account"]
      /\ replies'["game"] = IF s = "game" THEN q ELSE replies["game"]
      /\ replies'["gate"] = IF s = "gate" THEN q ELSE replies["gate"]
  BY DEF Server
<1> DEFINE a == Len(replies["account"])
           b == Len(replies["game"])
           c == Len(replies["gate"])
<1>3. InFlight = a + b + c /\ a \in Nat /\ b \in Nat /\ c \in Nat
  BY <1>1 DEF InFlight
<1>4. CASE s = "account"
  <2>1. InFlight' = (a + d) + b + c
    BY <1>2, <1>4, Zenon DEF InFlight
  <2> HIDE DEF a, b, c
  <2> QED
    BY <1>3, <2>1
<1>5. CASE s = "game"
  <2>1. InFlight' = a + (b + d) + c
    BY <1>2, <1>5, Zenon DEF InFlight
  <2> HIDE DEF a, b, c
  <2> QED
    BY <1>3, <2>1
<1>6. CASE s = "gate"
  <2>1. InFlight' = a + b + (c + d)
    BY <1>2, <1>6, Zenon DEF InFlight
  <2> HIDE DEF a, b, c
  <2> QED
    BY <1>3, <2>1
<1> QED
  BY <1>2, <1>4, <1>5, <1>6

(* A reply that was right for a robot that does not know itself is right for *)
(* one that does.                                                            *)
LEMMA RepliesGrow ==
  ASSUME known \in BOOLEAN, known' \in BOOLEAN, known => known'
  PROVE  Seq(Reply(known)) \subseteq Seq(Reply(known'))
<1>1. Reply(known) \subseteq Reply(known')
  BY DEF Reply, Asking
<1> QED
  BY <1>1

(* A request that is answered adds one reply, for its own step.              *)
LEMMA TransmitReplies ==
  ASSUME RobotInv, FlagsOK, known' = known, NEW step \in Asking, Transmit(step),
         step \in {"LOGIN_REQ", "REGIST_REQ"} \/ known
  PROVE  /\ replies' \in [Server -> Seq(Reply(known))] /\ InFlight' <= MaxFlight
         /\ account' \in BOOLEAN /\ role' \in BOOLEAN
<1>1. account' \in BOOLEAN /\ role' \in BOOLEAN
  BY Zenon DEF Transmit, Serve, serverVars, FlagsOK
<1>2. CASE replies' = replies
  BY <1>1, <1>2, Zenon DEF RobotInv, InFlight
<1>3. ASSUME NEW server \in Server, NEW code \in {-1, 0, 1}, InFlight < MaxFlight,
             replies' = [replies EXCEPT ![server] = Append(@, [req |-> step, code |-> code])]
      PROVE  replies' \in [Server -> Seq(Reply(known))] /\ InFlight' <= MaxFlight
  <2> DEFINE r == [req |-> step, code |-> code]
  <2>0. r \in Reply(known)
    BY DEF Reply
  <2> HIDE DEF r
  <2>1. replies \in [Server -> Seq(Reply(known))]
    BY DEF RobotInv
  <2>2. Append(replies[server], r) \in Seq(Reply(known))
    BY <2>0, <2>1
  <2>3. replies' = [replies EXCEPT ![server] = Append(replies[server], r)]
    BY <1>3 DEF r
  <2>4. Len(Append(replies[server], r)) = Len(replies[server]) + 1
    BY <2>0, <2>1
  <2>5. InFlight' = InFlight + 1 /\ InFlight \in Nat
    BY <2>1, <2>3, <2>4, InFlightChange, InFlightNat, Zenon
  <2> QED
    BY <1>3, <2>1, <2>2, <2>3, <2>5
<1>4. \/ replies' = replies
      \/ \E server \in Server, code \in {-1, 0, 1} :
           /\ InFlight < MaxFlight
           /\ replies' = [replies EXCEPT ![server] = Append(@, [req |-> step, code |-> code])]
  BY DEF Transmit, serverVars
<1> QED
  BY <1>1, <1>2, <1>3, <1>4

LEMMA RobotStep ==
  ASSUME RobotInv, FlagsOK, [ClientNext]_clientVars
  PROVE  RobotInv' /\ FlagsOK'
<1>0. /\ m_nStep \in Asking \cup Waiting /\ count \in 0 .. WaitLimit /\ known \in BOOLEAN
      /\ replies \in [Server -> Seq(Reply(known))] /\ InFlight <= MaxFlight
      /\ m_nStep \in {"LOGIN_REQ", "LOGIN_RSP", "REGIST_REQ", "REGIST_RSP"} \/ known
  BY DEF RobotInv, KnowsItself
<1>1. ASSUME UNCHANGED <<robotVars, replies>> PROVE RobotInv'
  BY <1>0, <1>1, Zenon DEF robotVars, RobotInv, KnowsItself, InFlight
<1>2. CASE Start \/ Connect \/ Write \/ ReadFails \/ CalmDown \/ UNCHANGED clientVars
  <2>1. UNCHANGED <<robotVars, serverVars>>
    BY <1>2 DEF Start, Connect, Write, ReadFails, CalmDown, clientVars
  <2>2. FlagsOK'
    BY <1>2, <2>1, Zenon DEF Start, Connect, Write, ReadFails, CalmDown, clientVars, serverVars, FlagsOK
  <2> QED
    BY <1>1, <2>1, <2>2 DEF serverVars
<1>3. CASE HandleConnectError \/ HandleReadError \/ HandleWriteError
  <2>1. Close
    BY <1>3 DEF HandleConnectError, HandleReadError, HandleWriteError
  <2>2. UNCHANGED robotVars /\ replies' = NoReplies
    BY <2>1 DEF Close
  <2>3. FlagsOK'
    BY <2>1 DEF Close, FlagsOK
  <2> QED
    BY <1>0, <2>2, <2>3, NoRepliesOK DEF robotVars, RobotInv, KnowsItself
<1>4. CASE DoSomeThing
  <2>0. PostWrite /\ UNCHANGED <<polled, calm>>
    BY <1>4 DEF DoSomeThing
  <2>1. CASE socket = "closed"
    <3>1. UNCHANGED <<robotVars, serverVars>> /\ doubled' = TRUE
      BY <2>0, <2>1 DEF PostWrite
    <3> QED
      BY <1>1, <2>0, <3>1 DEF FlagsOK, serverVars
  <2>2. CASE socket # "closed" /\ m_nStep \in Waiting
    <3>1. Wait /\ UNCHANGED <<known, serverVars, doubled>>
      BY <2>0, <2>2 DEF PostWrite, Asking, Waiting
    <3>2. count' \in 0 .. WaitLimit /\ m_nStep' \in {m_nStep, "LOGIN_REQ"}
      BY <1>0, <3>1 DEF Wait
    <3> QED
      BY <1>0, <2>0, <3>1, <3>2, Zenon DEF serverVars, FlagsOK, RobotInv, KnowsItself, InFlight, Asking
  <2>3. CASE socket # "closed" /\ m_nStep \in Asking
    <3>1. /\ m_nStep' = DoAction(m_nStep) /\ UNCHANGED <<count, known, doubled>>
          /\ Transmit(m_nStep) \/ UNCHANGED serverVars
      BY <2>0, <2>3 DEF PostWrite, Asking, Waiting
    <3>2. /\ replies' \in [Server -> Seq(Reply(known))] /\ InFlight' <= MaxFlight
          /\ account' \in BOOLEAN /\ role' \in BOOLEAN
      <4>1. CASE UNCHANGED serverVars
        BY <1>0, <4>1, Zenon DEF serverVars, FlagsOK, InFlight
      <4>2. m_nStep \in {"LOGIN_REQ", "REGIST_REQ"} \/ known
        BY <1>0, <2>3 DEF Asking
      <4> QED
        BY <2>3, <3>1, <4>1, <4>2, TransmitReplies
    <3>3. /\ m_nStep' \in Asking \cup Waiting
          /\ m_nStep' \in {"LOGIN_REQ", "LOGIN_RSP", "REGIST_REQ", "REGIST_RSP"} \/ known
      BY <1>0, <2>3, <3>1 DEF DoAction, Asking, Waiting
    <3> QED
      BY <1>0, <2>0, <3>1, <3>2, <3>3 DEF FlagsOK, RobotInv, KnowsItself
  <2> QED
    BY <1>0, <2>1, <2>2, <2>3
<1>5. CASE HandleConnect
  <2>0. UNCHANGED <<doubled, calm>>
    BY <1>5 DEF HandleConnect
  <2>1. CASE socket = "closed"
    <3>1. UNCHANGED <<robotVars, serverVars, polled>>
      BY <1>5, <2>1 DEF HandleConnect
    <3> QED
      BY <1>1, <2>0, <3>1 DEF FlagsOK, serverVars
  <2>2. CASE socket # "closed"
    <3>1. /\ m_nStep' = DoAction("LOGIN_REQ") /\ polled' = TRUE /\ UNCHANGED <<count, known>>
          /\ Transmit("LOGIN_REQ") \/ UNCHANGED serverVars
      BY <1>5, <2>2 DEF HandleConnect
    <3>2. /\ replies' \in [Server -> Seq(Reply(known))] /\ InFlight' <= MaxFlight
          /\ account' \in BOOLEAN /\ role' \in BOOLEAN
      <4>1. CASE UNCHANGED serverVars
        BY <1>0, <4>1, Zenon DEF serverVars, FlagsOK, InFlight
      <4>2. "LOGIN_REQ" \in Asking
        BY DEF Asking
      <4> QED
        BY <3>1, <4>1, <4>2, TransmitReplies
    <3>3. m_nStep' = "LOGIN_RSP"
      BY <3>1 DEF DoAction
    <3> QED
      BY <1>0, <2>0, <3>1, <3>2, <3>3 DEF FlagsOK, RobotInv, KnowsItself, Waiting
  <2> QED
    BY <2>1, <2>2
<1>6. ASSUME NEW s \in Server, HandleRead(s) PROVE RobotInv' /\ FlagsOK'
  <2> DEFINE r == Head(replies[s])
  <2>1. /\ replies[s] # << >> /\ HandleMsg(r) /\ UNCHANGED <<account, role, polled, doubled, calm>>
        /\ replies' = [replies EXCEPT ![s] = Tail(replies[s])] \/ replies' = NoReplies
    BY <1>6 DEF HandleRead
  <2>2. replies[s] \in Seq(Reply(known)) /\ r \in Reply(known)
    BY <1>0, <2>1, HeadTailProperties
  <2> HIDE DEF r
  <2>3. /\ known' \in BOOLEAN /\ (known => known') /\ count' = count
        /\ m_nStep' \in Asking
        /\ m_nStep' \in {"LOGIN_REQ", "REGIST_REQ"} \/ known'
    <3>1. /\ r.req \in {"LOGIN_REQ", "REGIST_REQ"} \/ known
          /\ r.req \in Asking
      BY <1>0, <2>2 DEF Reply, Asking
    <3> QED
      BY <1>0, <2>1, <3>1, Zenon DEF HandleMsg, Asking
  <2>4. replies' \in [Server -> Seq(Reply(known'))] /\ InFlight' <= MaxFlight
    <3>1. CASE replies' = NoReplies
      BY <3>1, NoRepliesOK
    <3>2. CASE replies' = [replies EXCEPT ![s] = Tail(replies[s])]
      <4>1. Tail(replies[s]) \in Seq(Reply(known)) /\ Len(Tail(replies[s])) = Len(replies[s]) + (-1)
        BY <2>1, <2>2, HeadTailProperties, LenProperties
      <4>2. InFlight' = InFlight + (-1) /\ InFlight \in Nat
        BY <1>0, <3>2, <4>1, InFlightChange, InFlightNat, Zenon
      <4>3. Seq(Reply(known)) \subseteq Seq(Reply(known'))
        BY <1>0, <2>3, RepliesGrow
      <4> QED
        BY <1>0, <3>2, <4>1, <4>2, <4>3
    <3> QED
      BY <2>1, <3>1, <3>2
  <2> QED
    BY <1>0, <2>1, <2>3, <2>4 DEF FlagsOK, RobotInv, KnowsItself
<1> QED
  BY <1>2, <1>3, <1>4, <1>5, <1>6 DEF ClientNext

-------------------------------------------------------------------------------
(* The inductive invariant of the client.                                    *)
THEOREM ClientInvariant == ClientSpec => []ClientInv
<1>1. ClientInit => ClientInv
  <2> SUFFICES ASSUME ClientInit PROVE ClientInv
    OBVIOUS
  <2>1. /\ m_nStep = "LOGIN_REQ" /\ count = 0 /\ known = FALSE /\ replies = NoReplies
        /\ socket = "closed" /\ starts = 1 /\ oks = 0 /\ errs = 0
        /\ reads = 0 /\ writes = 0 /\ readErrs = 0 /\ writeErrs = 0
    BY DEF ClientInit
  <2>2. CountersOK /\ ChainInv
    BY <2>1 DEF CountersOK, ChainInv, NeverGivesUp, Chains
  <2>3. replies \in [Server -> Seq(Reply(known))] /\ InFlight = 0
    <3>1. \A s \in Server : replies[s] = << >>
      BY <2>1 DEF NoReplies
    <3>2. Len(replies["account"]) = 0 /\ Len(replies["game"]) = 0 /\ Len(replies["gate"]) = 0
      BY <3>1 DEF Server
    <3>3. InFlight = 0
      BY <3>2 DEF InFlight
    <3>4. << >> \in Seq(Reply(known))
      OBVIOUS
    <3> QED
      BY <2>1, <3>3, <3>4 DEF NoReplies
  <2>4. RobotInv
    <3>1. KnowsItself /\ m_nStep \in Asking /\ known \in BOOLEAN
      BY <2>1, Zenon DEF KnowsItself, Asking
    <3>2. count \in 0 .. WaitLimit /\ InFlight <= MaxFlight
      BY <2>1, <2>3
    <3> QED
      BY <2>3, <3>1, <3>2 DEF RobotInv
  <2>5. FlagsOK
    BY Zenon DEF ClientInit, FlagsOK
  <2> QED
    BY <2>2, <2>4, <2>5 DEF ClientInv
<1>2. ClientInv /\ [ClientNext]_clientVars => ClientInv'
  BY ChainStep, RobotStep DEF ClientInv
<1> QED
  BY <1>1, <1>2, PTL DEF ClientSpec

(* The state of the client is well typed: at no moment are there more        *)
(* operations posted or pending than the bound lets begin (tcpClient.cpp,    *)
(* robot.cpp).                                                               *)
THEOREM ClientTypeCorrect == ClientSpec => []ClientTypeOK
<1>1. ClientInv => ClientTypeOK
  <2> SUFFICES ASSUME ClientInv PROVE ClientTypeOK
    OBVIOUS
  <2>1. /\ starts \in Nat /\ oks \in Nat /\ errs \in Nat /\ reads \in Nat
        /\ writes \in Nat /\ readErrs \in Nat /\ writeErrs \in Nat
        /\ Chains + writes <= MaxChains + 1
    BY DEF ClientInv, CountersOK
  <2>2. {starts, oks, errs, reads, writes, readErrs, writeErrs} \subseteq 0 .. MaxChains + 1
    BY <2>1 DEF Chains
  <2>3. {polled, doubled, account, role, calm} \subseteq BOOLEAN
    BY DEF ClientInv, FlagsOK
  <2> QED
    BY <2>2, <2>3 DEF ClientInv, CountersOK, RobotInv, ClientTypeOK
<1> QED
  BY <1>1, ClientInvariant, PTL

(* The client never gives up, and connects once at a time until a write      *)
(* fails or a poll meets a closed socket, for any number of chains           *)
(* (tcpClient.cpp:46-60, 76-91, 151-213).                                    *)
THEOREM ClientNeverGivesUp == ClientSpec => []NeverGivesUp
<1>1. ClientInv => NeverGivesUp
  BY DEF ClientInv, ChainInv
<1> QED
  BY <1>1, ClientInvariant, PTL

(* A robot that asks for the game knows its playerId, whatever replies come  *)
(* late or out of step (robot.cpp:45-76, 188-191).                           *)
THEOREM RobotKnowsItself == ClientSpec => []KnowsItself
<1>1. ClientInv => KnowsItself
  BY DEF ClientInv, RobotInv
<1> QED
  BY <1>1, ClientInvariant, PTL
===============================================================================
