------------------------------ MODULE GateProofs ------------------------------
(***************************************************************************)
(* Proofs about the gate.  First its session tables: they keep their       *)
(* promises for any number of players and netIds.  Then the gate as a      *)
(* whole: it implements the session specification, so every theorem about  *)
(* the tables holds of it, and its heart-beat sweep is neither late nor    *)
(* early, for any HeartBeatLimit, any UpdatePeriod and any number of       *)
(* accepts, reuse of netIds included.                                      *)
(***************************************************************************)
EXTENDS GateServer, FiniteSetTheorems, TLAPS

USE SessionAssumption DEF Conn, NetId, HeaderId, None, NoPlayer

-------------------------------------------------------------------------------
(* Type correctness. *)

(* What kickConnection leaves of the tables has the right type.              *)
LEMMA KickConnectionType ==
  ASSUME SessionTypeOK, NEW c \in Conn, KickConnection(c)
  PROVE  /\ m_ConnMap' \in [NetId -> Conn \cup {None}]
         /\ m_PlayerMap' \in [Player -> Conn \cup {None}]
         /\ m_nConnCount' \in Int
         /\ isOpen' \in [Conn -> BOOLEAN]
<1> DEFINE n == netId[c]
<1>1. n \in NetId /\ playerId[c] \in HeaderId
  BY DEF SessionTypeOK
<1>2. KickPlayer(playerId[c], n) \in [Player -> Conn \cup {None}]
  BY DEF SessionTypeOK, KickPlayer
<1>3. CASE m_ConnMap[n] = None
  BY <1>3 DEF SessionTypeOK, KickConnection, mapVars
<1>4. CASE m_ConnMap[n] # None
  <2>1. /\ m_ConnMap' = [m_ConnMap EXCEPT ![n] = None]
        /\ m_nConnCount' = m_nConnCount - 1
        /\ m_PlayerMap' = KickPlayer(playerId[c], n)
        /\ isOpen' = [isOpen EXCEPT ![m_ConnMap[n]] = FALSE]
    BY <1>4 DEF KickConnection
  <2>2. m_ConnMap' \in [NetId -> Conn \cup {None}] /\ m_nConnCount' \in Int
    BY <2>1, <1>1 DEF SessionTypeOK
  <2>3. isOpen' \in [Conn -> BOOLEAN]
    BY <2>1, Zenon DEF SessionTypeOK
  <2> QED
    BY <2>1, <2>2, <2>3, <1>2
<1> QED
  BY <1>3, <1>4

(* Route yields a connection or nothing.                                     *)
LEMMA RouteType ==
  ASSUME SessionTypeOK, NEW pid \in HeaderId, NEW nid \in NetId
  PROVE  Route(pid, nid) \in Conn \cup {None}
BY DEF SessionTypeOK, Route

(* So does what sendToPlayer leaves of the tables.                           *)
LEMMA SendToPlayerType ==
  ASSUME SessionTypeOK, NEW pid \in HeaderId, NEW nid \in NetId,
         SendToPlayer(pid, nid)
  PROVE  /\ m_ConnMap' \in [NetId -> Conn \cup {None}]
         /\ m_PlayerMap' \in [Player -> Conn \cup {None}]
         /\ m_nConnCount' \in Int
         /\ isOpen' \in [Conn -> BOOLEAN]
<1> DEFINE c == Route(pid, nid)
<1>1. c \in Conn \cup {None}
  BY RouteType
<1>2. CASE c # None /\ ~isOpen[c]
  <2>1. KickConnection(c)
    BY <1>2 DEF SendToPlayer
  <2> QED
    BY <1>1, <1>2, <2>1, KickConnectionType
<1>3. CASE ~(c # None /\ ~isOpen[c])
  BY <1>3 DEF SendToPlayer, SessionTypeOK, mapVars
<1> QED
  BY <1>2, <1>3

(* The sets a finite number of netIds can be counted in.                     *)
LEMMA NetIdSets ==
  ASSUME NEW S \in SUBSET NetId
  PROVE  IsFiniteSet(S) /\ Cardinality(S) \in Nat
<1>1. IsFiniteSet(0 .. MaxNetId - 1)
  BY FS_Interval
<1>2. IsFiniteSet(S)
  BY <1>1, FS_Subset, Zenon
<1> QED
  BY <1>2, FS_CardinalityType

(* SessionTypeOK holds throughout: the gate's tables only ever hold accepted *)
(* netIds, known players and connection objects (gateServer.cpp:106-315).    *)
THEOREM SessionTypeCorrect == SessionSpec => []SessionTypeOK
<1>1. SessionInit => SessionTypeOK
  BY DEF SessionInit, SessionTypeOK, NoLogin
<1>2. SessionTypeOK /\ [SessionNext]_sessionVars => SessionTypeOK'
  <2> SUFFICES ASSUME SessionTypeOK, [SessionNext]_sessionVars
               PROVE  SessionTypeOK'
    OBVIOUS
  <2>1. CASE Accept
    <3>1. NextNetId(m_nNetIdHolder) \in NetId
      BY DEF NextNetId, SessionTypeOK
    <3>2. accepted' \in 0 .. MaxAccepts /\ accepted + 1 \in Conn
      BY <2>1 DEF Accept, SessionTypeOK
    <3>3. /\ netId' \in [Conn -> NetId]
          /\ m_nNetIdHolder' \in NetId
          /\ m_nConnCount' \in Int
      BY <2>1, <3>1 DEF Accept, SessionTypeOK
    <3>4. isOpen' \in [Conn -> BOOLEAN]
      BY <2>1 DEF Accept, SessionTypeOK
    <3>5. m_ConnMap' \in [NetId -> Conn \cup {None}]
      BY <2>1, <3>2 DEF Accept, SessionTypeOK
    <3> QED
      BY <2>1, <3>2, <3>3, <3>4, <3>5 DEF Accept, SessionTypeOK
  <2>2. ASSUME NEW c \in Conn, ReadError(c)
        PROVE  SessionTypeOK'
    BY <2>2 DEF ReadError, SessionTypeOK
  <2>3. ASSUME NEW c \in Conn, NEW user \in Player, AskLogin(c, user)
        PROVE  SessionTypeOK'
    <3>1. asked' \in [Conn -> SUBSET Player]
      <4> HIDE DEF Conn, NetId, HeaderId
      <4> QED
        BY <2>3 DEF AskLogin, SessionTypeOK
    <3>2. UNCHANGED <<accepted, netId, playerId, mapVars, m_nNetIdHolder, login, lateBound>>
      BY <2>3 DEF AskLogin
    <3> QED
      BY <3>1, <3>2, Zenon DEF SessionTypeOK, mapVars
  <2>4. ASSUME NEW c \in Conn, NEW pid \in HeaderId, Reply(c, pid)
        PROVE  SessionTypeOK'
    <3>1. netId[c] \in NetId /\ SendToPlayer(pid, netId[c])
      BY <2>4 DEF Reply, SessionTypeOK
    <3> QED
      BY <2>4, <3>1, SendToPlayerType, Zenon DEF Reply, SessionTypeOK
  <2>5. ASSUME NEW c \in Conn, NEW user \in Player, LoginRsp(c, user)
        PROVE  SessionTypeOK'
    <3>1. netId[c] \in NetId /\ m_ConnMap[netId[c]] \in Conn \cup {None}
      BY DEF SessionTypeOK
    <3>2. login' \in [stage : {"idle", "bind", "reply"}, conn : Conn \cup {None},
                      user : HeaderId, netId : NetId]
      BY <2>5, <3>1 DEF LoginRsp
    <3> QED
      BY <2>5, <3>2 DEF LoginRsp, SessionTypeOK, mapVars
  <2>6. CASE LoginBind
    <3>1. login' \in [stage : {"idle", "bind", "reply"}, conn : Conn \cup {None},
                      user : HeaderId, netId : NetId]
      BY <2>6, Zenon DEF LoginBind, SessionTypeOK
    <3>2. m_PlayerMap' \in [Player -> Conn \cup {None}]
      BY <2>6, Zenon DEF LoginBind, SessionTypeOK
    <3>3. playerId' \in [Conn -> HeaderId] /\ lateBound' \in SUBSET Conn
      BY <2>6 DEF LoginBind, SessionTypeOK
    <3> QED
      BY <2>6, <3>1, <3>2, <3>3, Zenon DEF LoginBind, SessionTypeOK
  <2>7. CASE LoginReply
    <3>1. login.user \in HeaderId /\ login.netId \in NetId
      BY DEF SessionTypeOK
    <3>2. SendToPlayer(login.user, login.netId)
      BY <2>7 DEF LoginReply
    <3>3. NoLogin \in [stage : {"idle", "bind", "reply"}, conn : Conn \cup {None},
                       user : HeaderId, netId : NetId]
      BY DEF NoLogin
    <3>4. /\ m_ConnMap' \in [NetId -> Conn \cup {None}]
          /\ m_PlayerMap' \in [Player -> Conn \cup {None}]
          /\ m_nConnCount' \in Int
          /\ isOpen' \in [Conn -> BOOLEAN]
      BY <3>1, <3>2, SendToPlayerType, Zenon
    <3> QED
      BY <2>7, <3>3, <3>4 DEF LoginReply, SessionTypeOK, NoLogin
  <2>8. ASSUME NEW dead \in SUBSET NetId, Sweep(dead)
        PROVE  SessionTypeOK'
    <3>1. Cardinality(dead) \in Nat
      BY NetIdSets
    <3> QED
      BY <2>8, <3>1 DEF Sweep, KickAll, SessionTypeOK
  <2>9. CASE UNCHANGED sessionVars
    BY <2>9 DEF sessionVars, mapVars, SessionTypeOK
  <2> QED
    BY <2>1, <2>2, <2>3, <2>4, <2>5, <2>6, <2>7, <2>8, <2>9 DEF SessionNext
<1> QED
  BY <1>1, <1>2, PTL DEF SessionSpec

-------------------------------------------------------------------------------
(* The inductive invariant, for a gate that has not reused a netId.          *)

Keys == {n \in NetId : m_ConnMap[n] # None}

(* Connections get the netIds 0, 1, 2, ... in the order of their accepts.    *)
IdsInv ==
  /\ \A c \in Accepted : netId[c] = c - 1
  /\ accepted < MaxNetId => m_nNetIdHolder = accepted

(* m_ConnMap holds accepted connections under their own netId, all the open  *)
(* ones among them, and m_nConnCount counts them.                            *)
ConnInv ==
  /\ \A n \in Keys : m_ConnMap[n] \in Accepted /\ netId[m_ConnMap[n]] = n
  /\ \A c \in Conn : isOpen[c] => c \in Accepted /\ InMap(c)
  /\ m_nConnCount = Cardinality(Keys)

(* An entry of m_PlayerMap, and the login under way, belong to a connection  *)
(* that asked for that player.  The connection of an entry has logged in,    *)
(* and if it is gone, its last login was another one or came too late.       *)
PlayerInv ==
  /\ \A c \in Conn : asked[c] # {} => c \in Accepted
  /\ \A p \in Player, c \in Conn : m_PlayerMap[p] = c =>
       /\ p \in asked[c]
       /\ playerId[c] \in Player
       /\ InMap(c) \/ c \in lateBound \/ playerId[c] # p
  /\ login.stage = "bind" => login.user \in asked[login.conn]

SessionInv == IdsInv /\ ConnInv /\ PlayerInv

(* NoWrap makes netIds unique.                                               *)
LEMMA NetIdUnique ==
  ASSUME SessionTypeOK, IdsInv, NEW c \in Accepted, NEW d \in Accepted,
         netId[c] = netId[d]
  PROVE  c = d
BY DEF IdsInv, Accepted, SessionTypeOK

LEMMA KeysFinite == IsFiniteSet(Keys) /\ Cardinality(Keys) \in Nat
BY NetIdSets DEF Keys

(* Removing the netIds dead from m_ConnMap removes them from its keys.       *)
LEMMA KickAllKeys ==
  ASSUME SessionTypeOK, NEW dead \in SUBSET Keys, KickAll(dead)
  PROVE  /\ Keys' = Keys \ dead
         /\ Cardinality(Keys \ dead) = Cardinality(Keys) - Cardinality(dead)
<1>1. Keys' = Keys \ dead
  BY DEF Keys, KickAll, SessionTypeOK
<1>2. IsFiniteSet(Keys)
  BY KeysFinite
<1>3. Cardinality(Keys \ dead) = Cardinality(Keys) - Cardinality(Keys \cap dead)
  BY <1>2, FS_Difference
<1>4. Keys \cap dead = dead
  OBVIOUS
<1> QED
  BY <1>1, <1>3, <1>4

(* The invariant survives the kick of any set of connections in m_ConnMap.   *)
LEMMA KickAllInv ==
  ASSUME SessionTypeOK, SessionInv, NEW dead \in SUBSET Keys, KickAll(dead),
         UNCHANGED <<accepted, netId, playerId, asked, m_nNetIdHolder, lateBound>>,
         login' = login \/ login' = NoLogin
  PROVE  SessionInv'
<1>1. IdsInv'
  BY DEF SessionInv, IdsInv, Accepted
<1>2. ConnInv'
  <2>1. \A n \in Keys' : m_ConnMap'[n] \in Accepted' /\ netId'[m_ConnMap'[n]] = n
    BY KickAllKeys DEF SessionInv, ConnInv, Keys, Accepted, KickAll
  <2>2. ASSUME NEW c \in Conn, isOpen'[c]
        PROVE  c \in Accepted' /\ InMap(c)'
    <3>1. isOpen[c] /\ ~\E n \in dead : m_ConnMap[n] = c
      BY <2>2, Zenon DEF KickAll, SessionTypeOK
    <3>2. c \in Accepted /\ m_ConnMap[netId[c]] = c /\ netId[c] \in NetId
      BY <3>1 DEF SessionInv, ConnInv, InMap, SessionTypeOK
    <3> QED
      BY <3>1, <3>2 DEF KickAll, InMap, Accepted
  <2>3. m_nConnCount' = Cardinality(Keys')
    BY KickAllKeys, Zenon DEF KickAll, SessionInv, ConnInv
  <2> QED
    BY <2>1, <2>2, <2>3 DEF ConnInv
<1>3. PlayerInv'
  <2>1. ASSUME NEW p \in Player, NEW c \in Conn, m_PlayerMap'[p] = c
        PROVE  /\ p \in asked'[c]
               /\ playerId'[c] \in Player
               /\ InMap(c)' \/ c \in lateBound' \/ playerId'[c] # p
    <3>1. /\ m_PlayerMap[p] = c
          /\ ~\E n \in dead : KickPlayer(playerId[m_ConnMap[n]], n)[p] # m_PlayerMap[p]
      BY <2>1 DEF KickAll, SessionTypeOK
    <3>2. /\ p \in asked[c]
          /\ playerId[c] \in Player
          /\ InMap(c) \/ c \in lateBound \/ playerId[c] # p
      BY <3>1, Zenon DEF SessionInv, PlayerInv
    <3>3. CASE InMap(c) /\ netId[c] \in dead
      <4>1. KickPlayer(playerId[c], netId[c])[p] = c
        BY <3>1, <3>3 DEF InMap
      <4>2. playerId[c] # p
        BY <4>1, <3>1 DEF KickPlayer
      <4> QED
        BY <3>2, <4>2
    <3>4. CASE InMap(c) /\ netId[c] \notin dead
      BY <3>2, <3>4 DEF InMap, KickAll, SessionTypeOK
    <3>5. CASE ~InMap(c)
      BY <3>2, <3>5
    <3> QED
      BY <3>3, <3>4, <3>5
  <2>2. login'.stage = "bind" => login'.user \in asked'[login'.conn]
    BY DEF SessionInv, PlayerInv, NoLogin
  <2>3. \A c \in Conn : asked'[c] # {} => c \in Accepted'
    BY DEF SessionInv, PlayerInv, Accepted
  <2> QED
    BY <2>1, <2>2, <2>3, Zenon DEF PlayerInv
<1> QED
  BY <1>1, <1>2, <1>3 DEF SessionInv

(* Leaving the tables alone is the kick of no connection.                    *)
LEMMA KickNothing ==
  ASSUME SessionTypeOK, UNCHANGED mapVars
  PROVE  KickAll({})
<1>1. Cardinality({}) = 0
  BY FS_EmptySet
<1>2. m_ConnMap' = m_ConnMap /\ m_PlayerMap' = m_PlayerMap
      /\ m_nConnCount' = m_nConnCount /\ isOpen' = isOpen
  BY DEF mapVars
<1>3. isOpen' = [d \in Conn |-> isOpen[d] /\ ~\E k \in {} : m_ConnMap[k] = d]
  BY <1>2, Zenon DEF SessionTypeOK
<1> QED
  BY <1>1, <1>2, <1>3 DEF KickAll, SessionTypeOK

(* kickConnection is the kick of one key, or nothing.                        *)
LEMMA KickConnectionIsKick ==
  ASSUME SessionTypeOK, SessionInv, NEW c \in Accepted, KickConnection(c)
  PROVE  \E dead \in SUBSET Keys :
           KickAll(dead) /\ dead \subseteq {n \in Keys : m_ConnMap[n] = c}
<1> DEFINE n == netId[c]
<1>0. c \in Conn /\ n \in NetId
  BY DEF SessionTypeOK, Accepted
<1>1. CASE m_ConnMap[n] = None
  <2>1. UNCHANGED mapVars
    BY <1>1 DEF KickConnection
  <2> QED
    BY <2>1, KickNothing
<1>2. CASE m_ConnMap[n] # None
  <2>1. n \in Keys /\ m_ConnMap[n] = c
    BY <1>0, <1>2, NetIdUnique, Zenon DEF Keys, SessionInv, ConnInv
  <2>2. Cardinality({n}) = 1
    BY FS_Singleton
  <2>3. /\ m_ConnMap' = [m_ConnMap EXCEPT ![n] = None]
        /\ m_nConnCount' = m_nConnCount - 1
        /\ m_PlayerMap' = KickPlayer(playerId[c], n)
        /\ isOpen' = [isOpen EXCEPT ![c] = FALSE]
    BY <1>2, <2>1 DEF KickConnection
  <2>4. m_ConnMap' = [k \in NetId |-> IF k \in {n} THEN None ELSE m_ConnMap[k]]
    BY <2>3, Zenon DEF SessionTypeOK
  <2>5. m_PlayerMap' = [p \in Player |->
          IF \E k \in {n} : KickPlayer(playerId[m_ConnMap[k]], k)[p] # m_PlayerMap[p]
          THEN None ELSE m_PlayerMap[p]]
    BY <2>1, <2>3 DEF SessionTypeOK, KickPlayer
  <2>6. isOpen' = [d \in Conn |-> isOpen[d] /\ ~\E k \in {n} : m_ConnMap[k] = d]
    BY <2>1, <2>3, <1>0, Zenon DEF SessionTypeOK
  <2>7. KickAll({n})
    BY <2>2, <2>3, <2>4, <2>5, <2>6, Zenon DEF KickAll
  <2> QED
    BY <2>1, <2>7
<1> QED
  BY <1>1, <1>2

(* A frame is routed only to an accepted connection.                         *)
LEMMA RouteAccepted ==
  ASSUME SessionTypeOK, SessionInv, NEW pid \in HeaderId, NEW nid \in NetId,
         Route(pid, nid) # None
  PROVE  /\ Route(pid, nid) \in Accepted
         /\ netId[Route(pid, nid)] = nid \/ pid \in asked[Route(pid, nid)]
<1>1. CASE pid # NoPlayer /\ m_PlayerMap[pid] # None
  BY <1>1 DEF Route, SessionTypeOK, SessionInv, PlayerInv
<1>2. CASE ~(pid # NoPlayer /\ m_PlayerMap[pid] # None)
  BY <1>2 DEF Route, SessionTypeOK, SessionInv, ConnInv, Keys
<1> QED
  BY <1>1, <1>2

(* sendToPlayer kicks at most one key, whose connection is closed.           *)
LEMMA SendIsKick ==
  ASSUME SessionTypeOK, SessionInv, NEW pid \in HeaderId, NEW nid \in NetId,
         SendToPlayer(pid, nid)
  PROVE  \E dead \in SUBSET Keys :
           KickAll(dead) /\ \A n \in dead : ~isOpen[m_ConnMap[n]]
<1> DEFINE c == Route(pid, nid)
<1>1. CASE c # None /\ ~isOpen[c]
  <2>1. c \in Accepted /\ KickConnection(c)
    BY <1>1, RouteAccepted, Zenon DEF SendToPlayer
  <2> HIDE DEF c
  <2>2. PICK dead \in SUBSET Keys :
           KickAll(dead) /\ dead \subseteq {n \in Keys : m_ConnMap[n] = c}
    BY <2>1, KickConnectionIsKick
  <2> QED
    BY <2>2, <1>1
<1>2. CASE ~(c # None /\ ~isOpen[c])
  <2>1. UNCHANGED mapVars
    BY <1>2 DEF SendToPlayer
  <2> QED
    BY <2>1, KickNothing
<1> QED
  BY <1>1, <1>2

-------------------------------------------------------------------------------
(* The invariant is inductive. *)

(* Before the first accept the tables are empty.                             *)
LEMMA SessionInvInit ==
  ASSUME SessionInit
  PROVE  SessionInv
<1>1. Keys = {} /\ Cardinality({}) = 0
  BY FS_EmptySet DEF Keys, SessionInit
<1>2. IdsInv
  BY DEF SessionInit, IdsInv, Accepted
<1>3. ConnInv
  BY <1>1 DEF SessionInit, ConnInv
<1>4. PlayerInv
  BY DEF SessionInit, PlayerInv, NoLogin
<1> QED
  BY <1>2, <1>3, <1>4 DEF SessionInv

(* handle_accept: without reuse the new netId is free, so the new connection *)
(* does enter m_ConnMap.                                                     *)
LEMMA AcceptInv ==
  ASSUME NoWrap, SessionTypeOK, SessionTypeOK', SessionInv, Accept
  PROVE  SessionInv'
<1> DEFINE c == accepted + 1
           n == m_nNetIdHolder
<1>1. c \in Conn /\ c \notin Accepted /\ n \in NetId /\ n = accepted
      /\ Accepted' = Accepted \cup {c} /\ Accepted \subseteq Conn
  BY DEF Accept, SessionTypeOK, Accepted, NoWrap, SessionInv, IdsInv
<1>2. /\ netId' = [netId EXCEPT ![c] = n]
      /\ isOpen' = [isOpen EXCEPT ![c] = TRUE]
      /\ UNCHANGED <<m_PlayerMap, playerId, asked, login, lateBound>>
  BY DEF Accept
<1>t. /\ netId \in [Conn -> NetId]
      /\ isOpen \in [Conn -> BOOLEAN]
      /\ m_ConnMap \in [NetId -> Conn \cup {None}]
  BY DEF SessionTypeOK
<1>c. c # None /\ c - 1 = n /\ c = accepted'
  BY <1>1 DEF Accept, SessionTypeOK
<1>d. \A d \in Accepted : netId[d] = d - 1 /\ d \in Int /\ d - 1 # n /\ d # c
  BY <1>1 DEF SessionInv, IdsInv, SessionTypeOK, Accepted
<1> HIDE DEF c
<1>3. \A d \in Accepted : netId'[d] = netId[d] /\ netId[d] # n
  BY <1>1, <1>2, <1>d, <1>t
<1>4. n \notin Keys
  BY <1>1, <1>3, Zenon DEF SessionInv, ConnInv
<1>5. m_ConnMap' = [m_ConnMap EXCEPT ![n] = c]
  <2>1. m_ConnMap[n] = None
    BY <1>1, <1>4 DEF Keys
  <2>2. m_ConnMap' = [m_ConnMap EXCEPT ![n] = IF @ = None THEN c ELSE @]
    BY DEF Accept, c
  <2> QED
    BY <2>1, <2>2, <1>t
<1>k. n \in NetId /\ m_ConnMap'[n] = c /\ \A k \in NetId : k # n => m_ConnMap'[k] = m_ConnMap[k]
  BY <1>1, <1>5, <1>t
<1>6. Keys' = Keys \cup {n}
  <2> HIDE DEF n, NetId, Conn
  <2> QED
    BY <1>k, <1>c DEF Keys
<1>7. IdsInv'
  <2>1. netId'[c] = c - 1
    BY <1>1, <1>2, <1>c, <1>t, Zenon
  <2>2. \A d \in Accepted' : netId'[d] = d - 1
    BY <2>1, <1>1, <1>3, <1>d
  <2>3. accepted' < MaxNetId => m_nNetIdHolder' = accepted'
    <3>1. c \in Nat /\ MaxNetId \in Nat /\ accepted' = c /\ m_nNetIdHolder' = c % MaxNetId
      BY <1>1, <1>c DEF Accept, NextNetId
    <3>2. \A i, j \in Nat : i < j => i % j = i
      OBVIOUS
    <3> QED
      BY <3>1, <3>2
  <2> QED
    BY <2>2, <2>3 DEF IdsInv
<1>n. netId'[c] = n /\ (\A d \in Conn : d # c => netId'[d] = netId[d] /\ isOpen'[d] = isOpen[d])
  BY <1>1, <1>2, <1>t
<1>8. ConnInv'
  <2> HIDE DEF n, NetId, Conn
  <2>1. \A k \in Keys' : m_ConnMap'[k] \in Accepted' /\ netId'[m_ConnMap'[k]] = k
    <3> SUFFICES ASSUME NEW k \in Keys'
                 PROVE  m_ConnMap'[k] \in Accepted' /\ netId'[m_ConnMap'[k]] = k
      OBVIOUS
    <3>1. k \in NetId /\ m_ConnMap'[k] # None
      BY DEF Keys
    <3>2. CASE k = n
      BY <3>2, <1>1, <1>n, <1>k
    <3>3. CASE k # n
      <4>1. m_ConnMap'[k] = m_ConnMap[k] /\ k \in Keys
        BY <3>1, <3>3, <1>k DEF Keys
      <4>2. m_ConnMap[k] \in Accepted /\ netId[m_ConnMap[k]] = k
        BY <4>1 DEF SessionInv, ConnInv
      <4> QED
        BY <4>1, <4>2, <1>1, <1>3
    <3> QED
      BY <3>2, <3>3
  <2>2. ASSUME NEW d \in Conn, isOpen'[d]
        PROVE  d \in Accepted' /\ InMap(d)'
    <3>1. CASE d = c
      BY <3>1, <1>1, <1>n, <1>k DEF InMap
    <3>2. CASE d # c
      <4>1. isOpen[d]
        BY <2>2, <3>2, <1>n
      <4>2. d \in Accepted /\ m_ConnMap[netId[d]] = d /\ netId[d] \in NetId
        BY <4>1, <1>t DEF SessionInv, ConnInv, InMap
      <4> QED
        BY <4>2, <1>1, <1>3, <1>k DEF InMap
    <3> QED
      BY <3>1, <3>2
  <2>3. m_nConnCount' = Cardinality(Keys')
    <3>1. Cardinality(Keys \cup {n}) = Cardinality(Keys) + 1
      BY <1>4, KeysFinite, FS_AddElement
    <3> QED
      BY <3>1, <1>6 DEF Accept, SessionInv, ConnInv
  <2> QED
    BY <2>1, <2>2, <2>3 DEF ConnInv
<1>9. PlayerInv'
  <2> HIDE DEF n, NetId, Conn
  <2>1. ASSUME NEW p \in Player, NEW d \in Conn, m_PlayerMap'[p] = d
        PROVE  /\ p \in asked'[d]
               /\ playerId'[d] \in Player
               /\ InMap(d)' \/ d \in lateBound' \/ playerId'[d] # p
    <3>1. /\ p \in asked[d] /\ playerId[d] \in Player
          /\ InMap(d) \/ d \in lateBound \/ playerId[d] # p
      BY <2>1, <1>2 DEF SessionInv, PlayerInv
    <3>a. d \in Accepted
      BY <3>1 DEF SessionInv, PlayerInv
    <3>2. InMap(d) => InMap(d)'
      BY <3>a, <1>1, <1>3, <1>k, <1>t DEF InMap
    <3> QED
      BY <3>1, <3>2, <1>2
  <2> QED
    BY <2>1, <1>1, <1>2 DEF SessionInv, PlayerInv
<1> QED
  BY <1>7, <1>8, <1>9 DEF SessionInv

(* The second half of onPlayerLogin: the entry is bound to the connection    *)
(* looked up before, which a kick may have removed in between.               *)
LEMMA LoginBindInv ==
  ASSUME SessionTypeOK, SessionInv, LoginBind
  PROVE  SessionInv'
<1> DEFINE c == login.conn
           p == login.user
<1>1. c \in Conn /\ p \in asked[c] /\ p \in Player
  BY DEF LoginBind, SessionTypeOK, SessionInv, PlayerInv
<1>2. /\ playerId' = [playerId EXCEPT ![c] = p]
      /\ m_PlayerMap' = [m_PlayerMap EXCEPT ![p] = IF @ = None THEN c ELSE @]
      /\ login' = [login EXCEPT !.stage = "reply"]
      /\ lateBound' = IF InMap(c) THEN lateBound ELSE lateBound \cup {c}
      /\ UNCHANGED <<accepted, netId, asked, m_ConnMap, m_nConnCount, isOpen,
                     m_nNetIdHolder>>
  BY DEF LoginBind
<1>3. IdsInv' /\ ConnInv'
  BY <1>2 DEF SessionInv, IdsInv, ConnInv, Keys, InMap, Accepted
<1>4. PlayerInv'
  <2>1. ASSUME NEW q \in Player, NEW d \in Conn, m_PlayerMap'[q] = d
        PROVE  /\ q \in asked'[d]
               /\ playerId'[d] \in Player
               /\ InMap(d)' \/ d \in lateBound' \/ playerId'[d] # q
    <3>1. InMap(d)' <=> InMap(d)
      BY <1>2 DEF InMap
    <3>2. CASE d = c
      <4>1. playerId'[d] = p /\ (InMap(d) \/ d \in lateBound')
        BY <3>2, <1>1, <1>2 DEF SessionTypeOK
      <4>2. q \in asked[d]
        BY <2>1, <3>2, <1>1, <1>2 DEF SessionInv, PlayerInv, SessionTypeOK
      <4> QED
        BY <4>1, <4>2, <3>1, <1>1, <1>2
    <3>3. CASE d # c
      <4>1. m_PlayerMap[q] = d
        BY <2>1, <3>3, <1>1, <1>2 DEF SessionTypeOK
      <4>2. playerId'[d] = playerId[d] /\ lateBound \subseteq lateBound'
        BY <3>3, <1>1, <1>2 DEF SessionTypeOK
      <4> QED
        BY <4>1, <4>2, <3>1, <1>2 DEF SessionInv, PlayerInv
    <3> QED
      BY <3>2, <3>3
  <2>2. login'.stage # "bind"
    BY <1>2 DEF SessionTypeOK
  <2> QED
    BY <2>1, <2>2, <1>2 DEF PlayerInv, SessionInv, Accepted
<1> QED
  BY <1>3, <1>4 DEF SessionInv

(* The remaining steps that kick nothing: a read error closes a socket, a    *)
(* request is noted, a login reply is looked up.                             *)
LEMMA ReadErrorInv ==
  ASSUME SessionTypeOK, SessionInv, NEW c \in Conn, ReadError(c)
  PROVE  SessionInv'
<1>1. \A d \in Conn : isOpen'[d] => isOpen[d]
  BY DEF ReadError, SessionTypeOK
<1>2. UNCHANGED <<accepted, netId, playerId, asked, m_ConnMap, m_PlayerMap,
                  m_nConnCount, m_nNetIdHolder, login, lateBound>>
  BY DEF ReadError
<1> QED
  BY <1>1, <1>2
     DEF SessionInv, IdsInv, ConnInv, PlayerInv, Keys, InMap, Accepted

LEMMA AskLoginInv ==
  ASSUME SessionTypeOK, SessionInv, NEW c \in Conn, NEW user \in Player,
         AskLogin(c, user)
  PROVE  SessionInv'
<1>1. \A d \in Conn : asked[d] \subseteq asked'[d]
                       /\ (asked'[d] # {} => d = c \/ asked[d] # {})
  BY DEF AskLogin, SessionTypeOK
<1>2. isOpen[c] /\ UNCHANGED <<accepted, netId, playerId, m_ConnMap, m_PlayerMap,
         m_nConnCount, isOpen, m_nNetIdHolder, login, lateBound>>
  BY DEF AskLogin, mapVars
<1>3. IdsInv' /\ ConnInv'
  BY <1>2 DEF SessionInv, IdsInv, ConnInv, Keys, InMap, Accepted
<1>4. \A d \in Conn : asked'[d] # {} => d \in Accepted'
  BY <1>1, <1>2 DEF SessionInv, ConnInv, PlayerInv, Accepted
<1>5. login'.stage = "bind" => login'.user \in asked'[login'.conn]
  BY <1>1, <1>2 DEF SessionInv, PlayerInv, SessionTypeOK
<1>6. PlayerInv'
  BY <1>1, <1>2, <1>4, <1>5 DEF SessionInv, PlayerInv, InMap
<1> QED
  BY <1>3, <1>6 DEF SessionInv

LEMMA LoginRspInv ==
  ASSUME SessionTypeOK, SessionInv, NEW c \in Conn, NEW user \in Player,
         LoginRsp(c, user)
  PROVE  SessionInv'
<1>1. UNCHANGED <<accepted, netId, playerId, asked, m_ConnMap, m_PlayerMap,
                  m_nConnCount, isOpen, m_nNetIdHolder, lateBound>>
  BY DEF LoginRsp, mapVars
<1>2. login'.stage = "bind" => login'.user \in asked'[login'.conn]
  <2>1. c \in Accepted /\ user \in asked[c] /\ netId[c] \in NetId
    BY DEF LoginRsp, SessionInv, PlayerInv, SessionTypeOK
  <2>2. m_ConnMap[netId[c]] # None => m_ConnMap[netId[c]] = c
    BY <2>1, NetIdUnique DEF SessionInv, ConnInv, Keys
  <2> QED
    BY <1>1, <2>1, <2>2 DEF LoginRsp
<1> QED
  BY <1>1, <1>2
     DEF SessionInv, IdsInv, ConnInv, PlayerInv, Keys, InMap, Accepted

(* What a sendToPlayer step of the gate is, in terms of kicks.               *)
LEMMA SendStepIsKick ==
  ASSUME SessionTypeOK, SessionInv,
         LoginReply \/ \E c \in Conn, pid \in HeaderId : Reply(c, pid)
  PROVE  /\ UNCHANGED <<accepted, netId, playerId, asked, m_nNetIdHolder, lateBound>>
         /\ login' = login \/ login' = NoLogin
         /\ \E dead \in SUBSET Keys :
              KickAll(dead) /\ \A n \in dead : ~isOpen[m_ConnMap[n]]
<1>1. CASE LoginReply
  <2>1. login.user \in HeaderId /\ login.netId \in NetId
    BY DEF SessionTypeOK
  <2> QED
    BY <1>1, <2>1, SendIsKick, Zenon DEF LoginReply
<1>2. ASSUME NEW c \in Conn, NEW pid \in HeaderId, Reply(c, pid)
      PROVE  /\ UNCHANGED <<accepted, netId, playerId, asked, m_nNetIdHolder, lateBound>>
             /\ login' = login
             /\ \E dead \in SUBSET Keys :
                  KickAll(dead) /\ \A n \in dead : ~isOpen[m_ConnMap[n]]
  <2>1. netId[c] \in NetId
    BY DEF SessionTypeOK
  <2> QED
    BY <1>2, <2>1, SendIsKick DEF Reply
<1> QED
  BY <1>1, <1>2

(* Every step of the gate preserves SessionInv while netIds are not reused.  *)
LEMMA SessionInvStep ==
  ASSUME NoWrap, SessionTypeOK, SessionTypeOK', SessionInv,
         [SessionNext]_sessionVars
  PROVE  SessionInv'
<1>1. CASE Accept
  BY <1>1, AcceptInv
<1>2. ASSUME NEW c \in Conn, ReadError(c) PROVE SessionInv'
  BY <1>2, ReadErrorInv
<1>3. ASSUME NEW c \in Conn, NEW user \in Player, AskLogin(c, user) PROVE SessionInv'
  BY <1>3, AskLoginInv
<1>4. ASSUME NEW c \in Conn, NEW user \in Player, LoginRsp(c, user) PROVE SessionInv'
  BY <1>4, LoginRspInv
<1>5. CASE LoginBind
  BY <1>5, LoginBindInv
<1>6. CASE LoginReply \/ \E c \in Conn, pid \in HeaderId : Reply(c, pid)
  BY <1>6, SendStepIsKick, KickAllInv
<1>7. ASSUME NEW dead \in SUBSET NetId, Sweep(dead) PROVE SessionInv'
  <2>1. dead \in SUBSET Keys
    BY <1>7 DEF Sweep, Keys
  <2> QED
    BY <1>7, <2>1, KickAllInv DEF Sweep
<1>8. CASE UNCHANGED sessionVars
  BY <1>8 DEF sessionVars, mapVars, SessionInv, IdsInv, ConnInv, PlayerInv, Keys,
              InMap, Accepted
<1> QED
  BY <1>1, <1>2, <1>3, <1>4, <1>5, <1>6, <1>7, <1>8 DEF SessionNext

(* SessionInv holds of every gate that has not reused a netId.               *)
THEOREM SessionInvariant == SessionSpec => [](NoWrap => SessionInv)
<1>1. SessionInit => (NoWrap => SessionInv)
  BY SessionInvInit
<1>2. SessionTypeOK /\ SessionTypeOK' /\ (NoWrap => SessionInv)
      /\ [SessionNext]_sessionVars => (NoWrap => SessionInv)'
  BY SessionInvStep DEF NoWrap
<1> QED
  BY <1>1, <1>2, SessionTypeCorrect, PTL DEF SessionSpec

-------------------------------------------------------------------------------
(* The session properties. *)

(* m_nConnCount is the number of connections in m_ConnMap.                   *)
THEOREM ConnCountCorrect == SessionSpec => []ConnCountExact
<1>1. (NoWrap => SessionInv) => ConnCountExact
  BY DEF SessionInv, ConnInv, ConnCountExact, Keys
<1> QED
  BY <1>1, SessionInvariant, PTL

(* Every open connection is in m_ConnMap, within reach of checkHeartBeat.    *)
THEOREM OpenConnsTracked == SessionSpec => []OpenConnTracked
<1>1. (NoWrap => SessionInv) => OpenConnTracked
  BY DEF SessionInv, ConnInv, OpenConnTracked
<1> QED
  BY <1>1, SessionInvariant, PTL

(* sendToPlayer never hands a frame to a stranger.                           *)
THEOREM FramesRoutedToOwner == SessionSpec => []FramesReachOwner
<1>1. SessionTypeOK /\ (NoWrap => SessionInv) => FramesReachOwner
  BY RouteAccepted DEF FramesReachOwner
<1> QED
  BY <1>1, SessionInvariant, SessionTypeCorrect, PTL

(* The two ways in which onPlayerLogin leaves a stale entry are all.         *)
THEOREM StaleEntriesExplained == SessionSpec => []StaleEntryExplained
<1>1. SessionTypeOK /\ (NoWrap => SessionInv) => StaleEntryExplained
  BY DEF SessionTypeOK, SessionInv, PlayerInv, StaleEntryExplained
<1> QED
  BY <1>1, SessionInvariant, SessionTypeCorrect, PTL

(* kickPlayer erases an entry only together with the connection it names.    *)
LEMMA KickAllEntries ==
  ASSUME SessionTypeOK, SessionInv, NEW dead \in SUBSET Keys, KickAll(dead),
         UNCHANGED netId, NEW p \in Player, NEW c \in Conn,
         m_PlayerMap[p] = c, m_PlayerMap'[p] # c
  PROVE  m_PlayerMap'[p] = None /\ InMap(c) /\ ~InMap(c)' /\ ~isOpen'[c]
<1>1. m_PlayerMap'[p] = None
  BY DEF KickAll
<1>2. PICK n \in dead : KickPlayer(playerId[m_ConnMap[n]], n)[p] # m_PlayerMap[p]
  BY DEF KickAll
<1>3. netId[c] = n
  BY <1>2 DEF KickPlayer
<1>4. c \in Accepted
  BY DEF SessionInv, PlayerInv
<1>5. m_ConnMap[n] = c
  BY <1>3, <1>4, NetIdUnique DEF SessionInv, ConnInv
<1>6. InMap(c) /\ ~InMap(c)'
  BY <1>3, <1>5 DEF InMap, KickAll, SessionTypeOK, Keys
<1>7. ~isOpen'[c]
  BY <1>5 DEF KickAll
<1> QED
  BY <1>1, <1>6, <1>7

(* Kicking a second connection of a player leaves the first one's entry.     *)
THEOREM EntriesDieWithTheirConn == SessionSpec => EntryDiesWithItsConn
<1> DEFINE Dies == NoWrap => \A p \in Player, c \in Conn :
             m_PlayerMap[p] = c /\ m_PlayerMap'[p] # c =>
               /\ m_PlayerMap'[p] = None
               /\ InMap(c)
               /\ ~InMap(c)'
               /\ ~isOpen'[c]
<1>1. ASSUME SessionTypeOK, NoWrap => SessionInv, [SessionNext]_sessionVars
      PROVE  Dies \/ UNCHANGED sessionVars
  <2> SUFFICES ASSUME NoWrap, NEW p \in Player, NEW c \in Conn,
                      m_PlayerMap[p] = c, m_PlayerMap'[p] # c
               PROVE  m_PlayerMap'[p] = None /\ InMap(c) /\ ~InMap(c)' /\ ~isOpen'[c]
    BY DEF Dies
  <2>1. SessionInv
    BY <1>1
  <2>2. CASE UNCHANGED m_PlayerMap
    BY <2>2
  <2>3. CASE LoginBind
    BY <2>3, <1>1 DEF LoginBind, SessionTypeOK
  <2>4. CASE LoginReply \/ \E d \in Conn, pid \in HeaderId : Reply(d, pid)
    BY <2>1, <2>4, <1>1, SendStepIsKick, KickAllEntries
  <2>5. ASSUME NEW dead \in SUBSET NetId, Sweep(dead)
        PROVE  m_PlayerMap'[p] = None /\ InMap(c) /\ ~InMap(c)' /\ ~isOpen'[c]
    <3>1. dead \in SUBSET Keys
      BY <2>5 DEF Sweep, Keys
    <3> QED
      BY <3>1, <2>1, <2>5, <1>1, KickAllEntries DEF Sweep
  <2> QED
    BY <1>1, <2>2, <2>3, <2>4, <2>5
       DEF SessionNext, Accept, ReadError, AskLogin, LoginRsp, mapVars, sessionVars
<1>2. SessionTypeOK /\ (NoWrap => SessionInv) /\ [SessionNext]_sessionVars
      => [Dies]_sessionVars
  BY <1>1
<1>3. SessionSpec => [][Dies]_sessionVars
  BY <1>2, SessionInvariant, SessionTypeCorrect, PTL DEF SessionSpec
<1> QED
  BY <1>3 DEF EntryDiesWithItsConn

(* While netIds are not reused, sendToPlayer kicks no open connection.       *)
THEOREM SendKicksOnlyTheClosed ==
  ASSUME NoWrap
  PROVE  SessionSpec => SendKicksOnlyClosed
<1> DEFINE Keeps ==
      LoginReply \/ (\E c \in Conn, pid \in HeaderId : Reply(c, pid)) =>
        \A c \in Conn : isOpen[c] /\ InMap(c) => isOpen'[c] /\ InMap(c)'
<1>1. ASSUME SessionTypeOK, SessionInv
      PROVE  Keeps
  <2> SUFFICES ASSUME LoginReply \/ (\E d \in Conn, pid \in HeaderId : Reply(d, pid)),
                      NEW c \in Conn, isOpen[c], InMap(c)
               PROVE  isOpen'[c] /\ InMap(c)'
    OBVIOUS
  <2>1. PICK dead \in SUBSET Keys :
           KickAll(dead) /\ \A n \in dead : ~isOpen[m_ConnMap[n]]
    BY <1>1, SendStepIsKick
  <2>2. UNCHANGED netId
    BY <1>1, SendStepIsKick
  <2>3. netId[c] \notin dead /\ ~\E n \in dead : m_ConnMap[n] = c
    BY <2>1 DEF InMap
  <2>4. isOpen'[c]
    BY <2>1, <2>3, Zenon DEF KickAll
  <2>5. InMap(c)'
    BY <1>1, <2>1, <2>2, <2>3 DEF KickAll, InMap, SessionTypeOK
  <2> QED
    BY <2>4, <2>5
<1>2. SessionTypeOK /\ (NoWrap => SessionInv) => [Keeps]_sessionVars
  BY <1>1
<1>3. SessionSpec => [][Keeps]_sessionVars
  BY <1>2, SessionInvariant, SessionTypeCorrect, PTL
<1> QED
  BY <1>3 DEF SendKicksOnlyClosed

-------------------------------------------------------------------------------
(* The gate as a whole. *)

USE GateAssumption DEF Time

-------------------------------------------------------------------------------
(* The gate implements GateSessions: each of its steps is a step of the      *)
(* session tables or leaves them alone.                                      *)

LEMMA GateStepIsSessionStep ==
  ASSUME [Next]_vars
  PROVE  [SessionNext]_sessionVars
<1>1. CASE HandleAccept
  BY <1>1 DEF HandleAccept, SessionNext
<1>2. CASE HandleAcceptError
  BY <1>2 DEF HandleAcceptError
<1>3. ASSUME NEW c \in Conn, HandleReadError(c) PROVE SessionNext
  BY <1>3 DEF HandleReadError, SessionNext
<1>4. ASSUME NEW c \in Conn, NEW pid \in HeaderId,
             HeartBeatReq(c, pid) \/ GameRsp(c, pid) \/ AccountRsp(c, pid)
      PROVE  SessionNext
  BY <1>4 DEF HeartBeatReq, GameRsp, AccountRsp, SessionNext
<1>5. ASSUME NEW c \in Conn, NEW user \in Player,
             AccountReq(c, user) \/ AccountLoginRsp(c, user)
      PROVE  SessionNext
  BY <1>5 DEF AccountReq, AccountLoginRsp, SessionNext
<1>6. CASE AccountLoginBind \/ AccountLoginReply
  BY <1>6 DEF AccountLoginBind, AccountLoginReply, SessionNext
<1>7. ASSUME NEW s \in Server, LinkCloses(s) PROVE UNCHANGED sessionVars
  BY <1>7 DEF LinkCloses
<1>8. CASE Update
  <2>1. Silent(now) \in SUBSET NetId
    BY DEF Silent
  <2> QED
    BY <1>8, <2>1 DEF Update, SessionNext
<1>9. CASE Tick \/ UNCHANGED vars
  BY <1>9 DEF Tick, vars
<1> QED
  BY <1>1, <1>2, <1>3, <1>4, <1>5, <1>6, <1>7, <1>8, <1>9 DEF Next

(* The gate with clocks, heart beats and links implements the session        *)
(* tables: dispatch, update and reconnection change them only by the         *)
(* operations of GateSessions.                                               *)
THEOREM GateImplementsSessions == Spec => SessionSpec
<1>1. Init => SessionInit
  BY DEF Init
<1> QED
  BY <1>1, GateStepIsSessionStep, PTL DEF Spec, SessionSpec

-------------------------------------------------------------------------------
(* Type correctness. *)

BeatTypeOK ==
  /\ now \in Time
  /\ m_SystemTime \in Time
  /\ heartBeat \in [Conn -> Time]
  /\ nextHeartBeat \in Time
  /\ acceptTime \in [Conn -> Time]
  /\ lastBeat \in [Conn -> Time]

LinkTypeOK == linkOpen \in [Server -> BOOLEAN]

(* What a step of the gate does to the clock and the heart beats: a clock    *)
(* step, an accept, a heart beat or nothing.                                 *)
LEMMA GateStepKinds ==
  ASSUME [Next]_vars
  PROVE  \/ HandleAccept
         \/ UNCHANGED <<heartBeat, acceptTime, lastBeat, timeVars>>
              /\ (nextHeartBeat' = now \/ nextHeartBeat' = nextHeartBeat)
         \/ \E c \in Conn : SetHeartBeat(c) /\ isOpen[c] /\ UNCHANGED timeVars
         \/ AccountLoginBind
         \/ Update
         \/ Tick
<1>1. CASE UNCHANGED vars
  BY <1>1 DEF vars, beatVars, timeVars
<1>2. CASE HandleAcceptError
  BY <1>2 DEF HandleAcceptError
<1>3. ASSUME NEW c \in Conn, HandleReadError(c) PROVE UNCHANGED <<beatVars, timeVars>>
  BY <1>3 DEF HandleReadError
<1>4. ASSUME NEW c \in Conn, NEW pid \in HeaderId, HeartBeatReq(c, pid)
      PROVE  SetHeartBeat(c) /\ isOpen[c] /\ UNCHANGED timeVars
  BY <1>4 DEF HeartBeatReq
<1>5. ASSUME NEW c \in Conn, NEW pid \in HeaderId, GameRsp(c, pid) \/ AccountRsp(c, pid)
      PROVE  UNCHANGED <<beatVars, timeVars>>
  BY <1>5 DEF GameRsp, AccountRsp
<1>6. ASSUME NEW c \in Conn, NEW user \in Player,
             AccountReq(c, user) \/ AccountLoginRsp(c, user)
      PROVE  UNCHANGED <<beatVars, timeVars>>
  BY <1>6 DEF AccountReq, AccountLoginRsp
<1>7. AccountLoginReply => UNCHANGED <<beatVars, timeVars>>
  BY DEF AccountLoginReply
<1>8. ASSUME NEW s \in Server, LinkCloses(s) PROVE UNCHANGED <<beatVars, timeVars>>
  BY <1>8 DEF LinkCloses
<1> QED
  BY <1>1, <1>2, <1>3, <1>4, <1>5, <1>6, <1>7, <1>8 DEF Next, beatVars

LEMMA BeatTypeStep ==
  ASSUME BeatTypeOK, [Next]_vars
  PROVE  BeatTypeOK'
<1>1. CASE HandleAccept
  BY <1>1, Zenon DEF HandleAccept, BeatTypeOK, timeVars
<1>2. CASE UNCHANGED <<heartBeat, acceptTime, lastBeat, timeVars>>
           /\ (nextHeartBeat' = now \/ nextHeartBeat' = nextHeartBeat)
  BY <1>2 DEF BeatTypeOK, timeVars
<1>3. ASSUME NEW c, SetHeartBeat(c), UNCHANGED timeVars PROVE BeatTypeOK'
  BY <1>3, Zenon DEF SetHeartBeat, BeatTypeOK, timeVars
<1>4. CASE AccountLoginBind
  BY <1>4, <1>3 DEF AccountLoginBind
<1>5. CASE Update
  BY <1>5 DEF Update, BeatTypeOK, beatVars
<1>6. CASE Tick
  BY <1>6 DEF Tick, BeatTypeOK, beatVars
<1> QED
  BY <1>1, <1>2, <1>3, <1>4, <1>5, <1>6, GateStepKinds

(* The links keep their type.                                                *)
LEMMA LinkTypeStep ==
  ASSUME linkOpen \in [Server -> BOOLEAN], [Next]_vars
  PROVE  linkOpen' \in [Server -> BOOLEAN]
<1>1. CASE Update
  BY <1>1 DEF Update, CheckServerAlive
<1>2. ASSUME NEW s \in Server, LinkCloses(s) PROVE linkOpen' \in [Server -> BOOLEAN]
  BY <1>2, Zenon DEF LinkCloses
<1>3. CASE UNCHANGED linkOpen
  BY <1>3
<1> QED
  BY <1>1, <1>2, <1>3 DEF Next, vars, HandleAccept, HandleAcceptError, HandleReadError,
     HeartBeatReq, AccountReq, GameRsp, AccountRsp, AccountLoginRsp, AccountLoginBind,
     AccountLoginReply, Tick

(* TypeOK holds throughout: the gate's clocks and heart beats stay within    *)
(* the time that has passed.                                                 *)
THEOREM GateTypeCorrect == Spec => []TypeOK
<1>1. Init => BeatTypeOK /\ LinkTypeOK
  BY DEF Init, BeatTypeOK, LinkTypeOK
<1>2. BeatTypeOK /\ LinkTypeOK /\ [Next]_vars
      => BeatTypeOK' /\ LinkTypeOK'
  BY BeatTypeStep, LinkTypeStep DEF LinkTypeOK
<1>3. SessionTypeOK /\ BeatTypeOK /\ LinkTypeOK => TypeOK
  BY DEF TypeOK, BeatTypeOK, LinkTypeOK
<1> QED
  BY <1>1, <1>2, <1>3, GateImplementsSessions, SessionTypeCorrect, PTL DEF Spec

-------------------------------------------------------------------------------
(* The heart beats.  BeatInv relates the clock, the sweep's last time and    *)
(* what the connections have recorded; KnownInv says that only accepted      *)
(* connections are open, in m_ConnMap or being logged in.                    *)

KnownInv ==
  /\ \A c \in Conn : isOpen[c] => c \in Accepted
  /\ \A n \in NetId : m_ConnMap[n] # None => m_ConnMap[n] \in Accepted
  /\ login.stage = "bind" => login.conn \in Accepted

BeatInv ==
  /\ m_SystemTime <= now
  /\ now <= m_SystemTime + UpdatePeriod
  /\ \A c \in Conn : c \notin Accepted => lastBeat[c] = 0
  /\ \A c \in Conn : lastBeat[c] <= heartBeat[c] + UpdatePeriod
  /\ \A n \in NetId : m_ConnMap[n] # None =>
       \/ m_SystemTime - heartBeat[m_ConnMap[n]] <= HeartBeatLimit
       \/ acceptTime[m_ConnMap[n]] >= m_SystemTime

(* A step other than an accept only takes connections away.                  *)
OnlyKicks ==
  /\ accepted' = accepted
  /\ netId' = netId
  /\ \A n \in NetId : m_ConnMap'[n] \in {m_ConnMap[n], None}
  /\ \A c \in Conn : isOpen'[c] => isOpen[c]

(* So does sendToPlayer, whether it kicks or not.                            *)
LEMMA SendOnlyKicks ==
  ASSUME SessionTypeOK, NEW pid \in HeaderId, NEW nid \in NetId,
         SendToPlayer(pid, nid)
  PROVE  /\ \A n \in NetId : m_ConnMap'[n] \in {m_ConnMap[n], None}
         /\ \A c \in Conn : isOpen'[c] => isOpen[c]
<1> DEFINE r == Route(pid, nid)
<1>1. CASE UNCHANGED mapVars
  BY <1>1 DEF mapVars
<1>2. CASE KickConnection(r) /\ ~UNCHANGED mapVars
  <2>1. /\ m_ConnMap' = [m_ConnMap EXCEPT ![netId[r]] = None]
        /\ isOpen' = [isOpen EXCEPT ![m_ConnMap[netId[r]]] = FALSE]
    BY <1>2 DEF KickConnection
  <2> QED
    BY <2>1 DEF SessionTypeOK
<1> QED
  BY <1>1, <1>2 DEF SendToPlayer

LEMMA SessionStepKinds ==
  ASSUME SessionTypeOK, [SessionNext]_sessionVars
  PROVE  \/ Accept
         \/ /\ OnlyKicks
            /\ \/ login' = login
               \/ login'.stage # "bind"
               \/ \E n \in NetId : login'.conn = m_ConnMap[n]
<1>1. CASE LoginReply
  <2>1. login.user \in HeaderId /\ login.netId \in NetId
    BY DEF SessionTypeOK
  <2>2. login'.stage # "bind"
    BY <1>1 DEF LoginReply, NoLogin
  <2> QED
    BY <1>1, <2>1, <2>2, SendOnlyKicks DEF LoginReply, OnlyKicks
<1>2. ASSUME NEW c \in Conn, NEW pid \in HeaderId, Reply(c, pid)
      PROVE  OnlyKicks /\ login' = login
  <2>1. netId[c] \in NetId
    BY DEF SessionTypeOK
  <2> QED
    BY <1>2, <2>1, SendOnlyKicks DEF Reply, OnlyKicks
<1>3. ASSUME NEW c \in Conn, NEW user \in Player, LoginRsp(c, user)
      PROVE  OnlyKicks /\ \E n \in NetId : login'.conn = m_ConnMap[n]
  <2>1. netId[c] \in NetId /\ login'.conn = m_ConnMap[netId[c]]
    BY <1>3 DEF LoginRsp, SessionTypeOK
  <2> QED
    BY <1>3, <2>1 DEF LoginRsp, OnlyKicks, mapVars
<1>4. CASE LoginBind
  <2>1. login'.stage # "bind"
    BY <1>4 DEF LoginBind, SessionTypeOK
  <2> QED
    BY <1>4, <2>1 DEF LoginBind, OnlyKicks
<1>5. ASSUME NEW dead \in SUBSET NetId, Sweep(dead)
      PROVE  OnlyKicks /\ login' = login
  BY <1>5, Zenon DEF Sweep, KickAll, OnlyKicks
<1>6. ASSUME NEW c \in Conn, ReadError(c) PROVE OnlyKicks /\ login' = login
  BY <1>6 DEF ReadError, OnlyKicks, SessionTypeOK
<1>7. ASSUME NEW c \in Conn, NEW user \in Player, AskLogin(c, user)
      PROVE  OnlyKicks /\ login' = login
  BY <1>7 DEF AskLogin, OnlyKicks, mapVars
<1>8. CASE UNCHANGED sessionVars
  BY <1>8 DEF sessionVars, mapVars, OnlyKicks
<1> QED
  BY <1>1, <1>2, <1>3, <1>4, <1>5, <1>6, <1>7, <1>8 DEF SessionNext

(* handle_accept adds one connection to the accepted ones.                   *)
LEMMA AcceptGrows ==
  ASSUME SessionTypeOK, Accept
  PROVE  /\ accepted + 1 \in Conn
         /\ accepted + 1 \notin Accepted
         /\ Accepted' = Accepted \cup {accepted + 1}
<1>a. accepted \in Nat
  BY DEF SessionTypeOK
<1>1. accepted \in Nat /\ accepted' = accepted + 1 /\ accepted < MaxAccepts
  BY <1>a DEF Accept
<1>2. Accepted' = Accepted \cup {accepted + 1}
  BY <1>1 DEF Accepted
<1> QED
  BY <1>1, <1>2 DEF Accepted

(* Only handle_accept accepts a connection.                                  *)
LEMMA OnlyHandleAcceptAccepts ==
  ASSUME [Next]_vars, accepted' # accepted
  PROVE  HandleAccept
<1>2. UNCHANGED sessionVars => FALSE
  BY DEF sessionVars
<1>3. ASSUME NEW c \in Conn, HandleReadError(c) PROVE FALSE
  BY <1>3 DEF HandleReadError, ReadError
<1>4. ASSUME NEW c \in Conn, NEW pid \in HeaderId,
             HeartBeatReq(c, pid) \/ GameRsp(c, pid) \/ AccountRsp(c, pid)
      PROVE  FALSE
  BY <1>4 DEF HeartBeatReq, GameRsp, AccountRsp, Reply
<1>5. ASSUME NEW c \in Conn, NEW user \in Player,
             AccountReq(c, user) \/ AccountLoginRsp(c, user)
      PROVE  FALSE
  BY <1>5 DEF AccountReq, AccountLoginRsp, AskLogin, LoginRsp
<1>6. ~AccountLoginBind /\ ~AccountLoginReply /\ ~Update
  BY DEF AccountLoginBind, AccountLoginReply, Update, LoginBind, LoginReply, Sweep
<1>7. ~HandleAcceptError /\ ~Tick /\ ~UNCHANGED vars
  BY <1>2 DEF HandleAcceptError, Tick, vars
<1>8. \A s \in Server : ~LinkCloses(s)
  BY <1>2 DEF LinkCloses
<1> QED
  BY <1>3, <1>4, <1>5, <1>6, <1>7, <1>8 DEF Next

(* Only accepted connections are open, in m_ConnMap or being logged in.      *)
LEMMA KnownStep ==
  ASSUME SessionTypeOK, SessionTypeOK', KnownInv, [SessionNext]_sessionVars
  PROVE  KnownInv'
<1>1. CASE Accept
  <2> DEFINE c == accepted + 1
  <2>1. Accepted' = Accepted \cup {c} /\ c \in Conn
    BY <1>1, AcceptGrows
  <2>2. \A d \in Conn : isOpen'[d] => isOpen[d] \/ d = c
    BY <1>1 DEF Accept, SessionTypeOK
  <2>3. \A n \in NetId : m_ConnMap'[n] \in {m_ConnMap[n], c}
    BY <1>1 DEF Accept, SessionTypeOK
  <2>4. login' = login
    BY <1>1 DEF Accept
  <2> QED
    BY <2>1, <2>2, <2>3, <2>4 DEF KnownInv
<1>2. CASE /\ OnlyKicks
           /\ \/ login' = login
              \/ login'.stage # "bind"
              \/ \E n \in NetId : login'.conn = m_ConnMap[n]
  <2>1. Accepted' = Accepted
    BY <1>2 DEF OnlyKicks, Accepted
  <2> QED
    BY <1>2, <2>1 DEF OnlyKicks, KnownInv, SessionTypeOK
<1> QED
  BY <1>1, <1>2, SessionStepKinds

(* The sweep and the heart beats preserve BeatInv: the sweep leaves only     *)
(* connections heard of within HeartBeatLimit, a connection accepted since   *)
(* is excused until the next one, and m_SystemTime, which a beat records,    *)
(* is at most UpdatePeriod behind.                                           *)
LEMMA BeatStep ==
  ASSUME SessionTypeOK, BeatTypeOK, KnownInv, BeatInv, [Next]_vars
  PROVE  BeatInv'
<1>1. [SessionNext]_sessionVars
  BY GateStepIsSessionStep
<1>2. CASE HandleAccept
  <2> DEFINE c == accepted + 1
  <2>1. c \in Conn
    BY <1>2, AcceptGrows DEF HandleAccept
  <2>2. c \notin Accepted /\ Accepted' = Accepted \cup {c}
    BY <1>2, AcceptGrows DEF HandleAccept
  <2>3. /\ heartBeat' = [heartBeat EXCEPT ![c] = nextHeartBeat]
        /\ acceptTime' = [acceptTime EXCEPT ![c] = now]
        /\ UNCHANGED <<lastBeat, now, m_SystemTime>>
    BY <1>2 DEF HandleAccept, timeVars
  <2>4. \A n \in NetId : m_ConnMap'[n] \in {m_ConnMap[n], c}
    BY <1>2 DEF HandleAccept, Accept, SessionTypeOK
  <2>5. ASSUME NEW d \in Conn PROVE lastBeat'[d] <= heartBeat'[d] + UpdatePeriod
    <3>1. CASE d = c
      <4>1. lastBeat'[d] = 0 /\ heartBeat'[d] = nextHeartBeat /\ nextHeartBeat \in Time
        BY <2>1, <2>2, <2>3, <3>1 DEF BeatInv, BeatTypeOK
      <4> QED
        BY <4>1
    <3>2. CASE d # c
      <4>1. lastBeat'[d] = lastBeat[d] /\ heartBeat'[d] = heartBeat[d]
        BY <2>3, <3>2 DEF BeatTypeOK
      <4> QED
        BY <4>1 DEF BeatInv
    <3> QED
      BY <3>1, <3>2
  <2>6. ASSUME NEW n \in NetId, m_ConnMap'[n] # None
        PROVE  \/ m_SystemTime' - heartBeat'[m_ConnMap'[n]] <= HeartBeatLimit
               \/ acceptTime'[m_ConnMap'[n]] >= m_SystemTime'
    <3>1. CASE m_ConnMap'[n] = c
      BY <3>1, <2>1, <2>3 DEF BeatInv, BeatTypeOK
    <3>2. CASE m_ConnMap'[n] # c
      BY <3>2, <2>3, <2>4, <2>6 DEF BeatInv, BeatTypeOK, SessionTypeOK
    <3> QED
      BY <3>1, <3>2
  <2> QED
    BY <2>2, <2>3, <2>5, <2>6 DEF BeatInv
<1>3. CASE ~HandleAccept
  <2>0. OnlyKicks \/ Accept
    BY <1>1, SessionStepKinds
  <2>1. CASE UNCHANGED <<heartBeat, acceptTime, lastBeat, timeVars>> /\ OnlyKicks
    BY <2>1 DEF BeatInv, OnlyKicks, timeVars, Accepted
  <2>2. ASSUME NEW c \in Conn, SetHeartBeat(c), UNCHANGED timeVars, c \in Accepted,
               OnlyKicks
        PROVE  BeatInv'
    <3>1. /\ heartBeat' = [heartBeat EXCEPT ![c] = m_SystemTime]
          /\ lastBeat' = [lastBeat EXCEPT ![c] = now]
          /\ UNCHANGED <<acceptTime, now, m_SystemTime>>
      BY <2>2 DEF SetHeartBeat, timeVars
    <3>2. Accepted' = Accepted
      BY <2>2 DEF OnlyKicks, Accepted
    <3>3. \A d \in Conn : d \notin Accepted' => lastBeat'[d] = 0
      BY <2>2, <3>1, <3>2 DEF BeatInv, BeatTypeOK
    <3>4. \A d \in Conn : lastBeat'[d] <= heartBeat'[d] + UpdatePeriod
      BY <3>1 DEF BeatInv, BeatTypeOK
    <3>5. ASSUME NEW n \in NetId, m_ConnMap'[n] # None
          PROVE  \/ m_SystemTime' - heartBeat'[m_ConnMap'[n]] <= HeartBeatLimit
                 \/ acceptTime'[m_ConnMap'[n]] >= m_SystemTime'
      <4>1. m_ConnMap'[n] = m_ConnMap[n]
        BY <2>2, <3>5 DEF OnlyKicks
      <4>2. CASE m_ConnMap[n] = c
        BY <4>1, <4>2, <3>1 DEF BeatTypeOK
      <4>3. CASE m_ConnMap[n] # c
        BY <4>1, <4>3, <3>1, <3>5 DEF BeatInv, BeatTypeOK, SessionTypeOK
      <4> QED
        BY <4>2, <4>3
    <3> QED
      BY <3>1, <3>3, <3>4, <3>5 DEF BeatInv
  <2>3. CASE AccountLoginBind
    <3>1. login.conn \in Accepted /\ login.conn \in Conn
      BY <2>3 DEF AccountLoginBind, LoginBind, KnownInv, SessionTypeOK
    <3>2. OnlyKicks
      BY <2>3 DEF AccountLoginBind, LoginBind, OnlyKicks
    <3> QED
      BY <2>2, <2>3, <3>1, <3>2 DEF AccountLoginBind
  <2>4. CASE Update
    <3>1. OnlyKicks
      BY <2>4, Zenon DEF Update, Sweep, KickAll, OnlyKicks
    <3>2. m_SystemTime' = now /\ UNCHANGED <<heartBeat, acceptTime, lastBeat, now>>
      BY <2>4 DEF Update, beatVars
    <3>3. ASSUME NEW n \in NetId, m_ConnMap'[n] # None
          PROVE  now - heartBeat[m_ConnMap'[n]] <= HeartBeatLimit
      <4>1. n \notin Silent(now) /\ m_ConnMap'[n] = m_ConnMap[n]
        BY <2>4, <3>3 DEF Update, Sweep, KickAll
      <4>2. m_ConnMap[n] \in Conn
        BY <3>3, <4>1 DEF SessionTypeOK
      <4>3. heartBeat[m_ConnMap[n]] \in Int /\ now \in Int
        BY <4>2 DEF BeatTypeOK
      <4>4. ~(now - heartBeat[m_ConnMap[n]] > HeartBeatLimit)
        BY <3>3, <4>1 DEF Silent
      <4> QED
        BY <4>1, <4>3, <4>4
    <3>4. Accepted' = Accepted
      BY <3>1 DEF OnlyKicks, Accepted
    <3>t. m_SystemTime \in Int /\ now \in Int
      BY DEF BeatTypeOK
    <3>5. m_SystemTime' <= now' /\ now' <= m_SystemTime' + UpdatePeriod
      BY <3>2, <3>t
    <3>6. /\ \A c \in Conn : c \notin Accepted' => lastBeat'[c] = 0
          /\ \A c \in Conn : lastBeat'[c] <= heartBeat'[c] + UpdatePeriod
      BY <3>2, <3>4 DEF BeatInv
    <3> QED
      BY <3>2, <3>3, <3>5, <3>6 DEF BeatInv
  <2>5. CASE Tick
    <3>1. UNCHANGED <<accepted, m_ConnMap, heartBeat, acceptTime, lastBeat, m_SystemTime>>
          /\ now' = now + 1 /\ now - m_SystemTime < UpdatePeriod
      BY <2>5 DEF Tick, sessionVars, mapVars, beatVars
    <3>t. m_SystemTime \in Int /\ now \in Int
      BY DEF BeatTypeOK
    <3>i. m_SystemTime <= now
      BY DEF BeatInv
    <3>2. m_SystemTime' <= now' /\ now' <= m_SystemTime' + UpdatePeriod
      BY <3>1, <3>t, <3>i
    <3>3. Accepted' = Accepted
      BY <3>1 DEF Accepted
    <3> QED
      BY <3>1, <3>2, <3>3 DEF BeatInv
  <2>6. Accept => HandleAccept
    <3>0. accepted \in Nat
      BY DEF SessionTypeOK
    <3>1. Accept => accepted' # accepted
      BY <3>0 DEF Accept
    <3> QED
      BY <3>1, OnlyHandleAcceptAccepts
  <2> QED
    BY <1>3, <2>0, <2>1, <2>2, <2>3, <2>4, <2>5, <2>6, GateStepKinds DEF KnownInv
<1> QED
  BY <1>2, <1>3

(* What the heart beats rest on holds throughout.                            *)
THEOREM BeatInvariant == Spec => [](SessionTypeOK /\ BeatTypeOK /\ KnownInv /\ BeatInv)
<1>1. Init => BeatTypeOK /\ KnownInv /\ BeatInv
  <2>1. Init => BeatTypeOK
    <3>1. 0 \in Time
      OBVIOUS
    <3> HIDE DEF Time, Conn
    <3> QED
      BY <3>1 DEF Init, BeatTypeOK
  <2>2. Init => KnownInv
    <3>1. SessionInit => /\ \A c \in Conn : ~isOpen[c]
                         /\ \A n \in NetId : m_ConnMap[n] = None
                         /\ login.stage = "idle"
      <4> HIDE DEF Conn, NetId
      <4> QED
        BY DEF SessionInit, NoLogin
    <3> HIDE DEF Conn, NetId
    <3> QED
      BY <3>1 DEF Init, KnownInv
  <2>3. Init => BeatInv
    <3> SUFFICES ASSUME Init PROVE BeatInv
      OBVIOUS
    <3>1. \A n \in NetId : m_ConnMap[n] = None
      BY DEF Init, SessionInit
    <3>2. now = 0 /\ m_SystemTime = 0
          /\ \A c \in Conn : lastBeat[c] = 0 /\ heartBeat[c] = 0
      BY DEF Init
    <3>3. 0 <= 0 /\ 0 <= 0 + UpdatePeriod
      OBVIOUS
    <3> HIDE DEF Conn, NetId
    <3> QED
      BY <3>1, <3>2, <3>3 DEF BeatInv
  <2> QED
    BY <2>1, <2>2, <2>3
<1>2. SessionTypeOK /\ SessionTypeOK' /\ BeatTypeOK /\ KnownInv /\ BeatInv /\ [Next]_vars
      => BeatTypeOK' /\ KnownInv' /\ BeatInv'
  BY BeatTypeStep, KnownStep, BeatStep, GateStepIsSessionStep
<1> QED
  BY <1>1, <1>2, GateImplementsSessions, SessionTypeCorrect, PTL DEF Spec

(* checkHeartBeat is not late: a silent connection is out of m_ConnMap       *)
(* within HeartBeatLimit + UpdatePeriod.                                     *)
THEOREM SweepNotLate == Spec => []DeadIsKicked
<1>1. ASSUME SessionTypeOK, BeatTypeOK, BeatInv
      PROVE  DeadIsKicked
  <2> SUFFICES ASSUME NEW n \in NetId, m_ConnMap[n] # None
               PROVE  now - LastSign(m_ConnMap[n]) <= HeartBeatLimit + UpdatePeriod
    BY DEF DeadIsKicked
  <2> DEFINE c == m_ConnMap[n]
  <2>1. c \in Conn
    BY <1>1 DEF SessionTypeOK
  <2>2. heartBeat[c] \in Int /\ acceptTime[c] \in Int /\ now \in Int /\ m_SystemTime \in Int
    BY <1>1, <2>1 DEF BeatTypeOK
  <2>3. /\ now <= m_SystemTime + UpdatePeriod
        /\ \/ m_SystemTime - heartBeat[c] <= HeartBeatLimit
           \/ acceptTime[c] >= m_SystemTime
    BY <1>1 DEF BeatInv
  <2> QED
    BY <2>2, <2>3 DEF LastSign
<1> QED
  BY <1>1, BeatInvariant, PTL

(* checkHeartBeat is not early: a heart beat protects for at least           *)
(* HeartBeatLimit - UpdatePeriod seconds.                                    *)
THEOREM SweepNotEarly == Spec => HeartBeatProtects
<1> DEFINE Protects == \A c \in Conn :
      m_SystemTime' # m_SystemTime /\ InMap(c) /\ ~InMap(c)' =>
        now - lastBeat[c] > HeartBeatLimit - UpdatePeriod
<1>1. ASSUME SessionTypeOK, BeatTypeOK, BeatInv, [Next]_vars
      PROVE  Protects
  <2> SUFFICES ASSUME NEW c \in Conn, m_SystemTime' # m_SystemTime, InMap(c), ~InMap(c)'
               PROVE  now - lastBeat[c] > HeartBeatLimit - UpdatePeriod
    OBVIOUS
  <2>1. Update
    BY <1>1, GateStepKinds DEF HandleAccept, AccountLoginBind, Tick, timeVars
  <2>2. netId[c] \in Silent(now)
    BY <1>1, <2>1 DEF Update, Sweep, KickAll, InMap, SessionTypeOK
  <2>3. now - heartBeat[c] > HeartBeatLimit
    BY <2>2 DEF Silent, InMap
  <2>4. lastBeat[c] <= heartBeat[c] + UpdatePeriod
    BY <1>1 DEF BeatInv
  <2>5. lastBeat[c] \in Int /\ heartBeat[c] \in Int /\ now \in Int
    BY <1>1 DEF BeatTypeOK
  <2> QED
    BY <2>3, <2>4, <2>5
<1>2. SessionTypeOK /\ BeatTypeOK /\ BeatInv /\ [Next]_vars => [Protects]_vars
  BY <1>1
<1>3. Spec => [][Protects]_vars
  BY <1>2, BeatInvariant, PTL DEF Spec
<1> QED
  BY <1>3 DEF HeartBeatProtects
===============================================================================
