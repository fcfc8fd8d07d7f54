----------------------------- MODULE GateSessions -----------------------------
(***************************************************************************)
(* The session tables of the gate process (GateServer/gateServer.cpp):     *)
(* m_ConnMap (netId -> connection), m_PlayerMap (playerId -> connection),  *)
(* and the operations that change them: accept, login, send and kick.      *)
(* Clocks and backend links are added by module GateServer.                *)
(*                                                                         *)
(* Connection objects are named 1, 2, 3, ... in the order in which they    *)
(* are accepted; None stands for map::end().                               *)
(*                                                                         *)
(* Replies in flight.  Only a login reply changes the tables, and it names *)
(* the connection by netId and the player by the playerId of the account.  *)
(* asked[c] holds the players connection c has requested a login for; it   *)
(* may have sent each request any number of times, so a reply to one of    *)
(* them may arrive at any later time, before or after c is gone.           *)
(*                                                                         *)
(* Two threads run the gate's handlers (HttpServer::run and TcpServer::run *)
(* each call core.run).  A handler is one step, with one exception:        *)
(* onPlayerLogin finds the connection in m_ConnMap and then binds it to    *)
(* the player without holding mtx, so a kick by the other thread may come  *)
(* between the two: they are the steps LoginRsp and LoginBind, and the     *)
(* reply sent afterwards is the step LoginReply.  The account connection's *)
(* read handler is busy meanwhile, so only one login is under way.         *)
(***************************************************************************)
EXTENDS Integers, FiniteSets

CONSTANTS
  Player,          \* playerIds the account server hands out
  MaxNetId,        \* MAX_NET_ID: netIds are 0 .. MaxNetId - 1
  MaxAccepts       \* bound: connections accepted in a behaviour

ASSUME SessionAssumption ==
  /\ Player \subseteq Nat \ {0}
  /\ MaxNetId \in Nat \ {0}
  /\ MaxAccepts \in Nat

None     == 0                      \* no connection, map::end()
NoPlayer == 0                      \* m_nPlayerId of a fresh TcpConnection
Conn     == 1 .. MaxAccepts
NetId    == 0 .. MaxNetId - 1
HeaderId == Player \cup {NoPlayer} \* playerId field of a frame

VARIABLES
  accepted,        \* connections accepted so far: 1 .. accepted exist
  netId,           \* m_nNetId of each connection
  playerId,        \* m_nPlayerId of each connection
  isOpen,          \* m_Socket.is_open() of each connection
  asked,           \* players each connection has requested a login for
  m_ConnMap,
  m_PlayerMap,
  m_nConnCount,
  m_nNetIdHolder,
  login,           \* the successful login reply being handled
  lateBound        \* history: connections bound to a player after their kick

mapVars == <<m_ConnMap, m_PlayerMap, m_nConnCount, isOpen>>
sessionVars == <<accepted, netId, playerId, asked, mapVars, m_nNetIdHolder,
                 login, lateBound>>

NoLogin == [stage |-> "idle", conn |-> None, user |-> NoPlayer, netId |-> 0]

Accepted == 1 .. accepted
InMap(c) == m_ConnMap[netId[c]] = c

(* The type invariant of the tables. *)
SessionTypeOK ==
  /\ accepted \in 0 .. MaxAccepts
  /\ netId \in [Conn -> NetId]
  /\ playerId \in [Conn -> HeaderId]
  /\ isOpen \in [Conn -> BOOLEAN]
  /\ asked \in [Conn -> SUBSET Player]
  /\ m_ConnMap \in [NetId -> Conn \cup {None}]
  /\ m_PlayerMap \in [Player -> Conn \cup {None}]
  /\ m_nConnCount \in Int
  /\ m_nNetIdHolder \in NetId
  /\ login \in [stage : {"idle", "bind", "reply"}, conn : Conn \cup {None},
                user : HeaderId, netId : NetId]
  /\ login.stage = "bind" => login.conn # None
  /\ lateBound \in SUBSET Conn

(* init: the tables are empty; fields of connections not yet accepted are    *)
(* filler.                                                                   *)
SessionInit ==
  /\ accepted = 0
  /\ netId = [c \in Conn |-> 0]
  /\ playerId = [c \in Conn |-> NoPlayer]
  /\ isOpen = [c \in Conn |-> FALSE]
  /\ asked = [c \in Conn |-> {}]
  /\ m_ConnMap = [n \in NetId |-> None]
  /\ m_PlayerMap = [p \in Player |-> None]
  /\ m_nConnCount = 0
  /\ m_nNetIdHolder = 0
  /\ login = NoLogin
  /\ lateBound = {}

-------------------------------------------------------------------------------
(* Kicking.  KickPlayer(pid, nid) is m_PlayerMap after kickPlayer(pid, nid):  *)
(* the entry goes only if its connection carries the netId being kicked.     *)

(* kickPlayer left out. *)
KickPlayerForgotten(pid, nid) == m_PlayerMap

(* kickPlayer without its comparison of netIds. *)
KickPlayerAnyConn(pid, nid) ==
  [p \in Player |-> IF p = pid THEN None ELSE m_PlayerMap[p]]

KickPlayer(pid, nid) ==
  [p \in Player |->
     IF p = pid /\ m_PlayerMap[p] # None /\ netId[m_PlayerMap[p]] = nid
     THEN None ELSE m_PlayerMap[p]]

(* kickConnection that counts before it looks the netId up. *)
KickConnectionAlwaysCounts(c) ==
  LET n == netId[c] IN
  /\ m_nConnCount' = m_nConnCount - 1
  /\ IF m_ConnMap[n] = None
     THEN UNCHANGED <<m_ConnMap, m_PlayerMap, isOpen>>
     ELSE /\ m_ConnMap' = [m_ConnMap EXCEPT ![n] = None]
          /\ m_PlayerMap' = KickPlayer(playerId[c], n)
          /\ isOpen' = [isOpen EXCEPT ![m_ConnMap[n]] = FALSE]

(* kickConnection(c): whatever m_ConnMap holds under c's netId is erased and *)
(* stopped; nothing happens when the netId is not in the map.                *)
KickConnection(c) ==
  LET n == netId[c] IN
  IF m_ConnMap[n] = None
  THEN UNCHANGED mapVars
  ELSE /\ m_ConnMap' = [m_ConnMap EXCEPT ![n] = None]
       /\ m_nConnCount' = m_nConnCount - 1
       /\ m_PlayerMap' = KickPlayer(playerId[c], n)
       /\ isOpen' = [isOpen EXCEPT ![m_ConnMap[n]] = FALSE]

(* checkHeartBeat whose kicks leave the sockets open. *)
KickAllNoStop(dead) ==
  /\ m_ConnMap' = [n \in NetId |-> IF n \in dead THEN None ELSE m_ConnMap[n]]
  /\ m_nConnCount' = m_nConnCount - Cardinality(dead)
  /\ m_PlayerMap' = [p \in Player |->
       IF \E n \in dead : KickPlayer(playerId[m_ConnMap[n]], n)[p] # m_PlayerMap[p]
       THEN None ELSE m_PlayerMap[p]]
  /\ UNCHANGED isOpen

(* checkHeartBeat: the loop over m_ConnMap kicks the connections under the   *)
(* netIds dead.  Each is the map's entry for its own netId, so the kicks do  *)
(* not interfere and are written as one update.                              *)
KickAll(dead) ==
  /\ m_ConnMap' = [n \in NetId |-> IF n \in dead THEN None ELSE m_ConnMap[n]]
  /\ m_nConnCount' = m_nConnCount - Cardinality(dead)
  /\ m_PlayerMap' = [p \in Player |->
       IF \E n \in dead : KickPlayer(playerId[m_ConnMap[n]], n)[p] # m_PlayerMap[p]
       THEN None ELSE m_PlayerMap[p]]
  /\ isOpen' = [c \in Conn |-> isOpen[c] /\ ~\E n \in dead : m_ConnMap[n] = c]

(* sendToPlayer: by playerId if that player has an entry, else by netId.     *)
Route(pid, nid) ==
  IF pid # NoPlayer /\ m_PlayerMap[pid] # None
  THEN m_PlayerMap[pid] ELSE m_ConnMap[nid]

(* The rest of sendToPlayer: a connection whose socket is closed is kicked;  *)
(* what is written to an open one leaves the tables alone.                   *)
SendToPlayer(pid, nid) ==
  LET c == Route(pid, nid) IN
  IF c # None /\ ~isOpen[c] THEN KickConnection(c) ELSE UNCHANGED mapVars

-------------------------------------------------------------------------------
(* m_nNetIdHolder that is not moved on. *)
NextNetIdSame(n) == n

NextNetId(n) == (n + 1) % MaxNetId

(* handle_accept gives the connection the next netId and counts it.          *)
(* map::insert keeps an entry that is already there.                         *)
Accept ==
  /\ accepted < MaxAccepts
  /\ LET c == accepted + 1 IN
     /\ accepted' = c
     /\ netId' = [netId EXCEPT ![c] = m_nNetIdHolder]
     /\ isOpen' = [isOpen EXCEPT ![c] = TRUE]
     /\ m_ConnMap' = [m_ConnMap EXCEPT ![m_nNetIdHolder] =
                        IF @ = None THEN c ELSE @]
  /\ m_nNetIdHolder' = NextNetId(m_nNetIdHolder)
  /\ m_nConnCount' = m_nConnCount + 1
  /\ UNCHANGED <<m_PlayerMap, playerId, asked, login, lateBound>>

(* TcpConnection::handle_read with an error: the socket is closed, the       *)
(* tables are not told.                                                      *)
ReadError(c) ==
  /\ isOpen[c]
  /\ isOpen' = [isOpen EXCEPT ![c] = FALSE]
  /\ UNCHANGED <<accepted, netId, playerId, asked, m_ConnMap, m_PlayerMap,
                 m_nConnCount, m_nNetIdHolder, login, lateBound>>

(* handleClientMsg, account range: the request for user is forwarded.        *)
AskLogin(c, user) ==
  /\ isOpen[c]
  /\ asked' = [asked EXCEPT ![c] = @ \cup {user}]
  /\ UNCHANGED <<accepted, netId, playerId, mapVars, m_nNetIdHolder, login,
                 lateBound>>

(* A frame for playerId pid and connection c's netId goes to a client: the   *)
(* heart-beat reply, a game reply or an account reply other than a           *)
(* successful login.                                                         *)
Reply(c, pid) ==
  /\ c \in Accepted
  /\ SendToPlayer(pid, netId[c])
  /\ UNCHANGED <<accepted, netId, playerId, asked, m_nNetIdHolder, login,
                 lateBound>>

(* handleServerMsg, PLAYER_LOGIN_RSP with errorcode 0, up to the lookup of   *)
(* m_ConnMap in onPlayerLogin: the reply to a request that connection c made *)
(* for user.                                                                 *)
LoginRsp(c, user) ==
  LET n == netId[c]
      bound == m_PlayerMap[user]
      online == bound # None /\ netId[bound] = n
  IN /\ user \in asked[c]
     /\ login.stage = "idle"
     /\ login' = [stage |-> IF online \/ m_ConnMap[n] = None THEN "reply" ELSE "bind",
                  conn |-> m_ConnMap[n], user |-> user, netId |-> n]
     /\ UNCHANGED <<accepted, netId, playerId, asked, mapVars, m_nNetIdHolder,
                    lateBound>>

(* The rest of onPlayerLogin.  map::insert keeps an entry already there.     *)
LoginBind ==
  LET c == login.conn
      p == login.user
  IN /\ login.stage = "bind"
     /\ playerId' = [playerId EXCEPT ![c] = p]
     /\ m_PlayerMap' = [m_PlayerMap EXCEPT ![p] = IF @ = None THEN c ELSE @]
     /\ login' = [login EXCEPT !.stage = "reply"]
     /\ lateBound' = IF InMap(c) THEN lateBound ELSE lateBound \cup {c}
     /\ UNCHANGED <<accepted, netId, asked, m_ConnMap, m_nConnCount, isOpen,
                    m_nNetIdHolder>>

(* handleServerMsg after onPlayerLogin: the reply carries the playerId.      *)
LoginReply ==
  /\ login.stage = "reply"
  /\ SendToPlayer(login.user, login.netId)
  /\ login' = NoLogin
  /\ UNCHANGED <<accepted, netId, playerId, asked, m_nNetIdHolder, lateBound>>

(* checkHeartBeat finds the connections under the netIds dead silent.        *)
Sweep(dead) ==
  /\ \A n \in dead : m_ConnMap[n] # None
  /\ KickAll(dead)
  /\ UNCHANGED <<accepted, netId, playerId, asked, m_nNetIdHolder, login,
                 lateBound>>

SessionNext ==
  \/ Accept
  \/ \E c \in Conn : ReadError(c)
  \/ \E c \in Conn, user \in Player : AskLogin(c, user)
  \/ \E c \in Conn, pid \in HeaderId : Reply(c, pid)
  \/ \E c \in Conn, user \in Player : LoginRsp(c, user)
  \/ LoginBind
  \/ LoginReply
  \/ \E dead \in SUBSET NetId : Sweep(dead)

SessionSpec == SessionInit /\ [][SessionNext]_sessionVars

-------------------------------------------------------------------------------
(* Properties.  NoWrap: netIds are not reused.  MAX_NET_ID is 2^31 - 1, so a  *)
(* gate reuses one only after that many accepts.                             *)
NoWrap == MaxAccepts <= MaxNetId

(* m_nConnCount is the size of m_ConnMap: accept, kick and the heart-beat     *)
(* sweep change the two together (gateServer.cpp:124-127, 271-272).          *)
ConnCountExact ==
  NoWrap => m_nConnCount = Cardinality({n \in NetId : m_ConnMap[n] # None})

(* No connection leaks: one whose socket is open is in m_ConnMap under its   *)
(* own netId, where checkHeartBeat will find it, whatever interleaving of    *)
(* accepts, kicks and logins came before (gateServer.cpp:106-132, 257-281).  *)
OpenConnTracked ==
  NoWrap => \A c \in Conn : isOpen[c] => InMap(c)

(* sendToPlayer hands a frame only to the connection whose netId it carries  *)
(* or to one that asked to log in as the frame's player, although login      *)
(* replies name their connection by netId alone and may arrive after it is   *)
(* gone (gateServer.cpp:175-243).                                            *)
FramesReachOwner ==
  NoWrap => \A pid \in HeaderId, nid \in NetId :
    LET c == Route(pid, nid) IN
    c # None => netId[c] = nid \/ pid \in asked[c]

(* kickPlayer: a player's entry disappears only in the step that stops the   *)
(* connection it points to; kicking a second connection logged in as the     *)
(* same player leaves the first one's entry alone (gateServer.cpp:245-281).  *)
EntryDiesWithItsConn ==
  [][NoWrap => \A p \in Player, c \in Conn :
       m_PlayerMap[p] = c /\ m_PlayerMap'[p] # c =>
         /\ m_PlayerMap'[p] = None
         /\ InMap(c)
         /\ ~InMap(c)'
         /\ ~isOpen'[c]]_sessionVars

(* The only ways to an entry of m_PlayerMap whose connection is gone from    *)
(* m_ConnMap: the connection later logged in as another player (kickPlayer   *)
(* erases only the last one), or it was kicked between the two halves of     *)
(* onPlayerLogin (gateServer.cpp:229-240, 273-274).                          *)
StaleEntryExplained ==
  NoWrap => \A p \in Player :
    LET c == m_PlayerMap[p] IN
    c # None /\ ~InMap(c) => c \in lateBound \/ playerId[c] \in Player \ {p}

(* sendToPlayer kicks only what it found closed: a connection that is open   *)
(* and in m_ConnMap stays there.  gateServer.cpp:271 notes that              *)
(* kickConnection should compare the connection it is given with the one it  *)
(* erases; this is what that comparison would secure when netIds come round  *)
(* again.                                                                    *)
SendKicksOnlyClosed ==
  [][LoginReply \/ (\E c \in Conn, pid \in HeaderId : Reply(c, pid)) =>
       \A c \in Conn : isOpen[c] /\ InMap(c) => isOpen'[c] /\ InMap(c)']_sessionVars
===============================================================================
