------------------------------ MODULE GateServer ------------------------------
(***************************************************************************)
(* The gate process as a whole: the session tables of GateSessions driven  *)
(* by the message dispatch of GateServer/gateHandler.cpp, the heart beats  *)
(* of the connections, the periodic update() and the links to the account  *)
(* and game servers.  Time is counted in seconds.                          *)
(*                                                                         *)
(* A link is seen here the way the gate code sees it, by is_open() of its  *)
(* socket.  A client's request to the game server only passes through the  *)
(* gate; its reply is GameRsp.  A frame that finds its link closed, or a   *)
(* write in progress, is dropped and changes nothing.                      *)
(***************************************************************************)
EXTENDS GateSessions

CONSTANTS
  HeartBeatLimit,  \* the 180 seconds of checkHeartBeat
  UpdatePeriod,    \* the 5000 ms of update
  MaxTime          \* bound: seconds a behaviour lasts

ASSUME GateAssumption ==
  /\ HeartBeatLimit \in Nat
  /\ UpdatePeriod \in Nat \ {0}
  /\ MaxTime \in Nat

Time   == 0 .. MaxTime
Server == {"account", "game"}

VARIABLES
  now,             \* boost::get_system_time()
  m_SystemTime,
  heartBeat,       \* m_HeartBeat of each connection
  nextHeartBeat,   \* m_HeartBeat of the connection waiting in async_accept
  linkOpen,        \* is_open() of m_pAccountConn and of m_pGameConn
  acceptTime,      \* history: when each connection was accepted
  lastBeat         \* history: when it last logged in or sent a heart beat

beatVars == <<heartBeat, nextHeartBeat, acceptTime, lastBeat>>
timeVars == <<now, m_SystemTime>>
vars == <<sessionVars, beatVars, timeVars, linkOpen>>

(* The type invariant of the gate. *)
TypeOK ==
  /\ SessionTypeOK
  /\ now \in Time
  /\ m_SystemTime \in Time
  /\ heartBeat \in [Conn -> Time]
  /\ nextHeartBeat \in Time
  /\ linkOpen \in [Server -> BOOLEAN]
  /\ acceptTime \in [Conn -> Time]
  /\ lastBeat \in [Conn -> Time]

(* init: the first connection waits in async_accept, both links are being    *)
(* connected (closed if the address did not resolve), and the first update   *)
(* has set m_SystemTime.                                                     *)
Init ==
  /\ SessionInit
  /\ now = 0
  /\ m_SystemTime = 0
  /\ heartBeat = [c \in Conn |-> 0]
  /\ nextHeartBeat = 0
  /\ linkOpen \in [Server -> BOOLEAN]
  /\ acceptTime = [c \in Conn |-> 0]
  /\ lastBeat = [c \in Conn |-> 0]

-------------------------------------------------------------------------------
(* handle_accept.  A TcpConnection sets m_HeartBeat when it is constructed,  *)
(* that is when the accept before its own completed.                         *)
HandleAccept ==
  /\ Accept
  /\ heartBeat' = [heartBeat EXCEPT ![accepted + 1] = nextHeartBeat]
  /\ acceptTime' = [acceptTime EXCEPT ![accepted + 1] = now]
  /\ nextHeartBeat' = now
  /\ UNCHANGED <<lastBeat, timeVars, linkOpen>>

(* handle_accept with an error: the waiting connection is replaced.          *)
HandleAcceptError ==
  /\ nextHeartBeat' = now
  /\ UNCHANGED <<sessionVars, heartBeat, acceptTime, lastBeat, timeVars, linkOpen>>

(* handle_read that also drops the connection from m_ConnMap. *)
HandleReadErrorErases(c) ==
  /\ isOpen[c]
  /\ isOpen' = [isOpen EXCEPT ![c] = FALSE]
  /\ m_ConnMap' = [m_ConnMap EXCEPT ![netId[c]] = None]
  /\ UNCHANGED <<accepted, netId, playerId, asked, m_PlayerMap, m_nConnCount,
                 m_nNetIdHolder, login, lateBound, beatVars, timeVars, linkOpen>>

HandleReadError(c) ==
  /\ ReadError(c)
  /\ UNCHANGED <<beatVars, timeVars, linkOpen>>

(* setHeartBeat forgotten. *)
BeatNotRecorded(c) ==
  /\ heartBeat' = heartBeat
  /\ lastBeat' = [lastBeat EXCEPT ![c] = now]
  /\ UNCHANGED <<nextHeartBeat, acceptTime>>

(* setHeartBeat(m_SystemTime) of connection c.                               *)
SetHeartBeat(c) ==
  /\ heartBeat' = [heartBeat EXCEPT ![c] = m_SystemTime]
  /\ lastBeat' = [lastBeat EXCEPT ![c] = now]
  /\ UNCHANGED <<nextHeartBeat, acceptTime>>

(* handleClientMsg, PLAYER_HEART_BEAT_REQ, and its reply.                    *)
HeartBeatReq(c, pid) ==
  /\ isOpen[c]
  /\ SetHeartBeat(c)
  /\ Reply(c, pid)
  /\ UNCHANGED <<timeVars, linkOpen>>

(* handleClientMsg, account range.                                           *)
AccountReq(c, user) ==
  /\ linkOpen["account"]
  /\ AskLogin(c, user)
  /\ UNCHANGED <<beatVars, timeVars, linkOpen>>

(* handleServerMsg, game range.                                              *)
GameRsp(c, pid) ==
  /\ linkOpen["game"]
  /\ Reply(c, pid)
  /\ UNCHANGED <<beatVars, timeVars, linkOpen>>

(* handleServerMsg, account range: anything but a successful login.          *)
AccountRsp(c, pid) ==
  /\ linkOpen["account"]
  /\ login.stage = "idle"
  /\ Reply(c, pid)
  /\ UNCHANGED <<beatVars, timeVars, linkOpen>>

(* handleServerMsg, account range: a successful login, in three steps.       *)
AccountLoginRsp(c, user) ==
  /\ linkOpen["account"]
  /\ LoginRsp(c, user)
  /\ UNCHANGED <<beatVars, timeVars, linkOpen>>

AccountLoginBind ==
  /\ LoginBind
  /\ SetHeartBeat(login.conn)
  /\ UNCHANGED <<timeVars, linkOpen>>

AccountLoginReply ==
  /\ LoginReply
  /\ UNCHANGED <<beatVars, timeVars, linkOpen>>

(* handle_connect or handle_read of a link reports an error.                 *)
LinkCloses(s) ==
  /\ linkOpen[s]
  /\ linkOpen' = [linkOpen EXCEPT ![s] = FALSE]
  /\ UNCHANGED <<sessionVars, beatVars, timeVars>>

-------------------------------------------------------------------------------
(* checkServerAlive: a closed link gets a new connection, whose socket opens *)
(* unless the address cannot be resolved.                                    *)
CheckServerAlive ==
  linkOpen' \in {f \in [Server -> BOOLEAN] : \A s \in Server : linkOpen[s] => f[s]}

(* checkHeartBeat that looks only at connections with a player. *)
SilentLoggedIn(t) ==
  {n \in NetId : /\ m_ConnMap[n] # None
                 /\ playerId[m_ConnMap[n]] # NoPlayer
                 /\ t - heartBeat[m_ConnMap[n]] > HeartBeatLimit}

(* The netIds checkHeartBeat kicks at time t.                                *)
Silent(t) ==
  {n \in NetId : m_ConnMap[n] # None /\ t - heartBeat[m_ConnMap[n]] > HeartBeatLimit}

(* update, when UpdatePeriod has passed since m_SystemTime.                  *)
Update ==
  /\ now - m_SystemTime >= UpdatePeriod
  /\ m_SystemTime' = now
  /\ CheckServerAlive
  /\ Sweep(Silent(now))
  /\ UNCHANGED <<beatVars, now>>

(* A second passes.  update reposts itself, so it runs as soon as it is due. *)
Tick ==
  /\ now < MaxTime
  /\ now - m_SystemTime < UpdatePeriod
  /\ now' = now + 1
  /\ UNCHANGED <<sessionVars, beatVars, m_SystemTime, linkOpen>>

Next ==
  \/ HandleAccept
  \/ HandleAcceptError
  \/ \E c \in Conn : HandleReadError(c)
  \/ \E c \in Conn, pid \in HeaderId : HeartBeatReq(c, pid)
  \/ \E c \in Conn, user \in Player : AccountReq(c, user)
  \/ \E c \in Conn, pid \in HeaderId : GameRsp(c, pid)
  \/ \E c \in Conn, pid \in HeaderId : AccountRsp(c, pid)
  \/ \E c \in Conn, user \in Player : AccountLoginRsp(c, user)
  \/ AccountLoginBind
  \/ AccountLoginReply
  \/ \E s \in Server : LinkCloses(s)
  \/ Update
  \/ Tick

Spec == Init /\ [][Next]_vars

-------------------------------------------------------------------------------
(* When connection c last gave a sign of life the gate recorded.             *)
LastSign(c) ==
  IF heartBeat[c] > acceptTime[c] THEN heartBeat[c] ELSE acceptTime[c]

(* checkHeartBeat catches up with every silent connection: none stays in     *)
(* m_ConnMap longer than HeartBeatLimit + UpdatePeriod after it was accepted *)
(* or last recorded a heart beat (gateServer.cpp:283-315).                   *)
DeadIsKicked ==
  \A n \in NetId : m_ConnMap[n] # None =>
    now - LastSign(m_ConnMap[n]) <= HeartBeatLimit + UpdatePeriod

(* A connection that has logged in or sent a heart beat survives the sweep   *)
(* for HeartBeatLimit - UpdatePeriod seconds from then, although the beat is *)
(* recorded as m_SystemTime, which lags behind the clock                     *)
(* (gateHandler.cpp:81, gateServer.cpp:239, 309).                            *)
HeartBeatProtects ==
  [][\A c \in Conn :
       m_SystemTime' # m_SystemTime /\ InMap(c) /\ ~InMap(c)' =>
         now - lastBeat[c] > HeartBeatLimit - UpdatePeriod]_vars
===============================================================================
