------------------------------ MODULE GameServer ------------------------------
(***************************************************************************)
(* The game server (Mongo/gameServer.cpp, gameHandler.cpp, playerMgr.cpp,  *)
(* mongoMgr.cpp): requests from the gate wait in m_MsgQueue, update() takes *)
(* one at a time, PlayerMgr answers it from its cache and from mongod, and *)
(* the reply goes to the gate connection of that moment.                   *)
(*                                                                         *)
(* One thread runs the handlers; main() calls connectDB only after it has  *)
(* started that thread.  A call to mongod fails before connectDB (or, in a *)
(* build without assertions, ends the process: Restart), and for good once *)
(* the connection has failed; a save is not acknowledged and its result is *)
(* ignored.                                                                *)
(***************************************************************************)
EXTENDS Integers, Sequences

CONSTANTS
  Player, Nick,
  NoRole,        \* no document for the player
  Tighten,       \* what is left of a nickname behind HelpFunctions::tighten
  MaxRequests    \* bound: requests that reach the server

ASSUME GameAssumption ==
  /\ NoRole \notin Nick
  /\ Tighten \in [Nick -> Nick]
  /\ \A n \in Nick : Tighten[Tighten[n]] = Tighten[n]
  /\ MaxRequests \in Nat

VARIABLES
  m_MsgQueue,
  m_PlayerInfoMap,
  players,       \* the player collection of mongod
  m_MongoConn,   \* "none" before connectDB, then "ok" or "failed"
  m_GateConn,    \* "none", "open", "writing" or "closed"
  received,      \* history: requests pushed so far ...
  done,          \* ... and those popped, or lost with the process
  settled,       \* history: players this process has looked up or stored
  unsaved,       \* history: players whose last save was lost
  assured,       \* history: players told by this process that they have a role
  rsp            \* history: the last reply

dataVars == <<m_PlayerInfoMap, players, m_MongoConn, settled, unsaved>>
vars == <<m_MsgQueue, m_GateConn, received, done, assured, rsp, dataVars>>

Request ==
  [proto : {"create"}, player : Player, nick : Nick]
    \cup [proto : {"enter", "bad"}, player : Player]

Role == Nick \cup {NoRole}

(* The type invariant of the game server. *)
TypeOK ==
  /\ m_MsgQueue \in Seq(Request)
  /\ m_PlayerInfoMap \in [Player -> Role]
  /\ players \in [Player -> Role]
  /\ m_MongoConn \in {"none", "ok", "failed"}
  /\ m_GateConn \in {"none", "open", "writing", "closed"}
  /\ received \in 0 .. MaxRequests
  /\ done \in 0 .. MaxRequests
  /\ settled \in SUBSET Player
  /\ unsaved \in SUBSET Player
  /\ assured \in SUBSET Player

Init ==
  /\ m_MsgQueue = <<>>
  /\ m_PlayerInfoMap = [p \in Player |-> NoRole]
  /\ players = [p \in Player |-> NoRole]
  /\ m_MongoConn = "none"
  /\ m_GateConn = "none"
  /\ received = 0
  /\ done = 0
  /\ settled = {}
  /\ unsaved = {}
  /\ assured = {}
  /\ rsp = [proto |-> "none"]

-------------------------------------------------------------------------------
(* savePlayer without tighten. *)
SavePlayerRaw(p, n) ==
  /\ m_MongoConn = "ok"
  /\ players' = [players EXCEPT ![p] = n]
  /\ settled' = settled \cup {p}
  /\ UNCHANGED <<m_MongoConn, unsaved>>

(* savePlayer: either mongod gets the document, or it is lost with the       *)
(* connection, which from then on has failed.                                *)
SavePlayer(p, n) ==
  \/ /\ m_MongoConn = "ok"
     /\ players' = [players EXCEPT ![p] = Tighten[n]]
     /\ settled' = settled \cup {p}
     /\ unsaved' = unsaved \ {p}
     /\ UNCHANGED m_MongoConn
  \/ /\ unsaved' = unsaved \cup {p}
     /\ m_MongoConn' = IF m_MongoConn = "ok" THEN "failed" ELSE m_MongoConn
     /\ UNCHANGED <<players, settled>>

(* newPlayer that does not look whether the player is there already. *)
NewPlayerAgain(p, n) ==
  /\ m_PlayerInfoMap' = [m_PlayerInfoMap EXCEPT ![p] = n]
  /\ SavePlayer(p, n)

(* newPlayer: refused if the player is in the cache.  m_NickNameMap is never *)
(* filled, so a nickname is never found there.                               *)
NewPlayer(p, n) ==
  \/ /\ m_PlayerInfoMap[p] # NoRole
     /\ UNCHANGED dataVars
  \/ /\ m_PlayerInfoMap[p] = NoRole
     /\ m_PlayerInfoMap' = [m_PlayerInfoMap EXCEPT ![p] = n]
     /\ SavePlayer(p, n)

(* findPlayer that does not put the document into the cache. *)
FindJsonNotKept(p) ==
  /\ settled' = IF m_MongoConn = "ok" THEN settled \cup {p} ELSE settled
  /\ UNCHANGED <<m_PlayerInfoMap, players, m_MongoConn, unsaved>>

(* findPlayer past the cache: the document is put into the cache; a call     *)
(* that fails reads as "no such player".                                     *)
FindJson(p) ==
  \/ /\ m_MongoConn = "ok"
     /\ m_PlayerInfoMap' = [m_PlayerInfoMap EXCEPT ![p] = players[p]]
     /\ settled' = settled \cup {p}
     /\ UNCHANGED <<players, m_MongoConn, unsaved>>
  \/ /\ m_MongoConn' \in {m_MongoConn, IF m_MongoConn = "ok" THEN "failed" ELSE m_MongoConn}
     /\ UNCHANGED <<m_PlayerInfoMap, players, settled, unsaved>>

(* findPlayer that asks mongod first. *)
FindPlayerUncached(p) == FindJson(p)

FindPlayer(p) ==
  \/ /\ m_PlayerInfoMap[p] # NoRole
     /\ UNCHANGED dataVars
  \/ /\ m_PlayerInfoMap[p] = NoRole
     /\ FindJson(p)

(* createRoleReq reports success whatever newPlayer returned.                *)
CreateRoleReq(req) ==
  /\ NewPlayer(req.player, req.nick)
  /\ rsp' = [proto |-> "create", player |-> req.player, code |-> 0]
  /\ assured' = assured \cup {req.player}

EnterGameReq(req) ==
  /\ FindPlayer(req.player)
  /\ rsp' = [proto |-> "enter", player |-> req.player,
              role |-> m_PlayerInfoMap'[req.player],
              code |-> IF m_PlayerInfoMap'[req.player] = NoRole THEN 1 ELSE 0]
  /\ assured' = IF rsp'.code = 0 THEN assured \cup {req.player} ELSE assured

(* runFuncHandler of a request that does not parse or has no handler, or     *)
(* whose handler returned false: the reply stays a blank frame.              *)
BadReq(req) ==
  /\ rsp' = [proto |-> "blank"]
  /\ UNCHANGED <<assured, dataVars>>

RunFuncHandler(req) ==
  \/ req.proto = "create" /\ CreateRoleReq(req)
  \/ req.proto = "enter" /\ EnterGameReq(req)
  \/ req.proto = "bad" /\ BadReq(req)

(* m_GateConn->sendMessage: the reply is dropped unless the socket is open   *)
(* and no write is in progress.                                              *)
SendMessage ==
  m_GateConn' = IF m_GateConn = "open" THEN "writing" ELSE m_GateConn

(* runMessage that keeps the request when its reply cannot be sent. *)
RunMessageRetries ==
  /\ m_MsgQueue # <<>>
  /\ RunFuncHandler(Head(m_MsgQueue))
  /\ SendMessage
  /\ IF m_GateConn = "open"
     THEN m_MsgQueue' = Tail(m_MsgQueue) /\ done' = done + 1
     ELSE UNCHANGED <<m_MsgQueue, done>>
  /\ UNCHANGED received

(* runMessage: the front request is handled and popped, its reply sent if    *)
(* that is possible.                                                         *)
RunMessage ==
  /\ m_MsgQueue # <<>>
  /\ RunFuncHandler(Head(m_MsgQueue))
  /\ SendMessage
  /\ m_MsgQueue' = Tail(m_MsgQueue)
  /\ done' = done + 1
  /\ UNCHANGED received

(* update() with something to do; it posts itself again each time.           *)
Update == RunMessage

(* GameHandler::onRecv: a request in the game's range of protocols is        *)
(* pushed; the old connection may still deliver after the gate has opened a  *)
(* new one.                                                                  *)
OnRecv(req) ==
  /\ m_GateConn # "none"
  /\ received < MaxRequests
  /\ m_MsgQueue' = Append(m_MsgQueue, req)
  /\ received' = received + 1
  /\ UNCHANGED <<m_GateConn, done, assured, rsp, dataVars>>

(* handle_accept of the gate: its connection replaces the one before.        *)
HandleAccept ==
  /\ m_GateConn' = "open"
  /\ UNCHANGED <<m_MsgQueue, received, done, assured, rsp, dataVars>>

(* TcpConnection::handle_write: the connection is ready for the next reply.  *)
HandleWrite ==
  /\ m_GateConn = "writing"
  /\ m_GateConn' = "open"
  /\ UNCHANGED <<m_MsgQueue, received, done, assured, rsp, dataVars>>

(* TcpConnection::handle_read fails and closes the socket.                   *)
GateReadError ==
  /\ m_GateConn \in {"open", "writing"}
  /\ m_GateConn' = "closed"
  /\ UNCHANGED <<m_MsgQueue, received, done, assured, rsp, dataVars>>

(* connectDB, called by main() while the server is running already.          *)
ConnectDB ==
  /\ m_MongoConn = "none"
  /\ m_MongoConn' \in {"ok", "failed"}
  /\ UNCHANGED <<m_MsgQueue, m_GateConn, received, done, assured, rsp>>
  /\ UNCHANGED <<m_PlayerInfoMap, players, settled, unsaved>>

(* The process stops, or crashes, and is started again: queue and cache are  *)
(* gone.                                                                     *)
Restart ==
  /\ m_MsgQueue' = <<>>
  /\ m_PlayerInfoMap' = [p \in Player |-> NoRole]
  /\ m_MongoConn' = "none"
  /\ m_GateConn' = "none"
  /\ done' = received
  /\ settled' = {}
  /\ unsaved' = {}
  /\ assured' = {}
  /\ rsp' = [proto |-> "none"]
  /\ UNCHANGED <<players, received>>

Next ==
  \/ Update
  \/ \E req \in Request : OnRecv(req)
  \/ HandleAccept
  \/ HandleWrite
  \/ GateReadError
  \/ ConnectDB
  \/ Restart

(* update() posts itself to the io_service, which runs what was posted.      *)
Fairness == WF_vars(Update)

Spec == Init /\ [][Next]_vars /\ Fairness

-------------------------------------------------------------------------------
R == INSTANCE Roles WITH role <- m_PlayerInfoMap, kept <- players

(* The game server implements Roles: with requests queued, replies dropped,  *)
(* saves lost and finds failing, a player's role is set once per life of the *)
(* process and mongod only ever holds roles that were given                  *)
(* (playerMgr.cpp:32-78).                                                    *)
RolesSpec == R!RolesSpec

(* What a player is shown is what the next life of the process will find,    *)
(* unless the save was lost (playerMgr.cpp:49-50, 62-72, mongoMgr.cpp:41).   *)
CacheIsStored ==
  \A p \in Player :
    m_PlayerInfoMap[p] # NoRole /\ p \notin unsaved =>
      players[p] = Tighten[m_PlayerInfoMap[p]]

(* A role in mongod is not replaced once this process has stored it or found *)
(* it there, however often the client repeats its requests and whatever      *)
(* fails then: only a create request for a role of an earlier life that was  *)
(* not looked up before, or whose lookup failed, replaces it                 *)
(* (playerMgr.cpp:34-38, 62-72, 119).                                        *)
StoredRoleStays ==
  [][\A p \in settled :
       p \in settled' /\ players[p] # NoRole => players'[p] = players[p]]_vars

(* A player who was told of a role, or that it was created, is not told      *)
(* later in the same life of the process that there is none, even if the     *)
(* save was lost and mongod is gone (playerMgr.cpp:49, 71, 119-137).         *)
AnswersAgree ==
  rsp.proto = "enter" => (rsp.code = 1 => rsp.player \notin assured)

(* A request in m_MsgQueue is handled, or the process ends: a gate           *)
(* connection that is closed or busy does not hold the queue up              *)
(* (gameServer.cpp:110-125).                                                 *)
RequestHandled ==
  \A i \in 1 .. MaxRequests : (received >= i) ~> (done >= i)
===============================================================================
