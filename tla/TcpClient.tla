------------------------------ MODULE TcpClient -------------------------------
(***************************************************************************)
(* The test client (MongoClient/tcpClient.cpp, robot.cpp): a robot that    *)
(* logs in, registers, creates its role and enters the game step by step,  *)
(* polled every two seconds by do_some_thing, over a socket that is        *)
(* connected again whenever a handler meets an error.                      *)
(*                                                                         *)
(* Each handler that meets an error, and each poll that meets a closed     *)
(* socket, posts a start() of its own, and connecting a socket that is     *)
(* being connected, or is connected, fails and closes it.  A "chain" is    *)
(* one posted or pending operation that will end in another one.           *)
(*                                                                         *)
(* The servers are there by what they answer: an account and a role that   *)
(* the robot's own requests create.  A request or a reply may be lost, and *)
(* handle_read looks at the first frame of what it has read only.  Replies *)
(* of one server keep their order.  Once calm, the system loses nothing    *)
(* more, and every handler and reply that is due comes before the next     *)
(* poll.                                                                   *)
(***************************************************************************)
EXTENDS Integers, Sequences

CONSTANTS
  WaitLimit,     \* polls without a reply before the robot is reset, 5
  MaxChains,     \* bound: chains and writes
  MaxFlight      \* bound: replies on their way

ASSUME ClientAssumption ==
  WaitLimit \in Nat /\ MaxChains \in Nat /\ MaxFlight \in Nat

VARIABLES
  m_nStep, count,
  known,         \* m_PlayerInfo has the playerId
  socket,        \* "closed", "connecting", "broken" (not connected) or "open"
  starts,        \* posted start()
  oks, errs,     \* handle_connect due, without or with an error
  reads,         \* reads pending on the socket
  writes,        \* writes pending on the socket
  readErrs, writeErrs,   \* handle_read, handle_write due with an error
  polled,        \* do_some_thing is running; it never ends
  doubled,       \* history: a write failed or a poll met a closed socket
  account, role, \* what the account and the game server hold
  replies,       \* per server, the replies on their way
  calm

robotVars == <<m_nStep, count, known>>
serverVars == <<account, role, replies>>
chainVars == <<socket, starts, oks, errs, reads, writes, readErrs, writeErrs>>
clientVars == <<robotVars, serverVars, chainVars, polled, doubled, calm>>

Asking == {"LOGIN_REQ", "REGIST_REQ", "CREATE_ROLE_REQ", "ENTER_GAME_REQ", "HEART_BEAT_REQ"}
Waiting == {"LOGIN_RSP", "REGIST_RSP", "ENTER_GAME_RSP"}
Server == {"account", "game", "gate"}
NoReplies == [s \in Server |-> <<>>]

InFlight == Len(replies["account"]) + Len(replies["game"]) + Len(replies["gate"])

Chains ==
  starts + oks + errs + reads + readErrs + writeErrs
    + (IF socket = "connecting" THEN 1 ELSE 0)

(* At the bound a write completes at once.                                   *)
Room == Chains + writes < MaxChains

(* The type invariant of the test client. *)
ClientTypeOK ==
  /\ m_nStep \in Asking \cup Waiting
  /\ count \in 0 .. WaitLimit
  /\ known \in BOOLEAN
  /\ socket \in {"closed", "connecting", "broken", "open"}
  /\ {starts, oks, errs, reads, writes, readErrs, writeErrs} \subseteq 0 .. MaxChains + 1
  /\ {polled, doubled, account, role, calm} \subseteq BOOLEAN
  /\ InFlight <= MaxFlight

(* post_connect in main().                                                   *)
ClientInit ==
  /\ m_nStep = "LOGIN_REQ" /\ count = 0 /\ known = FALSE
  /\ socket = "closed" /\ starts = 1 /\ oks = 0 /\ errs = 0
  /\ reads = 0 /\ writes = 0 /\ readErrs = 0 /\ writeErrs = 0
  /\ polled = FALSE /\ doubled = FALSE
  /\ account \in BOOLEAN /\ role \in BOOLEAN /\ replies = NoReplies
  /\ calm = FALSE

-------------------------------------------------------------------------------
(* Robot::doAction: the step a request leaves the robot in.                  *)
DoAction(step) ==
  CASE step = "LOGIN_REQ" -> "LOGIN_RSP"
    [] step = "REGIST_REQ" -> "REGIST_RSP"
    [] step = "ENTER_GAME_REQ" -> "ENTER_GAME_RSP"
    [] OTHER -> step

(* The servers' side of a request: what it changes, and the reply.           *)
Serve(step, server, code) ==
  \/ /\ step = "LOGIN_REQ" /\ server = "account" /\ code = (IF account THEN 0 ELSE 1)
     /\ UNCHANGED <<account, role>>
  \/ /\ step = "REGIST_REQ" /\ server = "account" /\ code = (IF account THEN -1 ELSE 0)
     /\ account' = TRUE /\ UNCHANGED role
  \/ /\ step = "ENTER_GAME_REQ" /\ server = "game" /\ code = (IF role THEN 0 ELSE 1)
     /\ UNCHANGED <<account, role>>
  \/ /\ step = "CREATE_ROLE_REQ" /\ server = "game" /\ code = 0
     /\ role' = TRUE /\ UNCHANGED account
  \/ /\ step = "HEART_BEAT_REQ" /\ server = "gate" /\ code = 0
     /\ UNCHANGED <<account, role>>

(* A request goes out: it is served, or lost, and so is its reply.           *)
Transmit(step) ==
  \/ \E server \in Server, code \in {-1, 0, 1} :
       /\ Serve(step, server, code)
       /\ \/ /\ InFlight < MaxFlight
             /\ replies' = [replies EXCEPT ![server] =
                              Append(@, [req |-> step, code |-> code])]
          \/ (~calm \/ InFlight = MaxFlight) /\ UNCHANGED replies
  \/ ~calm /\ UNCHANGED serverVars

(* Robot::handleMsg that goes on to the game after registration. *)
HandleMsgEager(r) ==
  /\ m_nStep' = IF r.req = "ENTER_GAME_REQ" /\ r.code = 0 THEN "HEART_BEAT_REQ"
                ELSE "ENTER_GAME_REQ"
  /\ known' = (known \/ (r.code = 0 /\ r.req \in {"LOGIN_REQ", "REGIST_REQ"}))
  /\ UNCHANGED count

(* Robot::handleMsg: each reply sets the step, whatever the step is.         *)
HandleMsg(r) ==
  /\ m_nStep' =
       CASE r.req = "LOGIN_REQ" /\ r.code = 0 -> "ENTER_GAME_REQ"
         [] r.req = "LOGIN_REQ" /\ r.code = 1 -> "REGIST_REQ"
         [] r.req = "ENTER_GAME_REQ" /\ r.code = 0 -> "HEART_BEAT_REQ"
         [] r.req = "ENTER_GAME_REQ" /\ r.code = 1 -> "CREATE_ROLE_REQ"
         [] r.req = "CREATE_ROLE_REQ" /\ r.code = 0 -> "ENTER_GAME_REQ"
         [] OTHER -> "LOGIN_REQ"
  /\ known' = (known \/ (r.code = 0 /\ r.req \in {"LOGIN_REQ", "REGIST_REQ"}))
  /\ UNCHANGED count

-------------------------------------------------------------------------------
(* A robot that waits one poll longer than WaitLimit, or for ever. *)
WaitLonger ==
  /\ count' = IF count <= WaitLimit THEN count + 1 ELSE 0
  /\ m_nStep' = IF count <= WaitLimit THEN m_nStep ELSE "LOGIN_REQ"
WaitForEver == UNCHANGED <<count, m_nStep>>

(* A robot that waits is given some polls and then reset.                    *)
Wait ==
  /\ count' = IF count < WaitLimit THEN count + 1 ELSE 0
  /\ m_nStep' = IF count < WaitLimit THEN m_nStep ELSE "LOGIN_REQ"

(* post_write: a start() if the socket is closed, otherwise the next request *)
(* if the robot does not wait.                                               *)
PostWrite ==
  \/ /\ socket = "closed" /\ Room
     /\ starts' = starts + 1
     /\ doubled' = TRUE
     /\ UNCHANGED <<robotVars, serverVars, writes>>
  \/ /\ socket # "closed" /\ m_nStep \in Waiting
     /\ Wait
     /\ UNCHANGED <<known, serverVars, starts, writes, doubled>>
  \/ /\ socket # "closed" /\ m_nStep \in Asking
     /\ m_nStep' = DoAction(m_nStep)
     /\ writes' = IF Room THEN writes + 1 ELSE writes
     /\ IF socket = "open" THEN Transmit(m_nStep) ELSE UNCHANGED serverVars
     /\ UNCHANGED <<count, known, starts, doubled>>

(* Nothing is due: every handler has run and every reply has come.           *)
Settled ==
  /\ Chains = reads /\ writes = 0
  /\ InFlight = 0

(* do_some_thing, which posts itself again.                                  *)
DoSomeThing ==
  /\ polled
  /\ calm => Settled
  /\ PostWrite
  /\ UNCHANGED <<socket, oks, errs, reads, readErrs, writeErrs, polled, calm>>

(* m_Socket.close(): whatever is pending on the socket ends with an error.   *)
(* A handler that got one closes the socket and posts a start().             *)
Close ==
  /\ socket' = "closed"
  /\ reads' = 0
  /\ writes' = 0
  /\ replies' = NoReplies
  /\ doubled' = (doubled \/ writes > 0)
  /\ UNCHANGED <<robotVars, account, role, oks, polled, calm>>

Aborted == IF socket = "connecting" THEN 1 ELSE 0

(* start(): async_connect of a socket that is connecting or connected fails. *)
Start ==
  /\ starts > 0
  /\ starts' = starts - 1
  /\ \/ socket \in {"closed", "broken"} /\ socket' = "connecting" /\ UNCHANGED errs
     \/ socket \in {"connecting", "open"} /\ errs' = errs + 1 /\ UNCHANGED socket
  /\ UNCHANGED <<robotVars, serverVars, oks, reads, writes, readErrs, writeErrs>>
  /\ UNCHANGED <<polled, doubled, calm>>

(* The connection is made, or refused.                                       *)
Connect ==
  /\ socket = "connecting"
  /\ \/ socket' = "open" /\ oks' = oks + 1 /\ UNCHANGED errs
     \/ ~calm /\ socket' = "broken" /\ errs' = errs + 1 /\ UNCHANGED oks
  /\ UNCHANGED <<robotVars, serverVars, starts, reads, writes, readErrs, writeErrs>>
  /\ UNCHANGED <<polled, doubled, calm>>

(* handle_connect without an error: the robot is reset, a read is posted and *)
(* do_some_thing started, whose first poll sends a login request.  On a      *)
(* socket that has been closed again set_option throws and nothing is done.  *)
HandleConnect ==
  /\ oks > 0
  /\ oks' = oks - 1
  /\ \/ /\ socket = "closed"
        /\ UNCHANGED <<robotVars, serverVars, reads, writes, polled>>
     \/ /\ socket # "closed"
        /\ m_nStep' = DoAction("LOGIN_REQ")
        /\ reads' = reads + 1
        /\ writes' = IF Room THEN writes + 1 ELSE writes
        /\ polled' = TRUE
        /\ IF socket = "open" THEN Transmit("LOGIN_REQ") ELSE UNCHANGED serverVars
        /\ UNCHANGED <<count, known>>
  /\ UNCHANGED <<socket, starts, errs, readErrs, writeErrs, doubled, calm>>

(* handle_connect with an error.                                             *)
HandleConnectError ==
  /\ errs > 0
  /\ Close
  /\ errs' = errs - 1 + Aborted
  /\ readErrs' = readErrs + reads
  /\ writeErrs' = writeErrs + writes
  /\ starts' = starts + 1

(* handle_read with an error that leaves it to the poll to connect again. *)
HandleReadErrorQuiet ==
  /\ readErrs > 0
  /\ Close
  /\ errs' = errs + Aborted
  /\ readErrs' = readErrs - 1 + reads
  /\ writeErrs' = writeErrs + writes
  /\ UNCHANGED starts

(* handle_read with an error.                                                *)
HandleReadError ==
  /\ readErrs > 0
  /\ Close
  /\ errs' = errs + Aborted
  /\ readErrs' = readErrs - 1 + reads
  /\ writeErrs' = writeErrs + writes
  /\ starts' = starts + 1

(* handle_write with an error.                                               *)
HandleWriteError ==
  /\ writeErrs > 0
  /\ Close
  /\ errs' = errs + Aborted
  /\ readErrs' = readErrs + reads
  /\ writeErrs' = writeErrs - 1 + writes
  /\ starts' = starts + 1

(* A write ends; one that fails will connect again beside the read.          *)
Write ==
  /\ writes > 0
  /\ writes' = writes - 1
  /\ \/ socket = "open" /\ UNCHANGED <<writeErrs, doubled>>
     \/ /\ ~calm \/ socket # "open"
        /\ writeErrs' = writeErrs + 1 /\ doubled' = TRUE
  /\ UNCHANGED <<robotVars, serverVars, socket, starts, oks, errs, reads, readErrs>>
  /\ UNCHANGED <<polled, calm>>

(* A read fails.                                                             *)
ReadFails ==
  /\ reads > 0
  /\ ~calm \/ socket # "open"
  /\ reads' = reads - 1
  /\ readErrs' = readErrs + 1
  /\ UNCHANGED <<robotVars, serverVars, socket, starts, oks, errs, writes, writeErrs>>
  /\ UNCHANGED <<polled, doubled, calm>>

(* handle_read: the first frame is handled, those behind it are dropped, and *)
(* the next read is posted.                                                  *)
HandleRead(s) ==
  /\ socket = "open" /\ reads > 0
  /\ replies[s] # <<>>
  /\ HandleMsg(Head(replies[s]))
  /\ \/ replies' = [replies EXCEPT ![s] = Tail(@)]
     \/ ~calm /\ replies' = NoReplies
  /\ UNCHANGED <<account, role, chainVars, polled, doubled, calm>>

(* From here on nothing fails any more.                                      *)
CalmDown ==
  /\ ~calm
  /\ calm' = TRUE
  /\ UNCHANGED <<robotVars, serverVars, chainVars, polled, doubled>>

ClientNext ==
  \/ DoSomeThing
  \/ Start
  \/ Connect
  \/ HandleConnect
  \/ HandleConnectError
  \/ HandleReadError
  \/ HandleWriteError
  \/ Write
  \/ ReadFails
  \/ \E s \in Server : HandleRead(s)
  \/ CalmDown

(* The io_service runs what is posted and completes what is pending.         *)
ClientFairness ==
  /\ WF_clientVars(DoSomeThing) /\ WF_clientVars(Start) /\ WF_clientVars(Connect)
  /\ WF_clientVars(HandleConnect) /\ WF_clientVars(HandleConnectError)
  /\ WF_clientVars(HandleReadError) /\ WF_clientVars(HandleWriteError) /\ WF_clientVars(Write)
  /\ \A s \in Server : WF_clientVars(HandleRead(s))

ClientSpec == ClientInit /\ [][ClientNext]_clientVars /\ ClientFairness

-------------------------------------------------------------------------------
(* The client never gives up: some operation is always posted or pending     *)
(* that will read or connect, in every order of failing reads, writes and    *)
(* connects. There is one such chain, and so no connect that fails because   *)
(* another one is under way, until a write fails beside the read or a poll   *)
(* comes between the closing of the socket and its start()                   *)
(* (tcpClient.cpp:46-60, 76-91, 151-213).                                    *)
NeverGivesUp == Chains >= 1 /\ (~doubled => Chains = 1)

(* Requests to enter the game or to create a role are sent with the          *)
(* playerId of the robot, although replies are handled whatever step they    *)
(* come in (robot.cpp:45-76, 188-191).                                       *)
KnowsItself == m_nStep \notin {"LOGIN_REQ", "LOGIN_RSP", "REGIST_REQ", "REGIST_RSP"} => known

(* With one chain left when the faults are over, the robot gets into the     *)
(* game, whatever was lost before and in whatever step that has left it      *)
(* (robot.cpp:78-186, tcpClient.cpp:93-117).                                 *)
EventuallyPlays ==
  (calm /\ Chains = 1 /\ writes = 0) ~> (m_nStep = "HEART_BEAT_REQ")
===============================================================================
