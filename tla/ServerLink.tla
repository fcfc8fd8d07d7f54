------------------------------ MODULE ServerLink ------------------------------
(***************************************************************************)
(* The links of the gate to the account and the game server: the gate      *)
(* connects at the start and again from checkServerAlive, a server accepts *)
(* and keeps the connection it accepted last as m_GateConn, to which the   *)
(* game server sends its replies.                                          *)
(*                                                                         *)
(* The connections of a link are told apart only as the one the gate holds *)
(* now ("current") and those it held before ("old").                       *)
(***************************************************************************)
EXTENDS Naturals, Sequences

CONSTANTS
  Server,        \* the servers the gate connects to
  MaxBacklog     \* connections the acceptor of a server lets wait

ASSUME LinkAssumption == MaxBacklog \in Nat \ {0}

VARIABLES
  link,        \* the sockets of m_pGameConn and m_pAccountConn
  svrUp,       \* which server processes are running
  backlog,     \* connections that wait for a server's handle_accept
  m_GateConn   \* the connection a server replies to

linkVars == <<link, svrUp, backlog, m_GateConn>>

Conn == {"current", "old"}

(* "eof" is a connection the server has ended and that the gate still has    *)
(* open; "deaf" one on which handle_connect failed before it posted a read.  *)
OpenState == {"connecting", "up", "eof", "deaf"}
IsOpen(s) == link[s] \in OpenState

(* The type invariant of the links. *)
LinkTypeOK ==
  /\ link \in [Server -> OpenState \cup {"closed"}]
  /\ svrUp \in [Server -> BOOLEAN]
  /\ backlog \in [Server -> Seq(Conn)]
  /\ \A s \in Server : Len(backlog[s]) <= MaxBacklog
  /\ m_GateConn \in [Server -> Conn \cup {"none"}]

(* GateServer::init, with servers that have or have not started.             *)
LinkInit ==
  /\ link \in [Server -> {"connecting", "closed"}]
  /\ svrUp \in [Server -> BOOLEAN]
  /\ backlog = [s \in Server |-> << >>]
  /\ m_GateConn = [s \in Server |-> "none"]

-------------------------------------------------------------------------------
(* connectToGameSvr or connectToAccountSvr, for the servers in S, and        *)
(* connect: a new connection takes the place of the one held so far, and     *)
(* stays closed if the address does not resolve.                             *)
ConnectTo(S, resolves) ==
  /\ link' = [s \in Server |-> IF s \notin S THEN link[s]
                               ELSE IF resolves[s] THEN "connecting" ELSE "closed"]
  /\ backlog' = [s \in Server |-> IF s \notin S THEN backlog[s]
                                  ELSE [i \in DOMAIN backlog[s] |-> "old"]]
  /\ m_GateConn' = [s \in Server |-> IF s \in S /\ m_GateConn[s] = "current"
                                     THEN "old" ELSE m_GateConn[s]]

(* checkServerAlive that returns when it has found one link open. *)
CheckServerAliveAll(resolves) ==
  /\ \A s \in Server : ~IsOpen(s)
  /\ ConnectTo(Server, resolves)
  /\ UNCHANGED svrUp

CheckServerAlive(resolves) ==
  /\ ConnectTo({s \in Server : ~IsOpen(s)}, resolves)
  /\ UNCHANGED svrUp

(* handle_connect on success; an exception leaves the socket open with no    *)
(* read on it.                                                               *)
HandleConnect(s) ==
  /\ link[s] = "connecting"
  /\ svrUp[s] /\ Len(backlog[s]) < MaxBacklog
  /\ \E l \in {"up", "deaf"} : link' = [link EXCEPT ![s] = l]
  /\ backlog' = [backlog EXCEPT ![s] = Append(@, "current")]
  /\ UNCHANGED <<svrUp, m_GateConn>>

HandleConnectError(s) ==
  /\ link[s] = "connecting"
  /\ link' = [link EXCEPT ![s] = "closed"]
  /\ UNCHANGED <<svrUp, backlog, m_GateConn>>

(* handle_read of the gate reports an error and closes the socket.           *)
HandleReadError(s) ==
  /\ link[s] \in {"up", "eof"}
  /\ link' = [link EXCEPT ![s] = "closed"]
  /\ UNCHANGED <<svrUp, backlog, m_GateConn>>

-------------------------------------------------------------------------------
(* What the end of the server's side does to the gate: a read that returns   *)
(* end of file, which handle_read passes over before it reads again.         *)
Ended(s) == link' = [link EXCEPT ![s] = IF @ = "up" THEN "eof" ELSE @]

(* The server's handle_accept keeps the first connection it was given. *)
HandleAcceptFirst(s) ==
  /\ svrUp[s] /\ backlog[s] # << >>
  /\ m_GateConn' = [m_GateConn EXCEPT ![s] = IF @ = "none" THEN Head(backlog[s]) ELSE @]
  /\ backlog' = [backlog EXCEPT ![s] = Tail(@)]
  /\ UNCHANGED <<link, svrUp>>

HandleAccept(s) ==
  /\ svrUp[s] /\ backlog[s] # << >>
  /\ m_GateConn' = [m_GateConn EXCEPT ![s] = Head(backlog[s])]
  /\ backlog' = [backlog EXCEPT ![s] = Tail(@)]
  /\ UNCHANGED <<link, svrUp>>

(* async_accept fails: the server closes the connection and accepts again.   *)
HandleAcceptError(s) ==
  /\ svrUp[s] /\ backlog[s] # << >>
  /\ IF Head(backlog[s]) = "current" THEN Ended(s) ELSE UNCHANGED link
  /\ backlog' = [backlog EXCEPT ![s] = Tail(@)]
  /\ UNCHANGED <<svrUp, m_GateConn>>

(* The server process ends: it is stopped, or an exception leaves its        *)
(* handle_accept (remote_endpoint or set_option of a connection that is gone)*)
ServerStops(s) ==
  /\ svrUp[s]
  /\ svrUp' = [svrUp EXCEPT ![s] = FALSE]
  /\ backlog' = [backlog EXCEPT ![s] = << >>]
  /\ m_GateConn' = [m_GateConn EXCEPT ![s] = "none"]
  /\ Ended(s)

ServerStarts(s) ==
  /\ ~svrUp[s]
  /\ svrUp' = [svrUp EXCEPT ![s] = TRUE]
  /\ UNCHANGED <<link, backlog, m_GateConn>>

-------------------------------------------------------------------------------
LinkNext ==
  \/ \E resolves \in [Server -> BOOLEAN] : CheckServerAlive(resolves)
  \/ \E s \in Server :
       \/ HandleConnect(s) \/ HandleConnectError(s) \/ HandleReadError(s)
       \/ HandleAccept(s) \/ HandleAcceptError(s)
       \/ ServerStops(s) \/ ServerStarts(s)

(* update() runs for ever and the configured addresses resolve; a running    *)
(* server accepts; a connect ends, and while the server runs not always with *)
(* an error.                                                                 *)
LinkFairness ==
  /\ WF_linkVars(CheckServerAlive([s \in Server |-> TRUE]))
  /\ \A s \in Server : /\ WF_linkVars(HandleAccept(s))
                       /\ WF_linkVars(HandleConnectError(s))
                       /\ SF_linkVars(HandleConnect(s))

LinkSpec == LinkInit /\ [][LinkNext]_linkVars /\ LinkFairness

-------------------------------------------------------------------------------
(* A server that has accepted the gate's connection replies to that one and  *)
(* not to an earlier one, through every crash, reconnect and backlog: the    *)
(* gate connects only after it has closed, and connections are accepted in   *)
(* the order they were made.                                                 *)
RepliesReachGate ==
  \A s \in Server :
    link[s] = "up" /\ (\A i \in DOMAIN backlog[s] : backlog[s][i] # "current")
      => m_GateConn[s] = "current"

(* Once its server stays up, a link that was closed is open again in the     *)
(* end, whatever happens to the other link: update() retries after every     *)
(* failed connect and looks at both links.                                   *)
ClosedLinkReopens ==
  \A s \in Server :
    <>[]svrUp[s] => (link[s] = "closed" ~> link[s] \in {"up", "eof", "deaf"})

(* checkServerAlive looks whether the servers are still connected            *)
(* (gateServer.cpp:292): the gate finds out, in the end, that a server has   *)
(* ended the connection.                                                     *)
EndedLinkNoticed == \A s \in Server : link[s] = "eof" ~> link[s] # "eof"
===============================================================================
