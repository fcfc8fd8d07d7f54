------------------------------ MODULE HttpServer ------------------------------
(***************************************************************************)
(* The HTTP side of the gate (GateServer/http_server.cpp, connection.cpp,  *)
(* connection_manager.cpp): connections are accepted one after the other,  *)
(* numbered and kept in a table; each reads until its parser has decided,  *)
(* sends one reply, and is shut down.                                      *)
(*                                                                         *)
(* A connection has one operation pending at a time, so its handlers never *)
(* run beside each other.  How the text is cut into reads makes no         *)
(* difference: the parser keeps its state, and nothing is read after the   *)
(* reply.  So a read brings one character here.                            *)
(***************************************************************************)
EXTENDS RequestParser

CONSTANTS
  Conn,
  Sends,               \* what each client may have sent, beginnings included
  Length,              \* what get_content_length may leave in cont_len
  None,                \* no connection
  HTTP_END_CONN_ID,
  MaxAdded             \* bound: characters that append(&input) adds

ASSUME HttpAssumption ==
  /\ \A c \in Conn : << >> \in Sends[c] /\ Sends[c] \subseteq Seq(Class)
  /\ Length \subseteq Nat
  /\ None \notin Conn
  /\ HTTP_END_CONN_ID \in Nat \ {0}
  /\ MaxAdded \in Nat

ConnId == 0 .. HTTP_END_CONN_ID - 1

VARIABLES
  m_nCurConnId,
  m_ConnectionMap,
  m_nConnId,
  accepted,      \* history: the order in which connections were accepted
  input,         \* what was read from each connection
  m_RequestParser,
  phase          \* "new", "reading", "ok" or "bad" (a reply is written),
                 \* "shut", or "left" when a handler met an error

tableVars == <<m_nCurConnId, m_ConnectionMap, m_nConnId, accepted>>
vars == <<tableVars, input, m_RequestParser, phase>>

(* The type invariant of the HTTP server. *)
TypeOK ==
  /\ m_nCurConnId \in ConnId
  /\ m_ConnectionMap \in [ConnId -> Conn \cup {None}]
  /\ m_nConnId \in [Conn -> ConnId]
  /\ \A c \in Conn : input[c] \in Sends[c]
  /\ phase \in [Conn -> {"new", "reading", "ok", "bad", "shut", "left"}]

Init ==
  /\ m_nCurConnId = 0
  /\ m_ConnectionMap = [i \in ConnId |-> None]
  /\ m_nConnId = [c \in Conn |-> 0]
  /\ accepted = <<>>
  /\ input = [c \in Conn |-> <<>>]
  /\ m_RequestParser = [c \in Conn |-> Start]
  /\ phase = [c \in Conn |-> "new"]

-------------------------------------------------------------------------------
(* Connection numbers that come round one too early. *)
NextConnIdEarly == (m_nCurConnId + 1) % (IF HTTP_END_CONN_ID > 1 THEN HTTP_END_CONN_ID - 1 ELSE 1)

(* Connection numbers that do not come round. *)
NextConnIdNoWrap == m_nCurConnId + 1

GetNextConnId == (m_nCurConnId + 1) % HTTP_END_CONN_ID

(* handleAccept and ConnectionManager::start: the entry under the number is  *)
(* replaced, whoever it belongs to.                                          *)
HandleAccept(c) ==
  /\ phase[c] = "new"
  /\ phase' = [phase EXCEPT ![c] = "reading"]
  /\ m_nConnId' = [m_nConnId EXCEPT ![c] = m_nCurConnId]
  /\ m_ConnectionMap' = [m_ConnectionMap EXCEPT ![m_nCurConnId] = c]
  /\ m_nCurConnId' = GetNextConnId
  /\ accepted' = Append(accepted, c)
  /\ UNCHANGED <<input, m_RequestParser>>

(* handle_read, for every character: a request that is complete is answered  *)
(* by what its uri asks for or as a bad one, one that is invalid as a bad    *)
(* one; otherwise the next read is posted.  A service command is also handed *)
(* to on_http_req, whose message was never serialised: sendMessage copies no *)
(* byte of it, so it changes nothing here.                                   *)
HandleRead(c) ==
  /\ phase[c] = "reading"
  /\ \E ch \in {x \in Class : Append(input[c], x) \in Sends[c]},
        len \in Length, added \in 1 .. MaxAdded :
       LET v == Consume(m_RequestParser[c], ch, len, added) IN
       /\ input' = [input EXCEPT ![c] = Append(@, ch)]
       /\ m_RequestParser' = [m_RequestParser EXCEPT ![c] = v.parser]
       /\ \/ v.result = "true" /\ \E reply \in {"ok", "bad"} : phase' = [phase EXCEPT ![c] = reply]
          \/ v.result = "false" /\ phase' = [phase EXCEPT ![c] = "bad"]
          \/ v.result = "more" /\ UNCHANGED phase
  /\ UNCHANGED tableVars

(* handle_read with an error, or handle_write with one: nothing is done.     *)
HandleError(c) ==
  /\ phase[c] \in {"reading", "ok", "bad"}
  /\ phase' = [phase EXCEPT ![c] = "left"]
  /\ UNCHANGED <<tableVars, input, m_RequestParser>>

(* handle_write that shuts down after the replies of served requests only. *)
HandleWriteServed(c) ==
  /\ phase[c] = "ok"
  /\ phase' = [phase EXCEPT ![c] = "shut"]
  /\ UNCHANGED <<tableVars, input, m_RequestParser>>

(* handle_write: the socket is shut down; the table keeps the connection.    *)
HandleWrite(c) ==
  /\ phase[c] \in {"ok", "bad"}
  /\ phase' = [phase EXCEPT ![c] = "shut"]
  /\ UNCHANGED <<tableVars, input, m_RequestParser>>

Next ==
  \E c \in Conn : HandleAccept(c) \/ HandleRead(c) \/ HandleError(c) \/ HandleWrite(c)

(* startAccept is called again after every accept, the io_service runs the   *)
(* handlers of what was read and written, and clients send what they have.   *)
Fairness ==
  \A c \in Conn : WF_vars(HandleAccept(c)) /\ WF_vars(HandleRead(c)) /\ WF_vars(HandleWrite(c))

Spec == Init /\ [][Next]_vars /\ Fairness

-------------------------------------------------------------------------------
(* The parser's contract (request_parser.hpp:33-36), for GET requests and    *)
(* wherever the reads were cut: what is served is a complete request, what   *)
(* is read on from is not complete and can become so, and what is refused    *)
(* cannot, unless it was complete and its uri asked for nothing there is.    *)
ParserExact ==
  \A c \in Conn : m_RequestParser[c].get =>
    /\ phase[c] = "ok" => GetRequest(input[c])
    /\ phase[c] = "reading" => Viable(input[c]) /\ ~GetRequest(input[c])
    /\ phase[c] = "bad" => GetRequest(input[c]) \/ ~Viable(input[c])

(* The table holds the last HTTP_END_CONN_ID connections, served, broken or  *)
(* alive: none is ever taken out, and none is lost before its number has     *)
(* come round (connection_manager.cpp:20-44, connection.cpp:211-224).        *)
TableHoldsLast ==
  {m_ConnectionMap[i] : i \in ConnId} \ {None}
    = {accepted[k] : k \in {k \in DOMAIN accepted : k > Len(accepted) - HTTP_END_CONN_ID}}

(* The client has sent all it had, and it is not a GET request.              *)
Unfinished(c) ==
  (\A ch \in Class : Append(input[c], ch) \notin Sends[c]) /\ ~GetRequest(input[c])

(* Every connection that is accepted is answered and shut down, unless it    *)
(* breaks or its client stops before a GET request is whole                  *)
(* (connection.cpp:113-224).                                                 *)
Answered ==
  \A c \in Conn :
    (phase[c] = "reading") ~> (phase[c] \in {"shut", "left"} \/ Unfinished(c))
===============================================================================
