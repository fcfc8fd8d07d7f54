------------------------------- MODULE Framing --------------------------------
(***************************************************************************)
(* The receiving half of a connection: serialize and deserialize           *)
(* (MyNetworkLib/message.cpp) and the loop of handle_read                  *)
(* (MyNetworkLib/tcpConnection.cpp) over a stream that TCP cuts into reads *)
(* anywhere.                                                               *)
(*                                                                         *)
(* The stream is seen by the positions of its bytes: frame f begins at     *)
(* start[f]; the reader has read up to readEnd and is at position at, and  *)
(* m_ReadBuffer holds what lies between them.  Where no frame begins the   *)
(* four bytes taken for a content length may have any value.               *)
(***************************************************************************)
EXTENDS Integers, Sequences

CONSTANTS
  Frame,           \* the messages to be sent, each once
  ContentLength,   \* length of the text of each
  MSG_HEAD,
  MSG_MAXIMUM

ASSUME FramingAssumption ==
  /\ ContentLength \in [Frame -> Nat]
  /\ MSG_HEAD \in Nat \ {0}
  /\ MSG_MAXIMUM \in Nat \ {0}

VARIABLES
  start,       \* where each frame begins in the stream, -1 until it is sent
  written,     \* length of the stream so far
  readEnd,     \* how much of it has been read
  at,          \* how much of it has been parsed or dropped
  got,         \* frames given to onRecv, in order
  spurious,    \* onRecv was given something that was not sent
  isOpen,
  zeroed,      \* stop has cleared m_ReadBuffer
  disturbed    \* history: some read ended inside a frame or filled the buffer

vars == <<start, written, readEnd, at, got, spurious, isOpen, zeroed, disturbed>>

Size(f) == MSG_HEAD + ContentLength[f]
Sent == {f \in Frame : start[f] >= 0}
Delivered == {got[i] : i \in DOMAIN got}

(* The type invariant of the receiving half. *)
TypeOK ==
  /\ start \in [Frame -> Nat \cup {-1}]
  /\ written \in Nat
  /\ readEnd \in 0 .. written
  /\ at \in 0 .. readEnd
  /\ got \in Seq(Sent)
  /\ spurious \in BOOLEAN
  /\ isOpen \in BOOLEAN
  /\ zeroed \in BOOLEAN
  /\ disturbed \in BOOLEAN

Init ==
  /\ start = [f \in Frame |-> -1]
  /\ written = 0
  /\ readEnd = 0
  /\ at = 0
  /\ got = << >>
  /\ spurious = FALSE
  /\ isOpen = TRUE
  /\ zeroed = FALSE
  /\ disturbed = FALSE

-------------------------------------------------------------------------------
(* serialize that lets a frame fill the buffer. *)
SerializeFull(f) == MSG_HEAD + ContentLength[f] <= MSG_MAXIMUM

(* serialize refuses a frame that would fill the buffer.                     *)
Serialize(f) == MSG_HEAD + ContentLength[f] < MSG_MAXIMUM

(* The peer sends a frame.                                                   *)
Send(f) ==
  /\ start[f] = -1
  /\ Serialize(f)
  /\ start' = [start EXCEPT ![f] = written]
  /\ written' = written + Size(f)
  /\ UNCHANGED <<readEnd, at, got, spurious, isOpen, zeroed, disturbed>>

(* The content length deserialize finds at position p; -1 stands for every   *)
(* value that is negative or longer than the buffer.                         *)
LengthsAt(p) ==
  IF zeroed THEN {0}
  ELSE IF \E f \in Frame : start[f] = p
       THEN {ContentLength[f] : f \in {g \in Frame : start[g] = p}}
       ELSE -1 .. MSG_MAXIMUM

(* deserialize: the bytes it takes from position p, with size bytes in the   *)
(* buffer from there on.                                                     *)
Deserialize(p, size) ==
  IF size >= MSG_MAXIMUM \/ size < MSG_HEAD THEN {0}
  ELSE {IF n >= 0 /\ size - MSG_HEAD >= n THEN MSG_HEAD + n ELSE 0 : n \in LengthsAt(p)}

-------------------------------------------------------------------------------
InsideFrame(p) == \E f \in Sent : start[f] < p /\ p < start[f] + Size(f)

(* handle_read: read_some gives n bytes.                                     *)
HandleRead(n) ==
  /\ isOpen
  /\ at = readEnd
  /\ n \in 1 .. MSG_MAXIMUM
  /\ n <= written - readEnd
  /\ readEnd' = readEnd + n
  /\ zeroed' = FALSE
  /\ disturbed' = (\/ disturbed
                   \/ InsideFrame(readEnd')
                   \/ /\ n = MSG_MAXIMUM
                      /\ \A f \in Sent : ~(start[f] = at /\ Size(f) = n))
  /\ UNCHANGED <<start, written, at, got, spurious, isOpen>>

(* onRecv with what was found at position at.                                *)
OnRecv ==
  IF ~zeroed /\ \E f \in Frame : start[f] = at
  THEN /\ got' = Append(got, CHOOSE f \in Frame : start[f] = at)
       /\ UNCHANGED spurious
  ELSE /\ spurious' = TRUE
       /\ UNCHANGED got

(* The loop tries again after a frame it could not parse. *)
ParseRetries ==
  /\ at < readEnd
  /\ \E res \in Deserialize(at, readEnd - at) \ {0} :
       /\ at' = at + res
       /\ OnRecv
  /\ UNCHANGED <<start, written, readEnd, isOpen, zeroed, disturbed>>

(* The loop counts total_len down and leaves offset as it is. *)
ParseSameOffset ==
  /\ at < readEnd
  /\ \E res \in Deserialize(at, readEnd - at) :
       IF res = 0
       THEN /\ at' = readEnd
            /\ UNCHANGED <<readEnd, got, spurious>>
       ELSE /\ readEnd' = readEnd - res
            /\ OnRecv
            /\ UNCHANGED at
  /\ UNCHANGED <<start, written, isOpen, zeroed, disturbed>>

(* One turn of the loop of handle_read; a frame that cannot be parsed ends   *)
(* it, and the rest of the read is dropped.                                  *)
Parse ==
  /\ at < readEnd
  /\ \E res \in Deserialize(at, readEnd - at) :
       IF res = 0
       THEN /\ at' = readEnd
            /\ UNCHANGED <<got, spurious>>
       ELSE /\ at' = at + res
            /\ OnRecv
  /\ UNCHANGED <<start, written, readEnd, isOpen, zeroed, disturbed>>

(* handle_read with an error: the socket is closed.                          *)
HandleReadError ==
  /\ isOpen
  /\ at = readEnd
  /\ isOpen' = FALSE
  /\ UNCHANGED <<start, written, readEnd, at, got, spurious, zeroed, disturbed>>

(* stop, from the other thread or from a handler that onRecv called.         *)
Stop ==
  /\ isOpen
  /\ isOpen' = FALSE
  /\ zeroed' = TRUE
  /\ UNCHANGED <<start, written, readEnd, at, got, spurious, disturbed>>

-------------------------------------------------------------------------------
Next ==
  \/ \E f \in Frame : Send(f)
  \/ \E n \in 1 .. MSG_MAXIMUM : HandleRead(n)
  \/ Parse \/ HandleReadError \/ Stop

(* handle_read goes on with its loop and always reads again.                 *)
Fairness ==
  /\ WF_vars(\E n \in 1 .. MSG_MAXIMUM : HandleRead(n))
  /\ WF_vars(Parse)

Spec == Init /\ [][Next]_vars /\ Fairness

-------------------------------------------------------------------------------
Lost == {f \in Sent : start[f] < at} \ Delivered

C == INSTANCE Channel WITH stamp <- start, lost <- Lost, closed <- ~isOpen

(* Whatever the reads, the connection is a lossy first-in first-out channel: *)
(* parsing out of step never delivers a frame twice or out of order, and     *)
(* onRecv sees something that was not sent only after a loss or a stop.      *)
LossyFifo == C!ChanSpec

(* As long as no read has ended inside a frame or filled the buffer nothing  *)
(* is lost: the bounds of serialize and deserialize agree, and the loop of   *)
(* handle_read ends each frame where the next one begins.                    *)
InStep ==
  isOpen /\ ~disturbed => Lost = {} /\ ~spurious

(* Every frame is delivered or dropped in the end, unless the connection is  *)
(* closed: a bad frame does not keep handle_read from the rest.              *)
FrameResolved ==
  \A f \in Frame : f \in Sent ~> (f \in Delivered \/ f \in Lost \/ ~isOpen)
===============================================================================
