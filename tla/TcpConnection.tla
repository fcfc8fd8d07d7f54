---------------------------- MODULE TcpConnection -----------------------------
(***************************************************************************)
(* The sending half of a connection (MyNetworkLib/tcpConnection.cpp):      *)
(* sendMessage, post_write, handle_write and stop, step by step, as run by *)
(* the threads of the process.  Each core.run() starts one: the account    *)
(* and game servers call it once, the gate twice, and any thread may run   *)
(* any handler of the one io_service.  A thread runs one handler at a      *)
(* time.  Reads and writes of the unguarded fields are taken to be atomic. *)
(*                                                                         *)
(* A frame fills the write buffer with two units, so that copying and      *)
(* writing it can be observed half done; a unit is the frame it belongs    *)
(* to.  A thread holds m_WriteMutex exactly in the steps "copy" and        *)
(* "write".                                                                *)
(***************************************************************************)
EXTENDS Integers, Sequences

CONSTANTS
  Thread,          \* threads a process may have
  Frame            \* frames to be sent, each once

ASSUME ConnectionAssumption == 0 \notin Frame

Zero == 0          \* what memset leaves in the buffer
Size == 2          \* units in a frame

VARIABLES
  running,             \* threads that core.run() has started
  isOpen,              \* m_Socket.is_open()
  broken,              \* the peer has reset the connection
  m_bWriteInProgress,
  m_WriteBuffer,
  m_nWriteLen,
  pending,             \* async_write_some operations under way
  pc,                  \* what each thread is doing
  frame,               \* the frame each thread is sending
  len,                 \* units each thread's handle_write has written
  result,              \* what sendMessage returned for each frame
  out                  \* units the peer has received

vars == <<running, isOpen, broken, m_bWriteInProgress, m_WriteBuffer, m_nWriteLen,
          pending, pc, frame, len, result, out>>

Step == {"idle", "lock", "copy", "post", "posting", "wlock", "write", "stop"}

(* The type invariant of the connection. *)
TypeOK ==
  /\ running \in SUBSET Thread
  /\ isOpen \in BOOLEAN
  /\ broken \in BOOLEAN
  /\ m_bWriteInProgress \in BOOLEAN
  /\ m_WriteBuffer \in [1 .. Size -> Frame \cup {Zero}]
  /\ m_nWriteLen \in 0 .. Size
  /\ pending \in Nat
  /\ pc \in [Thread -> Step]
  /\ frame \in [Thread -> Frame \cup {Zero}]
  /\ len \in [Thread -> 0 .. Size]
  /\ result \in [Frame -> {"unsent", "sending", "accepted", "dropped"}]
  /\ out \in Seq(Frame \cup {Zero})

Init ==
  /\ running \in SUBSET Thread \ {{}}
  /\ isOpen = TRUE
  /\ broken = FALSE
  /\ m_bWriteInProgress = FALSE
  /\ m_WriteBuffer = [i \in 1 .. Size |-> Zero]
  /\ m_nWriteLen = 0
  /\ pending = 0
  /\ pc = [t \in Thread |-> "idle"]
  /\ frame = [t \in Thread |-> Zero]
  /\ len = [t \in Thread |-> 0]
  /\ result = [f \in Frame |-> "unsent"]
  /\ out = << >>

MutexFree == \A t \in running : pc[t] \notin {"copy", "write"}
Go(t, step) == pc' = [pc EXCEPT ![t] = step]

-------------------------------------------------------------------------------
(* sendMessage without its look at m_bWriteInProgress. *)
SendMessageUnchecked(t, f) ==
  /\ pc[t] = "idle"
  /\ result[f] = "unsent"
  /\ isOpen
  /\ Go(t, "lock")
  /\ frame' = [frame EXCEPT ![t] = f]
  /\ result' = [result EXCEPT ![f] = "sending"]
  /\ UNCHANGED <<isOpen, broken, m_bWriteInProgress, m_WriteBuffer, m_nWriteLen,
                 pending, len, out>>

(* sendMessage, up to its mutex.                                             *)
SendMessage(t, f) ==
  /\ pc[t] = "idle"
  /\ result[f] = "unsent"
  /\ IF isOpen /\ ~m_bWriteInProgress
     THEN /\ Go(t, "lock")
          /\ frame' = [frame EXCEPT ![t] = f]
          /\ result' = [result EXCEPT ![f] = "sending"]
     ELSE /\ result' = [result EXCEPT ![f] = "dropped"]
          /\ UNCHANGED <<pc, frame>>
  /\ UNCHANGED <<isOpen, broken, m_bWriteInProgress, m_WriteBuffer, m_nWriteLen,
                 pending, len, out>>

(* sendMessage without its scoped_lock. *)
SendLockUnlocked(t) ==
  /\ pc[t] = "lock"
  /\ Go(t, "copy")
  /\ m_nWriteLen' = 0
  /\ m_WriteBuffer' = [m_WriteBuffer EXCEPT ![1] = frame[t]]
  /\ UNCHANGED <<isOpen, broken, m_bWriteInProgress, pending, frame, len, result, out>>

(* sendMessage takes the mutex, resets m_nWriteLen and copies the first unit *)
(* of the frame.                                                             *)
SendLock(t) ==
  /\ pc[t] = "lock"
  /\ MutexFree
  /\ Go(t, "copy")
  /\ m_nWriteLen' = 0
  /\ m_WriteBuffer' = [m_WriteBuffer EXCEPT ![1] = frame[t]]
  /\ UNCHANGED <<isOpen, broken, m_bWriteInProgress, pending, frame, len, result, out>>

(* It copies the second unit, adds the length and releases the mutex.        *)
SendCopy(t) ==
  /\ pc[t] = "copy"
  /\ Go(t, "post")
  /\ m_WriteBuffer' = [m_WriteBuffer EXCEPT ![2] = frame[t]]
  /\ m_nWriteLen' = m_nWriteLen + Size
  /\ UNCHANGED <<isOpen, broken, m_bWriteInProgress, pending, frame, len, result, out>>

(* post_write looks at the socket, the flag and the length; sendMessage      *)
(* returns 0 whatever it finds.                                              *)
PostWrite(t) ==
  /\ pc[t] = "post"
  /\ IF isOpen /\ ~m_bWriteInProgress /\ m_nWriteLen > 0
     THEN /\ Go(t, "posting")
          /\ UNCHANGED <<frame, result>>
     ELSE /\ Go(t, "idle")
          /\ frame' = [frame EXCEPT ![t] = Zero]
          /\ result' = [result EXCEPT ![frame[t]] = "accepted"]
  /\ UNCHANGED <<isOpen, broken, m_bWriteInProgress, m_WriteBuffer, m_nWriteLen,
                 pending, len, out>>

(* post_write without setting m_bWriteInProgress. *)
PostWriteStartUnmarked(t) ==
  /\ pc[t] = "posting"
  /\ Go(t, "idle")
  /\ pending' = pending + 1
  /\ frame' = [frame EXCEPT ![t] = Zero]
  /\ result' = [result EXCEPT ![frame[t]] = "accepted"]
  /\ UNCHANGED <<isOpen, broken, m_bWriteInProgress, m_WriteBuffer, m_nWriteLen,
                 len, out>>

(* post_write marks the write and starts waiting for the socket.             *)
PostWriteStart(t) ==
  /\ pc[t] = "posting"
  /\ Go(t, "idle")
  /\ m_bWriteInProgress' = TRUE
  /\ pending' = pending + 1
  /\ frame' = [frame EXCEPT ![t] = Zero]
  /\ result' = [result EXCEPT ![frame[t]] = "accepted"]
  /\ UNCHANGED <<isOpen, broken, m_WriteBuffer, m_nWriteLen, len, out>>

-------------------------------------------------------------------------------
(* handle_write: the socket is ready.  A write that stop() or a read error   *)
(* has cancelled comes back with an error and clears m_nWriteLen.            *)
HandleWrite(t) ==
  /\ pc[t] = "idle"
  /\ pending > 0
  /\ pending' = pending - 1
  /\ m_bWriteInProgress' = FALSE
  /\ \/ /\ Go(t, "wlock")
        /\ UNCHANGED m_nWriteLen
     \/ /\ ~isOpen
        /\ m_nWriteLen' = 0
        /\ UNCHANGED pc
  /\ UNCHANGED <<isOpen, broken, m_WriteBuffer, frame, len, result, out>>

(* It takes the mutex.                                                       *)
WriteLock(t) ==
  /\ pc[t] = "wlock"
  /\ MutexFree
  /\ Go(t, "write")
  /\ len' = [len EXCEPT ![t] = 0]
  /\ UNCHANGED <<isOpen, broken, m_bWriteInProgress, m_WriteBuffer, m_nWriteLen,
                 pending, frame, result, out>>

(* The last write_some leaves the length as it was. *)
WriteSomeKeepsLen(t, wlen) ==
  /\ pc[t] = "write"
  /\ isOpen /\ ~broken
  /\ wlen \in 1 .. m_nWriteLen
  /\ out' = out \o SubSeq(m_WriteBuffer, len[t] + 1, len[t] + wlen)
  /\ len' = [len EXCEPT ![t] = @ + wlen]
  /\ Go(t, IF wlen < m_nWriteLen THEN "write" ELSE "idle")
  /\ m_nWriteLen' = IF wlen < m_nWriteLen THEN m_nWriteLen - wlen ELSE m_nWriteLen
  /\ UNCHANGED <<isOpen, broken, m_bWriteInProgress, m_WriteBuffer, pending, frame,
                 result>>

(* One write_some of the loop of handle_write; the mutex is released with    *)
(* the last.                                                                 *)
WriteSome(t, wlen) ==
  /\ pc[t] = "write"
  /\ isOpen /\ ~broken
  /\ wlen \in 1 .. m_nWriteLen
  /\ out' = out \o SubSeq(m_WriteBuffer, len[t] + 1, len[t] + wlen)
  /\ len' = [len EXCEPT ![t] = @ + wlen]
  /\ m_nWriteLen' = m_nWriteLen - wlen
  /\ Go(t, IF m_nWriteLen' > 0 THEN "write" ELSE "idle")
  /\ UNCHANGED <<isOpen, broken, m_bWriteInProgress, m_WriteBuffer, pending, frame,
                 result>>

(* write_some returns 0, for there is nothing to write or the socket has     *)
(* failed: what is left moves to the top of the buffer, and m_nWriteLen is   *)
(* cleared all the same.                                                     *)
WriteNothing(t) ==
  /\ pc[t] = "write"
  /\ m_nWriteLen = 0 \/ ~isOpen \/ broken
  /\ m_WriteBuffer' = [i \in 1 .. Size |-> IF i <= m_nWriteLen THEN m_WriteBuffer[i + len[t]]
                                                             ELSE m_WriteBuffer[i]]
  /\ m_nWriteLen' = 0
  /\ Go(t, "idle")
  /\ UNCHANGED <<isOpen, broken, m_bWriteInProgress, pending, frame, len, result, out>>

-------------------------------------------------------------------------------
(* stop clears the flag and the buffer, without the mutex,                   *)
Stop(t) ==
  /\ pc[t] = "idle"
  /\ Go(t, "stop")
  /\ m_bWriteInProgress' = FALSE
  /\ m_WriteBuffer' = [i \in 1 .. Size |-> Zero]
  /\ UNCHANGED <<isOpen, broken, m_nWriteLen, pending, frame, len, result, out>>

(* and closes the socket.                                                    *)
StopClose(t) ==
  /\ pc[t] = "stop"
  /\ Go(t, "idle")
  /\ isOpen' = FALSE
  /\ m_bWriteInProgress' = FALSE
  /\ UNCHANGED <<broken, m_WriteBuffer, m_nWriteLen, pending, frame, len, result, out>>

(* handle_read fails and closes the socket.                                  *)
HandleReadError ==
  /\ \E t \in running : pc[t] = "idle"
  /\ isOpen
  /\ isOpen' = FALSE
  /\ UNCHANGED <<broken, m_bWriteInProgress, m_WriteBuffer, m_nWriteLen, pending, pc,
                 frame, len, result, out>>

(* The peer resets the connection.                                           *)
PeerResets ==
  /\ ~broken
  /\ broken' = TRUE
  /\ UNCHANGED <<isOpen, m_bWriteInProgress, m_WriteBuffer, m_nWriteLen, pending, pc,
                 frame, len, result, out>>

-------------------------------------------------------------------------------
Continue(t) ==
  \/ SendLock(t) \/ SendCopy(t) \/ PostWrite(t) \/ PostWriteStart(t)
  \/ WriteLock(t) \/ (\E wlen \in 1 .. Size : WriteSome(t, wlen)) \/ WriteNothing(t)
  \/ StopClose(t)

Next ==
  /\ \/ \E t \in running : \/ \E f \in Frame : SendMessage(t, f)
                           \/ HandleWrite(t) \/ Stop(t) \/ Continue(t)
     \/ HandleReadError \/ PeerResets
  /\ UNCHANGED running

(* Threads go on with what they have begun, and a socket becomes writable.   *)
Fairness ==
  /\ WF_vars(UNCHANGED running /\ \E t \in running : HandleWrite(t))
  /\ \A t \in Thread : WF_vars(UNCHANGED running /\ t \in running /\ Continue(t))

Spec == Init /\ [][Next]_vars /\ Fairness

-------------------------------------------------------------------------------
OneThread == \A t, u \in running : t = u
Stopping == ~isOpen \/ \E t \in running : pc[t] = "stop"
Written(f) == \E i \in 1 .. Len(out) : i % Size = 0 /\ out[i] = f

(* While no one stops the connection the peer receives whole frames: both    *)
(* units of a frame, in a row, and half a frame only while handle_write is   *)
(* in its loop or after a reset.  m_WriteMutex keeps a sendMessage of the    *)
(* other thread from copying over a frame that is being written.             *)
WholeFrames ==
  ~Stopping =>
    /\ \A i \in 1 .. Len(out) : /\ out[i] # Zero
                               /\ i % Size = 0 => out[i] = out[i - 1]
    /\ Len(out) % Size = 0 \/ broken \/ \E t \in running : pc[t] = "write"

(* The peer never receives a frame twice, whatever threads send and however  *)
(* many writes they have started: handle_write leaves m_nWriteLen at 0, so a *)
(* second one finds nothing.                                                 *)
WrittenOnce ==
  \A i, j \in 1 .. Len(out) :
    i % Size = 0 /\ j % Size = 0 /\ out[i] = out[j] /\ out[i] # Zero => i = j

(* m_bWriteInProgress tells, on an open connection of a process with one     *)
(* thread, that exactly one write is under way.                              *)
FlagCountsWrites ==
  OneThread /\ ~Stopping => pending = IF m_bWriteInProgress THEN 1 ELSE 0

(* In a process with one thread a frame for which sendMessage returned 0 is  *)
(* received by the peer unless the connection is closed or reset first.      *)
AcceptedIsWritten ==
  \A f \in Frame :
    OneThread /\ result[f] = "accepted" ~> (Written(f) \/ Stopping \/ broken)

(* While a write is in progress no new message is put into the buffer, as    *)
(* sendMessage says when it refuses one (tcpConnection.cpp:184).             *)
BufferHeldInProgress ==
  [][m_bWriteInProgress /\ m_bWriteInProgress' /\ pending' = pending
       => m_WriteBuffer' = m_WriteBuffer]_vars
===============================================================================
