------------------------- MODULE TcpConnectionProofs --------------------------
(***************************************************************************)
(* Proofs about the sending half of a connection, for any number of        *)
(* threads and any frames.                                                 *)
(***************************************************************************)
EXTENDS TcpConnection, SequenceTheorems, TLAPS

USE ConnectionAssumption DEF Zero, Size

-------------------------------------------------------------------------------
Sending == {"lock", "copy", "post", "posting"}
Holding == {"copy", "write"}

(* m_WriteMutex, and what its holder and the others find in m_nWriteLen.     *)
CtlInv ==
  /\ TypeOK
  /\ \A t, u \in running : pc[t] \in Holding /\ pc[u] \in Holding => t = u
  /\ \A t \in running : pc[t] \in Sending => frame[t] \in Frame
  /\ \A t \in running : pc[t] = "copy" => m_nWriteLen = 0
  /\ \A t \in running : pc[t] = "write" => len[t] + m_nWriteLen <= 2
  /\ MutexFree => m_nWriteLen \in {0, 2}

(* The step of one thread.                                                   *)
StepOf(t) ==
  \/ \E f \in Frame : SendMessage(t, f)
  \/ HandleWrite(t) \/ Stop(t) \/ Continue(t)

LEMMA NextSplit ==
  ASSUME [Next]_vars
  PROVE  running' = running
         /\ ((\E t \in running : StepOf(t)) \/ HandleReadError \/ PeerResets \/ UNCHANGED vars)
BY DEF Next, StepOf, vars

(* What write_some appends to the stream.                                    *)
LEMMA OutGrows ==
  ASSUME TypeOK, NEW t \in Thread, NEW wlen \in 1 .. 2, WriteSome(t, wlen),
         len[t] + wlen <= 2
  PROVE  /\ out' \in Seq(Frame \cup {Zero})
         /\ Len(out') = Len(out) + wlen
         /\ \A i \in 1 .. Len(out) : out'[i] = out[i]
         /\ \A k \in 1 .. wlen : out'[Len(out) + k] = m_WriteBuffer[len[t] + k]
<1> DEFINE part == SubSeq(m_WriteBuffer, len[t] + 1, len[t] + wlen)
<1>0. m_WriteBuffer \in [1 .. 2 -> Frame \cup {Zero}] /\ len[t] \in 0 .. 2 /\ out \in Seq(Frame \cup {Zero})
  BY DEF TypeOK
<1> DEFINE a == len[t] + 1
           b == len[t] + wlen
<1>1. a \in Int /\ b \in Int /\ a <= b /\ b - a + 1 = wlen /\ \A i \in a .. b : m_WriteBuffer[i] \in Frame \cup {Zero}
  BY <1>0
<1>2. /\ part \in Seq(Frame \cup {Zero}) /\ Len(part) = wlen
      /\ \A k \in 1 .. wlen : part[k] = m_WriteBuffer[len[t] + k]
  <2>1. part = SubSeq(m_WriteBuffer, a, b)
    OBVIOUS
  <2> HIDE DEF a, b, part
  <2>2. /\ part \in Seq(Frame \cup {Zero}) /\ Len(part) = IF a <= b THEN b - a + 1 ELSE 0
        /\ \A k \in 1 .. b - a + 1 : part[k] = m_WriteBuffer[a + k - 1]
    BY <1>1, <2>1, SubSeqProperties
  <2>3. \A k \in 1 .. wlen : a + k - 1 = len[t] + k
    BY <1>0 DEF a
  <2> QED
    BY <1>1, <2>2, <2>3
<1>3. out' = out \o part
  BY DEF WriteSome
<1> HIDE DEF part
<1>4. /\ out' \in Seq(Frame \cup {Zero}) /\ Len(out') = Len(out) + Len(part)
      /\ \A i \in 1 .. Len(out) + Len(part) : out'[i] = IF i <= Len(out) THEN out[i] ELSE part[i - Len(out)]
  BY <1>0, <1>2, <1>3, ConcatProperties
<1>5. Len(out) \in Nat
  BY <1>0
<1> QED
  BY <1>2, <1>4, <1>5

-------------------------------------------------------------------------------
LEMMA Booleans ==
  ASSUME TypeOK, [Next]_vars
  PROVE  isOpen' \in BOOLEAN /\ broken' \in BOOLEAN /\ m_bWriteInProgress' \in BOOLEAN
<1>0. isOpen \in BOOLEAN /\ broken \in BOOLEAN /\ m_bWriteInProgress \in BOOLEAN
  BY DEF TypeOK
<1>1. ASSUME NEW t \in running, StepOf(t)
      PROVE  /\ isOpen' = isOpen \/ isOpen' = FALSE
             /\ broken' = broken
             /\ m_bWriteInProgress' = m_bWriteInProgress \/ m_bWriteInProgress' = FALSE
                \/ m_bWriteInProgress' = TRUE
  BY <1>1 DEF StepOf, Continue, SendMessage, SendLock, SendCopy, PostWrite, PostWriteStart,
              HandleWrite, WriteLock, WriteSome, WriteNothing, Stop, StopClose
<1>2. CASE HandleReadError \/ PeerResets \/ UNCHANGED vars
  BY <1>0, <1>2, Zenon DEF HandleReadError, PeerResets, vars
<1>3. ASSUME NEW t \in running, StepOf(t)
      PROVE  isOpen' \in BOOLEAN /\ broken' \in BOOLEAN /\ m_bWriteInProgress' \in BOOLEAN
  BY <1>0, <1>1, <1>3, Zenon
<1> QED
  BY <1>2, <1>3, NextSplit, Zenon

(* What a step of thread t does to the control state: the types, and that    *)
(* the others are where they were.                                           *)
Types ==
  /\ m_WriteBuffer \in [1 .. 2 -> Frame \cup {Zero}]
  /\ m_nWriteLen \in 0 .. 2
  /\ pending \in Nat
  /\ pc \in [Thread -> Step]
  /\ frame \in [Thread -> Frame \cup {Zero}]
  /\ len \in [Thread -> 0 .. 2]
  /\ result \in [Frame -> {"unsent", "sending", "accepted", "dropped"}]
  /\ out \in Seq(Frame \cup {Zero})

Ctl ==
  /\ \A t, u \in running : pc[t] \in Holding /\ pc[u] \in Holding => t = u
  /\ \A t \in running : pc[t] \in Sending => frame[t] \in Frame
  /\ \A t \in running : pc[t] = "copy" => m_nWriteLen = 0
  /\ \A t \in running : pc[t] = "write" => len[t] + m_nWriteLen <= 2
  /\ MutexFree => m_nWriteLen \in {0, 2}

LEMMA StepTypes ==
  ASSUME CtlInv, NEW t \in running, StepOf(t), running' = running
  PROVE  Types' /\ Ctl'
<1>0. Types /\ Ctl /\ TypeOK /\ t \in Thread /\ running \subseteq Thread
  BY DEF CtlInv, Types, Ctl, TypeOK
<1>1. ASSUME NEW f \in Frame, SendMessage(t, f) PROVE Types' /\ Ctl'
  BY <1>0, <1>1 DEF SendMessage, Types, Ctl, Go, Step, Holding, Sending, MutexFree
<1>2. CASE SendLock(t)
  BY <1>0, <1>2 DEF SendLock, Types, Ctl, Go, Step, Holding, Sending, MutexFree
<1>3. CASE SendCopy(t)
  BY <1>0, <1>3 DEF SendCopy, Types, Ctl, Go, Step, Holding, Sending, MutexFree
<1>4. CASE PostWrite(t)
  BY <1>0, <1>4 DEF PostWrite, Types, Ctl, Go, Step, Holding, Sending, MutexFree
<1>5. CASE PostWriteStart(t)
  BY <1>0, <1>5 DEF PostWriteStart, Types, Ctl, Go, Step, Holding, Sending, MutexFree
<1>6. CASE HandleWrite(t)
  BY <1>0, <1>6 DEF HandleWrite, Types, Ctl, Go, Step, Holding, Sending, MutexFree
<1>7. CASE WriteLock(t)
  BY <1>0, <1>7 DEF WriteLock, Types, Ctl, Go, Step, Holding, Sending, MutexFree
<1>8. ASSUME NEW wlen \in 1 .. 2, WriteSome(t, wlen) PROVE Types' /\ Ctl'
  <2>1. len[t] + wlen <= 2 /\ m_nWriteLen' = m_nWriteLen - wlen /\ wlen <= m_nWriteLen /\ pc[t] = "write"
    <3>1. pc[t] = "write" /\ wlen \in 1 .. m_nWriteLen /\ m_nWriteLen' = m_nWriteLen - wlen
      BY <1>8 DEF WriteSome
    <3>2. m_nWriteLen \in 0 .. 2 /\ len[t] \in 0 .. 2 /\ len[t] + m_nWriteLen <= 2
      BY <1>0, <3>1 DEF Types, Ctl
    <3> QED
      BY ONLY <3>1, <3>2
  <2>2. out' \in Seq(Frame \cup {Zero})
    BY <1>0, <1>8, <2>1, OutGrows
  <2>3. /\ len' = [len EXCEPT ![t] = @ + wlen]
        /\ pc' = [pc EXCEPT ![t] = IF m_nWriteLen' > 0 THEN "write" ELSE "idle"]
        /\ UNCHANGED <<m_WriteBuffer, pending, frame, result>>
    BY <1>8 DEF WriteSome, Go
  <2>4. Types'
    <3>1. len' \in [Thread -> 0 .. 2] /\ m_nWriteLen' \in 0 .. 2
      BY <1>0, <2>1, <2>3 DEF Types
    <3>2. pc' \in [Thread -> Step]
      BY <1>0, <2>3 DEF Types, Step
    <3> QED
      BY <1>0, <2>2, <2>3, <3>1, <3>2 DEF Types
  <2>5. Ctl'
    <3>1. \A u \in running : u # t => pc'[u] = pc[u] /\ len'[u] = len[u] /\ pc[u] \notin Holding
      BY <1>0, <2>1, <2>3 DEF Types, Ctl, Holding
    <3>2. /\ pc'[t] = IF m_nWriteLen' > 0 THEN "write" ELSE "idle"
          /\ len'[t] = len[t] + wlen /\ frame' = frame
          /\ m_nWriteLen' \in 0 .. 2 /\ len'[t] + m_nWriteLen' <= 2
      BY <1>0, <2>1, <2>3 DEF Types, Ctl
    <3>3. MutexFree' => m_nWriteLen' \in {0, 2}
      BY <3>2 DEF MutexFree
    <3> QED
      BY <1>0, <3>1, <3>2, <3>3 DEF Ctl, Holding, Sending
  <2> QED
    BY <2>4, <2>5
<1>9. CASE WriteNothing(t)
  BY <1>0, <1>9 DEF WriteNothing, Types, Ctl, Go, Step, Holding, Sending, MutexFree
<1>10. CASE Stop(t)
  BY <1>0, <1>10 DEF Stop, Types, Ctl, Go, Step, Holding, Sending, MutexFree
<1>11. CASE StopClose(t)
  BY <1>0, <1>11 DEF StopClose, Types, Ctl, Go, Step, Holding, Sending, MutexFree
<1> QED
  BY <1>1, <1>2, <1>3, <1>4, <1>5, <1>6, <1>7, <1>8, <1>9, <1>10, <1>11 DEF StepOf, Continue

LEMMA NextCtl == CtlInv /\ [Next]_vars => CtlInv'
<1> SUFFICES ASSUME CtlInv, [Next]_vars PROVE CtlInv'
  OBVIOUS
<1>0. Types /\ Ctl /\ TypeOK
  BY DEF CtlInv, Types, Ctl, TypeOK
<1>1. ASSUME HandleReadError \/ PeerResets \/ UNCHANGED vars PROVE Types' /\ Ctl'
  <2>1. UNCHANGED <<running, m_WriteBuffer, m_nWriteLen, pending, pc, frame, len, result, out>>
    BY <1>1, NextSplit, Zenon DEF HandleReadError, PeerResets, vars
  <2> QED
    BY <1>0, <2>1 DEF Types, Ctl, MutexFree
<1>2. Types' /\ Ctl' /\ running' = running
  BY <1>0, <1>1, StepTypes, NextSplit
<1> QED
  BY <1>0, <1>2, Booleans DEF CtlInv, TypeOK, Types, Ctl

LEMMA InitCtl == Init => CtlInv
<1> SUFFICES ASSUME Init PROVE CtlInv
  OBVIOUS
<1>1. Types /\ Ctl /\ running \in SUBSET Thread
  BY DEF Init, Types, Ctl, Holding, Sending, Step
<1>2. isOpen \in BOOLEAN /\ broken \in BOOLEAN /\ m_bWriteInProgress \in BOOLEAN
  BY Zenon DEF Init
<1> QED
  BY <1>1, <1>2 DEF CtlInv, TypeOK, Types, Ctl

(* The type invariant of the connection, with m_WriteMutex held by at most   *)
(* one thread: m_nWriteLen and the offset of handle_write's loop never leave *)
(* m_WriteBuffer, whatever threads send, write and stop.                     *)
THEOREM ConnectionTypeCorrect == Spec => []TypeOK
<1>1. CtlInv => TypeOK
  BY DEF CtlInv
<1> QED
  BY InitCtl, NextCtl, <1>1, PTL DEF Spec

-------------------------------------------------------------------------------
(* While something can still be written, the stream ends where the loop of   *)
(* handle_write stands in its frame.                                         *)

Live == isOpen /\ ~broken
Writing(t) == pc[t] = "write"

Parity ==
  Live =>
    /\ \A t \in running : Writing(t) =>
         /\ len[t] + m_nWriteLen \in {0, 2} /\ (m_nWriteLen = 0 => len[t] = 0)
         /\ Len(out) % 2 = len[t]
    /\ (\A t \in running : ~Writing(t)) => Len(out) % 2 = 0

LEMMA OddEven ==
  ASSUME NEW n \in Nat
  PROVE  /\ n % 2 \in {0, 1}
         /\ n % 2 = 0 => (n + 1) % 2 = 1 /\ (n + 2) % 2 = 0
         /\ n % 2 = 1 => (n + 1) % 2 = 0
OBVIOUS

LEMMA EvenPositions ==
  ASSUME NEW n \in Nat, NEW wlen \in 1 .. 2, wlen = 1 \/ n % 2 = 0
  PROVE  \A i \in 1 .. n + wlen : i % 2 = 0 => i \in 1 .. n \/ i = n + wlen
<1>1. wlen = 2 => (n + 1) % 2 = 1
  BY OddEven
<1>2. \A i \in 1 .. n + wlen : i \in 1 .. n \/ i = n + wlen \/ (wlen = 2 /\ i = n + 1)
  OBVIOUS
<1> QED
  BY <1>1, <1>2

(* One write_some: it ends the frame, or stands after the first unit.        *)
LEMMA WriteSomeKinds ==
  ASSUME CtlInv, Parity, NEW t \in running, NEW wlen \in 1 .. 2, WriteSome(t, wlen)
  PROVE  /\ Live /\ Writing(t) /\ len[t] \in {0, 1}
         /\ Len(out) \in Nat /\ Len(out') = Len(out) + wlen
         /\ \A i \in 1 .. Len(out) : out'[i] = out[i]
         /\ \/ /\ m_nWriteLen' = 0 /\ pc' = [pc EXCEPT ![t] = "idle"]
               /\ Len(out') % 2 = 0 /\ out'[Len(out')] = m_WriteBuffer[2]
               /\ \/ wlen = 2 /\ Len(out) % 2 = 0 /\ out'[Len(out) + 1] = m_WriteBuffer[1]
                  \/ wlen = 1 /\ Len(out) % 2 = 1 /\ len[t] = 1
            \/ /\ m_nWriteLen' = 1 /\ pc' = [pc EXCEPT ![t] = "write"] /\ m_nWriteLen = 2
               /\ wlen = 1 /\ Len(out) % 2 = 0 /\ Len(out') % 2 = 1
               /\ len'[t] = 1 /\ out'[Len(out')] = m_WriteBuffer[1]
<1>0. t \in Thread /\ len \in [Thread -> 0 .. 2] /\ m_nWriteLen \in 0 .. 2 /\ out \in Seq(Frame \cup {Zero}) /\ TypeOK
  BY DEF CtlInv, TypeOK
<1>1. /\ Live /\ Writing(t) /\ wlen <= m_nWriteLen /\ m_nWriteLen' = m_nWriteLen - wlen
      /\ len' = [len EXCEPT ![t] = @ + wlen]
      /\ pc' = [pc EXCEPT ![t] = IF m_nWriteLen' > 0 THEN "write" ELSE "idle"]
  BY <1>0 DEF WriteSome, Live, Writing, Go
<1>2. len[t] + m_nWriteLen \in {0, 2} /\ Len(out) % 2 = len[t]
  BY <1>1 DEF Parity
<1>3. len[t] \in {0, 1} /\ len[t] + m_nWriteLen = 2 /\ len[t] + wlen <= 2
  BY <1>0, <1>1, <1>2
<1>4. /\ Len(out') = Len(out) + wlen
      /\ \A i \in 1 .. Len(out) : out'[i] = out[i]
      /\ \A k \in 1 .. wlen : out'[Len(out) + k] = m_WriteBuffer[len[t] + k]
  BY <1>0, <1>3, OutGrows
<1>5. Len(out) \in Nat
  BY <1>0
<1>6. CASE len[t] = 1
  <2>1. wlen = 1 /\ m_nWriteLen' = 0
    BY <1>0, <1>1, <1>3, <1>6
  <2>2. Len(out') % 2 = 0
    BY <1>2, <1>4, <1>5, <1>6, <2>1, OddEven
  <2>3. out'[Len(out')] = m_WriteBuffer[2]
    BY <1>4, <1>6, <2>1
  <2>4. pc' = [pc EXCEPT ![t] = "idle"] /\ Len(out) % 2 = 1
    <3>1. ~(m_nWriteLen' > 0)
      BY <2>1
    <3>2. Len(out) % 2 = 1
      BY <1>2, <1>6
    <3> QED
      BY <1>1, <3>1, <3>2, Zenon
  <2>5. Live /\ Writing(t) /\ len[t] \in {0, 1}
    BY <1>1, <1>3
  <2> QED
    BY ONLY <1>4, <1>5, <1>6, <2>1, <2>2, <2>3, <2>4, <2>5
<1>7. CASE len[t] = 0 /\ wlen = 2
  <2>1. m_nWriteLen' = 0
    BY <1>0, <1>1, <1>3, <1>7
  <2>2. Len(out') % 2 = 0
    BY <1>2, <1>4, <1>5, <1>7, OddEven
  <2>3. out'[Len(out')] = m_WriteBuffer[2] /\ out'[Len(out) + 1] = m_WriteBuffer[1]
    BY <1>4, <1>7
  <2>4. pc' = [pc EXCEPT ![t] = "idle"] /\ Len(out) % 2 = 0
    <3>1. ~(m_nWriteLen' > 0)
      BY <2>1
    <3>2. Len(out) % 2 = 0
      BY <1>2, <1>7
    <3> QED
      BY <1>1, <3>1, <3>2, Zenon
  <2>5. Live /\ Writing(t) /\ len[t] \in {0, 1}
    BY <1>1, <1>3
  <2> QED
    BY ONLY <1>4, <1>5, <1>7, <2>1, <2>2, <2>3, <2>4, <2>5
<1>8. CASE len[t] = 0 /\ wlen = 1
  <2>1. m_nWriteLen' = 1 /\ m_nWriteLen = 2 /\ len'[t] = 1
    BY <1>0, <1>1, <1>3, <1>8
  <2>2. Len(out') % 2 = 1
    BY <1>2, <1>4, <1>5, <1>8, OddEven
  <2>3. out'[Len(out')] = m_WriteBuffer[1]
    BY <1>4, <1>8
  <2>4. pc' = [pc EXCEPT ![t] = "write"] /\ Len(out) % 2 = 0
    BY <1>1, <1>2, <1>8, <2>1
  <2>5. Live /\ Writing(t) /\ len[t] \in {0, 1}
    BY <1>1, <1>3
  <2> QED
    BY ONLY <1>4, <1>5, <1>8, <2>1, <2>2, <2>3, <2>4, <2>5
<1> QED
  BY <1>3, <1>6, <1>7, <1>8

LEMMA NextParity == CtlInv /\ Parity /\ [Next]_vars => Parity'
<1> SUFFICES ASSUME CtlInv, Parity, [Next]_vars, Live' PROVE Parity'
  BY DEF Parity
<1> USE NextSplit DEF Writing
<1>0. /\ running' = running /\ running \subseteq Thread /\ m_nWriteLen \in 0 .. 2
      /\ pc \in [Thread -> Step] /\ len \in [Thread -> 0 .. 2]
  BY DEF CtlInv, TypeOK
<1>1. CASE HandleReadError \/ PeerResets
  BY <1>1, Zenon DEF HandleReadError, PeerResets, Live
<1>2. CASE UNCHANGED vars
  BY <1>2 DEF vars, Parity, Live
<1>3. ASSUME NEW t \in running, StepOf(t) PROVE Parity'
  <2>0. t \in Thread
    BY <1>0
  <2>1. ASSUME pc[t] # "write", pc'[t] # "write", UNCHANGED <<isOpen, broken, len, out>>,
               \A u \in running : u # t => pc'[u] = pc[u],
               (\E u \in running : Writing(u)) => m_nWriteLen' = m_nWriteLen
        PROVE  Parity'
    BY <1>0, <2>1 DEF Parity, Live
  <2>2. ASSUME NEW f \in Frame, SendMessage(t, f) PROVE Parity'
    BY <1>0, <2>0, <2>1, <2>2 DEF SendMessage, Go
  <2>3. CASE SendLock(t)
    BY <1>0, <2>0, <2>1, <2>3 DEF SendLock, Go, MutexFree
  <2>4. CASE SendCopy(t)
    BY <1>0, <2>0, <2>1, <2>4 DEF SendCopy, Go, CtlInv, Holding
  <2>5. CASE PostWrite(t) \/ PostWriteStart(t) \/ Stop(t)
    BY <1>0, <2>0, <2>1, <2>5 DEF PostWrite, PostWriteStart, Stop, Go
  <2>6. CASE HandleWrite(t)
    <3>1. isOpen
      BY <2>6 DEF HandleWrite, Live
    <3> QED
      BY <1>0, <2>0, <2>1, <2>6, <3>1 DEF HandleWrite, Go
  <2>7. CASE StopClose(t)
    BY <2>7, Zenon DEF StopClose, Live
  <2>8. CASE WriteLock(t)
    BY <1>0, <2>0, <2>8 DEF WriteLock, Go, MutexFree, Parity, Live, CtlInv
  <2>9. CASE WriteNothing(t)
    BY <1>0, <2>0, <2>9 DEF WriteNothing, Go, Parity, Live, CtlInv, Holding
  <2>10. ASSUME NEW wlen \in 1 .. 2, WriteSome(t, wlen) PROVE Parity'
    <3>1. \A u \in running : u # t => ~Writing(u)
      BY <2>10 DEF WriteSome, CtlInv, Holding
    <3>2. /\ \/ m_nWriteLen' = 0 /\ pc' = [pc EXCEPT ![t] = "idle"] /\ Len(out') % 2 = 0
             \/ /\ m_nWriteLen' = 1 /\ pc' = [pc EXCEPT ![t] = "write"]
                /\ Len(out') % 2 = 1 /\ len'[t] = 1
      BY <2>10, WriteSomeKinds
    <3> QED
      BY <1>0, <2>0, <3>1, <3>2 DEF Parity
  <2> QED
    BY <1>3, <2>2, <2>3, <2>4, <2>5, <2>6, <2>7, <2>8, <2>9, <2>10 DEF StepOf, Continue
<1> QED
  BY <1>1, <1>2, <1>3

LEMMA InitParity == Init => Parity
BY OddEven DEF Init, Parity, Writing

-------------------------------------------------------------------------------
(* A frame that is not written yet: the one in the buffer, those about to be *)
(* copied there and those not sent at all, and no two of them are the same.  *)

Early(t) == pc[t] \in {"lock", "copy"}

Fresh ==
  Live =>
    /\ m_nWriteLen > 0 => m_WriteBuffer[2] = Zero \/ ~Written(m_WriteBuffer[2])
    /\ \A t \in running : Early(t) => ~Written(frame[t]) /\ frame[t] # m_WriteBuffer[2]
    /\ \A t, u \in running : Early(t) /\ Early(u) /\ frame[t] = frame[u] => t = u
    /\ \A f \in Frame : result[f] = "unsent" =>
         ~Written(f) /\ f # m_WriteBuffer[2] /\ \A t \in running : frame[t] # f

(* What is written after a write_some.                                       *)
LEMMA WrittenAfter ==
  ASSUME CtlInv, Parity, NEW t \in running, NEW wlen \in 1 .. 2, WriteSome(t, wlen)
  PROVE  /\ m_nWriteLen' = 0 => \A g : Written(g)' <=> Written(g) \/ g = m_WriteBuffer[2]
         /\ m_nWriteLen' # 0 => \A g : Written(g)' <=> Written(g)
<1>0. /\ Len(out) \in Nat /\ Len(out') = Len(out) + wlen
      /\ \A i \in 1 .. Len(out) : out'[i] = out[i]
  BY WriteSomeKinds
<1>1. CASE m_nWriteLen' = 0
  <2>0. /\ Len(out') % 2 = 0 /\ out'[Len(out')] = m_WriteBuffer[2]
        /\ wlen = 1 \/ (wlen = 2 /\ Len(out) % 2 = 0)
    BY <1>1, WriteSomeKinds
  <2>1. \A i \in 1 .. Len(out') : i % 2 = 0 => i \in 1 .. Len(out) \/ i = Len(out')
    BY <1>0, <2>0, EvenPositions
  <2>2. Len(out') \in 1 .. Len(out')
    BY <1>0
  <2> QED
    BY <1>0, <1>1, <2>0, <2>1, <2>2 DEF Written
<1>2. CASE m_nWriteLen' # 0
  <2>0. wlen = 1 /\ Len(out') % 2 = 1
    BY <1>2, WriteSomeKinds
  <2>1. \A i \in 1 .. Len(out') : i % 2 = 0 => i \in 1 .. Len(out)
    BY <1>0, <2>0
  <2> QED
    BY <1>0, <1>2, <2>1 DEF Written
<1> QED
  BY <1>1, <1>2

LEMMA NextFresh == CtlInv /\ Parity /\ Fresh /\ [Next]_vars => Fresh'
<1> SUFFICES ASSUME CtlInv, Parity, Fresh, [Next]_vars, Live' PROVE Fresh'
  BY DEF Fresh
<1>0. /\ running' = running /\ running \subseteq Thread /\ m_nWriteLen \in 0 .. 2
      /\ pc \in [Thread -> Step] /\ frame \in [Thread -> Frame \cup {Zero}]
      /\ m_WriteBuffer \in [1 .. 2 -> Frame \cup {Zero}]
      /\ result \in [Frame -> {"unsent", "sending", "accepted", "dropped"}]
  BY NextSplit DEF CtlInv, TypeOK
<1>1. CASE HandleReadError \/ PeerResets
  BY <1>1, Zenon DEF HandleReadError, PeerResets, Live
<1>2. CASE UNCHANGED vars
  BY <1>2 DEF vars, Fresh, Live, Written, Early
<1>3. ASSUME NEW t \in running, StepOf(t) PROVE Fresh'
  <2>0. t \in Thread /\ (pc[t] \in Sending => frame[t] \in Frame)
    BY <1>0 DEF CtlInv
  <2>1. ASSUME out' = out PROVE \A g : Written(g)' <=> Written(g)
    BY <2>1 DEF Written
  <2>k. ASSUME UNCHANGED <<isOpen, broken, out>>, m_WriteBuffer'[2] = m_WriteBuffer[2],
               m_nWriteLen' \in {0, m_nWriteLen},
               \A u \in running : Early(u)' => Early(u) /\ frame'[u] = frame[u],
               \A f \in Frame : result'[f] = "unsent" =>
                 result[f] = "unsent" /\ \A u \in running : frame'[u] \in {frame[u], Zero}
        PROVE  Fresh'
    <3>1. Live /\ Live'
      BY <2>k DEF Live
    <3>2. \A f \in Frame : result'[f] = "unsent" => \A u \in running : frame'[u] # f
      BY <2>k, <3>1, ConnectionAssumption DEF Fresh
    <3> QED
      BY <1>0, <2>1, <2>k, <3>1, <3>2 DEF Fresh
  <2>2. ASSUME NEW f \in Frame, SendMessage(t, f) PROVE Fresh'
    <3>1. UNCHANGED <<isOpen, broken, m_WriteBuffer, m_nWriteLen, out>> /\ result[f] = "unsent"
      BY <2>2 DEF SendMessage
    <3>2. Fresh /\ Live
      BY <3>1 DEF Live
    <3>3. result'[f] # "unsent" /\ \A g \in Frame \ {f} : result'[g] = result[g]
      BY <1>0, <2>2 DEF SendMessage
    <3>4. \A u \in running \ {t} : (Early(u)' => Early(u)) /\ frame'[u] = frame[u]
      BY <1>0, <2>0, <2>2 DEF SendMessage, Go, Early
    <3>5. frame'[t] = f \/ ((Early(t)' => Early(t)) /\ frame'[t] = frame[t])
      BY <1>0, <2>0, <2>2 DEF SendMessage, Early
    <3> HIDE <2>2
    <3>6. \A g \in Frame : result'[g] = "unsent" => \A u \in running : frame'[u] # g
      BY <3>2, <3>3, <3>4, <3>5 DEF Fresh
    <3>7. \A u \in running : Early(u)' => ~Written(frame'[u]) /\ frame'[u] # m_WriteBuffer[2]
      BY <3>1, <3>2, <3>4, <3>5 DEF Fresh
    <3>8. \A u, v \in running : Early(u)' /\ Early(v)' /\ frame'[u] = frame'[v] => u = v
      BY <3>1, <3>2, <3>4, <3>5 DEF Fresh
    <3> QED
      BY <1>0, <2>1, <3>1, <3>2, <3>3, <3>6, <3>7, <3>8 DEF Fresh
  <2>3. CASE SendLock(t)
    <3>1. /\ UNCHANGED <<isOpen, broken, out>> /\ m_WriteBuffer'[2] = m_WriteBuffer[2]
          /\ m_nWriteLen' \in {0, m_nWriteLen}
      BY <1>0, <2>3 DEF SendLock
    <3>2. \A f \in Frame : result'[f] = "unsent" => result[f] = "unsent"
      BY <1>0, <2>0, <2>3 DEF SendLock, Sending
    <3>3. \A u \in running : frame'[u] \in {frame[u], Zero}
      BY <1>0, <2>0, <2>3 DEF SendLock
    <3>4. \A u \in running : Early(u)' => Early(u) /\ frame'[u] = frame[u]
      BY <1>0, <2>0, <2>3 DEF SendLock, Go, Early
    <3> QED
      BY <2>k, <3>1, <3>2, <3>3, <3>4
  <2>4. CASE SendCopy(t)
    BY <1>0, <2>0, <2>1, <2>4 DEF SendCopy, Go, Fresh, Live, Early, Sending
  <2>5. CASE PostWrite(t)
    <3>1. /\ UNCHANGED <<isOpen, broken, out>> /\ m_WriteBuffer'[2] = m_WriteBuffer[2]
          /\ m_nWriteLen' \in {0, m_nWriteLen}
      BY <1>0, <2>5 DEF PostWrite
    <3>2. \A f \in Frame : result'[f] = "unsent" => result[f] = "unsent"
      BY <1>0, <2>0, <2>5 DEF PostWrite, Sending
    <3>3. \A u \in running : frame'[u] \in {frame[u], Zero}
      BY <1>0, <2>0, <2>5 DEF PostWrite
    <3>4. \A u \in running : Early(u)' => Early(u) /\ frame'[u] = frame[u]
      BY <1>0, <2>0, <2>5 DEF PostWrite, Go, Early
    <3> QED
      BY <2>k, <3>1, <3>2, <3>3, <3>4
  <2>6. CASE PostWriteStart(t)
    <3>1. /\ UNCHANGED <<isOpen, broken, out>> /\ m_WriteBuffer'[2] = m_WriteBuffer[2]
          /\ m_nWriteLen' \in {0, m_nWriteLen}
      BY <1>0, <2>6 DEF PostWriteStart
    <3>2. \A f \in Frame : result'[f] = "unsent" => result[f] = "unsent"
      BY <1>0, <2>0, <2>6 DEF PostWriteStart, Sending
    <3>3. \A u \in running : frame'[u] \in {frame[u], Zero}
      BY <1>0, <2>0, <2>6 DEF PostWriteStart
    <3>4. \A u \in running : Early(u)' => Early(u) /\ frame'[u] = frame[u]
      BY <1>0, <2>0, <2>6 DEF PostWriteStart, Go, Early
    <3> QED
      BY <2>k, <3>1, <3>2, <3>3, <3>4
  <2>7. CASE Stop(t)
    BY <1>0, <2>0, <2>1, <2>7 DEF Stop, Go, Fresh, Live, Early, CtlInv, Sending
  <2>8. CASE HandleWrite(t)
    <3>1. /\ UNCHANGED <<isOpen, broken, out>> /\ m_WriteBuffer'[2] = m_WriteBuffer[2]
          /\ m_nWriteLen' \in {0, m_nWriteLen}
      BY <1>0, <2>8 DEF HandleWrite
    <3>2. \A f \in Frame : result'[f] = "unsent" => result[f] = "unsent"
      BY <1>0, <2>0, <2>8 DEF HandleWrite, Sending
    <3>3. \A u \in running : frame'[u] \in {frame[u], Zero}
      BY <1>0, <2>0, <2>8 DEF HandleWrite
    <3>4. \A u \in running : Early(u)' => Early(u) /\ frame'[u] = frame[u]
      BY <1>0, <2>0, <2>8 DEF HandleWrite, Go, Early
    <3> QED
      BY <2>k, <3>1, <3>2, <3>3, <3>4
  <2>9. CASE StopClose(t)
    BY <2>9, Zenon DEF StopClose, Live
  <2>10. CASE WriteLock(t)
    <3>1. /\ UNCHANGED <<isOpen, broken, out>> /\ m_WriteBuffer'[2] = m_WriteBuffer[2]
          /\ m_nWriteLen' \in {0, m_nWriteLen}
      BY <1>0, <2>10 DEF WriteLock
    <3>2. \A f \in Frame : result'[f] = "unsent" => result[f] = "unsent"
      BY <1>0, <2>0, <2>10 DEF WriteLock, Sending
    <3>3. \A u \in running : frame'[u] \in {frame[u], Zero}
      BY <1>0, <2>0, <2>10 DEF WriteLock
    <3>4. \A u \in running : Early(u)' => Early(u) /\ frame'[u] = frame[u]
      BY <1>0, <2>0, <2>10 DEF WriteLock, Go, Early
    <3> QED
      BY <2>k, <3>1, <3>2, <3>3, <3>4
  <2>11. CASE WriteNothing(t)
    <3>1. /\ UNCHANGED <<isOpen, broken, out>> /\ m_WriteBuffer'[2] = m_WriteBuffer[2]
          /\ m_nWriteLen' \in {0, m_nWriteLen}
      <4>1. m_nWriteLen = 0
        BY <2>11 DEF WriteNothing, Live
      <4> QED
        BY <1>0, <2>11, <4>1 DEF WriteNothing
    <3>2. \A f \in Frame : result'[f] = "unsent" => result[f] = "unsent"
      BY <1>0, <2>0, <2>11 DEF WriteNothing, Sending
    <3>3. \A u \in running : frame'[u] \in {frame[u], Zero}
      BY <1>0, <2>0, <2>11 DEF WriteNothing
    <3>4. \A u \in running : Early(u)' => Early(u) /\ frame'[u] = frame[u]
      BY <1>0, <2>0, <2>11 DEF WriteNothing, Go, Early
    <3> QED
      BY <2>k, <3>1, <3>2, <3>3, <3>4
  <2>12. ASSUME NEW wlen \in 1 .. 2, WriteSome(t, wlen) PROVE Fresh'
    <3>1. UNCHANGED <<isOpen, broken, m_WriteBuffer, frame, result>> /\ m_nWriteLen > 0
      BY <1>0, <2>12 DEF WriteSome
    <3>2. \A u \in running : Early(u)' => Early(u)
      BY <1>0, <2>0, <2>12 DEF WriteSome, Go, Early
    <3>3. m_nWriteLen' \in {0, 1}
      BY <2>12, WriteSomeKinds
    <3> QED
      BY <1>0, <2>12, <3>1, <3>2, <3>3, WrittenAfter DEF Fresh, Live
  <2> QED
    BY <1>3, <2>2, <2>3, <2>4, <2>5, <2>6, <2>7, <2>8, <2>9, <2>10, <2>11, <2>12 DEF StepOf, Continue
<1> QED
  BY <1>1, <1>2, <1>3, NextSplit

LEMMA InitFresh == Init => Fresh
BY DEF Init, Fresh, Written, Early

(* Only write_some lengthens the stream.                                     *)
LEMMA OutSteps ==
  ASSUME [Next]_vars
  PROVE  \/ out' = out
         \/ \E t \in running : \E wlen \in 1 .. 2 : WriteSome(t, wlen)
BY NextSplit, Zenon DEF StepOf, Continue, SendMessage, SendLock, SendCopy, PostWrite, PostWriteStart,
     HandleWrite, WriteLock, WriteNothing, Stop, StopClose, HandleReadError, PeerResets, vars

LEMMA NextWrittenOnce ==
  CtlInv /\ Parity /\ Fresh /\ WrittenOnce /\ [Next]_vars => WrittenOnce'
<1> SUFFICES ASSUME CtlInv, Parity, Fresh, WrittenOnce, [Next]_vars PROVE WrittenOnce'
  OBVIOUS
<1>1. CASE out' = out
  BY <1>1 DEF WrittenOnce
<1>2. ASSUME NEW t \in running, NEW wlen \in 1 .. 2, WriteSome(t, wlen) PROVE WrittenOnce'
  <2>0. /\ Len(out) \in Nat /\ Len(out') = Len(out) + wlen /\ Live
        /\ \A i \in 1 .. Len(out) : out'[i] = out[i]
    BY <1>2, WriteSomeKinds
  <2>1. CASE m_nWriteLen' = 0
    <3>0. /\ Len(out') % 2 = 0 /\ out'[Len(out')] = m_WriteBuffer[2]
          /\ wlen = 1 \/ (wlen = 2 /\ Len(out) % 2 = 0)
      BY <1>2, <2>1, WriteSomeKinds
    <3>1. \A i \in 1 .. Len(out') : i % 2 = 0 => i \in 1 .. Len(out) \/ i = Len(out')
      BY <2>0, <3>0, EvenPositions
    <3>2. m_nWriteLen > 0
      BY <1>2 DEF WriteSome, CtlInv, TypeOK
    <3>3. m_WriteBuffer[2] = Zero \/ ~Written(m_WriteBuffer[2])
      BY <2>0, <3>2 DEF Fresh
    <3>4. \A i \in 1 .. Len(out) : i % 2 = 0 /\ out[i] # Zero => out[i] # out'[Len(out')]
      BY <3>0, <3>3 DEF Written
    <3> QED
      BY <2>0, <3>0, <3>1, <3>4 DEF WrittenOnce
  <2>2. CASE m_nWriteLen' # 0
    <3>0. wlen = 1 /\ Len(out') % 2 = 1
      BY <1>2, <2>2, WriteSomeKinds
    <3>1. \A i \in 1 .. Len(out') : i % 2 = 0 => i \in 1 .. Len(out)
      BY <2>0, <3>0
    <3> QED
      BY <2>0, <3>1 DEF WrittenOnce
  <2> QED
    BY <2>1, <2>2
<1> QED
  BY <1>1, <1>2, OutSteps

(* The peer never receives a frame twice, whatever threads send, write and   *)
(* stop, and however many writes they have started.                          *)
THEOREM ConnectionWrittenOnce == Spec => []WrittenOnce
<1>1. Init => WrittenOnce
  BY DEF Init, WrittenOnce
<1> QED
  BY <1>1, InitCtl, NextCtl, InitParity, NextParity, InitFresh, NextFresh, NextWrittenOnce, PTL DEF Spec

-------------------------------------------------------------------------------
(* While no one stops the connection, what is to be written is one frame.    *)

InBuffer ==
  /\ m_nWriteLen > 0 => m_WriteBuffer[1] = m_WriteBuffer[2] /\ m_WriteBuffer[2] \in Frame
  /\ \A t \in running : pc[t] = "copy" => m_WriteBuffer[1] = frame[t]
  /\ ~broken => \A t \in running : Writing(t) /\ len[t] = 1 => out[Len(out)] = m_WriteBuffer[1]

InPairs == \A i \in 1 .. Len(out) : out[i] # Zero /\ (i % 2 = 0 => out[i] = out[i - 1])

Whole == ~Stopping => InBuffer /\ InPairs

LEMMA StoppingStays ==
  ASSUME CtlInv, [Next]_vars, ~Stopping'
  PROVE  ~Stopping /\ isOpen /\ isOpen'
<1>0. pc \in [Thread -> Step] /\ running \subseteq Thread /\ running' = running
  BY NextSplit DEF CtlInv, TypeOK
<1>1. isOpen' /\ \A u \in running : pc'[u] # "stop"
  BY <1>0 DEF Stopping
<1>2. isOpen
  BY <1>1, NextSplit, Zenon DEF StepOf, Continue, SendMessage, SendLock, SendCopy, PostWrite, PostWriteStart,
     HandleWrite, WriteLock, WriteSome, WriteNothing, Stop, StopClose, HandleReadError, PeerResets, vars
<1>3. ASSUME NEW t \in running, StepOf(t)
      PROVE  pc[t] # "stop" /\ \A u \in running : u # t => pc'[u] = pc[u]
  <2>0. ~StopClose(t)
    BY <1>1, Zenon DEF StopClose
  <2> QED
    BY <1>0, <1>3, <2>0 DEF StepOf, Continue, SendMessage, SendLock, SendCopy, PostWrite,
       PostWriteStart, HandleWrite, WriteLock, WriteSome, WriteNothing, Stop, Go
<1>4. \A u \in running : pc[u] # "stop"
  BY <1>1, <1>3, NextSplit, Zenon DEF HandleReadError, PeerResets, vars
<1> QED
  BY <1>1, <1>2, <1>4 DEF Stopping

(* An empty buffer that nobody is using holds what it should.                *)
LEMMA NobodyHolds ==
  ASSUME running' = running, m_nWriteLen' = 0, \A u \in running : pc'[u] \notin Holding
  PROVE  InBuffer'
BY DEF InBuffer, Holding, Writing

LEMMA NextWhole == CtlInv /\ Parity /\ Whole /\ [Next]_vars => Whole'
<1> SUFFICES ASSUME CtlInv, Parity, Whole, [Next]_vars, ~Stopping' PROVE InBuffer' /\ InPairs'
  BY DEF Whole
<1> USE DEF Writing
<1>0. /\ running' = running /\ running \subseteq Thread /\ m_nWriteLen \in 0 .. 2
      /\ pc \in [Thread -> Step] /\ frame \in [Thread -> Frame \cup {Zero}]
      /\ m_WriteBuffer \in [1 .. 2 -> Frame \cup {Zero}] /\ len \in [Thread -> 0 .. 2]
      /\ broken \in BOOLEAN
  BY NextSplit DEF CtlInv, TypeOK
<1>1. /\ m_nWriteLen > 0 => m_WriteBuffer[1] = m_WriteBuffer[2] /\ m_WriteBuffer[2] \in Frame
      /\ \A t \in running : pc[t] = "copy" => m_WriteBuffer[1] = frame[t]
      /\ ~broken => \A t \in running : Writing(t) /\ len[t] = 1 => out[Len(out)] = m_WriteBuffer[1]
      /\ InPairs
  BY StoppingStays DEF Whole, InBuffer
<1>p. ASSUME out' = out PROVE InPairs'
  BY <1>1, <1>p DEF InPairs
<1>2. CASE HandleReadError \/ PeerResets \/ UNCHANGED vars
  BY <1>0, <1>1, <1>2, <1>p DEF HandleReadError, PeerResets, vars, InBuffer
<1>3. ASSUME NEW t \in running, StepOf(t) PROVE InBuffer' /\ InPairs'
  <2>0. t \in Thread /\ (pc[t] \in Sending => frame[t] \in Frame)
    BY <1>0 DEF CtlInv
  <2>1. ASSUME UNCHANGED <<broken, m_WriteBuffer, len, out>>,
               m_nWriteLen' = m_nWriteLen \/ m_nWriteLen' = 0,
               \A u \in running : /\ pc'[u] = "copy" => pc[u] = "copy" /\ frame'[u] = frame[u]
                                  /\ pc'[u] = "write" => pc[u] = "write"
        PROVE  InBuffer' /\ InPairs'
    <3>1. m_nWriteLen' > 0 => m_nWriteLen > 0
      BY <1>0, <2>1
    <3> QED
      BY <1>0, <1>1, <1>p, <2>1, <3>1 DEF InBuffer
  <2>2. ASSUME NEW f \in Frame, SendMessage(t, f) PROVE InBuffer' /\ InPairs'
    BY <1>0, <2>0, <2>1, <2>2 DEF SendMessage, Go
  <2>3. CASE PostWrite(t) \/ PostWriteStart(t) \/ HandleWrite(t) \/ StopClose(t)
    BY <1>0, <2>0, <2>1, <2>3 DEF PostWrite, PostWriteStart, HandleWrite, StopClose, Go
  <2>4. CASE SendLock(t)
    <3>1. out' = out
      BY <2>4 DEF SendLock
    <3>2. m_nWriteLen' = 0 /\ m_WriteBuffer'[1] = frame[t] /\ UNCHANGED <<broken, frame, len>>
      BY <1>0, <2>4 DEF SendLock
    <3>3. \A u \in running : (pc'[u] = "copy" => u = t) /\ pc'[u] # "write"
      BY <1>0, <2>0, <2>4 DEF SendLock, Go, MutexFree
    <3> QED
      BY <1>0, <1>p, <3>1, <3>2, <3>3 DEF InBuffer
  <2>5. CASE SendCopy(t)
    <3>1. /\ m_WriteBuffer' = [m_WriteBuffer EXCEPT ![2] = frame[t]] /\ m_WriteBuffer[1] = frame[t]
          /\ pc' = [pc EXCEPT ![t] = "post"] /\ frame[t] \in Frame
          /\ UNCHANGED <<broken, frame, len, out>>
      BY <1>1, <2>0, <2>5 DEF SendCopy, Go, Sending
    <3>2. \A u \in running : pc'[u] \notin Holding
      BY <1>0, <2>0, <2>5, <3>1 DEF SendCopy, CtlInv, Holding
    <3> QED
      BY <1>0, <1>p, <3>1, <3>2 DEF InBuffer, Holding
  <2>6. CASE WriteLock(t)
    <3>1. out' = out
      BY <2>6 DEF WriteLock
    <3> QED
      BY <1>0, <1>1, <1>p, <2>0, <2>6, <3>1 DEF WriteLock, Go, MutexFree, InBuffer
  <2>7. CASE WriteNothing(t)
    <3>1. m_nWriteLen' = 0 /\ pc' = [pc EXCEPT ![t] = "idle"] /\ out' = out
      BY <2>7 DEF WriteNothing, Go
    <3>2. \A u \in running : pc'[u] \notin Holding
      BY <1>0, <2>0, <2>7, <3>1 DEF WriteNothing, CtlInv, Holding
    <3> QED
      BY <1>0, <1>p, <3>1, <3>2, NobodyHolds
  <2>8. CASE Stop(t)
    BY <1>0, <2>0, <2>8 DEF Stop, Go, Stopping
  <2>9. ASSUME NEW wlen \in 1 .. 2, WriteSome(t, wlen) PROVE InBuffer' /\ InPairs'
    <3>0. /\ Live /\ Writing(t) /\ Len(out) \in Nat /\ Len(out') = Len(out) + wlen
          /\ \A i \in 1 .. Len(out) : out'[i] = out[i]
      BY <2>9, WriteSomeKinds
    <3>j. pc \in [Thread -> Step] /\ t \in Thread
      BY <1>0, <2>0
    <3>k. \/ /\ m_nWriteLen' = 0 /\ pc'[t] = "idle" /\ out'[Len(out')] = m_WriteBuffer[2]
             /\ \/ wlen = 2 /\ Len(out) % 2 = 0 /\ out'[Len(out) + 1] = m_WriteBuffer[1]
                \/ wlen = 1 /\ Len(out) % 2 = 1 /\ len[t] = 1
          \/ /\ m_nWriteLen' = 1 /\ pc'[t] = "write" /\ out'[Len(out')] = m_WriteBuffer[1]
             /\ wlen = 1 /\ Len(out') % 2 = 1 /\ len'[t] = 1
      <4>1. \/ /\ m_nWriteLen' = 0 /\ pc' = [pc EXCEPT ![t] = "idle"]
               /\ out'[Len(out')] = m_WriteBuffer[2]
               /\ \/ wlen = 2 /\ Len(out) % 2 = 0 /\ out'[Len(out) + 1] = m_WriteBuffer[1]
                  \/ wlen = 1 /\ Len(out) % 2 = 1 /\ len[t] = 1
            \/ /\ m_nWriteLen' = 1 /\ pc' = [pc EXCEPT ![t] = "write"]
               /\ out'[Len(out')] = m_WriteBuffer[1]
               /\ wlen = 1 /\ Len(out') % 2 = 1 /\ len'[t] = 1
        BY <2>9, WriteSomeKinds, Zenon
      <4> QED
        BY <3>j, <4>1
    <3>1. /\ m_nWriteLen > 0 /\ m_nWriteLen' \in {0, 1}
          /\ UNCHANGED <<broken, m_WriteBuffer, frame>>
      <4>1. wlen \in 1 .. m_nWriteLen /\ UNCHANGED <<broken, m_WriteBuffer, frame>>
        BY <2>9 DEF WriteSome
      <4>2. m_nWriteLen > 0
        BY <1>0, <4>1
      <4>3. m_nWriteLen' \in {0, 1}
        BY <3>k
      <4> QED
        BY <4>1, <4>2, <4>3
    <3>2. m_WriteBuffer[1] = m_WriteBuffer[2] /\ m_WriteBuffer[2] \in Frame /\ m_WriteBuffer[2] # Zero
      BY <1>1, <3>1
    <3>3. \A u \in running : u # t => pc'[u] = pc[u] /\ pc[u] \notin Holding
      BY <1>0, <2>0, <2>9, <3>0 DEF WriteSome, Go, CtlInv, Holding
    <3>4. \A i \in 1 .. Len(out) : out'[i] # Zero /\ (i % 2 = 0 => out'[i] = out'[i - 1])
      <4>1. \A i \in 1 .. Len(out) : i % 2 = 0 => i - 1 \in 1 .. Len(out)
        BY <3>0
      <4> QED
        BY <1>1, <3>0, <4>1 DEF InPairs
    <3>5. CASE m_nWriteLen' = 0 /\ wlen = 2
      <4>1. /\ Len(out) % 2 = 0 /\ out'[Len(out) + 1] = m_WriteBuffer[1]
            /\ out'[Len(out) + 2] = m_WriteBuffer[2] /\ pc'[t] = "idle"
        BY <3>0, <3>5, <3>k
      <4>2. (Len(out) + 1) % 2 = 1
        BY <3>0, <4>1, OddEven
      <4>3. \A i \in 1 .. Len(out') : i \in 1 .. Len(out) \/ i = Len(out) + 1 \/ i = Len(out) + 2
        BY <3>0, <3>5
      <4>4. \A i \in 1 .. Len(out') : out'[i] # Zero /\ (i % 2 = 0 => out'[i] = out'[i - 1])
        <5> SUFFICES ASSUME NEW i \in 1 .. Len(out')
                     PROVE  out'[i] # Zero /\ (i % 2 = 0 => out'[i] = out'[i - 1])
          OBVIOUS
        <5>1. CASE i \in 1 .. Len(out)
          BY <3>4, <5>1
        <5>2. CASE i = Len(out) + 1
          BY <3>2, <4>1, <4>2, <5>2
        <5>3. CASE i = Len(out) + 2
          <6>1. i - 1 = Len(out) + 1
            BY <3>0, <5>3
          <6> QED
            BY <3>2, <4>1, <5>3, <6>1
        <5> QED
          BY <4>3, <5>1, <5>2, <5>3
      <4> QED
        <5>1. \A u \in running : pc'[u] \notin Holding
          BY <1>0, <3>3, <4>1 DEF Holding
        <5> QED
          BY <1>0, <3>5, <4>4, <5>1, NobodyHolds DEF InPairs
    <3>6. CASE m_nWriteLen' = 0 /\ wlen = 1
      <4>1. /\ Len(out) % 2 = 1 /\ len[t] = 1 /\ out'[Len(out) + 1] = m_WriteBuffer[2] /\ pc'[t] = "idle"
        BY <3>0, <3>6, <3>k
      <4>2. out[Len(out)] = m_WriteBuffer[1] /\ Len(out) \in 1 .. Len(out)
        BY <1>1, <3>0, <4>1 DEF Live
      <4>3. \A i \in 1 .. Len(out') : i \in 1 .. Len(out) \/ i = Len(out) + 1
        BY <3>0, <3>6
      <4>4. \A i \in 1 .. Len(out') : out'[i] # Zero /\ (i % 2 = 0 => out'[i] = out'[i - 1])
        <5> SUFFICES ASSUME NEW i \in 1 .. Len(out')
                     PROVE  out'[i] # Zero /\ (i % 2 = 0 => out'[i] = out'[i - 1])
          OBVIOUS
        <5>1. CASE i \in 1 .. Len(out)
          BY <3>4, <5>1
        <5>2. CASE i = Len(out) + 1
          <6>1. i - 1 = Len(out)
            BY <3>0, <5>2
          <6> QED
            BY <3>0, <3>2, <4>1, <4>2, <5>2, <6>1
        <5> QED
          BY <4>3, <5>1, <5>2
      <4> QED
        <5>1. \A u \in running : pc'[u] \notin Holding
          BY <1>0, <3>3, <4>1 DEF Holding
        <5> QED
          BY <1>0, <3>6, <4>4, <5>1, NobodyHolds DEF InPairs
    <3>7. CASE m_nWriteLen' = 1
      <4>1. /\ wlen = 1 /\ Len(out') % 2 = 1 /\ len'[t] = 1 /\ pc'[t] = "write"
            /\ out'[Len(out')] = m_WriteBuffer[1]
        BY <3>7, <3>k
      <4>2. \A i \in 1 .. Len(out') : i \in 1 .. Len(out) \/ i = Len(out')
        BY <3>0, <4>1
      <4>3. \A i \in 1 .. Len(out') : out'[i] # Zero /\ (i % 2 = 0 => out'[i] = out'[i - 1])
        <5> SUFFICES ASSUME NEW i \in 1 .. Len(out')
                     PROVE  out'[i] # Zero /\ (i % 2 = 0 => out'[i] = out'[i - 1])
          OBVIOUS
        <5>1. CASE i \in 1 .. Len(out)
          BY <3>4, <5>1
        <5>2. CASE i = Len(out')
          BY <3>2, <4>1, <5>2
        <5> QED
          BY <4>2, <5>1, <5>2
      <4> QED
        <5>1. InBuffer'
          BY <1>0, <3>1, <3>2, <3>3, <3>7, <4>1 DEF InBuffer, Holding
        <5> QED
          BY <4>3, <5>1 DEF InPairs
    <3> QED
      BY <3>1, <3>5, <3>6, <3>7
  <2> QED
    BY <1>3, <2>2, <2>3, <2>4, <2>5, <2>6, <2>7, <2>8, <2>9 DEF StepOf, Continue
<1> QED
  BY <1>2, <1>3, NextSplit

(* While no one stops the connection the peer receives whole frames, for any *)
(* number of threads: m_WriteMutex is held from the first to the last unit   *)
(* both when a frame is copied and when it is written.                       *)
THEOREM ConnectionWholeFrames == Spec => []WholeFrames
<1>1. Init => Whole
  BY DEF Init, Whole, InBuffer, InPairs, Writing
<1>2. CtlInv /\ Parity /\ Whole => WholeFrames
  <2> SUFFICES ASSUME CtlInv, Parity, Whole, ~Stopping
               PROVE  /\ \A i \in 1 .. Len(out) : /\ out[i] # Zero
                                                 /\ i % 2 = 0 => out[i] = out[i - 1]
                      /\ Len(out) % 2 = 0 \/ broken \/ \E t \in running : pc[t] = "write"
    BY DEF WholeFrames
  <2>1. isOpen
    BY DEF Stopping
  <2> QED
    BY <2>1 DEF Whole, InPairs, Parity, Live, Writing
<1> QED
  BY <1>1, <1>2, InitCtl, NextCtl, InitParity, NextParity, NextWhole, PTL DEF Spec

-------------------------------------------------------------------------------
(* With one thread a write is under way or a message is being sent or        *)
(* written, never both.                                                      *)
Flag ==
  OneThread /\ ~Stopping =>
    /\ pending = IF m_bWriteInProgress THEN 1 ELSE 0
    /\ \A t \in running : pc[t] # "idle" => ~m_bWriteInProgress

LEMMA NextFlag == CtlInv /\ Flag /\ [Next]_vars => Flag'
<1> SUFFICES ASSUME CtlInv, Flag, [Next]_vars, OneThread', ~Stopping' PROVE Flag'
  BY DEF Flag
<1>0. /\ running' = running /\ running \subseteq Thread /\ pc \in [Thread -> Step]
      /\ pending \in Nat /\ m_bWriteInProgress \in BOOLEAN
  BY NextSplit DEF CtlInv, TypeOK
<1>1. /\ pending = IF m_bWriteInProgress THEN 1 ELSE 0
      /\ \A t \in running : pc[t] # "idle" => ~m_bWriteInProgress
      /\ \A t, u \in running : t = u
  BY <1>0, StoppingStays DEF Flag, OneThread
<1>2. CASE HandleReadError \/ PeerResets \/ UNCHANGED vars
  BY <1>0, <1>1, <1>2 DEF HandleReadError, PeerResets, vars, Flag
<1>3. ASSUME NEW t \in running, StepOf(t) PROVE Flag'
  <2>0. t \in Thread /\ \A u \in running : u = t
    BY <1>0, <1>1
  <2>1. ASSUME NEW f \in Frame, SendMessage(t, f) PROVE Flag'
    BY <1>0, <1>1, <2>0, <2>1 DEF SendMessage, Go, Flag
  <2>2. CASE SendLock(t) \/ SendCopy(t) \/ PostWrite(t) \/ WriteLock(t) \/ WriteNothing(t)
             \/ \E wlen \in 1 .. 2 : WriteSome(t, wlen)
    <3>1. UNCHANGED <<pending, m_bWriteInProgress>> /\ pc[t] # "idle"
      BY <2>2 DEF SendLock, SendCopy, PostWrite, WriteLock, WriteNothing, WriteSome
    <3> QED
      BY <1>0, <1>1, <2>0, <3>1 DEF Flag
  <2>3. CASE PostWriteStart(t)
    <3>1. ~m_bWriteInProgress /\ pending = 0
      BY <1>1, <2>3 DEF PostWriteStart
    <3> QED
      BY <1>0, <2>0, <2>3, <3>1 DEF PostWriteStart, Go, Flag
  <2>4. CASE HandleWrite(t)
    <3>1. pending' = 0 /\ m_bWriteInProgress' = FALSE
      BY <1>0, <1>1, <2>4 DEF HandleWrite
    <3> QED
      BY <3>1 DEF Flag
  <2>5. CASE Stop(t)
    BY <1>0, <2>0, <2>5 DEF Stop, Go, Stopping
  <2>6. CASE StopClose(t)
    BY <2>6, Zenon DEF StopClose, Stopping
  <2> QED
    BY <1>3, <2>1, <2>2, <2>3, <2>4, <2>5, <2>6 DEF StepOf, Continue
<1> QED
  BY <1>2, <1>3, NextSplit

(* In a process with one thread, as the account and game servers are,        *)
(* m_bWriteInProgress tells exactly whether a write is under way.            *)
THEOREM ConnectionFlagCountsWrites == Spec => []FlagCountsWrites
<1>1. Init => Flag
  BY DEF Init, Flag
<1>2. Flag => FlagCountsWrites
  BY DEF Flag, FlagCountsWrites
<1> QED
  BY <1>1, <1>2, InitCtl, NextCtl, NextFlag, PTL DEF Spec
===============================================================================
