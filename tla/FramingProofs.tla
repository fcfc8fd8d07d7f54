---------------------------- MODULE FramingProofs -----------------------------
(***************************************************************************)
(* Proofs about the receiving half of a connection, for any frames of any  *)
(* length, any size of header and buffer, and a stream cut anywhere.       *)
(***************************************************************************)
EXTENDS Framing, SequenceTheorems, TLAPS

USE FramingAssumption

-------------------------------------------------------------------------------
(* The layout of the stream: frames are short enough for the buffer, do not  *)
(* overlap, and leave no gap.                                                *)

End(f) == start[f] + Size(f)

Laid ==
  /\ \A f \in Sent : End(f) <= written /\ Size(f) < MSG_MAXIMUM
  /\ \A f, g \in Sent : start[f] < start[g] => End(f) <= start[g]
  /\ \A f, g \in Sent : start[f] = start[g] => f = g
  /\ \A p \in Nat : p < written => \E f \in Sent : start[f] <= p /\ p < End(f)

(* A frame that was delivered lies behind the reader.                        *)
Passed == \A f \in Delivered : End(f) <= at

IInv ==
  /\ TypeOK
  /\ Laid
  /\ Passed
  /\ zeroed => ~isOpen

LEMMA SizeType ==
  ASSUME NEW f \in Frame
  PROVE  Size(f) \in Nat /\ Size(f) >= MSG_HEAD /\ Size(f) > 0
BY DEF Size

LEMMA SentNat ==
  ASSUME TypeOK, NEW f \in Sent
  PROVE  f \in Frame /\ start[f] \in Nat
BY DEF TypeOK, Sent

LEMMA GotSent ==
  ASSUME TypeOK
  PROVE  Delivered \subseteq Sent
<1>1. got \in Seq(Sent)
  BY DEF TypeOK
<1> HIDE DEF Sent
<1> QED
  BY <1>1 DEF Delivered

LEMMA AppendDelivered ==
  ASSUME got \in Seq(Frame), NEW f, got' = Append(got, f)
  PROVE  Delivered' = Delivered \cup {f}
<1>1. Len(got) \in Nat /\ DOMAIN got = 1 .. Len(got) /\ DOMAIN got' = 1 .. Len(got) + 1
  OBVIOUS
<1>2. got'[Len(got) + 1] = f /\ \A i \in 1 .. Len(got) : got'[i] = got[i]
  OBVIOUS
<1> DEFINE n == Len(got)
<1>3. n \in Nat /\ DOMAIN got = 1 .. n /\ DOMAIN got' = 1 .. n + 1
  BY <1>1
<1>4. got'[n + 1] = f /\ \A i \in 1 .. n : got'[i] = got[i]
  BY <1>2
<1> HIDE DEF n
<1> QED
  BY ONLY <1>3, <1>4 DEF Delivered

-------------------------------------------------------------------------------
(* One turn of handle_read's loop: it drops the rest of the read, delivers   *)
(* the frame that begins here and stands behind it, or is out of step.       *)

Drops == at' = readEnd /\ UNCHANGED <<got, spurious>>

Delivers(f) ==
  /\ ~zeroed /\ start[f] = at /\ End(f) <= readEnd
  /\ at' = End(f) /\ got' = Append(got, f) /\ UNCHANGED spurious

Misreads ==
  /\ zeroed \/ \A f \in Sent : start[f] # at
  /\ at' \in Nat /\ at < at' /\ at' <= readEnd
  /\ spurious' = TRUE /\ UNCHANGED got

LEMMA TakenBytes ==
  ASSUME TypeOK, at < readEnd, NEW res \in Deserialize(at, readEnd - at), res # 0
  PROVE  /\ res \in Nat /\ res > 0 /\ at + res <= readEnd
         /\ readEnd - at < MSG_MAXIMUM
         /\ \A f \in Frame : ~zeroed /\ start[f] = at =>
              \E g \in Frame : start[g] = at /\ res = Size(g)
<1>1. at \in Nat /\ readEnd \in Nat
  BY DEF TypeOK
<1>2. /\ readEnd - at < MSG_MAXIMUM
      /\ \E n \in LengthsAt(at) : n >= 0 /\ readEnd - at - MSG_HEAD >= n /\ res = MSG_HEAD + n
  BY <1>1 DEF Deserialize
<1>3. PICK n \in LengthsAt(at) : n >= 0 /\ readEnd - at - MSG_HEAD >= n /\ res = MSG_HEAD + n
  BY <1>2
<1>4. n \in Int
  BY DEF LengthsAt
<1>5. ASSUME NEW f \in Frame, ~zeroed, start[f] = at
      PROVE  \E g \in Frame : start[g] = at /\ res = Size(g)
  BY <1>3, <1>5 DEF LengthsAt, Size
<1> QED
  BY <1>1, <1>2, <1>3, <1>4, <1>5

LEMMA ParseKinds ==
  ASSUME IInv, Parse
  PROVE  Drops \/ (\E f \in Sent : Delivers(f)) \/ Misreads
<1>0. at \in Nat /\ readEnd \in Nat /\ start \in [Frame -> Nat \cup {-1}]
  BY DEF IInv, TypeOK
<1>1. PICK res \in Deserialize(at, readEnd - at) :
        IF res = 0 THEN at' = readEnd /\ UNCHANGED <<got, spurious>>
                   ELSE at' = at + res /\ OnRecv
  BY DEF Parse
<1>2. CASE res = 0
  BY <1>1, <1>2 DEF Drops
<1>3. CASE res # 0
  <2>1. /\ res \in Nat /\ res > 0 /\ at + res <= readEnd
        /\ \A f \in Frame : ~zeroed /\ start[f] = at =>
             \E g \in Frame : start[g] = at /\ res = Size(g)
    BY <1>3, TakenBytes DEF IInv, Parse
  <2>2. at' = at + res /\ OnRecv
    BY <1>1, <1>3
  <2>3. CASE ~zeroed /\ \E f \in Frame : start[f] = at
    <3>1. PICK g \in Frame : start[g] = at /\ res = Size(g)
      BY <2>1, <2>3
    <3>2. g \in Sent
      BY <1>0, <3>1 DEF Sent
    <3>3. \A f \in Frame : start[f] = at => f = g
      <4>1. \A f \in Frame : start[f] = at => f \in Sent
        BY <1>0 DEF Sent
      <4> QED
        BY <3>1, <3>2, <4>1 DEF IInv, Laid
    <3>4. (CHOOSE f \in Frame : start[f] = at) = g
      BY <3>1, <3>3
    <3>5. got' = Append(got, g) /\ UNCHANGED spurious
      BY <2>2, <2>3, <3>4, Zenon DEF OnRecv
    <3>6. Delivers(g)
      BY <2>1, <2>2, <2>3, <3>1, <3>5 DEF Delivers, End
    <3> QED
      BY <3>2, <3>6
  <2>4. CASE ~(~zeroed /\ \E f \in Frame : start[f] = at)
    <3>1. spurious' = TRUE /\ got' = got
      BY <2>2, <2>4 DEF OnRecv
    <3>2. zeroed \/ \A f \in Sent : start[f] # at
      BY <2>4 DEF Sent
    <3> QED
      BY <1>0, <2>1, <2>2, <3>1, <3>2 DEF Misreads
  <2> QED
    BY <2>3, <2>4
<1> QED
  BY <1>2, <1>3

-------------------------------------------------------------------------------
LEMMA InitIInv == Init => IInv
<1> SUFFICES ASSUME Init PROVE IInv
  OBVIOUS
<1>1. Sent = {} /\ Delivered = {}
  BY DEF Init, Sent, Delivered
<1>2. start \in [Frame -> Nat \cup {-1}] /\ written \in Nat /\ readEnd \in 0 .. written /\ at \in 0 .. readEnd
  BY DEF Init
<1>3. got \in Seq(Sent)
  BY DEF Init
<1>4. spurious \in BOOLEAN /\ isOpen \in BOOLEAN /\ zeroed \in BOOLEAN /\ disturbed \in BOOLEAN /\ ~zeroed
  BY Zenon DEF Init
<1>5. Laid
  BY <1>1 DEF Laid, Init
<1> QED
  BY <1>1, <1>2, <1>3, <1>4, <1>5 DEF IInv, TypeOK, Passed

(* What a send does to the layout.                                           *)
LEMMA SendLays ==
  ASSUME IInv, NEW f \in Frame, Send(f)
  PROVE  /\ Sent' = Sent \cup {f} /\ f \notin Sent
         /\ start'[f] = written
         /\ \A g \in Sent : start'[g] = start[g]
         /\ Laid'
<1>0. written \in Nat /\ start \in [Frame -> Nat \cup {-1}]
  BY DEF IInv, TypeOK
<1>1. start' = [start EXCEPT ![f] = written] /\ start[f] = -1 /\ written' = written + Size(f)
  BY DEF Send
<1>2. Sent' = Sent \cup {f} /\ f \notin Sent
  BY <1>0, <1>1 DEF Sent
<1>3. start'[f] = written /\ \A g \in Sent : start'[g] = start[g]
  BY <1>0, <1>1, <1>2 DEF Sent
<1>4. Size(f) \in Nat /\ Size(f) > 0 /\ Size(f) < MSG_MAXIMUM
  BY SizeType DEF Send, Serialize, Size
<1>5. \A g \in Sent : g \in Frame /\ start[g] \in Nat /\ Size(g) \in Nat /\ Size(g) > 0
  BY SentNat, SizeType DEF IInv
<1>6. Laid
  BY DEF IInv
<1>7. \A g \in Sent' : start'[g] + Size(g) <= written' /\ Size(g) < MSG_MAXIMUM
  BY <1>0, <1>1, <1>2, <1>3, <1>4, <1>5, <1>6 DEF Laid, End
<1>8. \A g, h \in Sent' : start'[g] < start'[h] => start'[g] + Size(g) <= start'[h]
  BY <1>0, <1>2, <1>3, <1>4, <1>5, <1>6 DEF Laid, End
<1>9. \A g, h \in Sent' : start'[g] = start'[h] => g = h
  <2>1. \A g \in Sent : start'[g] < written
    BY <1>0, <1>3, <1>5, <1>6 DEF Laid, End
  <2> QED
    BY <1>0, <1>2, <1>3, <1>5, <1>6, <2>1 DEF Laid
<1>10. ASSUME NEW p \in Nat, p < written'
       PROVE  \E g \in Sent' : start'[g] <= p /\ p < start'[g] + Size(g)
  <2>1. CASE p < written
    BY <1>2, <1>3, <1>6, <2>1 DEF Laid, End
  <2>2. CASE ~(p < written)
    BY <1>0, <1>1, <1>2, <1>3, <1>4, <1>10, <2>2
  <2> QED
    BY <2>1, <2>2
<1>11. \A g \in Frame : Size(g)' = Size(g)
  BY DEF Size
<1>12. \A g \in Sent' : End(g)' = start'[g] + Size(g)
  BY DEF End, Size
<1>13. Laid'
  BY <1>7, <1>8, <1>9, <1>10, <1>12 DEF Laid, Size
<1> QED
  BY <1>2, <1>3, <1>13

LEMMA SameLaid ==
  ASSUME Laid, UNCHANGED <<start, written>>
  PROVE  Laid' /\ Sent' = Sent
BY DEF Laid, Sent, End, Size

LEMMA Booleans ==
  ASSUME IInv, [Next]_vars
  PROVE  /\ spurious' \in BOOLEAN /\ isOpen' \in BOOLEAN
         /\ zeroed' \in BOOLEAN /\ disturbed' \in BOOLEAN
         /\ zeroed' => ~isOpen'
<1>0. /\ spurious \in BOOLEAN /\ isOpen \in BOOLEAN /\ zeroed \in BOOLEAN
      /\ disturbed \in BOOLEAN /\ (zeroed => ~isOpen)
  BY DEF IInv, TypeOK
<1>1. ASSUME NEW f \in Frame, Send(f) PROVE UNCHANGED <<spurious, isOpen, zeroed, disturbed>>
  BY <1>1 DEF Send
<1>2. ASSUME NEW n \in 1 .. MSG_MAXIMUM, HandleRead(n)
      PROVE  zeroed' = FALSE /\ UNCHANGED <<spurious, isOpen>> /\ disturbed' \in BOOLEAN
  BY <1>2, Zenon DEF HandleRead
<1>3. CASE Parse
  <2>1. UNCHANGED <<isOpen, zeroed, disturbed>>
    BY <1>3 DEF Parse
  <2>2. spurious' = spurious \/ spurious' = TRUE
    BY <1>3 DEF Parse, OnRecv
  <2> QED
    BY <1>0, <2>1, <2>2, Zenon
<1>4. CASE HandleReadError
  BY <1>0, <1>4, Zenon DEF HandleReadError
<1>5. CASE Stop
  BY <1>0, <1>5, Zenon DEF Stop
<1>6. CASE UNCHANGED vars
  BY <1>0, <1>6, Zenon DEF vars
<1>7. ASSUME NEW f \in Frame, Send(f)
      PROVE  /\ spurious' \in BOOLEAN /\ isOpen' \in BOOLEAN
             /\ zeroed' \in BOOLEAN /\ disturbed' \in BOOLEAN
             /\ zeroed' => ~isOpen'
  BY <1>0, <1>1, <1>7, Zenon
<1>8. ASSUME NEW n \in 1 .. MSG_MAXIMUM, HandleRead(n)
      PROVE  /\ spurious' \in BOOLEAN /\ isOpen' \in BOOLEAN
             /\ zeroed' \in BOOLEAN /\ disturbed' \in BOOLEAN
             /\ zeroed' => ~isOpen'
  BY <1>0, <1>2, <1>8, Zenon
<1> QED
  BY <1>3, <1>4, <1>5, <1>6, <1>7, <1>8, Zenon DEF Next

LEMMA NextIInv == IInv /\ [Next]_vars => IInv'
<1> SUFFICES ASSUME IInv, [Next]_vars PROVE IInv'
  OBVIOUS
<1>0. /\ start \in [Frame -> Nat \cup {-1}] /\ written \in Nat
      /\ readEnd \in 0 .. written /\ at \in 0 .. readEnd /\ got \in Seq(Sent)
      /\ Laid /\ Passed /\ Delivered \subseteq Sent
  BY GotSent DEF IInv, TypeOK
<1> DEFINE Numbers == /\ start' \in [Frame -> Nat \cup {-1}] /\ written' \in Nat
                      /\ readEnd' \in 0 .. written' /\ at' \in 0 .. readEnd'
<1> SUFFICES Numbers /\ got' \in Seq(Sent') /\ Laid' /\ Passed'
  BY Booleans DEF IInv, TypeOK
<1>1. ASSUME NEW f \in Frame, Send(f)
      PROVE  Numbers /\ got' \in Seq(Sent') /\ Laid' /\ Passed'
  <2>1. Numbers
    BY <1>0, <1>1, SizeType DEF Send
  <2>2. Sent' = Sent \cup {f} /\ Laid' /\ \A g \in Sent : start'[g] = start[g]
    BY <1>1, SendLays
  <2>3. UNCHANGED <<got, at>>
    BY <1>1 DEF Send
  <2>4. got' \in Seq(Sent')
    <3> HIDE DEF Sent
    <3> QED
      BY <1>0, <2>2, <2>3
  <2>5. Passed'
    BY <1>0, <2>2, <2>3 DEF Passed, Delivered, End, Size
  <2> QED
    BY <2>1, <2>2, <2>4, <2>5
<1>2. ASSUME UNCHANGED <<start, written, at, got>>, readEnd' \in 0 .. written, at <= readEnd'
      PROVE  Numbers /\ got' \in Seq(Sent') /\ Laid' /\ Passed'
  <2>1. Laid' /\ Sent' = Sent
    BY <1>0, <1>2, SameLaid
  <2>2. Passed'
    BY <1>0, <1>2 DEF Passed, Delivered, End, Size
  <2>3. Numbers
    BY <1>0, <1>2
  <2>4. got' \in Seq(Sent')
    BY <1>0, <1>2, <2>1
  <2> QED
    BY <2>1, <2>2, <2>3, <2>4
<1>3. ASSUME NEW n \in 1 .. MSG_MAXIMUM, HandleRead(n)
      PROVE  Numbers /\ got' \in Seq(Sent') /\ Laid' /\ Passed'
  <2>1. UNCHANGED <<start, written, at, got>> /\ readEnd' \in 0 .. written /\ at <= readEnd'
    BY <1>0, <1>3 DEF HandleRead
  <2> QED
    BY <1>2, <2>1
<1>4. CASE Parse
  <2>1. UNCHANGED <<start, written, readEnd>> /\ at < readEnd
    BY <1>4 DEF Parse
  <2>2. Laid' /\ Sent' = Sent /\ \A g \in Frame : End(g)' = End(g)
    BY <1>0, <2>1, SameLaid DEF End, Size
  <2>3. CASE Drops
    <3>1. Numbers
      BY <1>0, <2>1, <2>3 DEF Drops
    <3>2. got' \in Seq(Sent')
      BY <1>0, <2>2, <2>3 DEF Drops
    <3>3. Passed'
      <4>1. Delivered' = Delivered /\ at < at'
        BY <2>1, <2>3 DEF Drops, Delivered
      <4>2. \A g \in Delivered : g \in Frame /\ End(g) \in Int
        BY <1>0, SentNat, SizeType DEF End, IInv
      <4> QED
        BY <1>0, <2>2, <3>1, <4>1, <4>2 DEF Passed
    <3> QED
      BY <2>2, <3>1, <3>2, <3>3
  <2>4. ASSUME NEW f \in Sent, Delivers(f)
        PROVE  Numbers /\ got' \in Seq(Sent') /\ Laid' /\ Passed'
    <3>0. f \in Frame /\ start[f] \in Nat /\ Size(f) \in Nat /\ Size(f) > 0
      BY SentNat, SizeType DEF IInv
    <3>1. Numbers /\ at < at'
      BY <1>0, <2>1, <2>4, <3>0 DEF Delivers, End
    <3>2. got' \in Seq(Sent')
      <4> HIDE DEF Sent
      <4> QED
        BY <1>0, <2>2, <2>4 DEF Delivers
    <3>3. Passed'
      <4>1. Delivered' = Delivered \cup {f}
        <5>1. got \in Seq(Frame)
          BY <1>0 DEF Sent
        <5>2. got' = Append(got, f)
          BY <2>4 DEF Delivers
        <5> QED
          BY <5>1, <5>2, AppendDelivered
      <4>2. \A g \in Delivered : g \in Frame /\ End(g) \in Int
        BY <1>0, SentNat, SizeType DEF End, IInv
      <4>3. at' = End(f) /\ End(f) \in Int
        BY <2>4, <3>0 DEF Delivers, End
      <4> QED
        BY <1>0, <2>2, <3>0, <3>1, <4>1, <4>2, <4>3 DEF Passed
    <3> QED
      BY <2>2, <3>1, <3>2, <3>3
  <2>5. CASE Misreads
    <3>1. Numbers
      BY <1>0, <2>1, <2>5 DEF Misreads
    <3>2. got' \in Seq(Sent')
      BY <1>0, <2>2, <2>5 DEF Misreads
    <3>3. Passed'
      <4>1. Delivered' = Delivered /\ at < at'
        BY <2>5 DEF Misreads, Delivered
      <4>2. \A g \in Delivered : g \in Frame /\ End(g) \in Int
        BY <1>0, SentNat, SizeType DEF End, IInv
      <4> QED
        BY <1>0, <2>2, <3>1, <4>1, <4>2 DEF Passed
    <3> QED
      BY <2>2, <3>1, <3>2, <3>3
  <2> QED
    BY <1>4, <2>3, <2>4, <2>5, ParseKinds
<1>5. CASE HandleReadError \/ Stop \/ UNCHANGED vars
  <2>1. UNCHANGED <<start, written, at, got>> /\ readEnd' \in 0 .. written /\ at <= readEnd'
    BY <1>0, <1>5 DEF HandleReadError, Stop, vars
  <2> QED
    BY <1>2, <2>1
<1> QED
  BY <1>1, <1>3, <1>4, <1>5 DEF Next

(* The type invariant of the receiving half, and with it the layout of the   *)
(* stream: in particular the parser never stands beyond what was read.       *)
THEOREM FramingTypeCorrect == Spec => []TypeOK
<1>1. IInv => TypeOK
  BY DEF IInv
<1> QED
  BY InitIInv, NextIInv, <1>1, PTL DEF Spec

-------------------------------------------------------------------------------
(* Between two reads that ended at the end of a frame, parser and stream are *)
(* in step.                                                                  *)
Tidy ==
  isOpen /\ ~disturbed =>
    /\ ~InsideFrame(at) /\ ~InsideFrame(readEnd)
    /\ readEnd - at < MSG_MAXIMUM
    /\ Lost = {}
    /\ ~spurious

LEMMA DeliverKeepsLost ==
  ASSUME IInv, Parse, NEW f \in Sent, Delivers(f)
  PROVE  Delivered' = Delivered \cup {f} /\ Lost' = Lost
<1>0. at \in Nat /\ got \in Seq(Frame)
  BY DEF IInv, TypeOK, Sent
<1>1. Delivered' = Delivered \cup {f}
  <2>1. got' = Append(got, f)
    BY DEF Delivers
  <2> QED
    BY <1>0, <2>1, AppendDelivered
<1>2. start' = start /\ Sent' = Sent
  BY DEF Parse, Sent
<1>3. \A g \in Sent : start[g] \in Nat /\ Size(g) \in Nat /\ Size(g) > 0
  BY SentNat, SizeType DEF IInv
<1>4. start[f] = at /\ at' = start[f] + Size(f)
  BY DEF Delivers, End
<1>5. ASSUME NEW g \in Sent, g # f
      PROVE  start[g] < at' <=> start[g] < at
  <2>1. start[f] # start[g] /\ (start[f] < start[g] => start[f] + Size(f) <= start[g])
    BY <1>5 DEF IInv, Laid, End
  <2> QED
    BY <1>0, <1>3, <1>4, <2>1
<1>6. ~(start[f] < at)
  BY <1>0, <1>4
<1>7. Lost' = {g \in Sent : start[g] < at'} \ (Delivered \cup {f})
  BY <1>1, <1>2 DEF Lost
<1> QED
  BY <1>1, <1>5, <1>6, <1>7 DEF Lost

LEMMA ParseInStep ==
  ASSUME IInv, Parse, ~zeroed, ~InsideFrame(at), ~InsideFrame(readEnd),
         readEnd - at < MSG_MAXIMUM
  PROVE  \E f \in Sent : Delivers(f)
<1>0. at \in Nat /\ readEnd \in Nat /\ written \in Nat /\ readEnd <= written /\ at < readEnd /\ Laid
  BY DEF IInv, TypeOK, Parse
<1>1. PICK f \in Sent : start[f] <= at /\ at < End(f)
  BY <1>0 DEF Laid
<1>2. f \in Frame /\ start[f] \in Nat /\ Size(f) \in Nat /\ Size(f) >= MSG_HEAD /\ Size(f) > 0
  BY SentNat, SizeType DEF IInv
<1>3. start[f] = at
  BY <1>0, <1>1, <1>2 DEF InsideFrame, End
<1>4. Size(f) <= readEnd - at
  BY <1>0, <1>2, <1>3 DEF InsideFrame
<1>5. \A g \in Frame : start[g] = at => g = f
  <2>1. \A g \in Frame : start[g] = at => g \in Sent
    BY <1>0 DEF Sent
  <2> QED
    BY <1>0, <1>3, <2>1 DEF Laid
<1>6. LengthsAt(at) = {ContentLength[f]}
  BY <1>2, <1>3, <1>5 DEF LengthsAt
<1>7. Deserialize(at, readEnd - at) = {Size(f)}
  BY <1>0, <1>2, <1>4, <1>6 DEF Deserialize, Size
<1>8. at' = at + Size(f) /\ OnRecv
  BY <1>2, <1>7 DEF Parse
<1>9. (CHOOSE g \in Frame : start[g] = at) = f
  BY <1>2, <1>3, <1>5
<1>10. got' = Append(got, f) /\ UNCHANGED spurious
  BY <1>2, <1>3, <1>8, <1>9, Zenon DEF OnRecv
<1>11. Delivers(f)
  BY <1>0, <1>2, <1>3, <1>4, <1>8, <1>10 DEF Delivers, End
<1> QED
  BY <1>11

LEMMA NextTidy == IInv /\ Tidy /\ [Next]_vars => Tidy'
<1> SUFFICES ASSUME IInv, Tidy, [Next]_vars, isOpen', ~disturbed'
             PROVE  /\ ~InsideFrame(at)' /\ ~InsideFrame(readEnd)'
                    /\ readEnd' - at' < MSG_MAXIMUM
                    /\ Lost' = {} /\ ~spurious'
  BY DEF Tidy
<1>0. /\ at \in Nat /\ readEnd \in Nat /\ written \in Nat
      /\ at <= readEnd /\ readEnd <= written /\ Laid
      /\ \A g \in Sent : g \in Frame /\ start[g] \in Nat /\ Size(g) \in Nat /\ Size(g) > 0
      /\ Delivered \subseteq Sent
  BY SentNat, SizeType, GotSent DEF IInv, TypeOK
<1>1. ASSUME NEW f \in Frame, Send(f)
      PROVE  /\ ~InsideFrame(at)' /\ ~InsideFrame(readEnd)'
             /\ readEnd' - at' < MSG_MAXIMUM
             /\ Lost' = {} /\ ~spurious'
  <2>1. UNCHANGED <<readEnd, at, got, spurious, isOpen, disturbed>>
    BY <1>1, Zenon DEF Send
  <2>2. Sent' = Sent \cup {f} /\ start'[f] = written /\ \A g \in Sent : start'[g] = start[g]
    BY <1>1, SendLays
  <2>3. isOpen /\ ~disturbed
    BY <2>1, Zenon
  <2>4. ~InsideFrame(at) /\ ~InsideFrame(readEnd) /\ readEnd - at < MSG_MAXIMUM /\ Lost = {} /\ ~spurious
    BY <2>3 DEF Tidy
  <2>5. ASSUME NEW p \in Nat, p <= written, ~InsideFrame(p)
        PROVE  ~\E g \in Sent' : start'[g] < p /\ p < start'[g] + Size(g)
    BY <1>0, <2>2, <2>5 DEF InsideFrame
  <2>6. ~InsideFrame(at)' /\ ~InsideFrame(readEnd)'
    BY <1>0, <2>1, <2>4, <2>5 DEF InsideFrame, Size
  <2>7. Lost' = {}
    BY <1>0, <2>1, <2>2, <2>4 DEF Lost, Delivered
  <2>8. readEnd' - at' < MSG_MAXIMUM
    BY <2>1, <2>4
  <2>9. ~spurious'
    BY <2>1, <2>4, Zenon
  <2> QED
    BY <2>6, <2>7, <2>8, <2>9
<1>2. ASSUME NEW n \in 1 .. MSG_MAXIMUM, HandleRead(n)
      PROVE  /\ ~InsideFrame(at)' /\ ~InsideFrame(readEnd)'
             /\ readEnd' - at' < MSG_MAXIMUM
             /\ Lost' = {} /\ ~spurious'
  <2>1. UNCHANGED <<start, at, got, spurious, isOpen>> /\ at = readEnd /\ readEnd' = readEnd + n
    BY <1>2 DEF HandleRead
  <2>2. /\ ~disturbed /\ ~InsideFrame(readEnd')
        /\ ~(n = MSG_MAXIMUM /\ \A f \in Sent : ~(start[f] = at /\ Size(f) = n))
    BY <1>2, Zenon DEF HandleRead
  <2>3. isOpen
    BY <2>1, Zenon
  <2>4. ~InsideFrame(at) /\ Lost = {} /\ ~spurious
    BY <2>2, <2>3 DEF Tidy
  <2>5. n # MSG_MAXIMUM
    BY <1>0, <2>2 DEF Laid
  <2>6. readEnd' - at' < MSG_MAXIMUM
    BY <1>0, <2>1, <2>5
  <2>7. ~InsideFrame(at)' /\ ~InsideFrame(readEnd)'
    BY <2>1, <2>2, <2>4 DEF InsideFrame, Sent, Size
  <2>8. Lost' = {}
    BY <2>1, <2>4 DEF Lost, Sent, Delivered
  <2>9. ~spurious'
    BY <2>1, <2>4, Zenon
  <2> QED
    BY <2>6, <2>7, <2>8, <2>9
<1>3. ASSUME Parse
      PROVE  /\ ~InsideFrame(at)' /\ ~InsideFrame(readEnd)'
             /\ readEnd' - at' < MSG_MAXIMUM
             /\ Lost' = {} /\ ~spurious'
  <2>1. UNCHANGED <<start, readEnd, isOpen, zeroed, disturbed>> /\ at < readEnd
    BY <1>3, Zenon DEF Parse
  <2>2. isOpen /\ ~disturbed
    BY <2>1, Zenon
  <2>3. ~InsideFrame(at) /\ ~InsideFrame(readEnd) /\ readEnd - at < MSG_MAXIMUM /\ Lost = {} /\ ~spurious
    BY <2>2 DEF Tidy
  <2>4. ~zeroed
    BY <2>2, Zenon DEF IInv
  <2>5. PICK f \in Sent : Delivers(f)
    BY <1>3, <2>3, <2>4, ParseInStep
  <2>6. Lost' = {}
    BY <1>3, <2>3, <2>5, DeliverKeepsLost
  <2>7. at' = start[f] + Size(f) /\ at = start[f] /\ spurious' = spurious
    BY <2>5 DEF Delivers, End
  <2>8. ~spurious'
    BY <2>3, <2>7, Zenon
  <2>9. readEnd' - at' < MSG_MAXIMUM
    BY <1>0, <2>1, <2>3, <2>7
  <2>10. ~\E g \in Sent : start[g] < at' /\ at' < start[g] + Size(g)
    BY <1>0, <2>7 DEF Laid, End
  <2>11. ~InsideFrame(at)' /\ ~InsideFrame(readEnd)'
    BY <2>1, <2>3, <2>10 DEF InsideFrame, Sent, Size
  <2> QED
    BY <2>6, <2>8, <2>9, <2>11
<1>4. CASE HandleReadError \/ Stop
  BY <1>4, Zenon DEF HandleReadError, Stop
<1>5. CASE UNCHANGED vars
  <2>1. UNCHANGED <<start, readEnd, at, got, spurious, isOpen, disturbed>>
    BY <1>5, Zenon DEF vars
  <2>2. isOpen /\ ~disturbed
    BY <2>1, Zenon
  <2>3. ~InsideFrame(at) /\ ~InsideFrame(readEnd) /\ readEnd - at < MSG_MAXIMUM /\ Lost = {} /\ ~spurious
    BY <2>2 DEF Tidy
  <2>4. ~spurious'
    BY <2>1, <2>3, Zenon
  <2> QED
    BY <2>1, <2>3, <2>4 DEF InsideFrame, Sent, Size, Lost, Delivered
<1> QED
  BY <1>1, <1>2, <1>3, <1>4, <1>5 DEF Next

LEMMA InitTidy == Init => Tidy
<1> SUFFICES ASSUME Init PROVE Tidy
  OBVIOUS
<1>1. Sent = {}
  BY DEF Init, Sent
<1>2. ~spurious
  BY Zenon DEF Init
<1>3. disturbed = FALSE /\ at = 0 /\ readEnd = 0
  BY DEF Init
<1> QED
  BY <1>1, <1>2, <1>3 DEF Tidy, InsideFrame, Lost

(* As long as every read of handle_read ends at the end of a frame and does  *)
(* not fill m_ReadBuffer, no frame is lost and onRecv sees nothing else: for *)
(* every length of the texts, the head and the buffer.                       *)
THEOREM FramingInStep == Spec => []InStep
<1>1. Tidy => InStep
  BY DEF Tidy, InStep
<1> QED
  BY InitIInv, NextIInv, InitTidy, NextTidy, <1>1, PTL DEF Spec

-------------------------------------------------------------------------------
(* The refinement: what flies in the channel is what was sent and lies at or *)
(* behind the parser.                                                        *)

LEMMA FlyingAhead ==
  ASSUME IInv
  PROVE  C!Flying = {f \in Sent : start[f] >= at}
<1>0. at \in Nat /\ start \in [Frame -> Nat \cup {-1}] /\ Passed /\ Delivered \subseteq Sent
  BY GotSent DEF IInv, TypeOK
<1>1. \A f \in Sent : f \in Frame /\ start[f] \in Nat /\ Size(f) \in Nat /\ Size(f) > 0
  BY SentNat, SizeType, Zenon DEF IInv
<1>2. {f \in Frame : start[f] # -1} = Sent
  BY <1>0 DEF Sent
<1>3. \A f \in Delivered : start[f] < at
  BY <1>0, <1>1 DEF Passed, End
<1>4. C!Flying = {f \in Frame : start[f] # -1} \ (Delivered \cup Lost)
  BY DEF C!Flying, C!Delivered, C!Unsent, Delivered
<1> QED
  BY <1>0, <1>1, <1>2, <1>3, <1>4 DEF Lost

LEMMA InitChannel == Init => C!ChanInit
<1> SUFFICES ASSUME Init PROVE C!ChanInit
  OBVIOUS
<1>1. Lost = {}
  BY DEF Init, Lost, Sent
<1>2. spurious = FALSE /\ (~isOpen) = FALSE
  BY Zenon DEF Init
<1>3. start = [f \in Frame |-> -1] /\ got = << >>
  BY DEF Init
<1> QED
  BY <1>1, <1>2, <1>3, Zenon DEF C!ChanInit, C!Unsent

LEMMA SendChannel ==
  ASSUME IInv, NEW f \in Frame, Send(f)
  PROVE  C!ChanSend(f)
<1>0. at \in Nat /\ written \in Nat /\ at <= written /\ start \in [Frame -> Nat \cup {-1}]
  BY DEF IInv, TypeOK
<1>1. start[f] = -1 /\ start' = [start EXCEPT ![f] = written] /\ UNCHANGED <<at, got, spurious, isOpen>>
  BY DEF Send
<1>2. Sent' = Sent \cup {f} /\ f \notin Sent /\ start'[f] = written /\ \A g \in Sent : start'[g] = start[g]
  BY SendLays
<1>3. \A g \in Frame : start[g] < start'[f]
  <2>1. \A g \in Sent : start[g] \in Nat /\ Size(g) \in Nat /\ Size(g) > 0 /\ start[g] + Size(g) <= written
    BY SentNat, SizeType DEF IInv, Laid, End
  <2>2. \A g \in Frame \ Sent : start[g] = -1
    BY <1>0 DEF Sent
  <2> QED
    BY <1>0, <1>2, <2>1, <2>2
<1>4. Lost' = Lost
  BY <1>0, <1>1, <1>2 DEF Lost, Delivered
<1>5. start' = [start EXCEPT ![f] = start'[f]] /\ start'[f] \in Nat
  BY <1>0, <1>1, <1>2
<1>6. UNCHANGED <<got, Lost, spurious, ~isOpen>>
  BY <1>1, <1>4, Zenon
<1> QED
  BY <1>1, <1>3, <1>5, <1>6, Zenon DEF C!ChanSend, C!Unsent

(* Passing over bytes without delivering loses the oldest frames on the way. *)
LEMMA SkipLoses ==
  ASSUME IInv, UNCHANGED <<start, got>>, at' \in Nat, at <= at'
  PROVE  \E S \in SUBSET C!Flying : C!Oldest(S) /\ Lost' = Lost \cup S
<1> DEFINE S == {f \in Sent : at <= start[f] /\ start[f] < at'}
<1>0. at \in Nat /\ Passed /\ Delivered \subseteq Sent
  BY GotSent DEF IInv, TypeOK
<1>1. \A f \in Sent : start[f] \in Nat /\ Size(f) \in Nat /\ Size(f) > 0
  BY SentNat, SizeType DEF IInv
<1>2. C!Flying = {f \in Sent : start[f] >= at}
  BY FlyingAhead
<1>3. S \subseteq C!Flying
  BY <1>0, <1>1, <1>2
<1>4. C!Oldest(S)
  BY <1>0, <1>1, <1>2, <1>3 DEF C!Oldest
<1>5. \A f \in Delivered : start[f] < at
  BY <1>0, <1>1 DEF Passed, End
<1>6. Lost' = {f \in Sent : start[f] < at'} \ Delivered
  BY DEF Lost, Sent, Delivered
<1>7. Lost' = Lost \cup S
  BY <1>0, <1>1, <1>5, <1>6 DEF Lost
<1> HIDE DEF S
<1> QED
  BY <1>3, <1>4, <1>7

LEMMA ParseChannel ==
  ASSUME IInv, Parse
  PROVE  C!ChanNext
<1>0. /\ at \in Nat /\ readEnd \in Nat /\ written \in Nat
      /\ at < readEnd /\ readEnd <= written /\ Laid /\ Passed
      /\ UNCHANGED <<start, isOpen>>
  BY DEF IInv, TypeOK, Parse
<1>1. (~isOpen)' = ~isOpen
  BY <1>0, Zenon
<1>2. CASE Drops
  <2>1. \E S \in SUBSET C!Flying : C!Oldest(S) /\ Lost' = Lost \cup S
    BY <1>0, <1>2, SkipLoses DEF Drops
  <2>2. UNCHANGED <<start, got, spurious>>
    BY <1>0, <1>2 DEF Drops
  <2>3. C!ChanLose
    BY <1>1, <2>1, <2>2, Zenon DEF C!ChanLose
  <2> QED
    BY <2>3 DEF C!ChanNext
<1>3. ASSUME NEW f \in Sent, Delivers(f)
      PROVE  C!ChanNext
  <2>1. Lost' = Lost
    BY <1>3, DeliverKeepsLost
  <2>2. start[f] = at /\ got' = Append(got, f) /\ UNCHANGED spurious
    BY <1>3 DEF Delivers
  <2>3. \A g \in Sent : start[g] \in Nat
    BY SentNat DEF IInv
  <2>4. C!Oldest({f})
    <3>1. C!Flying = {g \in Sent : start[g] >= at}
      BY FlyingAhead
    <3> QED
      BY <1>0, <2>2, <2>3, <3>1 DEF C!Oldest
  <2>5. C!ChanDeliver(f)
    BY <1>0, <1>1, <2>1, <2>2, <2>4, Zenon DEF C!ChanDeliver
  <2> QED
    BY <2>5 DEF C!ChanNext, Sent
<1>4. CASE Misreads
  <2>1. at' \in Nat /\ at < at' /\ got' = got /\ spurious' = TRUE
    BY <1>4 DEF Misreads
  <2>2. \E S \in SUBSET C!Flying : C!Oldest(S) /\ Lost' = Lost \cup S
    BY <1>0, <2>1, SkipLoses
  <2>3. CASE zeroed
    <3>1. ~isOpen
      BY <2>3, Zenon DEF IInv
    <3>2. C!ChanSpurious
      BY <1>0, <1>1, <2>1, <2>2, <3>1, Zenon DEF C!ChanSpurious
    <3> QED
      BY <3>2 DEF C!ChanNext
  <2>4. CASE \A f \in Sent : start[f] # at
    <3>1. PICK f \in Sent : start[f] <= at /\ at < End(f)
      BY <1>0 DEF Laid
    <3>2. start[f] \in Nat /\ Size(f) \in Nat
      BY SentNat, SizeType DEF IInv
    <3>3. start[f] < at /\ f \notin Delivered
      BY <1>0, <2>4, <3>1, <3>2 DEF Passed, End
    <3>4. f \in Lost
      BY <3>3 DEF Lost
    <3>5. Lost' # {}
      BY <2>2, <3>4
    <3>6. C!ChanSpurious
      BY <1>0, <1>1, <2>1, <2>2, <3>5, Zenon DEF C!ChanSpurious
    <3> QED
      BY <3>6 DEF C!ChanNext
  <2> QED
    BY <1>4, <2>3, <2>4 DEF Misreads
<1> QED
  BY <1>2, <1>3, <1>4, ParseKinds

LEMMA NextChannel == IInv /\ [Next]_vars => [C!ChanNext]_(C!chanVars)
<1> SUFFICES ASSUME IInv, [Next]_vars
             PROVE  C!ChanNext \/ UNCHANGED C!chanVars
  OBVIOUS
<1>1. ASSUME NEW f \in Frame, Send(f) PROVE C!ChanNext
  BY <1>1, SendChannel DEF C!ChanNext
<1>2. CASE Parse
  BY <1>2, ParseChannel
<1>3. ASSUME UNCHANGED <<start, at, got>> PROVE Lost' = Lost
  BY <1>3 DEF Lost, Sent, Delivered
<1>4. ASSUME NEW n \in 1 .. MSG_MAXIMUM, HandleRead(n) PROVE UNCHANGED C!chanVars
  <2>1. UNCHANGED <<start, at, got, spurious, isOpen>>
    BY <1>4 DEF HandleRead
  <2>2. Lost' = Lost
    BY <1>3, <2>1
  <2> QED
    BY <2>1, <2>2, Zenon DEF C!chanVars
<1>5. CASE HandleReadError \/ Stop
  <2>1. UNCHANGED <<start, at, got, spurious>> /\ isOpen' = FALSE
    BY <1>5 DEF HandleReadError, Stop
  <2>2. Lost' = Lost
    BY <1>3, <2>1
  <2>3. (~isOpen)' = TRUE
    BY <2>1, Zenon
  <2>4. C!ChanClose
    BY <2>1, <2>2, <2>3, Zenon DEF C!ChanClose
  <2> QED
    BY <2>4 DEF C!ChanNext
<1>6. CASE UNCHANGED vars
  <2>1. UNCHANGED <<start, at, got, spurious, isOpen>>
    BY <1>6 DEF vars
  <2>2. Lost' = Lost
    BY <1>3, <2>1
  <2> QED
    BY <2>1, <2>2, Zenon DEF C!chanVars
<1> QED
  BY <1>1, <1>2, <1>4, <1>5, <1>6 DEF Next

(* Wherever TCP cuts the stream, the loop of handle_read implements a lossy  *)
(* first-in first-out channel: no frame is delivered twice or out of order,  *)
(* and onRecv sees something that was not sent only after a loss or a stop.  *)
THEOREM FramingIsLossyFifo == Spec => LossyFifo
BY InitIInv, NextIInv, InitChannel, NextChannel, PTL DEF Spec, LossyFifo, C!ChanSpec
===============================================================================
