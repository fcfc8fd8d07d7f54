--------------------------- MODULE HttpServerProofs ---------------------------
(***************************************************************************)
(* Proofs about the HTTP side of the gate, for any number of connections,  *)
(* any HTTP_END_CONN_ID and texts of any length: the table holds the last  *)
(* connections, and the parser keeps its contract.                         *)
(***************************************************************************)
EXTENDS HttpServer, RequestParserProofs, SequenceTheorems, TLAPS

-------------------------------------------------------------------------------
(* The table of the connections. *)

(* The number that was given out d accepts ago.                              *)
Back(d) == IF d <= m_nCurConnId THEN m_nCurConnId - d ELSE m_nCurConnId - d + HTTP_END_CONN_ID

(* Going back from the next number, the table holds the connections in the   *)
(* order opposite to that of their accepts.                                  *)
TableInv ==
  /\ m_nCurConnId \in ConnId
  /\ m_ConnectionMap \in [ConnId -> Conn \cup {None}]
  /\ accepted \in Seq(Conn)
  /\ \A d \in 1 .. HTTP_END_CONN_ID :
       m_ConnectionMap[Back(d)] =
         IF d <= Len(accepted) THEN accepted[Len(accepted) + 1 - d] ELSE None

LEMMA TableInit ==
  ASSUME HttpAssumption, Init
  PROVE  TableInv
<1>1. HTTP_END_CONN_ID \in Nat \ {0} /\ m_nCurConnId = 0 /\ accepted = << >>
      /\ m_ConnectionMap = [i \in ConnId |-> None]
  BY DEF Init, HttpAssumption
<1>2. \A d \in 1 .. HTTP_END_CONN_ID : Back(d) \in ConnId /\ ~(d <= Len(accepted))
  BY <1>1 DEF Back, ConnId
<1>3. accepted \in Seq(Conn) /\ m_nCurConnId \in ConnId
  BY <1>1 DEF ConnId
<1> QED
  BY <1>1, <1>2, <1>3 DEF TableInv

LEMMA NextNumber ==
  ASSUME NEW n \in Nat \ {0}, NEW x \in 0 .. n - 1
  PROVE  (x + 1) % n = IF x + 1 = n THEN 0 ELSE x + 1
<1>1. \A i, j \in Nat : i < j => i % j = i
  OBVIOUS
<1>2. \A j \in Nat \ {0} : j % j = 0
  OBVIOUS
<1> QED
  BY <1>1, <1>2

(* HandleAccept overwrites the oldest entry, the one HTTP_END_CONN_ID back.  *)
LEMMA TableAccept ==
  ASSUME HttpAssumption, TableInv, NEW c \in Conn, HandleAccept(c)
  PROVE  TableInv'
<1> DEFINE N == HTTP_END_CONN_ID
<1>1. /\ m_ConnectionMap' = [m_ConnectionMap EXCEPT ![m_nCurConnId] = c]
      /\ m_nCurConnId' = (m_nCurConnId + 1) % N
      /\ accepted' = Append(accepted, c)
  BY DEF HandleAccept, GetNextConnId
<1>2. N \in Nat \ {0} /\ m_nCurConnId \in 0 .. N - 1
  BY DEF HttpAssumption, TableInv, ConnId
<1>3. m_nCurConnId' = IF m_nCurConnId + 1 = N THEN 0 ELSE m_nCurConnId + 1
  BY <1>1, <1>2, NextNumber
<1>4. Back(1)' = m_nCurConnId
  BY <1>2, <1>3 DEF Back
<1>5. \A d \in 2 .. N : Back(d)' = Back(d - 1) /\ Back(d - 1) \in 0 .. N - 1 /\ Back(d - 1) # m_nCurConnId
  BY <1>2, <1>3 DEF Back
<1>6. /\ accepted' \in Seq(Conn) /\ Len(accepted) \in Nat /\ Len(accepted') = Len(accepted) + 1
      /\ accepted'[Len(accepted) + 1] = c
      /\ \A i \in 1 .. Len(accepted) : accepted'[i] = accepted[i]
  BY <1>1, AppendProperties, LenProperties DEF TableInv
<1>7. /\ m_ConnectionMap' \in [ConnId -> Conn \cup {None}]
      /\ m_ConnectionMap'[m_nCurConnId] = c
      /\ \A i \in 0 .. N - 1 : i # m_nCurConnId => m_ConnectionMap'[i] = m_ConnectionMap[i]
  BY <1>1, <1>2 DEF TableInv, ConnId
<1>8. ASSUME NEW d \in 1 .. N
      PROVE  m_ConnectionMap'[Back(d)'] =
               IF d <= Len(accepted') THEN accepted'[Len(accepted') + 1 - d] ELSE None
  <2>1. CASE d = 1
    BY <1>4, <1>6, <1>7, <2>1
  <2>2. CASE d # 1
    <3>1. d \in 2 .. N /\ d - 1 \in 1 .. N
      BY <1>2, <2>2
    <3>2. m_ConnectionMap'[Back(d)'] = m_ConnectionMap[Back(d - 1)]
      BY <1>5, <1>7, <3>1
    <3>3. m_ConnectionMap[Back(d - 1)] =
            IF d - 1 <= Len(accepted) THEN accepted[Len(accepted) + 1 - (d - 1)] ELSE None
      BY <3>1 DEF TableInv
    <3>4. d - 1 <= Len(accepted) =>
            /\ Len(accepted) + 1 - (d - 1) \in 1 .. Len(accepted)
            /\ Len(accepted) + 1 - (d - 1) = Len(accepted') + 1 - d
      BY <1>6, <3>1
    <3>5. d <= Len(accepted') <=> d - 1 <= Len(accepted)
      BY <1>6, <3>1
    <3>6. d - 1 <= Len(accepted) =>
            accepted'[Len(accepted') + 1 - d] = accepted[Len(accepted) + 1 - (d - 1)]
      BY <1>6, <3>4
    <3>7. CASE d - 1 <= Len(accepted)
      BY <3>2, <3>3, <3>5, <3>6, <3>7
    <3>8. CASE ~(d - 1 <= Len(accepted))
      BY <3>2, <3>3, <3>5, <3>8
    <3> QED
      BY <3>7, <3>8
  <2> QED
    BY <2>1, <2>2
<1>9. m_nCurConnId' \in ConnId
  BY <1>2, <1>3 DEF ConnId
<1> QED
  BY <1>6, <1>7, <1>8, <1>9 DEF TableInv

(* Every other step leaves the table alone.                                  *)
LEMMA TableStep ==
  ASSUME HttpAssumption, TableInv, [Next]_vars
  PROVE  TableInv'
<1>1. ASSUME NEW c \in Conn, HandleAccept(c) PROVE TableInv'
  BY <1>1, TableAccept
<1>2. ASSUME UNCHANGED tableVars PROVE TableInv'
  BY <1>2 DEF tableVars, TableInv, Back
<1>3. ASSUME NEW c \in Conn, HandleRead(c) \/ HandleError(c) \/ HandleWrite(c)
      PROVE  UNCHANGED tableVars
  BY <1>3 DEF HandleRead, HandleError, HandleWrite
<1>4. CASE UNCHANGED vars
  BY <1>2, <1>4 DEF vars
<1> QED
  BY <1>1, <1>2, <1>3, <1>4 DEF Next

(* Every number is that of one of the last HTTP_END_CONN_ID accepts.         *)
LEMMA NumbersBack ==
  ASSUME HttpAssumption, TableInv
  PROVE  /\ \A d \in 1 .. HTTP_END_CONN_ID : Back(d) \in ConnId
         /\ \A i \in ConnId : \E d \in 1 .. HTTP_END_CONN_ID : Back(d) = i
<1>1. HTTP_END_CONN_ID \in Nat \ {0} /\ m_nCurConnId \in 0 .. HTTP_END_CONN_ID - 1
  BY DEF HttpAssumption, TableInv, ConnId
<1>2. \A d \in 1 .. HTTP_END_CONN_ID : Back(d) \in ConnId
  BY <1>1 DEF Back, ConnId
<1>3. ASSUME NEW i \in ConnId
      PROVE  \E d \in 1 .. HTTP_END_CONN_ID : Back(d) = i
  <2> DEFINE d == IF i < m_nCurConnId THEN m_nCurConnId - i ELSE m_nCurConnId - i + HTTP_END_CONN_ID
  <2>1. d \in 1 .. HTTP_END_CONN_ID /\ Back(d) = i
    BY <1>1 DEF Back, ConnId
  <2> QED
    BY <2>1
<1> QED
  BY <1>2, <1>3

LEMMA TableInvTable == ASSUME HttpAssumption, TableInv PROVE TableHoldsLast
<1> DEFINE N == HTTP_END_CONN_ID
           n == Len(accepted)
           K == {k \in DOMAIN accepted : k > n - N}
<1>1. N \in Nat /\ n \in Nat /\ DOMAIN accepted = 1 .. n /\ None \notin Conn
      /\ \A k \in 1 .. n : accepted[k] \in Conn
  BY LenProperties, ElementOfSeq DEF HttpAssumption, TableInv
<1>2. \A d \in 1 .. N : m_ConnectionMap[Back(d)] = IF d <= n THEN accepted[n + 1 - d] ELSE None
  BY DEF TableInv
<1> HIDE DEF n
<1>3. ASSUME NEW i \in ConnId, m_ConnectionMap[i] # None
      PROVE  \E k \in K : m_ConnectionMap[i] = accepted[k]
  <2>1. PICK d \in 1 .. N : Back(d) = i
    BY NumbersBack
  <2>2. d <= n /\ m_ConnectionMap[i] = accepted[n + 1 - d]
    BY <1>2, <1>3, <2>1
  <2>3. n + 1 - d \in K
    BY <1>1, <2>2
  <2> QED
    BY <2>2, <2>3
<1>4. ASSUME NEW k \in K
      PROVE  accepted[k] # None /\ \E i \in ConnId : m_ConnectionMap[i] = accepted[k]
  <2>1. n + 1 - k \in 1 .. N /\ n + 1 - k <= n /\ n + 1 - (n + 1 - k) = k /\ k \in 1 .. n
    BY <1>1
  <2>2. m_ConnectionMap[Back(n + 1 - k)] = accepted[k]
    BY <1>2, <2>1
  <2>3. Back(n + 1 - k) \in ConnId
    BY <2>1, NumbersBack
  <2> QED
    BY <1>1, <2>1, <2>2, <2>3
<1>5. {m_ConnectionMap[i] : i \in ConnId} \ {None} = {accepted[k] : k \in K}
  <2> HIDE DEF K
  <2> QED
    BY <1>3, <1>4
<1> QED
  BY <1>5 DEF TableHoldsLast, n

(* The table holds the last HTTP_END_CONN_ID connections, for any number of  *)
(* connections and any HTTP_END_CONN_ID (connection_manager.cpp:20-44,       *)
(* connection.cpp:211-224).                                                  *)
THEOREM HttpTableHoldsLast == Spec => []TableHoldsLast
<1>1. Init => TableInv
  BY HttpAssumption, TableInit
<1>2. TableInv /\ [Next]_vars => TableInv'
  BY HttpAssumption, TableStep
<1>3. TableInv => TableHoldsLast
  BY HttpAssumption, TableInvTable
<1> QED
  BY <1>1, <1>2, <1>3, PTL DEF Spec

HttpTypes == TypeOK /\ TableInv /\ DOMAIN input = Conn

(* The state of the HTTP side is well typed: in particular every number a    *)
(* connection is given is one of the table (connection_manager.cpp,          *)
(* connection.cpp).                                                          *)
THEOREM HttpTypeCorrect == Spec => []TypeOK
<1>1. Init => HttpTypes
  <2> SUFFICES ASSUME Init PROVE HttpTypes
    OBVIOUS
  <2>1. TableInv
    BY HttpAssumption, TableInit
  <2>2. \A c \in Conn : input[c] = << >> /\ << >> \in Sends[c]
    BY HttpAssumption DEF Init, HttpAssumption
  <2>3. 0 \in ConnId
    BY HttpAssumption DEF HttpAssumption, ConnId
  <2> QED
    BY <2>1, <2>2, <2>3, Zenon DEF Init, HttpTypes, TableInv, TypeOK
<1>2. HttpTypes /\ [Next]_vars => HttpTypes'
  <2> SUFFICES ASSUME HttpTypes, [Next]_vars PROVE HttpTypes'
    OBVIOUS
  <2>0. /\ TableInv' /\ m_nConnId \in [Conn -> ConnId] /\ m_nCurConnId \in ConnId
        /\ (\A c \in Conn : input[c] \in Sends[c]) /\ DOMAIN input = Conn
        /\ phase \in [Conn -> {"new", "reading", "ok", "bad", "shut", "left"}]
    BY HttpAssumption, TableStep DEF HttpTypes, TableInv, TypeOK
  <2> DEFINE Goal ==
               /\ m_nConnId' \in [Conn -> ConnId]
               /\ (\A c \in Conn : input'[c] \in Sends[c]) /\ DOMAIN input' = Conn
               /\ phase' \in [Conn -> {"new", "reading", "ok", "bad", "shut", "left"}]
  <2>1. SUFFICES Goal
    BY <2>0 DEF HttpTypes, TableInv, TypeOK
  <2>2. ASSUME NEW c \in Conn, HandleAccept(c) PROVE Goal
    BY <2>0, <2>2 DEF HandleAccept
  <2>3. ASSUME NEW c \in Conn, HandleRead(c) PROVE Goal
    <3>1. /\ m_nConnId' = m_nConnId
          /\ \E r \in {"ok", "bad", "reading"} : phase' = [phase EXCEPT ![c] = r] \/ phase' = phase
      BY <2>3 DEF HandleRead, tableVars
    <3>2. \E ch : input' = [input EXCEPT ![c] = Append(input[c], ch)] /\ Append(input[c], ch) \in Sends[c]
      BY <2>3, Zenon DEF HandleRead
    <3> QED
      BY <2>0, <3>1, <3>2
  <2>4. ASSUME NEW c \in Conn, HandleError(c) \/ HandleWrite(c) PROVE Goal
    BY <2>0, <2>4 DEF HandleError, HandleWrite, tableVars
  <2>5. CASE UNCHANGED vars
    BY <2>0, <2>5 DEF vars, tableVars
  <2> QED
    BY <2>2, <2>3, <2>4, <2>5 DEF Next
<1>3. HttpTypes => TypeOK
  BY DEF HttpTypes
<1> QED
  BY <1>1, <1>2, <1>3, PTL DEF Spec

-------------------------------------------------------------------------------
(* What consume() reads on from can be completed: its state says with which  *)
(* tail of the sample. *)

Completes(i, w) == GetRequest(w \o SubSeq(Sample, i, Len(Sample)))

LEMMA SampleFacts ==
  /\ Sample \in Seq(Class) /\ Len(Sample) = 16 /\ DOMAIN Sample = 1 .. 16
  /\ Sample[2] = "sp" /\ Sample[3] = "sp" /\ Sample[4] = "V" /\ Sample[5] = "dig"
  /\ Sample[6] = "dot" /\ Sample[7] = "dig" /\ Sample[8] = "cr" /\ Sample[9] = "lf"
  /\ Sample[10] = "tok" /\ Sample[11] = "colon" /\ Sample[12] = "sp" /\ Sample[13] = "cr"
  /\ Sample[14] = "lf" /\ Sample[15] = "cr" /\ Sample[16] = "lf"
BY DEF Sample, Class

LEMMA SampleChars == \A x \in 1 .. 16 : Sample[x] \in Class
<1>1. Sample \in Seq(Class) /\ Len(Sample) = 16
  BY SampleFacts
<1> QED
  BY <1>1, TextFacts, Zenon

LEMMA CompletesFirst ==
  ASSUME NEW w \in Seq(Class), NEW i \in 1 .. 16
  PROVE  /\ Append(w, Sample[i]) \o SubSeq(Sample, i + 1, 16) = w \o SubSeq(Sample, i, 16)
         /\ Sample[i] \in Class
<1>1. Sample \in Seq(Class) /\ i \in 1 .. Len(Sample) /\ 16 \in i .. Len(Sample) /\ Len(Sample) = 16
  BY SampleFacts
<1>2. Sample[i] \in Class /\ \A x \in i + 1 .. 16 : Sample[x] \in Class
  <2>1. \A x \in i + 1 .. 16 : x \in 1 .. 16
    OBVIOUS
  <2> QED
    BY <2>1, SampleChars, Zenon
<1>3. SubSeq(Sample, i + 1, 16) \in Seq(Class)
  BY <1>2, SubSeqProperties
<1>4. SubSeq(Sample, i, 16) = <<Sample[i]>> \o SubSeq(Sample, i + 1, 16)
  BY <1>1, SubSeqRecursiveFirst
<1>5. Append(w, Sample[i]) = w \o <<Sample[i]>>
  BY <1>2, AppendIsConcat
<1>6. <<Sample[i]>> \in Seq(Class)
  BY <1>2
<1>7. (w \o <<Sample[i]>>) \o SubSeq(Sample, i + 1, 16) = w \o (<<Sample[i]>> \o SubSeq(Sample, i + 1, 16))
  BY <1>3, <1>6, ConcatAssociative
<1> QED
  BY <1>2, <1>4, <1>5, <1>7, Zenon

CompletesIn(state, i) == \A w \in Seq(Class) : Shape(state, w) => Completes(i, w)

LEMMA CompletesStep ==
  ASSUME NEW i \in 1 .. 15, NEW j, j = i + 1, NEW state, NEW next,
         GetMove(state, Sample[i], next), CompletesIn(next, j)
  PROVE  CompletesIn(state, i)
<1> SUFFICES ASSUME NEW w \in Seq(Class), Shape(state, w) PROVE Completes(i, w)
  BY DEF CompletesIn
<1>1. i \in 1 .. 16 /\ Len(Sample) = 16
  BY SampleFacts
<1>2. Sample[i] \in Class
  BY <1>1, SampleChars
<1>3. Shape(next, Append(w, Sample[i])) /\ Append(w, Sample[i]) \in Seq(Class)
  BY <1>2, ShapeStep, AppendExtends
<1>4. Completes(i + 1, Append(w, Sample[i]))
  BY <1>3, Zenon DEF CompletesIn
<1> QED
  BY <1>1, <1>4, CompletesFirst, Zenon DEF Completes

(* The sample leads from state to state.                                     *)
LEMMA SampleMoves ==
  /\ GetMove("method", Sample[2], "uri")
  /\ GetMove("uri", Sample[3], "http_version_h")
  /\ GetMove("http_version_h", Sample[4], "http_version_major_start")
  /\ GetMove("http_version_major_start", Sample[5], "http_version_major")
  /\ GetMove("http_version_major", Sample[6], "http_version_minor_start")
  /\ GetMove("http_version_minor_start", Sample[7], "http_version_minor")
  /\ GetMove("http_version_minor", Sample[8], "expecting_newline_1")
  /\ GetMove("expecting_newline_1", Sample[9], "header_line_start")
  /\ GetMove("header_line_start", Sample[10], "header_name")
  /\ GetMove("header_name", Sample[11], "space_before_header_value")
  /\ GetMove("space_before_header_value", Sample[12], "header_value")
  /\ GetMove("header_value", Sample[13], "expecting_newline_2")
  /\ GetMove("header_lws", Sample[13], "expecting_newline_2")
  /\ GetMove("expecting_newline_2", Sample[14], "header_line_start")
  /\ GetMove("header_line_start", Sample[15], "expecting_newline_3")
BY SampleFacts, Zenon DEF GetMove, FirstMove, LaterMove, EndMove, NewlineMove, Token

LEMMA CompletesLast ==
  ASSUME NEW w \in Seq(Class), Shape("expecting_newline_3", w)
  PROVE  Completes(16, w)
<1>1. 16 \in 1 .. 16 /\ Sample[16] = "lf" /\ Len(Sample) = 16
  BY SampleFacts
<1>2. Append(w, "lf") \o SubSeq(Sample, 17, 16) = w \o SubSeq(Sample, 16, 16)
  <2>1. Append(w, Sample[16]) \o SubSeq(Sample, 16 + 1, 16) = w \o SubSeq(Sample, 16, 16)
    BY <1>1, CompletesFirst, Zenon
  <2>2. 16 + 1 = 17
    OBVIOUS
  <2> QED
    BY <1>1, <2>1, <2>2
<1>3. SubSeq(Sample, 17, 16) = << >>
  BY SubSeqEmpty
<1>4. Append(w, "lf") \in Seq(Class)
  BY AppendExtends DEF Class
<1>5. Append(w, "lf") \o << >> = Append(w, "lf")
  BY <1>4, ConcatEmptySeq
<1>6. GetRequest(w \o SubSeq(Sample, 16, 16))
  BY <1>2, <1>3, <1>5, RequestDone, Zenon
<1> QED
  BY <1>1, <1>6 DEF Completes

LEMMA ShapeViable ==
  ASSUME NEW state, NEW w \in Seq(Class), Shape(state, w)
  PROVE  Viable(w)
<1>16. CompletesIn("expecting_newline_3", 16)
  BY CompletesLast DEF CompletesIn
<1>15. CompletesIn("header_line_start", 15)
  BY <1>16, CompletesStep, SampleMoves
<1>14. CompletesIn("expecting_newline_2", 14)
  BY <1>15, CompletesStep, SampleMoves
<1>13. CompletesIn("header_value", 13) /\ CompletesIn("header_lws", 13)
  BY <1>14, CompletesStep, SampleMoves
<1>12. CompletesIn("space_before_header_value", 12)
  BY <1>13, CompletesStep, SampleMoves
<1>11. CompletesIn("header_name", 11)
  BY <1>12, CompletesStep, SampleMoves
<1>10. CompletesIn("header_line_start", 10)
  BY <1>11, CompletesStep, SampleMoves
<1>9. CompletesIn("expecting_newline_1", 9)
  BY <1>10, CompletesStep, SampleMoves
<1>8. CompletesIn("http_version_minor", 8)
  BY <1>9, CompletesStep, SampleMoves
<1>7. CompletesIn("http_version_minor_start", 7)
  BY <1>8, CompletesStep, SampleMoves
<1>6. CompletesIn("http_version_major", 6)
  BY <1>7, CompletesStep, SampleMoves
<1>5. CompletesIn("http_version_major_start", 5)
  BY <1>6, CompletesStep, SampleMoves
<1>4. CompletesIn("http_version_h", 4)
  BY <1>5, CompletesStep, SampleMoves
<1>3. CompletesIn("uri", 3)
  BY <1>4, CompletesStep, SampleMoves
<1>2. CompletesIn("method", 2)
  BY <1>3, CompletesStep, SampleMoves
<1>a. state \in FirstStates \cup LaterStates \cup NewlineStates
  BY ShapeKinds
<1>b. PICK i \in 2 .. 16 : CompletesIn(state, i)
  <2>1. state \in FirstStates => \E i \in 2 .. 16 : CompletesIn(state, i)
    BY <1>2, <1>3, <1>4, <1>5, <1>6, <1>7, <1>8 DEF FirstStates
  <2>2. state \in LaterStates => \E i \in 2 .. 16 : CompletesIn(state, i)
    BY <1>11, <1>12, <1>13, <1>15 DEF LaterStates
  <2>3. state \in NewlineStates => \E i \in 2 .. 16 : CompletesIn(state, i)
    BY <1>9, <1>14, <1>16 DEF NewlineStates
  <2> QED
    BY <1>a, <2>1, <2>2, <2>3
<1>c. Completes(i, w)
  BY <1>b DEF CompletesIn
<1>d. i \in DOMAIN Sample
  BY <1>b, SampleFacts
<1> QED
  BY <1>c, <1>d DEF Viable, Completes

(* Nothing that follows makes a GET request of w.                            *)
Hopeless(w) == \A t \in Seq(Class) : ~GetRequest(w \o t)

(* Neither do the tails of the sample.                                       *)
LEMMA HopelessNotViable ==
  ASSUME NEW w, Hopeless(w)
  PROVE  ~Viable(w)
<1> SUFFICES ASSUME NEW i \in 1 .. 16, GetRequest(w \o SubSeq(Sample, i, Len(Sample))) PROVE FALSE
  BY SampleFacts DEF Viable
<1>1. SubSeq(Sample, i, Len(Sample)) \in Seq(Class)
  <2>a. \A x \in i .. 16 : x \in 1 .. 16
    OBVIOUS
  <2>1. Len(Sample) = 16 /\ \A x \in i .. 16 : Sample[x] \in Class
    BY <2>a, SampleFacts, SampleChars
  <2> QED
    BY <2>1, SubSeqProperties
<1> QED
  BY <1>1, Zenon DEF Hopeless

(* What cannot go on cannot be completed.                                    *)
LEMMA CannotGoOn ==
  ASSUME NEW state, NEW w \in Seq(Class), Shape(state, w), NEW c \in Class,
         ~Goes(state, w, c), ~(state = "expecting_newline_3" /\ c = "lf")
  PROVE  Hopeless(Append(w, c))
<1> SUFFICES ASSUME NEW t \in Seq(Class), GetRequest(Append(w, c) \o t) PROVE FALSE
  BY Zenon DEF Hopeless
<1> DEFINE u == Append(w, c)
           z == u \o t
<1>1. /\ u \in Seq(Class) /\ Len(w) \in Nat /\ Len(u) = Len(w) + 1 /\ u[Len(w) + 1] = c
      /\ \A x \in 1 .. Len(w) : u[x] = w[x]
  BY AppendExtends, TextFacts DEF Extends
<1> HIDE DEF u
<1>3. /\ z \in Seq(Class) /\ Len(t) \in Nat /\ Len(z) = Len(u) + Len(t)
      /\ \A x \in 1 .. Len(u) + Len(t) : z[x] = IF x <= Len(u) THEN u[x] ELSE t[x - Len(u)]
  BY <1>1, ConcatProperties, LenProperties, Zenon
<1> HIDE DEF z
<1>4. Extends(w, z) /\ Len(w) < Len(z) /\ z[Len(w) + 1] = c
  BY <1>1, <1>3 DEF Extends
<1>5. GetRequest(z)
  BY DEF z, u
<1> QED
  BY <1>4, <1>5, NextAllowed

-------------------------------------------------------------------------------
(* consume(), from the states a connection's parser can be in. *)

ParserStates ==
  FirstStates \cup LaterStates \cup NewlineStates \cup {"method_start", "http_post_content"}

Parser == [state : ParserStates, get : BOOLEAN, headers : BOOLEAN, content : Nat]

(* The request has headers when a header line was begun.                     *)
HeadersOK(p, w) ==
  /\ p.state \in FirstStates \cup {"expecting_newline_1"} => p.headers = FALSE
  /\ p.state \in (LaterStates \ {"header_line_start"}) \cup {"expecting_newline_2"} => p.headers = TRUE
  /\ p.state = "header_line_start" => (p.headers = TRUE <=> FollowsHeader(w, Len(w) + 1))

(* The parser p has read w.                                                  *)
Reading(p, w) ==
  /\ p \in Parser
  /\ p.state = "method_start" => p = Start /\ w = << >>
  /\ p.get = TRUE => Shape(p.state, w) /\ HeadersOK(p, w)

LEMMA StepTriples ==
  \A s \in Step : s = <<s[1], s[2], s[3]>>
BY DEF Step

(* The step consume() takes is one of the table.                             *)
LEMMA ChosenStep ==
  ASSUME NEW state, NEW c, \E s \in Step : s[1] = state /\ s[2] = c
  PROVE  <<state, c, (CHOOSE s \in Step : s[1] = state /\ s[2] = c)[3]>> \in Step
<1> DEFINE t == CHOOSE s \in Step : s[1] = state /\ s[2] = c
<1>1. t \in Step /\ t[1] = state /\ t[2] = c
  OBVIOUS
<1> HIDE DEF t
<1>2. t = <<t[1], t[2], t[3]>>
  BY <1>1, StepTriples
<1>3. <<state, c, t[3]>> \in Step
  BY <1>1, <1>2
<1> QED
  BY <1>3 DEF t

LEMMA NextStates ==
  ASSUME NEW state, NEW c, NEW next, GetMove(state, c, next)
  PROVE  next \in ParserStates \ {"method_start", "method", "http_post_content", "header_line_start"}
         \/ NewlineMove(state, c, next)
BY DEF GetMove, FirstMove, LaterMove, EndMove, NewlineMove, ParserStates, FirstStates, LaterStates,
       NewlineStates

LEMMA EmptyOpen == << >> \in Seq(Class) /\ Open(<< >>, 1)
<1>1. Len(<< >>) = 0 /\ DOMAIN << >> = {} /\ << >> \in Seq(Class)
  OBVIOUS
<1>2. Body(<< >>, 1)
  BY <1>1 DEF Body, Paired, Starts
<1>3. Flat(<< >>, 1, 0)
  BY DEF Flat, AllIn
<1> QED
  BY <1>1, <1>2, <1>3 DEF Open

(* The first character.                                                      *)
LEMMA MethodShape == Shape("method", Append(<< >>, "GET"))
<1>1. "GET" \in Class \ {"cr", "lf"} /\ Len(<< >>) = 0
  BY DEF Class
<1>2. Open(Append(<< >>, "GET"), 1)
  BY <1>1, EmptyOpen, OpenAppend, Zenon
<1>3. Len(Append(<< >>, "GET")) = 1 /\ Append(<< >>, "GET")[1] = "GET"
  BY <1>1, EmptyOpen, AppendExtends
<1> QED
  BY <1>2, <1>3 DEF Shape, InFirstLine

(* A header line was begun in a later line than the first.                   *)
LEMMA HeadersStep ==
  ASSUME NEW p \in Parser, NEW w \in Seq(Class), NEW c \in Class, NEW next,
         Shape(p.state, w), HeadersOK(p, w), GetMove(p.state, c, next), NEW q \in Parser,
         q.state = next, q.headers = (p.headers \/ next = "header_name")
  PROVE  HeadersOK(q, Append(w, c))
<1> DEFINE z == Append(w, c)
           n == Len(w)
<1>0. n \in Nat /\ Len(z) = n + 1 /\ \A x \in 1 .. n : z[x] = w[x]
  BY AppendExtends, TextFacts DEF Extends
<1> HIDE DEF z
<1>1. CASE FirstMove(p.state, c, next)
  <2>1. p.state \in FirstStates /\ next \in FirstStates
    BY <1>1 DEF FirstMove, FirstStates
  <2>2. q.headers = FALSE
    BY <2>1 DEF HeadersOK, FirstStates, Parser
  <2> QED
    BY <2>1, <2>2 DEF HeadersOK, FirstStates, LaterStates
<1>2. CASE LaterMove(p.state, c, next)
  <2>1. /\ p.state \in LaterStates /\ next \in LaterStates \ {"header_line_start"}
        /\ p.state = "header_line_start" => next = "header_name"
    BY <1>2 DEF LaterMove, LaterStates
  <2>2. q.headers = TRUE
    BY <2>1 DEF HeadersOK, Parser
  <2> QED
    BY <2>1, <2>2 DEF HeadersOK, FirstStates, LaterStates
<1>3. CASE EndMove(p.state, c, next)
  <2>1. \/ p.state \in FirstStates /\ next = "expecting_newline_1"
        \/ p.state \in LaterStates \ {"header_line_start"} /\ next = "expecting_newline_2"
        \/ next = "expecting_newline_3"
    BY <1>3 DEF EndMove, FirstStates, LaterStates
  <2>2. q.headers = p.headers
    BY <2>1 DEF Parser
  <2> QED
    BY <2>1, <2>2 DEF HeadersOK, FirstStates, LaterStates
<1>4. CASE NewlineMove(p.state, c, next)
  <2>1. PICK b \in 1 .. n : Body(w, b) /\ AtNewline(p.state, w, b)
    BY <1>4, ShapeKinds DEF NewlineMove, FirstStates, LaterStates, NewlineStates
  <2>2. next = "header_line_start" /\ q.headers = p.headers
    BY <1>4 DEF NewlineMove, Parser
  <2>3. FollowsHeader(z, Len(z) + 1) <=> \E x \in 1 .. n : w[x] = "lf"
    <3>1. (Len(z) + 1) - 2 = n
      BY <1>0
    <3> QED
      BY <1>0, <3>1 DEF FollowsHeader
  <2>4. CASE p.state = "expecting_newline_1"
    <3>1. b = 1 /\ w[n] = "cr" /\ GoodLine(w, 1, n)
      BY <2>1, <2>4 DEF AtNewline
    <3>2. Flat(w, 1, n - 1)
      BY <1>0, <3>1, GoodLineFlat
    <3>3. \A x \in 1 .. n : x \in 1 .. n - 1 \/ x = n
      BY <1>0
    <3>4. \A x \in 1 .. n : w[x] # "lf"
      BY <3>1, <3>2, <3>3 DEF Flat, AllIn
    <3>5. p.headers = FALSE
      BY <2>4 DEF HeadersOK
    <3> QED
      BY <2>2, <2>3, <3>4, <3>5 DEF HeadersOK, FirstStates, LaterStates, z
  <2>5. CASE p.state = "expecting_newline_2"
    <3>1. b > 1 /\ w[b - 1] = "lf"
      BY <2>1, <2>5 DEF AtNewline, Body
    <3>2. b - 1 \in 1 .. n
      BY <1>0, <2>1, <3>1
    <3>3. p.headers = TRUE
      BY <2>5 DEF HeadersOK
    <3> QED
      BY <2>2, <2>3, <3>1, <3>2, <3>3 DEF HeadersOK, FirstStates, LaterStates, z
  <2> QED
    BY <1>4, <2>4, <2>5 DEF NewlineMove
<1> QED
  BY <1>1, <1>2, <1>3, <1>4 DEF GetMove, z

(* The cases of consume() exclude each other.                                *)
LEMMA ConsumeCases ==
  ASSUME NEW p \in Parser, NEW c, NEW len \in Nat, NEW added
  PROVE  LET v == Consume(p, c, len, added)
             next == (CHOOSE s \in Step : s[1] = p.state /\ s[2] = c)[3]
         IN
         \/ /\ p.state = "expecting_newline_3" /\ p.get
            /\ v = Verdict(p, IF c = "lf" THEN "true" ELSE "false")
         \/ /\ p.state = "expecting_newline_3" /\ ~p.get
            /\ v = Verdict([p EXCEPT !.state = "http_post_content"], "more")
         \/ /\ p.state = "http_post_content"
            /\ \/ v = Verdict([p EXCEPT !.content = @ + added],
                              IF p.content + added = len THEN "true" ELSE "more")
               \/ v = Verdict(p, IF c = "lf" THEN "true" ELSE "false")
         \/ /\ Continues(p, c) /\ v = Verdict([p EXCEPT !.state = "header_lws"], "more")
         \/ /\ <<p.state, c, next>> \in Step /\ v = Verdict(After(p, c, next), "more")
         \/ /\ p.state \notin {"expecting_newline_3", "http_post_content"}
            /\ ~Continues(p, c) /\ ~(\E s \in Step : s[1] = p.state /\ s[2] = c)
            /\ v = Verdict(p, "false")
<1> DEFINE v == Consume(p, c, len, added)
           next == (CHOOSE s \in Step : s[1] = p.state /\ s[2] = c)[3]
           hasStep == \E s \in Step : s[1] = p.state /\ s[2] = c
<1>1. hasStep => <<p.state, c, next>> \in Step
  BY ChosenStep
<1>2. hasStep => p.state \notin {"expecting_newline_3", "http_post_content"} /\ ~Continues(p, c)
  <2>1. <<p.state, c, next>> \in Step =>
          p.state \notin {"expecting_newline_3", "http_post_content"} /\ ~Continues(p, c)
    BY StepMoves DEF GetMove, FirstMove, LaterMove, EndMove, NewlineMove, Continues, Token, Blank
  <2> QED
    BY <1>1, <2>1
<1>3. Continues(p, c) => p.state \notin {"expecting_newline_3", "http_post_content"}
  BY DEF Continues
<1> HIDE DEF next, hasStep
<1>4. v = CASE p.state = "expecting_newline_3" /\ p.get ->
                 Verdict(p, IF c = "lf" THEN "true" ELSE "false")
            [] p.state = "expecting_newline_3" /\ ~p.get ->
                 Verdict([p EXCEPT !.state = "http_post_content"], "more")
            [] p.state = "http_post_content" /\ p.content < len ->
                 Verdict([p EXCEPT !.content = @ + added],
                         IF p.content + added = len THEN "true" ELSE "more")
            [] p.state = "http_post_content" /\ p.content >= len ->
                 Verdict(p, IF c = "lf" THEN "true" ELSE "false")
            [] Continues(p, c) -> Verdict([p EXCEPT !.state = "header_lws"], "more")
            [] hasStep -> Verdict(After(p, c, next), "more")
            [] OTHER -> Verdict(p, "false")
  BY DEF Consume, hasStep, next
<1> HIDE DEF v
<1>5. CASE p.state = "expecting_newline_3" /\ p.get
  <2>1. v = Verdict(p, IF c = "lf" THEN "true" ELSE "false")
    BY <1>2, <1>3, <1>4, <1>5
  <2> QED
    BY <1>5, <2>1 DEF v
<1>6. CASE p.state = "expecting_newline_3" /\ ~p.get
  <2>1. v = Verdict([p EXCEPT !.state = "http_post_content"], "more")
    BY <1>2, <1>3, <1>4, <1>6
  <2> QED
    BY <1>6, <2>1 DEF v
<1>7. CASE p.state = "http_post_content"
  <2>1. p.content < len \/ p.content >= len
    BY DEF Parser
  <2>2. \/ v = Verdict([p EXCEPT !.content = @ + added],
                      IF p.content + added = len THEN "true" ELSE "more")
        \/ v = Verdict(p, IF c = "lf" THEN "true" ELSE "false")
    BY <1>2, <1>3, <1>4, <1>7, <2>1
  <2> QED
    BY <1>7, <2>2 DEF v
<1>8. CASE Continues(p, c)
  <2>1. v = Verdict([p EXCEPT !.state = "header_lws"], "more")
    BY <1>2, <1>3, <1>4, <1>8
  <2> QED
    BY <1>8, <2>1 DEF v
<1>9. CASE hasStep
  <2>1. v = Verdict(After(p, c, next), "more")
    BY <1>2, <1>3, <1>4, <1>9
  <2>2. <<p.state, c, next>> \in Step
    BY <1>1, <1>9
  <2> QED
    BY <2>1, <2>2 DEF v, next
<1>10. CASE /\ p.state \notin {"expecting_newline_3", "http_post_content"}
            /\ ~Continues(p, c) /\ ~hasStep
  <2>1. v = Verdict(p, "false")
    BY <1>4, <1>10
  <2> QED
    BY <1>10, <2>1 DEF v, hasStep
<1> QED
  BY <1>5, <1>6, <1>7, <1>8, <1>9, <1>10

(* What consume() leaves of the parser and of its contract.                  *)
Kept(v, z) ==
  /\ v.parser \in Parser
  /\ v.result = "more" => Reading(v.parser, z)
  /\ v.parser.get = TRUE /\ v.result = "true" => GetRequest(z)
  /\ v.parser.get = TRUE /\ v.result = "false" => Hopeless(z)

LEMMA ConsumeStep ==
  ASSUME NEW p, NEW w \in Seq(Class), Reading(p, w), NEW c \in Class, NEW next,
         <<p.state, c, next>> \in Step
  PROVE  Reading(After(p, c, next), Append(w, c))
<1> DEFINE q == After(p, c, next)
<1>0. p \in Parser /\ p.get \in BOOLEAN /\ p.headers \in BOOLEAN
  BY DEF Reading, Parser
<1>1. next \in ParserStates /\ next # "method_start"
  BY StepMoves DEF GetMove, FirstMove, LaterMove, EndMove, NewlineMove, ParserStates, FirstStates,
                   LaterStates, NewlineStates
<1>2. /\ q \in Parser /\ q.state = next
      /\ q.get = IF p.state = "method_start" THEN c = "GET" ELSE p.get /\ next # "method"
      /\ q.headers = (p.headers \/ next = "header_name")
  BY <1>0, <1>1, Zenon DEF After, Parser
<1> HIDE DEF q
<1>3. ASSUME q.get = TRUE PROVE Shape(q.state, Append(w, c)) /\ HeadersOK(q, Append(w, c))
  <2>1. CASE p.state = "method_start"
    <3>a. w = << >> /\ p = Start
      BY <2>1 DEF Reading
    <3>b. p.headers = FALSE
      BY <3>a DEF Start
    <3>c. c = "GET"
      BY <1>2, <1>3, <2>1, Zenon
    <3>1. w = << >> /\ p.headers = FALSE /\ c = "GET"
      BY <3>a, <3>b, <3>c
    <3>2. next = "method"
      BY <2>1, StepMoves DEF GetMove, FirstMove, LaterMove, EndMove, NewlineMove
    <3>3. Shape(q.state, Append(w, c))
      BY <1>2, <3>1, <3>2, MethodShape
    <3>4. q.headers = FALSE /\ q.state = "method"
      BY <1>2, <3>1, <3>2, Zenon
    <3> QED
      BY <3>3, <3>4 DEF HeadersOK, FirstStates, LaterStates
  <2>2. CASE p.state # "method_start"
    <3>1. p.get = TRUE /\ next # "method"
      BY <1>0, <1>2, <1>3, <2>2, Zenon
    <3>2. Shape(p.state, w) /\ HeadersOK(p, w)
      BY <3>1 DEF Reading
    <3>3. GetMove(p.state, c, next)
      BY <3>1, StepMoves
    <3>4. Shape(next, Append(w, c))
      BY <3>2, <3>3, ShapeStep
    <3>5. HeadersOK(q, Append(w, c))
      BY <1>0, <1>2, <3>2, <3>3, HeadersStep, Zenon
    <3> QED
      BY <1>2, <3>4, <3>5
  <2> QED
    BY <2>1, <2>2
<1>4. Reading(q, Append(w, c))
  BY <1>1, <1>2, <1>3, Zenon DEF Reading
<1> QED
  BY <1>4 DEF q

LEMMA ConsumeKept ==
  ASSUME NEW p, NEW w \in Seq(Class), Reading(p, w), NEW c \in Class, NEW len \in Nat, NEW added \in Nat
  PROVE  Kept(Consume(p, c, len, added), Append(w, c))
<1> DEFINE v == Consume(p, c, len, added)
           z == Append(w, c)
           next == (CHOOSE s \in Step : s[1] = p.state /\ s[2] = c)[3]
<1> SUFFICES Kept(v, z)
  OBVIOUS
<1> HIDE DEF v, z, next
<1>0. /\ p \in Parser /\ p.get \in BOOLEAN
      /\ p.state = "method_start" => p = Start /\ w = << >>
      /\ p.get = TRUE => Shape(p.state, w) /\ HeadersOK(p, w)
  BY DEF Reading, Parser
<1>g. p.get = TRUE => p.state \notin {"method_start", "http_post_content"}
  BY <1>0, ShapeKinds DEF FirstStates, LaterStates, NewlineStates
<1>r. \A q, r : Verdict(q, r).parser = q /\ Verdict(q, r).result = r
  BY DEF Verdict
<1>1. CASE /\ p.state = "expecting_newline_3" /\ p.get
           /\ v = Verdict(p, IF c = "lf" THEN "true" ELSE "false")
  <2>1. v.parser = p /\ v.result = IF c = "lf" THEN "true" ELSE "false"
    BY <1>1, <1>r
  <2>2. Shape("expecting_newline_3", w)
    BY <1>0, <1>1
  <2>3. c = "lf" => GetRequest(z)
    BY <2>2, RequestDone DEF z
  <2>4. c # "lf" => Hopeless(z)
    <3>1. ~Goes("expecting_newline_3", w, c)
      BY DEF Goes, GetMove, FirstMove, LaterMove, EndMove, NewlineMove
    <3> QED
      BY <2>2, <3>1, CannotGoOn DEF z
  <2> QED
    BY <1>0, <2>1, <2>3, <2>4 DEF Kept
<1>2. CASE /\ p.state = "expecting_newline_3" /\ ~p.get
           /\ v = Verdict([p EXCEPT !.state = "http_post_content"], "more")
  <2>1. v.parser = [p EXCEPT !.state = "http_post_content"] /\ v.result = "more"
    BY <1>2, <1>r
  <2>2. v.parser \in Parser /\ v.parser.get = FALSE /\ v.parser.state = "http_post_content"
    BY <1>0, <1>2, <2>1 DEF Parser, ParserStates
  <2> QED
    BY <2>1, <2>2 DEF Kept, Reading
<1>3. CASE p.state = "http_post_content" /\
           v = Verdict([p EXCEPT !.content = @ + added],
                       IF p.content + added = len THEN "true" ELSE "more")
  <2>1. v.parser = [p EXCEPT !.content = @ + added]
    BY <1>3, <1>r
  <2>a. p.get = FALSE /\ p.content + added \in Nat
    BY <1>0, <1>3, <1>g DEF Parser
  <2>b. v.parser.get = p.get /\ v.parser.state = p.state
    BY <1>0, <2>1 DEF Parser
  <2>c. v.parser \in Parser
    BY <1>0, <2>1, <2>a DEF Parser
  <2>2. v.parser \in Parser /\ v.parser.get = FALSE /\ v.parser.state = "http_post_content"
    BY <1>3, <2>a, <2>b, <2>c
  <2> QED
    BY <2>2 DEF Kept, Reading
<1>4. CASE p.state = "http_post_content" /\ v = Verdict(p, IF c = "lf" THEN "true" ELSE "false")
  <2>1. v.parser = p /\ p.get = FALSE
    BY <1>0, <1>4, <1>g, <1>r
  <2> QED
    BY <1>0, <1>4, <2>1 DEF Kept, Reading
<1>5. CASE Continues(p, c) /\ v = Verdict([p EXCEPT !.state = "header_lws"], "more")
  <2>1. v.parser = [p EXCEPT !.state = "header_lws"] /\ v.result = "more"
    BY <1>5, <1>r
  <2>2. p.state = "header_line_start" /\ p.headers = TRUE /\ c \in Blank
    BY <1>0, <1>5 DEF Continues, Parser
  <2>3. /\ v.parser \in Parser /\ v.parser.get = p.get /\ v.parser.headers = TRUE
        /\ v.parser.state = "header_lws"
    <3>1. "header_lws" \in ParserStates
      BY DEF ParserStates, LaterStates
    <3>2. v.parser.get = p.get /\ v.parser.headers = p.headers /\ v.parser.state = "header_lws"
      BY <1>0, <2>1 DEF Parser
    <3>3. v.parser \in Parser
      BY <1>0, <2>1, <3>1 DEF Parser
    <3> QED
      BY <2>2, <3>2, <3>3
  <2>4. ASSUME p.get = TRUE PROVE Shape("header_lws", z)
    <3>1. FollowsHeader(w, Len(w) + 1) /\ Shape("header_line_start", w)
      BY <1>0, <2>2, <2>4 DEF HeadersOK
    <3> QED
      BY <2>2, <3>1, LaterShape DEF z
  <2>5. HeadersOK(v.parser, z)
    BY <2>3 DEF HeadersOK, FirstStates, LaterStates
  <2> QED
    BY <2>1, <2>3, <2>4, <2>5, Zenon DEF Kept, Reading
<1>6. CASE <<p.state, c, next>> \in Step /\ v = Verdict(After(p, c, next), "more")
  <2>1. v.parser = After(p, c, next) /\ v.result = "more"
    BY <1>6, <1>r
  <2>2. Reading(After(p, c, next), z)
    BY <1>6, ConsumeStep DEF z
  <2> QED
    BY <2>1, <2>2 DEF Kept, Reading
<1>7. CASE /\ p.state \notin {"expecting_newline_3", "http_post_content"}
           /\ ~Continues(p, c) /\ ~(\E s \in Step : s[1] = p.state /\ s[2] = c)
           /\ v = Verdict(p, "false")
  <2>1. v.parser = p /\ v.result = "false"
    BY <1>7, <1>r
  <2>2. ASSUME p.get = TRUE PROVE Hopeless(z)
    <3>1. ~Goes(p.state, w, c)
      <4>1. ASSUME NEW nx, GetMove(p.state, c, nx) PROVE FALSE
        <5>1. <<p.state, c, nx>> \in Step
          BY <4>1, StepMoves
        <5>2. <<p.state, c, nx>>[1] = p.state /\ <<p.state, c, nx>>[2] = c
          OBVIOUS
        <5> QED
          BY <1>7, <5>1, <5>2
      <4>2. ~(p.state = "header_line_start" /\ c \in Blank /\ FollowsHeader(w, Len(w) + 1))
        BY <1>0, <1>7, <2>2 DEF Continues, HeadersOK
      <4> QED
        BY <4>1, <4>2 DEF Goes
    <3> QED
      BY <1>0, <1>7, <2>2, <3>1, CannotGoOn DEF z
  <2> QED
    BY <1>0, <2>1, <2>2, Zenon DEF Kept
<1>8. \/ /\ p.state = "expecting_newline_3" /\ p.get
         /\ v = Verdict(p, IF c = "lf" THEN "true" ELSE "false")
      \/ /\ p.state = "expecting_newline_3" /\ ~p.get
         /\ v = Verdict([p EXCEPT !.state = "http_post_content"], "more")
      \/ /\ p.state = "http_post_content"
         /\ \/ v = Verdict([p EXCEPT !.content = @ + added],
                           IF p.content + added = len THEN "true" ELSE "more")
            \/ v = Verdict(p, IF c = "lf" THEN "true" ELSE "false")
      \/ /\ Continues(p, c) /\ v = Verdict([p EXCEPT !.state = "header_lws"], "more")
      \/ /\ <<p.state, c, next>> \in Step /\ v = Verdict(After(p, c, next), "more")
      \/ /\ p.state \notin {"expecting_newline_3", "http_post_content"}
         /\ ~Continues(p, c) /\ ~(\E s \in Step : s[1] = p.state /\ s[2] = c)
         /\ v = Verdict(p, "false")
  BY <1>0, ConsumeCases, Zenon DEF v, next
<1> QED
  BY <1>1, <1>2, <1>3, <1>4, <1>5, <1>6, <1>7, <1>8

-------------------------------------------------------------------------------
(* The parsers of the connections. *)

Phases == {"new", "reading", "ok", "bad", "shut", "left"}

ParserInv ==
  /\ input \in [Conn -> Seq(Class)] /\ m_RequestParser \in [Conn -> Parser] /\ phase \in [Conn -> Phases]
  /\ \A c \in Conn :
       /\ phase[c] = "new" => m_RequestParser[c] = Start /\ input[c] = << >>
       /\ phase[c] = "reading" => Reading(m_RequestParser[c], input[c])
       /\ phase[c] = "ok" /\ m_RequestParser[c].get = TRUE => GetRequest(input[c])
       /\ phase[c] = "bad" /\ m_RequestParser[c].get = TRUE => GetRequest(input[c]) \/ Hopeless(input[c])

LEMMA StartReading == Start \in Parser /\ Reading(Start, << >>)
<1>1. Start \in Parser /\ Start.get = FALSE
  BY DEF Start, Parser, ParserStates
<1> QED
  BY <1>1 DEF Reading

LEMMA ParserInit == ASSUME Init PROVE ParserInv
BY StartReading, EmptyOpen DEF Init, ParserInv, Phases

(* What a step that leaves the parsers and the texts alone may do.           *)
LEMMA ParserPhase ==
  ASSUME ParserInv, NEW c \in Conn, NEW ph \in Phases, phase' = [phase EXCEPT ![c] = ph],
         UNCHANGED <<input, m_RequestParser>>,
         ph \in {"shut", "left"} \/ (phase[c] = "new" /\ ph = "reading")
  PROVE  ParserInv'
<1>1. phase' \in [Conn -> Phases] /\ \A d \in Conn : phase'[d] = IF d = c THEN ph ELSE phase[d]
  BY DEF ParserInv
<1>2. input' = input /\ m_RequestParser' = m_RequestParser
  OBVIOUS
<1>3. phase[c] = "new" => Reading(m_RequestParser[c], input[c])
  BY StartReading DEF ParserInv
<1> QED
  BY <1>1, <1>2, <1>3 DEF ParserInv

LEMMA ParserRead ==
  ASSUME HttpAssumption, ParserInv, NEW c \in Conn, HandleRead(c)
  PROVE  ParserInv'
<1> DEFINE p == m_RequestParser[c]
           w == input[c]
<1>1. PICK ch \in Class, len \in Length, added \in 1 .. MaxAdded :
        LET v == Consume(p, ch, len, added) IN
        /\ input' = [input EXCEPT ![c] = Append(w, ch)]
        /\ m_RequestParser' = [m_RequestParser EXCEPT ![c] = v.parser]
        /\ \/ v.result = "true" /\ \E reply \in {"ok", "bad"} : phase' = [phase EXCEPT ![c] = reply]
           \/ v.result = "false" /\ phase' = [phase EXCEPT ![c] = "bad"]
           \/ v.result = "more" /\ phase' = phase
  BY DEF HandleRead
<1> DEFINE v == Consume(p, ch, len, added)
           z == Append(w, ch)
<1>2. phase[c] = "reading" /\ w \in Seq(Class) /\ Reading(p, w)
  BY DEF HandleRead, ParserInv
<1>3. len \in Nat /\ added \in Nat
  BY DEF HttpAssumption
<1>4. Kept(v, z) /\ z \in Seq(Class)
  BY <1>2, <1>3, ConsumeKept, AppendExtends
<1>5. /\ input' = [input EXCEPT ![c] = z]
      /\ m_RequestParser' = [m_RequestParser EXCEPT ![c] = v.parser]
      /\ \/ v.result = "true" /\ \E reply \in {"ok", "bad"} : phase' = [phase EXCEPT ![c] = reply]
         \/ v.result = "false" /\ phase' = [phase EXCEPT ![c] = "bad"]
         \/ v.result = "more" /\ phase' = phase
  BY <1>1
<1> HIDE DEF v, z
<1>6. v.parser \in Parser
  BY <1>4 DEF Kept
<1>7. /\ input' \in [Conn -> Seq(Class)] /\ m_RequestParser' \in [Conn -> Parser]
      /\ phase' \in [Conn -> Phases]
      /\ input'[c] = z /\ m_RequestParser'[c] = v.parser
      /\ \A d \in Conn \ {c} : /\ input'[d] = input[d] /\ m_RequestParser'[d] = m_RequestParser[d]
                               /\ phase'[d] = phase[d]
  <2>1. /\ input' \in [Conn -> Seq(Class)] /\ input'[c] = z
        /\ \A d \in Conn \ {c} : input'[d] = input[d]
    BY <1>4, <1>5 DEF ParserInv
  <2>2. /\ m_RequestParser' \in [Conn -> Parser] /\ m_RequestParser'[c] = v.parser
        /\ \A d \in Conn \ {c} : m_RequestParser'[d] = m_RequestParser[d]
    BY <1>5, <1>6 DEF ParserInv
  <2>3. phase' \in [Conn -> Phases] /\ \A d \in Conn \ {c} : phase'[d] = phase[d]
    BY <1>5 DEF ParserInv, Phases
  <2> QED
    BY <2>1, <2>2, <2>3
<1>8. \/ v.result = "true" /\ phase'[c] \in {"ok", "bad"}
      \/ v.result = "false" /\ phase'[c] = "bad"
      \/ v.result = "more" /\ phase'[c] = "reading"
  BY <1>2, <1>5 DEF ParserInv
<1>9. /\ phase'[c] # "new"
      /\ phase'[c] = "reading" => Reading(v.parser, z)
      /\ phase'[c] = "ok" /\ v.parser.get = TRUE => GetRequest(z)
      /\ phase'[c] = "bad" /\ v.parser.get = TRUE => GetRequest(z) \/ Hopeless(z)
  BY <1>4, <1>8 DEF Kept
<1>10. ASSUME NEW d \in Conn
       PROVE  /\ phase'[d] = "new" => m_RequestParser'[d] = Start /\ input'[d] = << >>
              /\ phase'[d] = "reading" => Reading(m_RequestParser'[d], input'[d])
              /\ phase'[d] = "ok" /\ m_RequestParser'[d].get = TRUE => GetRequest(input'[d])
              /\ phase'[d] = "bad" /\ m_RequestParser'[d].get = TRUE
                   => GetRequest(input'[d]) \/ Hopeless(input'[d])
  <2>1. CASE d = c
    BY <1>7, <1>9, <2>1
  <2>2. CASE d # c
    BY <1>7, <2>2 DEF ParserInv
  <2> QED
    BY <2>1, <2>2
<1> QED
  BY <1>7, <1>10 DEF ParserInv

LEMMA ParserStep ==
  ASSUME HttpAssumption, ParserInv, [Next]_vars
  PROVE  ParserInv'
<1>1. ASSUME NEW c \in Conn, HandleAccept(c) PROVE ParserInv'
  BY <1>1, ParserPhase, Zenon DEF HandleAccept, Phases
<1>2. ASSUME NEW c \in Conn, HandleRead(c) PROVE ParserInv'
  BY <1>2, ParserRead
<1>3. ASSUME NEW c \in Conn, HandleError(c) PROVE ParserInv'
  BY <1>3, ParserPhase, Zenon DEF HandleError, Phases
<1>4. ASSUME NEW c \in Conn, HandleWrite(c) PROVE ParserInv'
  BY <1>4, ParserPhase DEF HandleWrite, Phases
<1>5. CASE UNCHANGED vars
  BY <1>5 DEF vars, ParserInv
<1> QED
  BY <1>1, <1>2, <1>3, <1>4, <1>5 DEF Next

LEMMA ParserInvExact == ASSUME ParserInv PROVE ParserExact
<1> SUFFICES ASSUME NEW c \in Conn, m_RequestParser[c].get
             PROVE  /\ phase[c] = "ok" => GetRequest(input[c])
                    /\ phase[c] = "reading" => Viable(input[c]) /\ ~GetRequest(input[c])
                    /\ phase[c] = "bad" => GetRequest(input[c]) \/ ~Viable(input[c])
  BY DEF ParserExact
<1>1. m_RequestParser[c].get = TRUE
  BY DEF ParserInv, Parser
<1>2. ASSUME phase[c] = "reading" PROVE Viable(input[c]) /\ ~GetRequest(input[c])
  <2>1. input[c] \in Seq(Class) /\ Shape(m_RequestParser[c].state, input[c])
    BY <1>1, <1>2 DEF ParserInv, Reading
  <2> QED
    BY <2>1, ShapeViable, NotDone
<1>3. ASSUME phase[c] = "bad" PROVE GetRequest(input[c]) \/ ~Viable(input[c])
  BY <1>1, <1>3, HopelessNotViable DEF ParserInv
<1>4. ASSUME phase[c] = "ok" PROVE GetRequest(input[c])
  BY <1>1, <1>4 DEF ParserInv
<1> QED
  BY <1>2, <1>3, <1>4

(* The parser keeps its contract (request_parser.hpp:33-36) on texts of any  *)
(* length: a GET request is served exactly when it is complete, read on from *)
(* exactly while it can become one, and refused when it cannot.              *)
THEOREM HttpParserExact == Spec => []ParserExact
<1>1. Init => ParserInv
  BY ParserInit
<1>2. ParserInv /\ [Next]_vars => ParserInv'
  BY HttpAssumption, ParserStep
<1>3. ParserInv => ParserExact
  BY ParserInvExact
<1> QED
  BY <1>1, <1>2, <1>3, PTL DEF Spec

(* Viable tries the tails of one sample.  The verdict "false" of consume()   *)
(* means more: no continuation at all makes a GET request of what a client   *)
(* sent that is refused, unless it was one and asked for nothing there is    *)
(* (request_parser.cpp:27-327, connection.cpp:113-199).                      *)
RefusedForGood ==
  \A c \in Conn : m_RequestParser[c].get /\ phase[c] = "bad"
                   => GetRequest(input[c]) \/ Hopeless(input[c])

(* RefusedForGood holds throughout: nothing is refused that more of it would *)
(* have made a request.                                                      *)
THEOREM HttpRefusedForGood == Spec => []RefusedForGood
<1>1. Init => ParserInv
  BY ParserInit
<1>2. ParserInv /\ [Next]_vars => ParserInv'
  BY HttpAssumption, ParserStep
<1>3. ParserInv => RefusedForGood
  <2> SUFFICES ASSUME ParserInv, NEW c \in Conn, m_RequestParser[c].get, phase[c] = "bad"
               PROVE  GetRequest(input[c]) \/ Hopeless(input[c])
    BY DEF RefusedForGood
  <2>1. m_RequestParser[c].get = TRUE
    BY DEF ParserInv, Parser
  <2> QED
    BY <2>1 DEF ParserInv
<1> QED
  BY <1>1, <1>2, <1>3, PTL DEF Spec
===============================================================================
