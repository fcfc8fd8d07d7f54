-------------------------- MODULE RequestParserProofs --------------------------
(***************************************************************************)
(* Lemmas about the parser of the HTTP requests, for texts of any length:  *)
(* what a text looks like in each state of the parser, that the steps of   *)
(* consume() keep to that, and which characters a GET request can go on    *)
(* with.                                                                   *)
(***************************************************************************)
EXTENDS RequestParser, SequenceTheorems, TLAPS

-------------------------------------------------------------------------------
(* Texts that go on. *)

Extends(w, z) ==
  /\ w \in Seq(Class) /\ z \in Seq(Class) /\ Len(w) <= Len(z)
  /\ \A x \in 1 .. Len(w) : z[x] = w[x]

LEMMA TextFacts ==
  ASSUME NEW w \in Seq(Class)
  PROVE  /\ Len(w) \in Nat /\ DOMAIN w = 1 .. Len(w)
         /\ \A x \in 1 .. Len(w) : w[x] \in Class
BY LenProperties, ElementOfSeq

LEMMA AppendExtends ==
  ASSUME NEW w \in Seq(Class), NEW c \in Class
  PROVE  /\ Extends(w, Append(w, c)) /\ Append(w, c) \in Seq(Class)
         /\ Len(Append(w, c)) = Len(w) + 1 /\ Append(w, c)[Len(w) + 1] = c
BY AppendProperties, LenProperties DEF Extends

LEMMA AllInExtends ==
  ASSUME NEW w, NEW z, Extends(w, z), NEW a \in Nat \ {0}, NEW b \in Int, b <= Len(w), NEW S
  PROVE  AllIn(z, a, b, S) <=> AllIn(w, a, b, S)
<1>1. \A x \in a .. b : x \in 1 .. Len(w)
  BY TextFacts DEF Extends
<1> QED
  BY <1>1 DEF AllIn, Extends

(* A request line with its second space at j and its dot at k.               *)
Parts(z, e, j, k) ==
  /\ 2 < j /\ j + 2 < k /\ k + 1 < e
  /\ z[1] = "GET" /\ z[2] = "sp" /\ z[j] = "sp" /\ z[j + 1] = "V" /\ z[k] = "dot"
  /\ AllIn(z, 3, j - 1, Text \ {"sp"})
  /\ AllIn(z, j + 2, k - 1, {"dig"}) /\ AllIn(z, k + 1, e - 1, {"dig"})

LEMMA RequestLineParts ==
  ASSUME NEW w, NEW e
  PROVE  RequestLine(w, e) <=> \E j, k \in 1 .. e : Parts(w, e, j, k)
BY Zenon DEF RequestLine, Parts

(* What a line is does not depend on what comes after it.                    *)
LEMMA GoodLineExtends ==
  ASSUME NEW w, NEW z, Extends(w, z), NEW b \in Nat \ {0}, NEW e \in Nat, b <= e, e <= Len(w) + 1
  PROVE  /\ e <= Len(w) => (Ends(z, b, e) <=> Ends(w, b, e))
         /\ GoodLine(z, b, e) <=> GoodLine(w, b, e)
<1>0. Len(w) \in Nat /\ \A x \in 1 .. Len(w) : z[x] = w[x]
  BY TextFacts DEF Extends
<1>1. e <= Len(w) => (Ends(z, b, e) <=> Ends(w, b, e))
  <2>1. e - 1 \in Int /\ e - 1 <= Len(w)
    BY <1>0
  <2>2. AllIn(z, b, e - 1, Class \ {"cr"}) <=> AllIn(w, b, e - 1, Class \ {"cr"})
    BY <2>1, AllInExtends
  <2> QED
    BY <1>0, <2>2 DEF Ends
<1>2. RequestLine(z, e) <=> RequestLine(w, e)
  <2>1. ASSUME NEW j \in 1 .. e, NEW k \in 1 .. e, 2 < j, j + 2 < k, k + 1 < e
        PROVE  Parts(z, e, j, k) <=> Parts(w, e, j, k)
    <3>1. w[1] = z[1] /\ w[2] = z[2] /\ w[j] = z[j] /\ w[j + 1] = z[j + 1] /\ w[k] = z[k]
      BY <1>0, <2>1
    <3>2. /\ 3 \in Nat \ {0} /\ j + 2 \in Nat \ {0} /\ k + 1 \in Nat \ {0}
          /\ j - 1 \in Int /\ k - 1 \in Int /\ e - 1 \in Int
          /\ j - 1 <= Len(w) /\ k - 1 <= Len(w) /\ e - 1 <= Len(w)
      BY <1>0
    <3>3. AllIn(z, 3, j - 1, Text \ {"sp"}) <=> AllIn(w, 3, j - 1, Text \ {"sp"})
      BY <3>2, AllInExtends
    <3>4. AllIn(z, j + 2, k - 1, {"dig"}) <=> AllIn(w, j + 2, k - 1, {"dig"})
      BY <3>2, AllInExtends
    <3>5. AllIn(z, k + 1, e - 1, {"dig"}) <=> AllIn(w, k + 1, e - 1, {"dig"})
      BY <3>2, AllInExtends
    <3> QED
      BY <3>1, <3>3, <3>4, <3>5 DEF Parts
  <2>2. \A j, k \in 1 .. e : Parts(z, e, j, k) <=> Parts(w, e, j, k)
    BY <2>1 DEF Parts
  <2> QED
    BY <2>2, RequestLineParts
<1>3. HeaderLine(z, b, e) <=> HeaderLine(w, b, e)
  <2>1. ASSUME NEW i \in b + 1 .. e - 2
        PROVE  /\ w[i] = z[i] /\ w[i + 1] = z[i + 1]
               /\ AllIn(z, b, i - 1, Token) <=> AllIn(w, b, i - 1, Token)
               /\ AllIn(z, i + 2, e - 1, Text) <=> AllIn(w, i + 2, e - 1, Text)
    <3>1. w[i] = z[i] /\ w[i + 1] = z[i + 1]
      BY <1>0
    <3>2. /\ i + 2 \in Nat \ {0} /\ i - 1 \in Int /\ e - 1 \in Int
          /\ i - 1 <= Len(w) /\ e - 1 <= Len(w)
      BY <1>0
    <3> QED
      BY <3>1, <3>2, AllInExtends
  <2> QED
    BY <2>1 DEF HeaderLine
<1>4. ContinuedLine(z, b, e) <=> ContinuedLine(w, b, e)
  <2>1. ASSUME NEW i \in b .. e - 1
        PROVE  /\ AllIn(z, b, i, Blank) <=> AllIn(w, b, i, Blank)
               /\ AllIn(z, i + 1, e - 1, Text) <=> AllIn(w, i + 1, e - 1, Text)
    <3>1. /\ i + 1 \in Nat \ {0} /\ i \in Int /\ e - 1 \in Int
          /\ i <= Len(w) /\ e - 1 <= Len(w)
      BY <1>0
    <3> QED
      BY <3>1, AllInExtends
  <2> QED
    BY <2>1 DEF ContinuedLine
<1>5. FollowsHeader(z, b) <=> FollowsHeader(w, b)
  BY <1>0 DEF FollowsHeader
<1> QED
  BY <1>1, <1>2, <1>3, <1>4, <1>5 DEF GoodLine

-------------------------------------------------------------------------------
(* Texts whose lines before b are good. *)

Flat(w, a, b) == AllIn(w, a, b, Class \ {"cr", "lf"})

Body(w, b) ==
  /\ b \in 1 .. Len(w) + 1 /\ (b = 1 \/ w[b - 1] = "lf")
  /\ Paired(w)
  /\ \A s \in Starts(w) : s < b => \E e \in s .. b - 2 : Ends(w, s, e) /\ GoodLine(w, s, e)

LEMMA GoodLineFlat ==
  ASSUME NEW w, NEW b \in Nat \ {0}, NEW e \in Nat, GoodLine(w, b, e)
  PROVE  Flat(w, b, e - 1) /\ b < e
<1>1. CASE b = 1 /\ RequestLine(w, e)
  <2>1. PICK j \in 1 .. e, k \in 1 .. e :
          /\ 2 < j /\ j + 2 < k /\ k + 1 < e
          /\ w[1] = "GET" /\ w[2] = "sp" /\ w[j] = "sp" /\ w[j + 1] = "V" /\ w[k] = "dot"
          /\ AllIn(w, 3, j - 1, Text \ {"sp"})
          /\ AllIn(w, j + 2, k - 1, {"dig"}) /\ AllIn(w, k + 1, e - 1, {"dig"})
    BY <1>1 DEF RequestLine
  <2>2. \A x \in 1 .. e - 1 : \/ x \in {1, 2, j, j + 1, k} \/ x \in 3 .. j - 1
                              \/ x \in j + 2 .. k - 1 \/ x \in k + 1 .. e - 1
    BY <2>1
  <2>3. \A x \in 1 .. e - 1 : w[x] \in Class \ {"cr", "lf"}
    BY <2>1, <2>2 DEF AllIn, Text, Ctl, Class
  <2> QED
    BY <1>1, <2>1, <2>3 DEF Flat, AllIn
<1>2. CASE HeaderLine(w, b, e)
  <2>1. PICK i \in b + 1 .. e - 2 :
          /\ AllIn(w, b, i - 1, Token) /\ w[i] = "colon" /\ w[i + 1] = "sp"
          /\ AllIn(w, i + 2, e - 1, Text)
    BY <1>2 DEF HeaderLine
  <2>2. \A x \in b .. e - 1 : x \in b .. i - 1 \/ x = i \/ x = i + 1 \/ x \in i + 2 .. e - 1
    BY <2>1
  <2>3. \A x \in b .. e - 1 : w[x] \in Class \ {"cr", "lf"}
    BY <2>1, <2>2 DEF AllIn, Token, Text, Ctl, Class
  <2> QED
    BY <2>1, <2>3 DEF Flat, AllIn
<1>3. CASE ContinuedLine(w, b, e)
  <2>1. PICK i \in b .. e - 1 : AllIn(w, b, i, Blank) /\ AllIn(w, i + 1, e - 1, Text)
    BY <1>3 DEF ContinuedLine
  <2>2. \A x \in b .. e - 1 : x \in b .. i \/ x \in i + 1 .. e - 1
    BY <2>1
  <2>3. \A x \in b .. e - 1 : w[x] \in Class \ {"cr", "lf"}
    BY <2>1, <2>2 DEF AllIn, Blank, Text, Ctl, Class
  <2> QED
    BY <2>1, <2>3 DEF Flat, AllIn
<1> QED
  BY <1>1, <1>2, <1>3 DEF GoodLine

(* One more character, a newline after a carriage return only.               *)
LEMMA BodyAppend ==
  ASSUME NEW w \in Seq(Class), NEW b, Body(w, b), NEW c \in Class,
         c = "lf" <=> Len(w) > 0 /\ w[Len(w)] = "cr"
  PROVE  Body(Append(w, c), b)
<1> DEFINE z == Append(w, c)
           n == Len(w)
<1>1. /\ n \in Nat /\ Len(z) = n + 1 /\ z[n + 1] = c /\ Extends(w, z)
      /\ \A x \in 1 .. n : z[x] = w[x]
      /\ DOMAIN w = 1 .. n /\ DOMAIN z = 1 .. n + 1
  BY AppendExtends, TextFacts DEF Extends
<1>2. b \in 1 .. n + 1 /\ (b = 1 \/ w[b - 1] = "lf") /\ Paired(w)
  BY DEF Body
<1> HIDE DEF z
<1>3. b \in 1 .. Len(z) + 1 /\ (b = 1 \/ z[b - 1] = "lf")
  BY <1>1, <1>2
<1>4. Paired(z)
  <2> SUFFICES ASSUME NEW x \in 1 .. n + 1 PROVE z[x] = "lf" <=> x > 1 /\ z[x - 1] = "cr"
    BY <1>1 DEF Paired
  <2>1. CASE x \in 1 .. n
    <3>1. w[x] = "lf" <=> x > 1 /\ w[x - 1] = "cr"
      BY <1>1, <1>2, <2>1, Zenon DEF Paired
    <3>2. z[x] = w[x] /\ (x > 1 => z[x - 1] = w[x - 1])
      BY <1>1, <2>1
    <3> QED
      BY <3>1, <3>2
  <2>2. CASE x = n + 1
    <3>1. z[x] = c /\ x - 1 = n /\ (x > 1 <=> n > 0) /\ (n > 0 => z[n] = w[n])
      BY <1>1, <2>2
    <3> QED
      BY <3>1
  <2> QED
    BY <1>1, <2>1, <2>2
<1>5. ASSUME NEW s \in Starts(z), s < b
      PROVE  \E e \in s .. b - 2 : Ends(z, s, e) /\ GoodLine(z, s, e)
  <2>1. s \in Starts(w) /\ s \in 1 .. n
    BY <1>1, <1>2, <1>5 DEF Starts
  <2>2. PICK e \in s .. b - 2 : Ends(w, s, e) /\ GoodLine(w, s, e)
    BY <1>5, <2>1 DEF Body
  <2>3. s \in Nat \ {0} /\ e \in Nat /\ s <= e /\ e <= Len(w) + 1 /\ e <= Len(w)
    BY <1>1, <1>2, <2>1
  <2>4. Ends(z, s, e) /\ GoodLine(z, s, e)
    BY <1>1, <2>2, <2>3, GoodLineExtends
  <2> QED
    BY <2>4
<1>6. Body(z, b)
  BY <1>3, <1>4, <1>5 DEF Body
<1> QED
  BY <1>6 DEF z

(* A good line ends, and the next one begins.                                *)
LEMMA BodyNext ==
  ASSUME NEW w \in Seq(Class), NEW b, Body(w, b), b <= Len(w), w[Len(w)] = "cr",
         GoodLine(w, b, Len(w))
  PROVE  Body(Append(w, "lf"), Len(w) + 2)
<1> DEFINE z == Append(w, "lf")
           n == Len(w)
<1>0. "lf" \in Class
  BY DEF Class
<1>1. /\ n \in Nat /\ Len(z) = n + 1 /\ z[n + 1] = "lf" /\ Extends(w, z)
      /\ \A x \in 1 .. n : z[x] = w[x]
      /\ DOMAIN w = 1 .. n /\ DOMAIN z = 1 .. n + 1 /\ z \in Seq(Class)
  BY <1>0, AppendExtends, TextFacts DEF Extends
<1>2. b \in 1 .. n /\ (b = 1 \/ w[b - 1] = "lf") /\ Paired(w)
  BY <1>1 DEF Body
<1>3. Flat(w, b, n - 1) /\ b < n
  BY <1>1, <1>2, GoodLineFlat
<1>4. Body(z, b)
  BY <1>0, <1>1, <1>2, BodyAppend
<1> HIDE DEF z
<1>5. Paired(z)
  BY <1>4 DEF Body
<1>6. Ends(w, b, n)
  BY <1>2, <1>3 DEF Ends, Flat, AllIn
<1>7. ASSUME NEW s \in Starts(z), s < n + 2
      PROVE  \E e \in s .. n : Ends(z, s, e) /\ GoodLine(z, s, e)
  <2>1. s \in 1 .. n + 1 /\ (s = 1 \/ z[s - 1] = "lf")
    BY <1>1 DEF Starts
  <2>2. s <= b
    <3>1. s = n + 1 => z[s - 1] = "cr"
      BY <1>1, <1>2, <2>1
    <3>2. s \in b + 1 .. n => z[s - 1] # "lf"
      BY <1>1, <1>2, <1>3 DEF Flat, AllIn
    <3> QED
      BY <1>1, <1>2, <2>1, <3>1, <3>2
  <2>3. CASE s = b
    <3>1. b \in Nat \ {0} /\ n \in Nat /\ b <= n /\ n <= Len(w) + 1 /\ n <= Len(w)
      BY <1>1, <1>2
    <3>2. Ends(z, b, n) /\ GoodLine(z, b, n)
      BY <1>1, <1>6, <3>1, GoodLineExtends
    <3> QED
      BY <1>2, <2>3, <3>2
  <2>4. CASE s < b
    <3>1. PICK e \in s .. b - 2 : Ends(z, s, e) /\ GoodLine(z, s, e)
      BY <1>4, <2>4 DEF Body
    <3>2. e \in s .. n
      BY <1>2, <2>1
    <3> QED
      BY <3>1, <3>2
  <2> QED
    BY <1>2, <2>1, <2>2, <2>3, <2>4
<1>8. n + 2 \in 1 .. Len(z) + 1 /\ z[n + 2 - 1] = "lf" /\ n + 2 - 2 = n
  BY <1>1
<1>9. Body(z, n + 2)
  BY <1>5, <1>7, <1>8 DEF Body
<1> QED
  BY <1>9 DEF z

(* The line at b has begun and not ended.                                    *)
Open(w, b) == Body(w, b) /\ Flat(w, b, Len(w))

LEMMA AllInAppend ==
  ASSUME NEW w \in Seq(Class), NEW c \in Class, NEW a \in Nat \ {0}, NEW S,
         AllIn(w, a, Len(w), S), c \in S
  PROVE  AllIn(Append(w, c), a, Len(w) + 1, S)
<1>1. /\ Len(w) \in Nat /\ Append(w, c)[Len(w) + 1] = c
      /\ \A x \in 1 .. Len(w) : Append(w, c)[x] = w[x]
  BY AppendExtends, TextFacts DEF Extends
<1> SUFFICES ASSUME NEW x \in a .. Len(w) + 1 PROVE Append(w, c)[x] \in S
  BY DEF AllIn
<1>2. CASE x \in a .. Len(w)
  BY <1>1, <1>2 DEF AllIn
<1>3. CASE x = Len(w) + 1
  BY <1>1, <1>3
<1> QED
  BY <1>1, <1>2, <1>3

(* A line that is open does not end in a carriage return.                    *)
LEMMA OpenLast ==
  ASSUME NEW w \in Seq(Class), NEW b, Open(w, b)
  PROVE  ~(Len(w) > 0 /\ w[Len(w)] = "cr")
<1>1. Len(w) \in Nat /\ b \in 1 .. Len(w) + 1 /\ (b = 1 \/ w[b - 1] = "lf")
  BY TextFacts DEF Open, Body
<1>2. CASE b = Len(w) + 1
  BY <1>1, <1>2
<1>3. CASE b <= Len(w)
  BY <1>1, <1>3 DEF Open, Flat, AllIn
<1> QED
  BY <1>1, <1>2, <1>3

LEMMA OpenAppend ==
  ASSUME NEW w \in Seq(Class), NEW b, Open(w, b), NEW c \in Class \ {"cr", "lf"}
  PROVE  Open(Append(w, c), b)
<1>1. Body(w, b) /\ Flat(w, b, Len(w)) /\ b \in Nat \ {0}
  BY TextFacts DEF Open, Body
<1>2. Body(Append(w, c), b)
  BY <1>1, OpenLast, BodyAppend
<1>3. Flat(Append(w, c), b, Len(w) + 1)
  BY <1>1, AllInAppend DEF Flat
<1> QED
  BY <1>2, <1>3, AppendExtends DEF Open

LEMMA OpenCr ==
  ASSUME NEW w \in Seq(Class), NEW b, Open(w, b)
  PROVE  Body(Append(w, "cr"), b)
<1>1. Body(w, b) /\ "cr" \in Class
  BY DEF Open, Class
<1> QED
  BY <1>1, OpenLast, BodyAppend

(* A line that begins is open.                                               *)
LEMMA OpenNext ==
  ASSUME NEW w \in Seq(Class), NEW b, Body(w, b), b <= Len(w), w[Len(w)] = "cr",
         GoodLine(w, b, Len(w))
  PROVE  Open(Append(w, "lf"), Len(w) + 2)
<1>1. Len(w) \in Nat /\ Len(Append(w, "lf")) = Len(w) + 1
  BY AppendExtends, TextFacts DEF Class
<1>2. Flat(Append(w, "lf"), Len(w) + 2, Len(w) + 1)
  BY <1>1 DEF Flat, AllIn
<1> QED
  BY <1>1, <1>2, BodyNext DEF Open

-------------------------------------------------------------------------------
(* What the parser has read of a GET request in each of its states. *)

Uri(w, m) == w[1] = "GET" /\ w[2] = "sp" /\ AllIn(w, 3, m, Text \ {"sp"})

Version(w, j) == w[j] = "sp" /\ w[j + 1] = "V" /\ Uri(w, j - 1)

InFirstLine(state, w) ==
  LET n == Len(w) IN
  \/ state = "method" /\ n = 1 /\ w[1] = "GET"
  \/ state = "uri" /\ n >= 2 /\ Uri(w, n)
  \/ state = "http_version_h" /\ n >= 3 /\ w[n] = "sp" /\ Uri(w, n - 1)
  \/ state = "http_version_major_start" /\ n >= 4 /\ Version(w, n - 1)
  \/ state = "http_version_major" /\
       \E j \in 3 .. n - 2 : Version(w, j) /\ AllIn(w, j + 2, n, {"dig"})
  \/ state = "http_version_minor_start" /\
       \E j \in 3 .. n - 3 : Version(w, j) /\ AllIn(w, j + 2, n - 1, {"dig"}) /\ w[n] = "dot"
  \/ state = "http_version_minor" /\ RequestLine(w, n + 1)

InLaterLine(state, w, b) ==
  LET n == Len(w) IN
  \/ state = "header_line_start" /\ b = n + 1
  \/ state = "header_name" /\ b <= n /\ AllIn(w, b, n, Token)
  \/ state = "space_before_header_value" /\ b < n /\ AllIn(w, b, n - 1, Token) /\ w[n] = "colon"
  \/ state = "header_value" /\ b <= n /\ GoodLine(w, b, n + 1) /\ ~AllIn(w, b, n, Blank)
  \/ state = "header_lws" /\ b <= n /\ AllIn(w, b, n, Blank) /\ FollowsHeader(w, b)

AtNewline(state, w, b) ==
  /\ b <= Len(w) /\ w[Len(w)] = "cr"
  /\ \/ state = "expecting_newline_1" /\ b = 1 /\ GoodLine(w, b, Len(w))
     \/ state = "expecting_newline_2" /\ b > 1 /\ GoodLine(w, b, Len(w))
     \/ state = "expecting_newline_3" /\ b > 1 /\ b = Len(w)

Shape(state, w) ==
  \/ Open(w, 1) /\ InFirstLine(state, w)
  \/ \E b \in 2 .. Len(w) + 1 : Open(w, b) /\ InLaterLine(state, w, b)
  \/ \E b \in 1 .. Len(w) : Body(w, b) /\ AtNewline(state, w, b)

LEMMA UriExtends ==
  ASSUME NEW w, NEW z, Extends(w, z), NEW m \in Nat, 2 <= m, m <= Len(w)
  PROVE  Uri(z, m) <=> Uri(w, m)
<1>1. z[1] = w[1] /\ z[2] = w[2]
  BY TextFacts DEF Extends
<1>2. AllIn(z, 3, m, Text \ {"sp"}) <=> AllIn(w, 3, m, Text \ {"sp"})
  BY AllInExtends
<1> QED
  BY <1>1, <1>2 DEF Uri

LEMMA VersionExtends ==
  ASSUME NEW w, NEW z, Extends(w, z), NEW j \in Nat, 3 <= j, j < Len(w)
  PROVE  Version(z, j) <=> Version(w, j)
<1>1. z[j] = w[j] /\ z[j + 1] = w[j + 1] /\ j - 1 \in Nat /\ 2 <= j - 1 /\ j - 1 <= Len(w)
  BY TextFacts DEF Extends
<1> QED
  BY <1>1, UriExtends DEF Version

(* The steps of consume() within the first line.                             *)
LEMMA FirstLineSteps ==
  ASSUME NEW w \in Seq(Class), NEW c \in Class
  PROVE  LET z == Append(w, c) IN
         /\ InFirstLine("method", w) /\ c = "sp" => InFirstLine("uri", z)
         /\ InFirstLine("uri", w) /\ c \in Text \ {"sp"} => InFirstLine("uri", z)
         /\ InFirstLine("uri", w) /\ c = "sp" => InFirstLine("http_version_h", z)
         /\ InFirstLine("http_version_h", w) /\ c = "V" => InFirstLine("http_version_major_start", z)
         /\ InFirstLine("http_version_major_start", w) /\ c = "dig" => InFirstLine("http_version_major", z)
         /\ InFirstLine("http_version_major", w) /\ c = "dig" => InFirstLine("http_version_major", z)
         /\ InFirstLine("http_version_major", w) /\ c = "dot" => InFirstLine("http_version_minor_start", z)
         /\ InFirstLine("http_version_minor_start", w) /\ c = "dig" => InFirstLine("http_version_minor", z)
         /\ InFirstLine("http_version_minor", w) /\ c = "dig" => InFirstLine("http_version_minor", z)
<1> DEFINE z == Append(w, c)
           n == Len(w)
<1>0. /\ n \in Nat /\ Len(z) = n + 1 /\ z[n + 1] = c /\ Extends(w, z)
      /\ \A x \in 1 .. n : z[x] = w[x]
  BY AppendExtends, TextFacts DEF Extends
<1>a. \A a \in Nat \ {0} : \A S : AllIn(w, a, n, S) /\ c \in S => AllIn(z, a, n + 1, S)
  BY AllInAppend
<1> HIDE DEF z
<1>1. ASSUME InFirstLine("method", w), c = "sp" PROVE InFirstLine("uri", z)
  <2>1. n = 1 /\ w[1] = "GET"
    BY <1>1 DEF InFirstLine
  <2>2. Len(z) = 2 /\ z[1] = "GET" /\ z[2] = "sp"
    BY <1>0, <1>1, <2>1
  <2> QED
    BY <2>2 DEF InFirstLine, Uri, AllIn
<1>2. ASSUME InFirstLine("uri", w), c \in Text \ {"sp"} PROVE InFirstLine("uri", z)
  <2>1. n >= 2 /\ Uri(w, n)
    BY <1>2 DEF InFirstLine
  <2>2. Uri(z, n + 1)
    BY <1>0, <1>2, <1>a, <2>1 DEF Uri
  <2> QED
    BY <1>0, <2>1, <2>2 DEF InFirstLine
<1>3. ASSUME InFirstLine("uri", w), c = "sp" PROVE InFirstLine("http_version_h", z)
  <2>1. n >= 2 /\ Uri(w, n)
    BY <1>3 DEF InFirstLine
  <2>2. Uri(z, n) /\ n + 1 - 1 = n
    BY <1>0, <2>1, UriExtends
  <2> QED
    BY <1>0, <1>3, <2>1, <2>2 DEF InFirstLine
<1>4. ASSUME InFirstLine("http_version_h", w), c = "V" PROVE InFirstLine("http_version_major_start", z)
  <2>1. n >= 3 /\ w[n] = "sp" /\ Uri(w, n - 1)
    BY <1>4 DEF InFirstLine
  <2>2. n - 1 \in Nat /\ 2 <= n - 1 /\ n - 1 <= Len(w)
    BY <1>0, <2>1
  <2>3. Uri(z, n - 1)
    BY <1>0, <2>1, <2>2, UriExtends
  <2>4. Version(z, n) /\ n + 1 - 1 = n
    BY <1>0, <1>4, <2>1, <2>3 DEF Version
  <2> QED
    BY <1>0, <2>1, <2>4 DEF InFirstLine
<1>5. ASSUME InFirstLine("http_version_major_start", w), c = "dig" PROVE InFirstLine("http_version_major", z)
  <2>1. n >= 4 /\ Version(w, n - 1)
    BY <1>5 DEF InFirstLine
  <2>2. n - 1 \in Nat /\ 3 <= n - 1 /\ n - 1 < Len(w) /\ n - 1 \in 3 .. (n + 1) - 2
    BY <1>0, <2>1
  <2>3. Version(z, n - 1)
    BY <1>0, <2>1, <2>2, VersionExtends
  <2>4. AllIn(z, (n - 1) + 2, n + 1, {"dig"})
    BY <1>0, <1>5 DEF AllIn
  <2> QED
    BY <1>0, <2>2, <2>3, <2>4 DEF InFirstLine
<1>6. ASSUME InFirstLine("http_version_major", w), c = "dig" PROVE InFirstLine("http_version_major", z)
  <2>1. PICK j \in 3 .. n - 2 : Version(w, j) /\ AllIn(w, j + 2, n, {"dig"})
    BY <1>6 DEF InFirstLine
  <2>2. /\ j \in Nat /\ 3 <= j /\ j < Len(w) /\ j \in 3 .. (n + 1) - 2
        /\ j + 2 \in Nat \ {0}
    BY <1>0
  <2>3. Version(z, j) /\ AllIn(z, j + 2, n + 1, {"dig"})
    BY <1>0, <1>6, <1>a, <2>1, <2>2, VersionExtends
  <2> QED
    BY <1>0, <2>2, <2>3 DEF InFirstLine
<1>7. ASSUME InFirstLine("http_version_major", w), c = "dot" PROVE InFirstLine("http_version_minor_start", z)
  <2>1. PICK j \in 3 .. n - 2 : Version(w, j) /\ AllIn(w, j + 2, n, {"dig"})
    BY <1>7 DEF InFirstLine
  <2>2. /\ j \in Nat /\ 3 <= j /\ j < Len(w) /\ j \in 3 .. (n + 1) - 3
        /\ j + 2 \in Nat \ {0} /\ n \in Int /\ (n + 1) - 1 = n
    BY <1>0
  <2>3. Version(z, j) /\ AllIn(z, j + 2, (n + 1) - 1, {"dig"})
    BY <1>0, <2>1, <2>2, VersionExtends, AllInExtends
  <2> QED
    BY <1>0, <1>7, <2>2, <2>3 DEF InFirstLine
<1>8. ASSUME InFirstLine("http_version_minor_start", w), c = "dig" PROVE InFirstLine("http_version_minor", z)
  <2>1. PICK j \in 3 .. n - 3 : Version(w, j) /\ AllIn(w, j + 2, n - 1, {"dig"}) /\ w[n] = "dot"
    BY <1>8 DEF InFirstLine
  <2>2. /\ j \in Nat /\ 3 <= j /\ j < Len(w) /\ j \in 1 .. n + 2 /\ n \in 1 .. n + 2
        /\ j + 2 \in Nat \ {0} /\ n - 1 \in Int /\ n - 1 <= Len(w)
        /\ 2 < j /\ j + 2 < n /\ n + 1 < n + 2 /\ (n + 2) - 1 = n + 1
    BY <1>0
  <2>3. Version(z, j) /\ AllIn(z, j + 2, n - 1, {"dig"})
    BY <1>0, <2>1, <2>2, VersionExtends, AllInExtends
  <2>4. AllIn(z, n + 1, n + 1, {"dig"})
    BY <1>0, <1>8 DEF AllIn
  <2>5. z[n] = "dot"
    BY <1>0, <2>1
  <2>6. RequestLine(z, n + 2)
    BY <2>2, <2>3, <2>4, <2>5 DEF RequestLine, Version, Uri
  <2> QED
    BY <1>0, <2>6 DEF InFirstLine
<1>9. ASSUME InFirstLine("http_version_minor", w), c = "dig" PROVE InFirstLine("http_version_minor", z)
  <2>0. RequestLine(w, n + 1)
    BY <1>9 DEF InFirstLine
  <2>1. PICK j \in 1 .. n + 1, k \in 1 .. n + 1 :
          /\ 2 < j /\ j + 2 < k /\ k + 1 < n + 1
          /\ w[1] = "GET" /\ w[2] = "sp" /\ w[j] = "sp" /\ w[j + 1] = "V" /\ w[k] = "dot"
          /\ AllIn(w, 3, j - 1, Text \ {"sp"})
          /\ AllIn(w, j + 2, k - 1, {"dig"}) /\ AllIn(w, k + 1, (n + 1) - 1, {"dig"})
    BY <2>0 DEF RequestLine
  <2>2. /\ j \in 1 .. n + 2 /\ k \in 1 .. n + 2 /\ k + 1 < n + 2 /\ (n + 1) - 1 = n /\ (n + 2) - 1 = n + 1
        /\ j - 1 \in Int /\ k - 1 \in Int /\ j - 1 <= n /\ k - 1 <= n
        /\ j + 2 \in Nat \ {0} /\ k + 1 \in Nat \ {0} /\ 3 \in Nat \ {0}
    BY <1>0, <2>1
  <2>c. 1 \in 1 .. n /\ 2 \in 1 .. n /\ j \in 1 .. n /\ j + 1 \in 1 .. n /\ k \in 1 .. n
    BY <1>0, <2>1
  <2>3. z[1] = "GET" /\ z[2] = "sp" /\ z[j] = "sp" /\ z[j + 1] = "V" /\ z[k] = "dot"
    BY <1>0, <2>1, <2>c
  <2>4. AllIn(z, 3, j - 1, Text \ {"sp"}) /\ AllIn(z, j + 2, k - 1, {"dig"})
    BY <1>0, <2>1, <2>2, AllInExtends
  <2>5. AllIn(z, k + 1, n + 1, {"dig"})
    BY <1>9, <1>a, <2>1, <2>2
  <2>6. RequestLine(z, n + 2)
    BY <2>1, <2>2, <2>3, <2>4, <2>5 DEF RequestLine
  <2> QED
    BY <1>0, <2>6 DEF InFirstLine
<1> QED
  BY <1>1, <1>2, <1>3, <1>4, <1>5, <1>6, <1>7, <1>8, <1>9 DEF z

(* The steps of consume() within a later line.                               *)
LEMMA LaterLineSteps ==
  ASSUME NEW w \in Seq(Class), NEW c \in Class, NEW b \in 2 .. Len(w) + 1
  PROVE  LET z == Append(w, c) IN
         /\ InLaterLine("header_line_start", w, b) /\ c \in Token => InLaterLine("header_name", z, b)
         /\ InLaterLine("header_name", w, b) /\ c \in Token => InLaterLine("header_name", z, b)
         /\ InLaterLine("header_name", w, b) /\ c = "colon" => InLaterLine("space_before_header_value", z, b)
         /\ InLaterLine("space_before_header_value", w, b) /\ c = "sp" => InLaterLine("header_value", z, b)
         /\ InLaterLine("header_value", w, b) /\ c \in Text => InLaterLine("header_value", z, b)
         /\ InLaterLine("header_lws", w, b) /\ c \in Blank => InLaterLine("header_lws", z, b)
         /\ InLaterLine("header_lws", w, b) /\ c \in Text \ Blank => InLaterLine("header_value", z, b)
         /\ InLaterLine("header_line_start", w, b) /\ FollowsHeader(w, b) /\ c \in Blank
              => InLaterLine("header_lws", z, b)
<1> DEFINE z == Append(w, c)
           n == Len(w)
<1>0. /\ n \in Nat /\ Len(z) = n + 1 /\ z[n + 1] = c /\ Extends(w, z)
      /\ \A x \in 1 .. n : z[x] = w[x]
  BY AppendExtends, TextFacts DEF Extends
<1>a. \A a \in Nat \ {0} : \A S : AllIn(w, a, n, S) /\ c \in S => AllIn(z, a, n + 1, S)
  BY AllInAppend
<1>b. b \in Nat \ {0} /\ b > 1 /\ b <= n + 1 /\ (n + 2) - 1 = n + 1 /\ (n + 1) - 1 = n /\ n \in Int
  BY <1>0
<1>f. FollowsHeader(w, b) => FollowsHeader(z, b)
  BY <1>0, <1>b DEF FollowsHeader
<1> HIDE DEF z
<1>1. ASSUME InLaterLine("header_line_start", w, b), c \in Token PROVE InLaterLine("header_name", z, b)
  <2>1. b = n + 1
    BY <1>1 DEF InLaterLine
  <2>2. AllIn(z, b, n + 1, Token)
    BY <1>0, <1>1, <2>1 DEF AllIn
  <2> QED
    BY <1>0, <1>b, <2>2 DEF InLaterLine
<1>2. ASSUME InLaterLine("header_name", w, b), c \in Token PROVE InLaterLine("header_name", z, b)
  <2>1. b <= n /\ AllIn(w, b, n, Token)
    BY <1>2 DEF InLaterLine
  <2>2. AllIn(z, b, n + 1, Token)
    BY <1>2, <1>a, <1>b, <2>1
  <2> QED
    BY <1>0, <1>b, <2>2 DEF InLaterLine
<1>3. ASSUME InLaterLine("header_name", w, b), c = "colon"
      PROVE  InLaterLine("space_before_header_value", z, b)
  <2>1. b <= n /\ AllIn(w, b, n, Token)
    BY <1>3 DEF InLaterLine
  <2>2. AllIn(z, b, (n + 1) - 1, Token) /\ b < n + 1
    BY <1>0, <1>b, <2>1, AllInExtends
  <2> QED
    BY <1>0, <1>3, <2>2 DEF InLaterLine
<1>4. ASSUME InLaterLine("space_before_header_value", w, b), c = "sp"
      PROVE  InLaterLine("header_value", z, b)
  <2>1. b < n /\ AllIn(w, b, n - 1, Token) /\ w[n] = "colon"
    BY <1>4 DEF InLaterLine
  <2>2. n - 1 \in Int /\ n - 1 <= n /\ n \in b + 1 .. (n + 2) - 2 /\ n \in 1 .. n
    BY <1>0, <1>b, <2>1
  <2>3. AllIn(z, b, n - 1, Token) /\ z[n] = "colon"
    BY <1>0, <1>b, <2>1, <2>2, AllInExtends
  <2>4. AllIn(z, n + 2, n + 1, Text)
    BY <1>0 DEF AllIn
  <2>5. HeaderLine(z, b, n + 2)
    BY <1>0, <1>4, <1>b, <2>2, <2>3, <2>4 DEF HeaderLine
  <2>6. GoodLine(z, b, n + 2)
    BY <1>b, <2>5 DEF GoodLine
  <2>7. Len(z) + 1 = n + 2 /\ b <= Len(z)
    BY <1>0, <1>b
  <2>8. ~AllIn(z, b, Len(z), Blank)
    <3>1. b \in b .. n - 1 /\ b \in b .. Len(z)
      BY <1>0, <1>b, <2>1
    <3> QED
      BY <2>3, <3>1 DEF AllIn, Token, Blank
  <2> QED
    BY <2>6, <2>7, <2>8 DEF InLaterLine
<1>5. ASSUME InLaterLine("header_value", w, b), c \in Text PROVE InLaterLine("header_value", z, b)
  <2>0. Len(z) + 1 = n + 2 /\ b <= Len(z)
    BY <1>0, <1>b
  <2>1. b <= n /\ GoodLine(w, b, n + 1) /\ ~AllIn(w, b, n, Blank)
    BY <1>5 DEF InLaterLine
  <2>4. ~AllIn(z, b, Len(z), Blank)
    BY <1>0, <1>b, <2>1 DEF AllIn
  <2>2. CASE HeaderLine(w, b, n + 1)
    <3>1. PICK i \in b + 1 .. (n + 1) - 2 :
            /\ AllIn(w, b, i - 1, Token) /\ w[i] = "colon" /\ w[i + 1] = "sp"
            /\ AllIn(w, i + 2, n, Text)
      BY <1>b, <2>2 DEF HeaderLine
    <3>2. /\ i - 1 \in Int /\ i - 1 <= n /\ i \in 1 .. n /\ i + 1 \in 1 .. n
          /\ i + 2 \in Nat \ {0} /\ i \in b + 1 .. (n + 2) - 2
      BY <1>0, <1>b
    <3>3. AllIn(z, b, i - 1, Token) /\ z[i] = "colon" /\ z[i + 1] = "sp"
      BY <1>0, <1>b, <3>1, <3>2, AllInExtends
    <3>4. AllIn(z, i + 2, n + 1, Text)
      BY <1>5, <1>a, <3>1, <3>2
    <3>5. HeaderLine(z, b, n + 2)
      BY <1>b, <3>2, <3>3, <3>4 DEF HeaderLine
    <3> QED
      BY <1>b, <2>0, <2>4, <3>5 DEF InLaterLine, GoodLine
  <2>3. CASE ContinuedLine(w, b, n + 1) /\ FollowsHeader(w, b)
    <3>1. PICK i \in b .. n : AllIn(w, b, i, Blank) /\ AllIn(w, i + 1, n, Text)
      BY <1>b, <2>3 DEF ContinuedLine
    <3>2. i \in Int /\ i <= n /\ i + 1 \in Nat \ {0} /\ i \in b .. (n + 2) - 1
      BY <1>0, <1>b
    <3>3. AllIn(z, b, i, Blank)
      BY <1>0, <1>b, <3>1, <3>2, AllInExtends
    <3>4. AllIn(z, i + 1, n + 1, Text)
      BY <1>5, <1>a, <3>1, <3>2
    <3>5. ContinuedLine(z, b, n + 2)
      BY <1>b, <3>2, <3>3, <3>4 DEF ContinuedLine
    <3> QED
      BY <1>b, <1>f, <2>0, <2>3, <2>4, <3>5 DEF InLaterLine, GoodLine
  <2> QED
    BY <1>b, <2>1, <2>2, <2>3 DEF GoodLine
<1>6. ASSUME InLaterLine("header_lws", w, b), c \in Blank PROVE InLaterLine("header_lws", z, b)
  <2>1. b <= n /\ AllIn(w, b, n, Blank) /\ FollowsHeader(w, b)
    BY <1>6 DEF InLaterLine
  <2>2. AllIn(z, b, n + 1, Blank)
    BY <1>6, <1>a, <1>b, <2>1
  <2> QED
    BY <1>0, <1>b, <1>f, <2>1, <2>2 DEF InLaterLine
<1>7. ASSUME InLaterLine("header_lws", w, b), c \in Text \ Blank PROVE InLaterLine("header_value", z, b)
  <2>0. Len(z) + 1 = n + 2 /\ b <= Len(z)
    BY <1>0, <1>b
  <2>1. b <= n /\ AllIn(w, b, n, Blank) /\ FollowsHeader(w, b)
    BY <1>7 DEF InLaterLine
  <2>2. AllIn(z, b, n, Blank)
    BY <1>0, <1>b, <2>1, AllInExtends
  <2>3. AllIn(z, n + 1, n + 1, Text)
    BY <1>0, <1>7 DEF AllIn
  <2>4. n \in b .. (n + 2) - 1
    BY <1>0, <1>b, <2>1
  <2>5. ContinuedLine(z, b, n + 2)
    BY <1>b, <2>2, <2>3, <2>4 DEF ContinuedLine
  <2> QED
    BY <1>0, <1>7, <1>b, <1>f, <2>0, <2>1, <2>5 DEF InLaterLine, GoodLine, AllIn
<1>8. ASSUME InLaterLine("header_line_start", w, b), FollowsHeader(w, b), c \in Blank
      PROVE  InLaterLine("header_lws", z, b)
  <2>1. b = n + 1
    BY <1>8 DEF InLaterLine
  <2>2. AllIn(z, b, n + 1, Blank)
    BY <1>0, <1>8, <2>1 DEF AllIn
  <2> QED
    BY <1>0, <1>8, <1>b, <1>f, <2>2 DEF InLaterLine
<1> QED
  BY <1>1, <1>2, <1>3, <1>4, <1>5, <1>6, <1>7, <1>8 DEF z

(* The steps of consume() on a GET request: within the first line, within a  *)
(* later one, at the end of a line and at the beginning of the next.         *)
FirstMove(state, c, next) ==
  \/ state = "method" /\ c = "sp" /\ next = "uri"
  \/ state = "uri" /\ c \in Text \ {"sp"} /\ next = "uri"
  \/ state = "uri" /\ c = "sp" /\ next = "http_version_h"
  \/ state = "http_version_h" /\ c = "V" /\ next = "http_version_major_start"
  \/ state = "http_version_major_start" /\ c = "dig" /\ next = "http_version_major"
  \/ state = "http_version_major" /\ c = "dig" /\ next = "http_version_major"
  \/ state = "http_version_major" /\ c = "dot" /\ next = "http_version_minor_start"
  \/ state = "http_version_minor_start" /\ c = "dig" /\ next = "http_version_minor"
  \/ state = "http_version_minor" /\ c = "dig" /\ next = "http_version_minor"

LaterMove(state, c, next) ==
  \/ state = "header_line_start" /\ c \in Token /\ next = "header_name"
  \/ state = "header_name" /\ c \in Token /\ next = "header_name"
  \/ state = "header_name" /\ c = "colon" /\ next = "space_before_header_value"
  \/ state = "space_before_header_value" /\ c = "sp" /\ next = "header_value"
  \/ state = "header_value" /\ c \in Text /\ next = "header_value"
  \/ state = "header_lws" /\ c \in Blank /\ next = "header_lws"
  \/ state = "header_lws" /\ c \in Text \ Blank /\ next = "header_value"

EndMove(state, c, next) ==
  /\ c = "cr"
  /\ \/ state = "http_version_minor" /\ next = "expecting_newline_1"
     \/ state \in {"header_value", "header_lws"} /\ next = "expecting_newline_2"
     \/ state = "header_line_start" /\ next = "expecting_newline_3"

NewlineMove(state, c, next) ==
  state \in {"expecting_newline_1", "expecting_newline_2"} /\ c = "lf" /\ next = "header_line_start"

GetMove(state, c, next) ==
  \/ FirstMove(state, c, next) \/ LaterMove(state, c, next)
  \/ EndMove(state, c, next) \/ NewlineMove(state, c, next)

LEMMA StepMoves ==
  ASSUME NEW state, NEW c, NEW next
  PROVE  <<state, c, next>> \in Step <=>
           \/ state \in {"method_start", "method"} /\ c \in Token /\ next = "method"
           \/ GetMove(state, c, next)
BY DEF Step, GetMove, FirstMove, LaterMove, EndMove, NewlineMove

FirstStates == {"method", "uri", "http_version_h", "http_version_major_start",
                "http_version_major", "http_version_minor_start", "http_version_minor"}

LaterStates == {"header_line_start", "header_name", "space_before_header_value", "header_value",
                "header_lws"}

NewlineStates == {"expecting_newline_1", "expecting_newline_2", "expecting_newline_3"}

LEMMA ShapeKinds ==
  ASSUME NEW state, NEW w, Shape(state, w)
  PROVE  \/ state \in FirstStates /\ Open(w, 1) /\ InFirstLine(state, w)
         \/ state \in LaterStates /\ \E b \in 2 .. Len(w) + 1 : Open(w, b) /\ InLaterLine(state, w, b)
         \/ state \in NewlineStates /\ \E b \in 1 .. Len(w) : Body(w, b) /\ AtNewline(state, w, b)
<1>1. InFirstLine(state, w) => state \in FirstStates
  BY DEF InFirstLine, FirstStates
<1>2. \A b : InLaterLine(state, w, b) => state \in LaterStates
  BY DEF InLaterLine, LaterStates
<1>3. \A b : AtNewline(state, w, b) => state \in NewlineStates
  BY DEF AtNewline, NewlineStates
<1> QED
  BY <1>1, <1>2, <1>3 DEF Shape

LEMMA FirstShape ==
  ASSUME NEW state, NEW w \in Seq(Class), NEW c \in Class, NEW next,
         Shape(state, w), FirstMove(state, c, next)
  PROVE  Shape(next, Append(w, c))
<1>1. state \in FirstStates /\ c \in Class \ {"cr", "lf"}
  BY DEF FirstMove, FirstStates, Text, Ctl
<1>2. Open(w, 1) /\ InFirstLine(state, w)
  BY <1>1, ShapeKinds DEF FirstStates, LaterStates, NewlineStates
<1>3. InFirstLine(next, Append(w, c))
  BY <1>2, FirstLineSteps DEF FirstMove
<1>4. Open(Append(w, c), 1)
  BY <1>1, <1>2, OpenAppend
<1> QED
  BY <1>3, <1>4 DEF Shape

LEMMA LaterShape ==
  ASSUME NEW state, NEW w \in Seq(Class), NEW c \in Class, NEW next, Shape(state, w),
         \/ LaterMove(state, c, next)
         \/ /\ state = "header_line_start" /\ c \in Blank /\ next = "header_lws"
            /\ FollowsHeader(w, Len(w) + 1)
  PROVE  Shape(next, Append(w, c))
<1>1. state \in LaterStates /\ c \in Class \ {"cr", "lf"}
  BY DEF LaterMove, LaterStates, Text, Ctl, Token, Blank, Class
<1>2. PICK b \in 2 .. Len(w) + 1 : Open(w, b) /\ InLaterLine(state, w, b)
  BY <1>1, ShapeKinds DEF FirstStates, LaterStates, NewlineStates
<1>3. InLaterLine(next, Append(w, c), b)
  <2>1. CASE LaterMove(state, c, next)
    BY <1>2, <2>1, LaterLineSteps DEF LaterMove, Text
  <2>2. CASE /\ state = "header_line_start" /\ c \in Blank /\ next = "header_lws"
             /\ FollowsHeader(w, Len(w) + 1)
    <3>1. b = Len(w) + 1
      BY <1>2, <2>2 DEF InLaterLine
    <3> QED
      BY <1>2, <2>2, <3>1, LaterLineSteps
  <2> QED
    BY <2>1, <2>2
<1>4. Open(Append(w, c), b)
  BY <1>1, <1>2, OpenAppend
<1>5. b \in 2 .. Len(Append(w, c)) + 1
  BY AppendExtends, TextFacts
<1> QED
  BY <1>3, <1>4, <1>5 DEF Shape

LEMMA EndShape ==
  ASSUME NEW state, NEW w \in Seq(Class), NEW next, Shape(state, w), EndMove(state, "cr", next)
  PROVE  Shape(next, Append(w, "cr"))
<1> DEFINE z == Append(w, "cr")
           n == Len(w)
<1>0. /\ n \in Nat /\ Len(z) = n + 1 /\ z[n + 1] = "cr" /\ Extends(w, z)
      /\ n + 1 \in Nat /\ n + 1 <= Len(w) + 1
      /\ \A b : Open(w, b) => Body(z, b)
  BY AppendExtends, TextFacts, OpenCr DEF Extends, Class
<1> HIDE DEF z
<1>1. CASE state = "http_version_minor" /\ next = "expecting_newline_1"
  <2>1. Open(w, 1) /\ InFirstLine(state, w)
    BY <1>1, ShapeKinds DEF FirstStates, LaterStates, NewlineStates
  <2>2. GoodLine(w, 1, n + 1)
    BY <1>1, <2>1 DEF InFirstLine, GoodLine
  <2>3. GoodLine(z, 1, n + 1)
    BY <1>0, <2>2, GoodLineExtends
  <2>4. AtNewline(next, z, 1) /\ 1 \in 1 .. Len(z)
    BY <1>0, <1>1, <2>3 DEF AtNewline
  <2> QED
    BY <1>0, <2>1, <2>4 DEF Shape, z
<1>2. CASE state \in {"header_value", "header_lws"} /\ next = "expecting_newline_2"
  <2>1. PICK b \in 2 .. n + 1 : Open(w, b) /\ InLaterLine(state, w, b)
    BY <1>2, ShapeKinds DEF FirstStates, LaterStates, NewlineStates
  <2>2. b \in Nat \ {0} /\ b <= n + 1 /\ b > 1 /\ n \in Int /\ b \in 1 .. Len(z) /\ n \in Int
    BY <1>0, <2>1
  <2>3. GoodLine(w, b, n + 1)
    <3>1. CASE state = "header_value"
      BY <2>1, <3>1 DEF InLaterLine
    <3>2. CASE state = "header_lws"
      <4>1. b <= n /\ AllIn(w, b, n, Blank) /\ FollowsHeader(w, b)
        BY <2>1, <3>2 DEF InLaterLine
      <4>2. n \in b .. (n + 1) - 1
        BY <1>0, <2>2, <4>1
      <4>3. AllIn(w, n + 1, (n + 1) - 1, Text)
        BY <1>0 DEF AllIn
      <4>4. ContinuedLine(w, b, n + 1)
        BY <4>1, <4>2, <4>3 DEF ContinuedLine
      <4> QED
        BY <2>2, <4>1, <4>4 DEF GoodLine
    <3> QED
      BY <1>2, <3>1, <3>2
  <2>4. GoodLine(z, b, n + 1)
    BY <1>0, <2>2, <2>3, GoodLineExtends
  <2>5. AtNewline(next, z, b)
    BY <1>0, <1>2, <2>2, <2>4 DEF AtNewline
  <2> QED
    BY <1>0, <2>1, <2>2, <2>5 DEF Shape, z
<1>3. CASE state = "header_line_start" /\ next = "expecting_newline_3"
  <2>1. PICK b \in 2 .. n + 1 : Open(w, b) /\ InLaterLine(state, w, b)
    BY <1>3, ShapeKinds DEF FirstStates, LaterStates, NewlineStates
  <2>2. b = n + 1
    BY <1>3, <2>1 DEF InLaterLine
  <2>3. AtNewline(next, z, b) /\ b \in 1 .. Len(z)
    BY <1>0, <1>3, <2>1, <2>2 DEF AtNewline
  <2> QED
    BY <1>0, <2>1, <2>3 DEF Shape, z
<1> QED
  BY <1>1, <1>2, <1>3 DEF EndMove

LEMMA NewlineShape ==
  ASSUME NEW state, NEW w \in Seq(Class), NEW next, Shape(state, w), NewlineMove(state, "lf", next)
  PROVE  Shape(next, Append(w, "lf"))
<1>1. PICK b \in 1 .. Len(w) : Body(w, b) /\ AtNewline(state, w, b)
  BY ShapeKinds DEF FirstStates, LaterStates, NewlineStates, NewlineMove
<1>2. b <= Len(w) /\ w[Len(w)] = "cr" /\ GoodLine(w, b, Len(w))
  BY <1>1 DEF AtNewline, NewlineMove
<1>3. Open(Append(w, "lf"), Len(w) + 2)
  BY <1>1, <1>2, OpenNext
<1>4. Len(w) \in Nat /\ Len(Append(w, "lf")) = Len(w) + 1
  BY AppendExtends, TextFacts DEF Class
<1>5. /\ Len(w) + 2 \in 2 .. Len(Append(w, "lf")) + 1
      /\ Len(w) + 2 = Len(Append(w, "lf")) + 1
  BY <1>4
<1>6. InLaterLine(next, Append(w, "lf"), Len(w) + 2)
  BY <1>5 DEF InLaterLine, NewlineMove
<1> QED
  BY <1>3, <1>5, <1>6 DEF Shape

(* consume() goes on with a text that has the form its next state stands for. *)
LEMMA ShapeStep ==
  ASSUME NEW state, NEW w \in Seq(Class), NEW c \in Class, NEW next,
         Shape(state, w), GetMove(state, c, next)
  PROVE  Shape(next, Append(w, c))
<1>1. CASE FirstMove(state, c, next)
  BY <1>1, FirstShape
<1>2. CASE LaterMove(state, c, next)
  BY <1>2, LaterShape
<1>3. CASE EndMove(state, c, next)
  BY <1>3, EndShape DEF EndMove
<1>4. CASE NewlineMove(state, c, next)
  BY <1>4, NewlineShape DEF NewlineMove
<1> QED
  BY <1>1, <1>2, <1>3, <1>4 DEF GetMove

-------------------------------------------------------------------------------
(* A request is complete when the newline after its empty line is read, and  *)
(* not before. *)

LEMMA RequestDone ==
  ASSUME NEW w \in Seq(Class), Shape("expecting_newline_3", w)
  PROVE  GetRequest(Append(w, "lf"))
<1> DEFINE z == Append(w, "lf")
           n == Len(w)
<1>0. /\ n \in Nat /\ Len(z) = n + 1 /\ z[n + 1] = "lf" /\ Extends(w, z)
      /\ (\A x \in 1 .. n : z[x] = w[x]) /\ "lf" \in Class
      /\ DOMAIN w = 1 .. n /\ DOMAIN z = 1 .. n + 1
  BY AppendExtends, TextFacts DEF Extends, Class
<1>1. PICK b \in 1 .. n : Body(w, b) /\ AtNewline("expecting_newline_3", w, b)
  BY ShapeKinds DEF FirstStates, LaterStates, NewlineStates
<1>2. b = n /\ n > 1 /\ w[n] = "cr" /\ w[n - 1] = "lf"
  BY <1>1 DEF AtNewline, Body
<1>3. Body(z, n)
  BY <1>0, <1>1, <1>2, BodyAppend
<1> HIDE DEF z
<1>4. n - 2 >= 1
  <2>1. 1 \in Starts(w) /\ 1 < n
    BY <1>0, <1>2 DEF Starts
  <2>2. PICK e \in 1 .. n - 2 : Ends(w, 1, e)
    BY <1>1, <1>2, <2>1 DEF Body
  <2> QED
    BY <1>0, <2>2
<1>5. ASSUME NEW s \in Starts(z)
      PROVE  \E e \in s .. n + 1 : Ends(z, s, e) /\ (GoodLine(z, s, e) \/ (s = e /\ s = (n + 1) - 1))
  <2>1. s \in 1 .. n + 1 /\ (s = 1 \/ z[s - 1] = "lf")
    BY <1>0 DEF Starts
  <2>2. s <= n
    <3>1. z[n] = "cr"
      BY <1>0, <1>2
    <3> QED
      BY <1>0, <1>2, <2>1, <3>1
  <2>3. CASE s < n
    <3>1. PICK e \in s .. n - 2 : Ends(z, s, e) /\ GoodLine(z, s, e)
      BY <1>3, <2>3 DEF Body
    <3>2. e \in s .. n + 1
      BY <1>0, <2>1
    <3> QED
      BY <3>1, <3>2
  <2>4. CASE s = n
    <3>1. Ends(z, n, n)
      BY <1>0, <1>2 DEF Ends, AllIn
    <3>2. n \in n .. n + 1 /\ n = (n + 1) - 1
      BY <1>0
    <3> QED
      BY <2>4, <3>1, <3>2
  <2>5. s < n \/ s = n
    <3> HIDE DEF n
    <3>1. n \in Nat
      BY <1>0
    <3> QED
      BY <2>1, <2>2, <3>1
  <2> QED
    BY <2>3, <2>4, <2>5
<1>6. Paired(z)
  BY <1>3 DEF Body
<1>7. Len(z) > 3 /\ z[Len(z)] = "lf" /\ z[Len(z) - 2] = "lf"
  BY <1>0, <1>2, <1>4
<1>8. GetRequest(z)
  BY <1>0, <1>5, <1>6, <1>7 DEF GetRequest
<1> QED
  BY <1>8 DEF z

LEMMA NotDone ==
  ASSUME NEW state, NEW w \in Seq(Class), Shape(state, w)
  PROVE  ~GetRequest(w)
<1> SUFFICES ASSUME GetRequest(w) PROVE FALSE
  OBVIOUS
<1> DEFINE n == Len(w)
<1>0. n \in Nat /\ n > 3 /\ w[n] = "lf" /\ w[n - 2] = "lf" /\ DOMAIN w = 1 .. n
  BY TextFacts DEF GetRequest
<1>1. ASSUME NEW b \in 1 .. n, AtNewline(state, w, b) PROVE FALSE
  BY <1>0, <1>1, Zenon DEF AtNewline
<1>2. ASSUME NEW b \in 1 .. n + 1, Open(w, b) PROVE FALSE
  <2>1. b = n + 1
    BY <1>0, <1>2 DEF Open, Flat, AllIn
  <2>2. n - 1 \in Starts(w) /\ n - 1 < b
    BY <1>0, <2>1 DEF Starts
  <2>3. PICK e \in n - 1 .. b - 2 : GoodLine(w, n - 1, e)
    BY <1>2, <2>2 DEF Open, Body
  <2>c. b - 2 = n - 1 /\ n - 1 \in Nat \ {0}
    BY <1>0, <2>1
  <2>4. e = n - 1 /\ e \in Nat /\ n - 1 \in Nat \ {0}
    BY <2>3, <2>c
  <2>5. n - 1 < e
    BY <2>3, <2>4, GoodLineFlat
  <2> QED
    BY <1>0, <2>4, <2>5
<1>3. 1 \in 1 .. n + 1 /\ \A b \in 2 .. n + 1 : b \in 1 .. n + 1
  BY <1>0
<1> QED
  BY <1>1, <1>2, <1>3 DEF Shape

(* The line a request goes on with.                                          *)
LEMMA LineOf ==
  ASSUME NEW w, NEW z, Extends(w, z), Len(w) < Len(z), GetRequest(z), NEW b, Open(w, b)
  PROVE  \E e \in Len(w) + 1 .. Len(z) :
           z[e] = "cr" /\ (GoodLine(z, b, e) \/ (b = e /\ b = Len(z) - 1))
<1> DEFINE n == Len(w)
<1>0. /\ n \in Nat /\ Len(z) \in Nat /\ n < Len(z) /\ DOMAIN z = 1 .. Len(z)
      /\ \A x \in 1 .. n : z[x] = w[x]
  BY TextFacts DEF Extends
<1>1. b \in 1 .. n + 1 /\ (b = 1 \/ w[b - 1] = "lf") /\ Flat(w, b, n)
  BY DEF Open, Body
<1>2. b \in Starts(z)
  BY <1>0, <1>1 DEF Starts
<1>3. PICK e \in b .. Len(z) : Ends(z, b, e) /\ (GoodLine(z, b, e) \/ (b = e /\ b = Len(z) - 1))
  BY <1>2 DEF GetRequest
<1>4. z[e] = "cr"
  BY <1>3 DEF Ends
<1>5. e > n
  BY <1>0, <1>1, <1>4 DEF Flat, AllIn
<1>6. e \in n + 1 .. Len(z)
  BY <1>0, <1>1, <1>5
<1> QED
  BY <1>3, <1>4, <1>6

-------------------------------------------------------------------------------
(* What consume() refuses in the first line, no request goes on with. *)

(* There is one place for the second space and one for the dot.              *)
LEMMA PartsUnique ==
  ASSUME NEW w, NEW z, Extends(w, z), NEW e \in Nat, NEW j \in Nat, NEW k \in Nat, Parts(z, e, j, k)
  PROVE  /\ \A i \in 3 .. Len(w) : w[i] = "sp" /\ Uri(w, i - 1) => i = j
         /\ \A i \in j + 3 .. Len(w) : w[i] = "dot" /\ AllIn(w, j + 2, i - 1, {"dig"}) => i = k
<1>0. /\ Len(w) \in Nat /\ (\A x \in 1 .. Len(w) : z[x] = w[x])
      /\ 2 < j /\ j + 2 < k /\ z[j] = "sp" /\ z[k] = "dot"
      /\ AllIn(z, 3, j - 1, Text \ {"sp"}) /\ AllIn(z, j + 2, k - 1, {"dig"})
  BY TextFacts DEF Extends, Parts
<1>1. ASSUME NEW i \in 3 .. Len(w), w[i] = "sp", Uri(w, i - 1) PROVE i = j
  <2>1. AllIn(w, 3, i - 1, Text \ {"sp"}) /\ z[i] = "sp"
    BY <1>0, <1>1 DEF Uri
  <2>2. ~(j < i)
    BY <1>0, <2>1 DEF AllIn
  <2>3. ~(i < j)
    BY <1>0, <2>1 DEF AllIn
  <2> QED
    BY <1>0, <2>2, <2>3
<1>2. ASSUME NEW i \in j + 3 .. Len(w), w[i] = "dot", AllIn(w, j + 2, i - 1, {"dig"}) PROVE i = k
  <2>1. z[i] = "dot"
    BY <1>0, <1>2
  <2>2. ~(k < i)
    BY <1>0, <1>2 DEF AllIn
  <2>3. ~(i < k)
    BY <1>0, <2>1 DEF AllIn
  <2> QED
    BY <1>0, <2>2, <2>3
<1> QED
  BY <1>1, <1>2

LEMMA FirstAllowed ==
  ASSUME NEW state, NEW w, NEW z, Extends(w, z), Len(w) < Len(z), GetRequest(z),
         Open(w, 1), InFirstLine(state, w)
  PROVE  \E next : GetMove(state, z[Len(w) + 1], next)
<1> DEFINE n == Len(w)
           c == z[n + 1]
<1>0. /\ n \in Nat /\ Len(z) \in Nat /\ n < Len(z) /\ Len(z) > 3
      /\ \A x \in 1 .. n : z[x] = w[x]
  BY TextFacts DEF Extends, GetRequest
<1>1. PICK e \in n + 1 .. Len(z) :
        z[e] = "cr" /\ (GoodLine(z, 1, e) \/ (1 = e /\ 1 = Len(z) - 1))
  BY LineOf, Zenon
<1>2. RequestLine(z, e)
  <2>a. \A m \in Nat : m > 3 => 1 # m - 1
    OBVIOUS
  <2>1. 1 # Len(z) - 1
    BY <1>0, <2>a, Zenon
  <2>2. GoodLine(z, 1, e)
    BY <1>1, <2>1
  <2> QED
    BY <2>2 DEF GoodLine
<1>3. PICK j \in 1 .. e, k \in 1 .. e : Parts(z, e, j, k)
  BY <1>2, RequestLineParts
<1>4. e \in Nat /\ n < e /\ j \in Nat /\ k \in Nat
  BY <1>0, <1>1, <1>3
<1>5. /\ 2 < j /\ j + 2 < k /\ k + 1 < e
      /\ z[1] = "GET" /\ z[2] = "sp" /\ z[j] = "sp" /\ z[j + 1] = "V" /\ z[k] = "dot"
      /\ AllIn(z, 3, j - 1, Text \ {"sp"})
      /\ AllIn(z, j + 2, k - 1, {"dig"}) /\ AllIn(z, k + 1, e - 1, {"dig"})
  BY <1>3 DEF Parts
<1>6. /\ \A i \in 3 .. n : w[i] = "sp" /\ Uri(w, i - 1) => i = j
      /\ \A i \in j + 3 .. n : w[i] = "dot" /\ AllIn(w, j + 2, i - 1, {"dig"}) => i = k
  BY <1>3, <1>4, PartsUnique
<1>v. ASSUME NEW i \in 3 .. n, Version(w, i) PROVE i = j
  BY <1>6, <1>v DEF Version
<1>a. CASE state = "method"
  <2>1. n = 1
    BY <1>a DEF InFirstLine
  <2>2. c = "sp"
    BY <1>5, <2>1
  <2> QED
    BY <1>a, <2>2 DEF GetMove, FirstMove
<1>b. CASE state = "uri"
  <2>1. n >= 2 /\ AllIn(w, 3, n, Text \ {"sp"})
    BY <1>b DEF InFirstLine, Uri
  <2>2. ~(j <= n)
    BY <1>0, <1>4, <1>5, <2>1 DEF AllIn
  <2>3. n + 1 = j => c = "sp"
    BY <1>5
  <2>4. n + 1 < j => c \in Text \ {"sp"}
    BY <1>0, <1>4, <1>5, <2>1 DEF AllIn
  <2>5. n + 1 = j \/ n + 1 < j
    BY <1>0, <1>4, <2>2
  <2> QED
    BY <1>b, <2>3, <2>4, <2>5 DEF GetMove, FirstMove
<1>c. CASE state = "http_version_h"
  <2>1. n >= 3 /\ w[n] = "sp" /\ Uri(w, n - 1)
    BY <1>c DEF InFirstLine
  <2>2. n = j
    BY <1>0, <1>6, <2>1
  <2> QED
    BY <1>5, <1>c, <2>2 DEF GetMove, FirstMove
<1>d. CASE state = "http_version_major_start"
  <2>1. n >= 4 /\ Version(w, n - 1)
    BY <1>d DEF InFirstLine
  <2>2. n - 1 = j
    BY <1>0, <1>v, <2>1
  <2>3. n + 1 \in j + 2 .. k - 1
    BY <1>0, <1>4, <1>5, <2>2
  <2>4. c = "dig"
    BY <1>5, <2>3 DEF AllIn
  <2> QED
    BY <1>d, <2>4 DEF GetMove, FirstMove
<1>e. CASE state = "http_version_major"
  <2>1. PICK i \in 3 .. n - 2 : Version(w, i) /\ AllIn(w, i + 2, n, {"dig"})
    BY <1>e DEF InFirstLine
  <2>2. i = j /\ j + 2 <= n
    BY <1>0, <1>v, <2>1
  <2>3. ~(k <= n)
    <3>1. k <= n => k \in j + 2 .. n /\ k \in 1 .. n
      BY <1>0, <1>4, <1>5
    <3> QED
      BY <1>0, <1>5, <2>1, <2>2, <3>1 DEF AllIn
  <2>4. n + 1 = k => c = "dot"
    BY <1>5
  <2>5. n + 1 < k => n + 1 \in j + 2 .. k - 1
    BY <1>0, <1>4, <2>2
  <2>6. n + 1 < k => c = "dig"
    BY <1>5, <2>5 DEF AllIn
  <2>7. n + 1 = k \/ n + 1 < k
    BY <1>0, <1>4, <2>3
  <2> QED
    BY <1>e, <2>4, <2>6, <2>7 DEF GetMove, FirstMove
<1>f. CASE state = "http_version_minor_start"
  <2>1. PICK i \in 3 .. n - 3 : Version(w, i) /\ AllIn(w, i + 2, n - 1, {"dig"}) /\ w[n] = "dot"
    BY <1>f DEF InFirstLine
  <2>2. i = j /\ n \in j + 3 .. n
    BY <1>0, <1>v, <2>1
  <2>3. n = k
    BY <1>6, <2>1, <2>2
  <2>4. n + 1 \in k + 1 .. e - 1
    BY <1>0, <1>4, <1>5, <2>3
  <2>5. c = "dig"
    BY <1>5, <2>4 DEF AllIn
  <2> QED
    BY <1>f, <2>5 DEF GetMove, FirstMove
<1>g. CASE state = "http_version_minor"
  <2>0. RequestLine(w, n + 1)
    BY <1>g DEF InFirstLine
  <2>1. PICK i \in 1 .. n + 1, l \in 1 .. n + 1 : Parts(w, n + 1, i, l)
    BY <2>0, RequestLineParts
  <2>2. /\ 2 < i /\ i + 2 < l /\ l + 1 < n + 1 /\ w[1] = "GET" /\ w[2] = "sp" /\ w[i] = "sp" /\ w[l] = "dot"
        /\ AllIn(w, 3, i - 1, Text \ {"sp"}) /\ AllIn(w, i + 2, l - 1, {"dig"})
    BY <2>1 DEF Parts
  <2>3. i \in 3 .. n /\ l \in i + 3 .. n
    BY <1>0, <2>1, <2>2
  <2>4. i = j
    BY <1>6, <2>2, <2>3 DEF Uri
  <2>5. l = k
    BY <1>6, <2>2, <2>3, <2>4
  <2>6. n + 1 = e => c = "cr"
    BY <1>1
  <2>7. n + 1 < e => n + 1 \in k + 1 .. e - 1
    BY <1>0, <1>4, <2>2, <2>5
  <2>8. n + 1 < e => c = "dig"
    BY <1>5, <2>7 DEF AllIn
  <2>9. n + 1 = e \/ n + 1 < e
    BY <1>0, <1>4
  <2> QED
    BY <1>g, <2>6, <2>8, <2>9 DEF GetMove, FirstMove, EndMove
<1> QED
  BY <1>a, <1>b, <1>c, <1>d, <1>e, <1>f, <1>g DEF InFirstLine

(* Nor in a later line.                                                      *)
Goes(state, w, c) ==
  \/ \E next : GetMove(state, c, next)
  \/ state = "header_line_start" /\ c \in Blank /\ FollowsHeader(w, Len(w) + 1)

LEMMA LaterAllowed ==
  ASSUME NEW state, NEW w, NEW z, Extends(w, z), Len(w) < Len(z), GetRequest(z),
         NEW b \in 2 .. Len(w) + 1, Open(w, b), InLaterLine(state, w, b)
  PROVE  Goes(state, w, z[Len(w) + 1])
<1> DEFINE n == Len(w)
           c == z[n + 1]
<1>0. /\ n \in Nat /\ Len(z) \in Nat /\ n < Len(z) /\ Len(z) > 3
      /\ \A x \in 1 .. n : z[x] = w[x]
  BY TextFacts DEF Extends, GetRequest
<1>1. PICK e \in n + 1 .. Len(z) :
        z[e] = "cr" /\ (GoodLine(z, b, e) \/ (b = e /\ b = Len(z) - 1))
  BY LineOf
<1>2. e \in Nat /\ n < e /\ b \in Nat \ {0} /\ b > 1 /\ b <= n + 1
  BY <1>0, <1>1
<1>3. (n + 1 = e => c = "cr") /\ (n + 1 = e \/ n + 1 < e)
  BY <1>0, <1>1, <1>2
<1>4. b <= n => HeaderLine(z, b, e) \/ ContinuedLine(z, b, e)
  BY <1>0, <1>1, <1>2 DEF GoodLine
<1>5. ASSUME HeaderLine(z, b, e), b <= n, w[b] \in Blank PROVE FALSE
  <2>1. PICK i \in b + 1 .. e - 2 : AllIn(z, b, i - 1, Token)
    BY <1>5 DEF HeaderLine
  <2>2. b \in b .. i - 1 /\ b \in 1 .. n
    BY <1>0, <1>2, <1>5, <2>1
  <2>3. z[b] \in Token /\ z[b] = w[b]
    BY <1>0, <2>1, <2>2 DEF AllIn
  <2> QED
    BY <1>5, <2>3 DEF Token, Blank
<1>6. ASSUME ContinuedLine(z, b, e), b <= n, w[b] \in Token PROVE FALSE
  <2>1. PICK i \in b .. e - 1 : AllIn(z, b, i, Blank)
    BY <1>6 DEF ContinuedLine
  <2>2. b \in b .. i /\ b \in 1 .. n
    BY <1>0, <1>2, <1>6, <2>1
  <2>3. z[b] \in Blank /\ z[b] = w[b]
    BY <1>0, <2>1, <2>2 DEF AllIn
  <2> QED
    BY <1>6, <2>3 DEF Token, Blank
<1>a. CASE state = "header_line_start"
  <2>1. b = n + 1
    BY <1>a DEF InLaterLine
  <2>2. CASE n + 1 = e
    BY <1>3, <1>a, <2>2 DEF Goes, GetMove, EndMove
  <2>3. CASE HeaderLine(z, b, e)
    <3>1. PICK i \in b + 1 .. e - 2 : AllIn(z, b, i - 1, Token)
      BY <2>3 DEF HeaderLine
    <3>2. b \in b .. i - 1
      BY <1>2, <3>1
    <3>3. c \in Token
      BY <2>1, <3>1, <3>2 DEF AllIn
    <3> QED
      BY <1>a, <3>3 DEF Goes, GetMove, LaterMove
  <2>4. CASE ContinuedLine(z, b, e) /\ FollowsHeader(z, b)
    <3>1. PICK i \in b .. e - 1 : AllIn(z, b, i, Blank)
      BY <2>4 DEF ContinuedLine
    <3>2. b \in b .. i
      BY <1>2, <3>1
    <3>3. c \in Blank
      BY <2>1, <3>1, <3>2 DEF AllIn
    <3>4. FollowsHeader(w, b)
      BY <1>0, <1>2, <2>4 DEF FollowsHeader
    <3> QED
      BY <1>a, <2>1, <3>3, <3>4 DEF Goes
  <2> QED
    BY <1>1, <1>2, <2>1, <2>2, <2>3, <2>4 DEF GoodLine
<1>b. CASE state = "header_name"
  <2>1. b <= n /\ AllIn(w, b, n, Token)
    BY <1>b DEF InLaterLine
  <2>2. w[b] \in Token
    BY <1>0, <1>2, <2>1 DEF AllIn
  <2>3. PICK i \in b + 1 .. e - 2 : AllIn(z, b, i - 1, Token) /\ z[i] = "colon"
    BY <1>4, <1>6, <2>1, <2>2 DEF HeaderLine
  <2>4. ~(i <= n)
    <3>1. i <= n => i \in b .. n /\ i \in 1 .. n
      BY <1>0, <1>2, <2>3
    <3> QED
      BY <1>0, <2>1, <2>3, <3>1 DEF AllIn, Token
  <2>5. n + 1 = i \/ n + 1 \in b .. i - 1
    BY <1>0, <1>2, <2>1, <2>3, <2>4
  <2>6. c = "colon" \/ c \in Token
    BY <2>3, <2>5 DEF AllIn
  <2> QED
    BY <1>b, <2>6 DEF Goes, GetMove, LaterMove
<1>c. CASE state = "space_before_header_value"
  <2>1. b < n /\ AllIn(w, b, n - 1, Token) /\ w[n] = "colon"
    BY <1>c DEF InLaterLine
  <2>2. w[b] \in Token /\ b <= n
    BY <1>0, <1>2, <2>1 DEF AllIn
  <2>3. PICK i \in b + 1 .. e - 2 : AllIn(z, b, i - 1, Token) /\ z[i] = "colon" /\ z[i + 1] = "sp"
    BY <1>4, <1>6, <2>2 DEF HeaderLine
  <2>4. ~(i < n)
    <3>1. i < n => i \in b .. n - 1 /\ i \in 1 .. n
      BY <1>0, <1>2, <2>3
    <3> QED
      BY <1>0, <2>1, <2>3, <3>1 DEF AllIn, Token
  <2>5. ~(n < i)
    <3>1. n < i => n \in b .. i - 1 /\ n \in 1 .. n
      BY <1>0, <1>2, <2>1, <2>3
    <3> QED
      BY <1>0, <2>1, <2>3, <3>1 DEF AllIn, Token
  <2>6. n = i
    BY <1>0, <1>2, <2>3, <2>4, <2>5
  <2>7. c = "sp"
    BY <2>3, <2>6
  <2> QED
    BY <1>c, <2>7 DEF Goes, GetMove, LaterMove
<1>d. CASE state = "header_value"
  <2>1. b <= n /\ ~AllIn(w, b, n, Blank)
    BY <1>d DEF InLaterLine
  <2>2. ASSUME n + 1 < e PROVE c \in Text
    <3>1. CASE HeaderLine(z, b, e)
      <4>1. PICK i \in b + 1 .. e - 2 :
              /\ AllIn(z, b, i - 1, Token) /\ z[i] = "colon" /\ z[i + 1] = "sp"
              /\ AllIn(z, i + 2, e - 1, Text)
        BY <3>1 DEF HeaderLine
      <4>2. \/ n + 1 \in b .. i - 1 \/ n + 1 = i \/ n + 1 = i + 1 \/ n + 1 \in i + 2 .. e - 1
        <5>1. n \in Nat /\ b \in Nat /\ e \in Nat /\ i \in b + 1 .. e - 2 /\ b <= n /\ n + 1 < e
          BY <1>0, <1>2, <2>1, <2>2, <4>1
        <5> HIDE DEF n
        <5> QED
          BY <5>1
      <4>3. c \in Token \/ c = "colon" \/ c = "sp" \/ c \in Text
        BY <4>1, <4>2 DEF AllIn
      <4> QED
        BY <4>3 DEF Text, Token, Ctl, Class
    <3>2. CASE ContinuedLine(z, b, e)
      <4>1. PICK i \in b .. e - 1 : AllIn(z, b, i, Blank) /\ AllIn(z, i + 1, e - 1, Text)
        BY <3>2 DEF ContinuedLine
      <4>2. ~(n <= i)
        BY <1>0, <1>2, <2>1, <4>1 DEF AllIn
      <4>3. n + 1 \in i + 1 .. e - 1
        BY <1>0, <1>2, <2>2, <4>1, <4>2
      <4> QED
        BY <4>1, <4>3 DEF AllIn
    <3> QED
      BY <1>4, <2>1, <3>1, <3>2
  <2> QED
    BY <1>3, <1>d, <2>2 DEF Goes, GetMove, LaterMove, EndMove
<1>e. CASE state = "header_lws"
  <2>1. b <= n /\ AllIn(w, b, n, Blank)
    BY <1>e DEF InLaterLine
  <2>2. w[b] \in Blank
    BY <1>0, <1>2, <2>1 DEF AllIn
  <2>3. PICK i \in b .. e - 1 : AllIn(z, b, i, Blank) /\ AllIn(z, i + 1, e - 1, Text)
    BY <1>4, <1>5, <2>1, <2>2 DEF ContinuedLine
  <2>4. n + 1 < e => n + 1 \in b .. i \/ n + 1 \in i + 1 .. e - 1
    BY <1>0, <1>2, <2>1, <2>3
  <2>5. n + 1 < e => c \in Blank \/ c \in Text \ Blank
    BY <2>3, <2>4 DEF AllIn
  <2> QED
    BY <1>3, <1>e, <2>5 DEF Goes, GetMove, LaterMove, EndMove
<1> QED
  BY <1>a, <1>b, <1>c, <1>d, <1>e DEF InLaterLine

(* A request that begins with the text goes on as consume() expects.         *)
LEMMA NextAllowed ==
  ASSUME NEW state, NEW w \in Seq(Class), NEW z, Extends(w, z), Len(w) < Len(z), GetRequest(z),
         Shape(state, w)
  PROVE  Goes(state, w, z[Len(w) + 1]) \/ (state = "expecting_newline_3" /\ z[Len(w) + 1] = "lf")
<1>1. CASE Open(w, 1) /\ InFirstLine(state, w)
  BY <1>1, FirstAllowed DEF Goes
<1>2. ASSUME NEW b \in 2 .. Len(w) + 1, Open(w, b), InLaterLine(state, w, b)
      PROVE  Goes(state, w, z[Len(w) + 1])
  BY <1>2, LaterAllowed
<1>3. ASSUME NEW b \in 1 .. Len(w), AtNewline(state, w, b)
      PROVE  Goes(state, w, z[Len(w) + 1]) \/ (state = "expecting_newline_3" /\ z[Len(w) + 1] = "lf")
  <2>1. w[Len(w)] = "cr" /\ Len(w) \in Nat /\ Len(w) > 0 /\ z[Len(w)] = w[Len(w)]
        /\ Len(w) + 1 \in DOMAIN z /\ (Len(w) + 1) - 1 = Len(w)
    <3>1. Len(w) \in Nat /\ Len(z) \in Nat /\ DOMAIN z = 1 .. Len(z)
          /\ \A x \in 1 .. Len(w) : z[x] = w[x]
      BY TextFacts DEF Extends
    <3>2. w[Len(w)] = "cr"
      BY <1>3 DEF AtNewline
    <3> QED
      BY <1>3, <3>1, <3>2
  <2>2. z[Len(w) + 1] = "lf"
    <3>1. Paired(z)
      BY DEF GetRequest
    <3>2. z[Len(w) + 1] = "lf" <=> Len(w) + 1 > 1 /\ z[(Len(w) + 1) - 1] = "cr"
      BY <2>1, <3>1 DEF Paired
    <3>3. Len(w) + 1 > 1
      BY <2>1
    <3> QED
      BY <2>1, <3>2, <3>3
  <2>3. state \in NewlineStates
    BY <1>3 DEF AtNewline, NewlineStates
  <2> QED
    BY <2>2, <2>3 DEF NewlineStates, Goes, GetMove, NewlineMove
<1> QED
  BY <1>1, <1>2, <1>3 DEF Shape
================================================================================
