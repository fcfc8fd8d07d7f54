---------------------------- MODULE RequestParser -----------------------------
(***************************************************************************)
(* The parser of the gate's HTTP requests (GateServer/request_parser.cpp): *)
(* consume() over classes of characters, and the requests it is meant to   *)
(* accept.  "GET" stands for these three characters and "V" for HTTP/ ,    *)
(* whose states follow one another; a character of another kind at their   *)
(* place is rejected by the first of them that sees it.                    *)
(***************************************************************************)
EXTENDS Integers, Sequences

Class == {"GET", "tok", "dig", "dot", "colon", "special", "V", "sp", "tab", "cr", "lf"}

(* is_ctl, and what is neither that nor is_tspecial.                         *)
Ctl == {"tab", "cr", "lf"}
Token == {"GET", "tok", "dig", "dot"}
Text == Class \ Ctl
Blank == {"sp", "tab"}

(* The steps of consume() that do not depend on the request so far: state,   *)
(* character, next state.                                                    *)
Step ==
  {<<"method_start", c, "method">> : c \in Token}
    \cup {<<"method", c, "method">> : c \in Token}
    \cup {<<"method", "sp", "uri">>}
    \cup {<<"uri", c, "uri">> : c \in Text \ {"sp"}}
    \cup {<<"uri", "sp", "http_version_h">>,
          <<"http_version_h", "V", "http_version_major_start">>,
          <<"http_version_major_start", "dig", "http_version_major">>,
          <<"http_version_major", "dig", "http_version_major">>,
          <<"http_version_major", "dot", "http_version_minor_start">>,
          <<"http_version_minor_start", "dig", "http_version_minor">>,
          <<"http_version_minor", "dig", "http_version_minor">>,
          <<"http_version_minor", "cr", "expecting_newline_1">>,
          <<"expecting_newline_1", "lf", "header_line_start">>,
          <<"header_line_start", "cr", "expecting_newline_3">>}
    \cup {<<"header_line_start", c, "header_name">> : c \in Token}
    \cup {<<"header_name", c, "header_name">> : c \in Token}
    \cup {<<"header_name", "colon", "space_before_header_value">>,
          <<"space_before_header_value", "sp", "header_value">>,
          <<"header_value", "cr", "expecting_newline_2">>,
          <<"expecting_newline_2", "lf", "header_line_start">>}
    \cup {<<"header_value", c, "header_value">> : c \in Text}
    \cup {<<"header_lws", c, "header_lws">> : c \in Blank}
    \cup {<<"header_lws", c, "header_value">> : c \in Text \ Blank}
    \cup {<<"header_lws", "cr", "expecting_newline_2">>}

(* The parser and the parts of the request it looks at: whether the method   *)
(* is GET, whether there is a header, and the length of the content.         *)
Start == [state |-> "method_start", get |-> FALSE, headers |-> FALSE, content |-> 0]

After(p, c, next) ==
  [p EXCEPT !.state = next,
            !.get = IF p.state = "method_start" THEN c = "GET"
                    ELSE @ /\ next # "method",
            !.headers = @ \/ next = "header_name"]

Verdict(p, result) == [parser |-> p, result |-> result]

(* A continued line that needs no header before it. *)
ContinuesAnything(p, c) == p.state = "header_line_start" /\ c \in Blank

(* A line that goes on with the header before it.                            *)
Continues(p, c) == p.state = "header_line_start" /\ p.headers /\ c \in Blank

(* consume: the parser after one more character and the result, "more" for   *)
(* indeterminate.  len is what get_content_length leaves in cont_len, added  *)
(* what append(&input) adds to the content: the character, and what follows  *)
(* it in memory up to a zero.                                                *)
Consume(p, c, len, added) ==
  CASE p.state = "expecting_newline_3" /\ p.get ->
         Verdict(p, IF c = "lf" THEN "true" ELSE "false")
    [] p.state = "expecting_newline_3" /\ ~p.get ->
         Verdict([p EXCEPT !.state = "http_post_content"], "more")
    [] p.state = "http_post_content" /\ p.content < len ->
         Verdict([p EXCEPT !.content = @ + added],
                 IF p.content + added = len THEN "true" ELSE "more")
    [] p.state = "http_post_content" /\ p.content >= len ->
         Verdict(p, IF c = "lf" THEN "true" ELSE "false")
    [] Continues(p, c) ->
         Verdict([p EXCEPT !.state = "header_lws"], "more")
    [] \E s \in Step : s[1] = p.state /\ s[2] = c ->
         Verdict(After(p, c, (CHOOSE s \in Step : s[1] = p.state /\ s[2] = c)[3]), "more")
    [] OTHER -> Verdict(p, "false")

-------------------------------------------------------------------------------
(* What consume() is compared with: the form of a request, stated on the     *)
(* whole text and line by line.  A line begins at b and has its carriage     *)
(* return at e.  The uri may be empty.                                       *)
AllIn(w, a, b, S) == \A x \in a .. b : w[x] \in S

RequestLine(w, e) ==
  \E j, k \in 1 .. e :
    /\ 2 < j /\ j + 2 < k /\ k + 1 < e
    /\ w[1] = "GET" /\ w[2] = "sp" /\ w[j] = "sp" /\ w[j + 1] = "V" /\ w[k] = "dot"
    /\ AllIn(w, 3, j - 1, Text \ {"sp"})
    /\ AllIn(w, j + 2, k - 1, {"dig"}) /\ AllIn(w, k + 1, e - 1, {"dig"})

HeaderLine(w, b, e) ==
  \E i \in b + 1 .. e - 2 :
    /\ AllIn(w, b, i - 1, Token)
    /\ w[i] = "colon" /\ w[i + 1] = "sp"
    /\ AllIn(w, i + 2, e - 1, Text)

ContinuedLine(w, b, e) ==
  \E i \in b .. e - 1 : AllIn(w, b, i, Blank) /\ AllIn(w, i + 1, e - 1, Text)

(* The line at b is not one of the first two.                                *)
FollowsHeader(w, b) == \E x \in 1 .. b - 2 : w[x] = "lf"

GoodLine(w, b, e) ==
  \/ b = 1 /\ RequestLine(w, e)
  \/ b > 1 /\ HeaderLine(w, b, e)
  \/ b > 1 /\ ContinuedLine(w, b, e) /\ FollowsHeader(w, b)

Starts(w) == {b \in DOMAIN w : b = 1 \/ w[b - 1] = "lf"}

(* The first carriage return of the line.                                    *)
Ends(w, b, e) == w[e] = "cr" /\ AllIn(w, b, e - 1, Class \ {"cr"})

(* A newline comes after each carriage return, and nowhere else.             *)
Paired(w) == \A x \in DOMAIN w : w[x] = "lf" <=> x > 1 /\ w[x - 1] = "cr"

(* The text of a GET request; its last line is empty.                        *)
GetRequest(w) ==
  LET n == Len(w) IN
  /\ n > 3 /\ w[n] = "lf" /\ w[n - 2] = "lf"
  /\ Paired(w)
  /\ \A b \in Starts(w) : \E e \in b .. n :
       Ends(w, b, e) /\ (GoodLine(w, b, e) \/ (b = e /\ b = n - 1))

(* A request every part of which can be completed by a tail of this one.     *)
Sample == <<"GET", "sp", "sp", "V", "dig", "dot", "dig", "cr", "lf",
            "tok", "colon", "sp", "cr", "lf", "cr", "lf">>

(* More characters can make a GET request of the text.                       *)
Viable(w) ==
  \E i \in DOMAIN Sample : GetRequest(w \o SubSeq(Sample, i, Len(Sample)))
===============================================================================
