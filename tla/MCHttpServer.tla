----------------------------- MODULE MCHttpServer -----------------------------
(* HttpServer instantiated for TLC: the first client sends a GET request,    *)
(* with a header and a continued line, or one that differs from it by one    *)
(* character put in, left out or replaced, or a POST request; the others     *)
(* send nothing.                                                             *)
EXTENDS HttpServer, SequencesExt

CONSTANTS c1, c2, c3

MCConn == {c1, c2, c3}

Whole == <<"GET", "sp", "sp", "V", "dig", "dot", "dig", "cr", "lf",
           "tok", "colon", "sp", "cr", "lf", "sp", "tok", "cr", "lf", "cr", "lf">>

Variants ==
  {Whole} \cup {RemoveAt(Whole, i) : i \in DOMAIN Whole}
    \cup {InsertAt(Whole, i, c) : i \in DOMAIN Whole, c \in Class}
    \cup {ReplaceAt(Whole, i, c) : i \in DOMAIN Whole, c \in Class}

Post == <<"tok", "sp", "sp", "V", "dig", "dot", "dig", "cr", "lf", "cr", "lf", "tok", "tok", "lf">>

Beginnings(w) == {SubSeq(w, 1, n) : n \in 0 .. Len(w)}

Begun == UNION {Beginnings(w) : w \in Variants \cup {Post}}

MCSends == (c1 :> Begun) @@ (c2 :> {<<>>}) @@ (c3 :> {<<>>})
===============================================================================
