------------------------------- MODULE MCFraming -------------------------------
(***************************************************************************)
(* Framing with a header of two bytes and a buffer of six: frames of every *)
(* length up to one that serialize refuses.                                *)
(***************************************************************************)
EXTENDS Framing

MCFrame == 0 .. 4
MCContentLength == [f \in MCFrame |-> f]
===============================================================================
