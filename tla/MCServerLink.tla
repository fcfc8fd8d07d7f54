----------------------------- MODULE MCServerLink -----------------------------
(***************************************************************************)
(* Both links of the gate, to servers that let three connections wait.     *)
(***************************************************************************)
EXTENDS ServerLink

CONSTANTS account, game

MCServer == {account, game}
===============================================================================
