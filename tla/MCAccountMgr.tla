----------------------------- MODULE MCAccountMgr -----------------------------
(* AccountMgr instantiated for TLC, with a plain text, a quote (written ')   *)
(* and a quote with a blank behind it.  tighten drops that blank, unless an  *)
(* odd number of quotes came before and it reads the two as inside a string. *)
EXTENDS AccountMgr

MCText == {"xy", "'", "' "}
MCOddQuotes == {"'", "' "}
MCTighten == [t \in MCText |-> IF t = "' " THEN "'" ELSE t]
MCTightenLate == [t \in MCText |-> t]
===============================================================================
