----------------------------- MODULE MCGameServer -----------------------------
(* GameServer instantiated for TLC, with a plain nickname, a quote (written  *)
(* ') and a quote with a blank behind it, which tighten drops.               *)
EXTENDS GameServer

MCNick == {"xy", "'", "' "}
MCTighten == [n \in MCNick |-> IF n = "' " THEN "'" ELSE n]
===============================================================================
