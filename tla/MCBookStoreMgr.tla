---------------------------- MODULE MCBookStoreMgr ----------------------------
(* BookStoreMgr instantiated for TLC: a short number, and a long one that is *)
(* cut to another.                                                           *)
EXTENDS BookStoreMgr

MCBookNo == {"short", "long", "cut"}
MCTrunc == [b \in MCBookNo |-> IF b = "long" THEN "cut" ELSE b]
MCNum == {-1, 1}
===============================================================================
