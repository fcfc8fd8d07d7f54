----------------------------- MODULE MCGateServer -----------------------------
(* GateServer instantiated for TLC. *)
EXTENDS GateServer
===============================================================================
