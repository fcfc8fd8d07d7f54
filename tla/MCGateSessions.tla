---------------------------- MODULE MCGateSessions ----------------------------
(* GateSessions instantiated for TLC. *)
EXTENDS GateSessions
===============================================================================
