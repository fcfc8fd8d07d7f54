------------------------------ MODULE MCTcpClient -----------------------------
(* TcpClient instantiated for TLC. *)
EXTENDS TcpClient
===============================================================================
