---------------------------- MODULE MCTcpConnection ----------------------------
(***************************************************************************)
(* TcpConnection for processes with one thread (the account and game       *)
(* servers) and with two (the gate).                                       *)
(***************************************************************************)
EXTENDS TcpConnection

CONSTANTS t1, t2, f1, f2, f3

MCThread == {t1, t2}
MCFrame == {f1, f2, f3}
===============================================================================
