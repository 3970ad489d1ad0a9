-------------------------- MODULE MCTcpConnection --------------------------
(* TcpConnection for TLC; the constants are in the configurations. *)
EXTENDS TcpConnection
=============================================================================
