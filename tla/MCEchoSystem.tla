---------------------------- MODULE MCEchoSystem ----------------------------
(* EchoSystem for TLC; the constants are in the configurations. *)
EXTENDS EchoSystem
=============================================================================
