----------------------------- MODULE MCStartup -----------------------------
(* Startup for TLC; the constants are in the configurations. *)
EXTENDS Startup
=============================================================================
