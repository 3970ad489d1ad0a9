----------------------------- MODULE MCReactor -----------------------------
(* Reactor for TLC; the constants are in the configurations. *)
EXTENDS Reactor, TLC

(* Clients are interchangeable for the safety properties. *)
Symmetry == Permutations(Clients)
=============================================================================
