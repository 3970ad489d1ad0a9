------------------------------ MODULE MCBuffer ------------------------------
(* Instance of Buffer for TLC: the vector starts with two positions and    *)
(* grows to at most five, so that appends with and without reallocation,   *)
(* after partial, exact and excessive retrieves, all occur.                *)
EXTENDS Buffer
=============================================================================
