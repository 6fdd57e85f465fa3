------------------------- MODULE MCRequestOverrides -------------------------
(* Small instances of RequestOverrides. *)
EXTENDS RequestOverrides, TLC

CONSTANTS A, B, C

\* Requests differ in nothing but their names.
Symmetry == Permutations(Requests)
=============================================================================
