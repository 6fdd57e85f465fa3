---------------------------- MODULE MCMemoryStore ----------------------------
(* An instance of MemoryStore: one key, two texts. *)
EXTENDS MemoryStore

CONSTANTS J1, J2, A, B, Key1, Key2
=============================================================================
