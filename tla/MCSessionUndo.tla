---------------------------- MODULE MCSessionUndo ----------------------------
(* A small instance of SessionUndo. *)
EXTENDS SessionUndo
=============================================================================
