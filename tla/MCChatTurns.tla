----------------------------- MODULE MCChatTurns -----------------------------
(* A small instance of ChatTurns: one project with context notes, one without. *)
EXTENDS ChatTurns

CONSTANTS Noted, Bare

=============================================================================
