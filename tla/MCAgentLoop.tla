---------------------------- MODULE MCAgentLoop ----------------------------
(* A small instance of AgentLoop: two calls of one tool with different        *)
(* arguments, which share its breaker but not the count of repeated failures. *)
EXTENDS AgentLoop, TLC

CONSTANTS EditA, EditB, Edit, Client

MCToolOf == EditA :> Edit @@ EditB :> Edit

=============================================================================
