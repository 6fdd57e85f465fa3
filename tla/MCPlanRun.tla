----------------------------- MODULE MCPlanRun -----------------------------
(* Small instances of PlanRun: a chain of three tasks beside a lone one. *)
EXTENDS PlanRunRefinement, TLC

CONSTANTS T1, T2, T3, T4

MCNodes == {T1, T2, T3, T4}

\* T1 <- T2 <- T3, and T4 on its own: a wave of two, a failure with a direct
\* and an indirect dependent, and a task a failure must not block.
MCDeps == T1 :> {} @@ T2 :> {T1} @@ T3 :> {T2} @@ T4 :> {}

=============================================================================
