-------------------------- MODULE PlanRunRefinement --------------------------
(***************************************************************************)
(* PlanRun implements TaskGraph. The statuses are the same; an attempt is  *)
(* at work until executeDAG leaves its loop with everything processed.     *)
(***************************************************************************)
EXTENDS PlanRun

Phase ==
  IF pc \in {"idle", "down"} THEN "idle"
  ELSE IF pc \in {"pick", "wave", "record", "partial"} THEN "running"
  ELSE "over"

Abstract == INSTANCE TaskGraph WITH phase <- Phase

\* Whatever the interleaving of agents, journal replay, cancellation and
\* crashes, the user sees tasks done in the order of their dependencies, each
\* failure blocking what waits for it and nothing else in one step, and no
\* status moving again before the attempt is left (dag.go:253).
ImplementsTaskGraph == Abstract!Spec
=============================================================================
