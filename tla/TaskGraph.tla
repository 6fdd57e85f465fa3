------------------------------ MODULE TaskGraph ------------------------------
(***************************************************************************)
(* What the execution of a planned graph promises the user who looks at    *)
(* it: tasks are done in the order of their dependencies, the failure of   *)
(* one blocks at once exactly what was waiting on it, and the graph is     *)
(* handed over for its checks only when nothing is left to do. Waves,      *)
(* agents, the journal, replay, checks and repair are below this view.     *)
(***************************************************************************)
CONSTANTS Nodes, Deps

VARIABLES
  phase,  \* "idle", "running" or "over": no attempt, one at work, one at its checks
  status  \* what the user sees of each task

vars == <<phase, status>>

With(s) == {n \in Nodes : status[n] = s}
Startable == {n \in With("pending") : Deps[n] \subseteq With("completed")}

Start ==
  /\ phase = "idle" /\ phase' = "running"
  /\ status' = [n \in Nodes |-> "pending"]

\* Tasks are done: one by an agent, or several at once from the journal.
Complete(S) ==
  /\ phase = "running"
  /\ status' = [n \in Nodes |-> IF n \in S THEN "completed" ELSE status[n]]
  /\ UNCHANGED phase

\* S are the tasks that wait for n: each of them for n or for another of S, and
\* no pending task outside does.
Waiting(S, n) == \A m \in With("pending") \ {n} : m \in S <=> Deps[m] \cap (S \cup {n}) # {}

\* A task fails, and what waits for it is blocked in the same step.
Fail(n, S) ==
  /\ phase = "running"
  /\ Waiting(S, n)
  /\ status' = [m \in Nodes |-> IF m = n THEN "failed"
                                ELSE IF m \in S THEN "cancelled" ELSE status[m]]
  /\ UNCHANGED phase

Finish ==
  /\ phase = "running" /\ phase' = "over"
  /\ With("pending") = {}
  /\ UNCHANGED status

\* The attempt ends, returns early or dies; only then may what was seen go.
Leave ==
  /\ phase # "idle" /\ phase' = "idle"
  /\ status' \in {status, [n \in Nodes |-> "pending"]}

Init == phase = "idle" /\ status = [n \in Nodes |-> "pending"]

Next ==
  \/ Start \/ Finish \/ Leave
  \/ \E S \in SUBSET Startable : Complete(S)
  \/ \E n \in Startable : \E S \in SUBSET (With("pending") \ {n}) : Fail(n, S)

Spec == Init /\ [][Next]_vars
=============================================================================
