------------------------------ MODULE ChatTurns ------------------------------
(***************************************************************************)
(* Chat turns and the plan approval gate: the chat handler of              *)
(* surfaces/server/chat_handler.go, Kernel.Execute                         *)
(* (kernel/orchestrator/kernel_execute.go) and plan_gate.go. A turn is one *)
(* HTTP request. Turns overlap, and all of them share the pending plan, the*)
(* last executed plan and the project documents held by the kernel.        *)
(*                                                                         *)
(* Plans are numbered in the order they are made. What a plan says, what a *)
(* turn answers and which gaps its work has are arbitrary. A cancelled turn*)
(* is one whose steps fail; the slot of the stop button is left out.       *)
(***************************************************************************)
EXTENDS Naturals

CONSTANTS
  NumTurns,    \* bound of the model: turns
  Late,        \* bound of the model: turns that may begin beside another
  MaxPlans,    \* bound of the model: plans made
  MaxPasses,   \* maxCompletePasses: corrective passes of a turn (2)
  Policies,    \* values of cfg.PlanApproval: "always", "auto", "never"
  Projects,
  WithContext, \* projects whose context.md is not empty
  None         \* no project

ASSUME BoundsAssumption ==
  NumTurns \in Nat /\ Late \subseteq 1..NumTurns /\ MaxPlans \in Nat /\ MaxPasses \in Nat
ASSUME PoliciesAssumption == Policies \subseteq {"always", "auto", "never"}
ASSUME ProjectsAssumption == WithContext \subseteq Projects /\ None \notin Projects

Turns == 1..NumTurns
Plans == 1..MaxPlans

VARIABLES
  policy,     \* cfg.PlanApproval
  pending,    \* k.pendingPlan, and whether it is still actionable
  lastRun,    \* k.lastRunPlan, 0 when there is none
  guidance,   \* the project whose documents the kernel holds
  made,       \* plans made
  pc, mode, project, \* where a turn is, what kind it is, and in which project
  said,       \* the user's reply to a plan, once it matters
  hand,       \* the plan the turn decides on or runs
  pass,       \* corrective passes begun
  ticked,     \* the turn marked a workflow task done
  saved,      \* the graph.json the turn wrote in its project, 0 for none
  first,      \* history: how the turn's own Execute ended
  offered,    \* history: the plan that was pending when the user wrote, until Execute ends
  rejected,   \* history: plans the user rejected, as long as they can come back
  ranBy,      \* history: the turns that executed a plan, likewise
  home,       \* history: the projects it was executed in, None if it was left over
  overlapped  \* history: turns that ran beside another, as long as it matters

turnVars == <<mode, project, overlapped>>
vars == <<policy, pending, lastRun, guidance, made, saved, turnVars, pc, said, hand, pass,
          ticked, first, offered, rejected, ranBy, home>>

Live == {t \in Turns : pc[t] \notin {"new", "done"}}
NoPlan == [plan |-> 0, fresh |-> TRUE]
GoTo(t, where) == pc' = [pc EXCEPT ![t] = where]

-----------------------------------------------------------------------------
(* The handler until Execute *)

\* A request arrives: a question becomes a read-only turn, a build a loop, the
\* rest a plain turn. The kernel is given the documents of its project.
Begin(t) ==
  /\ pc[t] = "new" /\ \A u \in 1..(t - 1) : pc[u] # "new"
  /\ t \in Late \/ Live = {}
  /\ \E d \in {"readonly", "loop", "plain"}, p \in Projects \cup {None} :
       /\ mode' = [mode EXCEPT ![t] = d]
       /\ project' = [project EXCEPT ![t] = p]
       /\ guidance' = IF p = None THEN guidance ELSE p
  /\ GoTo(t, "execute")
  /\ offered' = [offered EXCEPT ![t] = pending.plan]
  /\ overlapped' = IF Live = {} THEN overlapped ELSE overlapped \cup Live \cup {t}
  /\ UNCHANGED <<policy, pending, lastRun, made, saved, said, hand, pass, ticked, first,
                 rejected, ranBy, home>>

-----------------------------------------------------------------------------
(* Kernel.Execute *)

\* Execute returns, with a proposal or another answer.
Return(t, what) ==
  /\ GoTo(t, "returned")
  /\ offered' = [offered EXCEPT ![t] = 0]
  /\ first' = IF pass[t] = 0 THEN [first EXCEPT ![t] = what] ELSE first

\* Execute fails: that ends the turn, or its corrective passes.
Fail(t) ==
  /\ GoTo(t, IF pass[t] = 0 THEN "leave" ELSE "finish")
  /\ offered' = [offered EXCEPT ![t] = 0]
  /\ first' = IF pass[t] = 0 THEN [first EXCEPT ![t] = "failed"] ELSE first

\* The cost governor refuses the request.
Refused(t) ==
  /\ pc[t] = "execute"
  /\ Fail(t)
  /\ UNCHANGED <<policy, pending, lastRun, guidance, made, saved, turnVars, said, hand, pass,
                 ticked, rejected, ranBy, home>>

\* classifyPlanDecision: only a short message is a decision. A corrective goal
\* is long, and so is a message behind its project's context.
Heard(t, reply) == IF pass[t] > 0 \/ project[t] \in WithContext THEN "revise" ELSE reply

\* handlePendingPlan takes the plan under the lock and classifies the message.
TakePending(t) ==
  /\ pc[t] = "execute" /\ mode[t] # "readonly"
  /\ pending # NoPlan /\ pending.fresh
  /\ hand' = [hand EXCEPT ![t] = pending.plan]
  /\ \E reply \in {"approve", "reject", "revise"} :
       said' = [said EXCEPT ![t] = reply] /\ GoTo(t, Heard(t, reply))
  /\ UNCHANGED <<policy, pending, lastRun, guidance, made, saved, turnVars, pass, ticked, first, offered,
                 rejected, ranBy, home>>

\* There is no plan to decide on; an expired one goes away.
NoPending(t) ==
  /\ pc[t] = "execute"
  /\ \/ (mode[t] = "readonly" \/ pending = NoPlan) /\ UNCHANGED pending
     \/ mode[t] # "readonly" /\ ~pending.fresh /\ pending' = NoPlan
  /\ GoTo(t, "route")
  /\ UNCHANGED <<policy, lastRun, guidance, made, saved, turnVars, said, hand, pass, ticked,
                 first, offered, rejected, ranBy, home>>

\* What a decision leaves pending, whatever is pending by then. Seeded fault:
\* the plan stays.
StaysPending == pending
Withdrawn == NoPlan

Approve(t) ==
  /\ pc[t] = "approve"
  /\ pending' = Withdrawn
  /\ GoTo(t, "run")
  /\ UNCHANGED <<policy, lastRun, guidance, made, saved, turnVars, said, hand, pass, ticked,
                 first, offered, rejected, ranBy, home>>

Reject(t) ==
  /\ pc[t] = "reject"
  /\ pending' = Withdrawn
  /\ rejected' = rejected \cup {hand[t]}
  /\ said' = [said EXCEPT ![t] = "nothing"] /\ hand' = [hand EXCEPT ![t] = 0]
  /\ Return(t, "answer")
  /\ UNCHANGED <<policy, lastRun, guidance, made, saved, turnVars, pass, ticked, ranBy, home>>

\* A plan is put before the user, in place of whatever is pending by then.
Propose(t) ==
  /\ made < MaxPlans
  /\ made' = made + 1
  /\ pending' = [plan |-> made + 1, fresh |-> TRUE]
  /\ Return(t, "proposal")

\* Feedback: the model revises the plan, or fails to and the proposal stands.
Revise(t) ==
  /\ pc[t] = "revise"
  /\ \/ Propose(t)
     \/ Return(t, "answer") /\ UNCHANGED <<made, pending>>
  /\ said' = [said EXCEPT ![t] = "nothing"] /\ hand' = [hand EXCEPT ![t] = 0]
  /\ UNCHANGED <<policy, lastRun, guidance, saved, turnVars, pass, ticked, rejected, ranBy, home>>

\* An answer without a plan: from the cascade (not in a loop), a clarification,
\* a read-only answer, a loop on its own, a trivial task, or the direct
\* execution that stands in for a plan that could not be made.
Answer(t) ==
  /\ pc[t] = "route"
  /\ Return(t, "answer") \/ Fail(t)
  /\ UNCHANGED <<policy, pending, lastRun, guidance, made, saved, turnVars, said, hand, pass,
                 ticked, rejected, ranBy, home>>

\* planApprovalRequired, and the trivial task under "always". Seeded fault: a
\* light plan is never gated.
DeepPlansOnly(deep) == policy # "never" /\ deep
ApprovalRequired(deep) == policy = "always" \/ (policy = "auto" /\ deep)

ProposePlan(t) ==
  /\ pc[t] = "route" /\ mode[t] = "plain"
  /\ \E deep \in BOOLEAN : ApprovalRequired(deep)
  /\ Propose(t)
  /\ UNCHANGED <<policy, lastRun, guidance, saved, turnVars, said, hand, pass, ticked, rejected,
                 ranBy, home>>

\* A plan that needs no approval, or the plan a loop is bound to.
StartPlan(t) ==
  /\ pc[t] = "route" /\ mode[t] # "readonly"
  /\ mode[t] = "plain" => \E deep \in BOOLEAN : ~ApprovalRequired(deep)
  /\ made < MaxPlans
  /\ made' = made + 1
  /\ hand' = [hand EXCEPT ![t] = made + 1]
  /\ GoTo(t, IF mode[t] = "loop" THEN "loop" ELSE "run")
  /\ UNCHANGED <<policy, pending, lastRun, guidance, saved, turnVars, said, pass, ticked, first, offered,
                 rejected, ranBy, home>>

\* executePlannedGraph keeps the graph also when it fails, the planned loop
\* only when it does not.
PlanEnds(t) ==
  /\ pc[t] \in {"run", "loop"}
  /\ \/ Return(t, "answer") /\ lastRun' = hand[t]
     \/ Fail(t) /\ lastRun' = IF pc[t] = "run" THEN hand[t] ELSE lastRun
  /\ ranBy' = [ranBy EXCEPT ![hand[t]] = @ \cup {t}]
  /\ home' = [home EXCEPT ![hand[t]] = @ \cup {IF pc'[t] = "leave" THEN None ELSE project[t]}]
  /\ said' = [said EXCEPT ![t] = "nothing"] /\ hand' = [hand EXCEPT ![t] = 0]
  /\ UNCHANGED <<policy, pending, guidance, made, saved, turnVars, pass, ticked, rejected>>

-----------------------------------------------------------------------------
(* The handler after Execute *)

\* PlanAwaitingApproval. Seeded fault: nobody asks.
NotAsked == FALSE
Awaiting == pending # NoPlan /\ pending.fresh

\* Only a turn that may write and left no proposal is checked for gaps; after a
\* corrective pass nobody looks for a proposal again.
AfterExecute(t) ==
  /\ pc[t] = "returned"
  /\ GoTo(t, IF pass[t] = 0 /\ (mode[t] = "readonly" \/ Awaiting) THEN "conclude" ELSE "complete")
  /\ UNCHANGED <<policy, pending, lastRun, guidance, made, saved, turnVars, said, hand, pass,
                 ticked, first, offered, rejected, ranBy, home>>

\* completeBuild.
PassLeft(t) == pass[t] < MaxPasses

\* Something the message asks for is not there: a corrective Execute.
Correct(t) ==
  /\ pc[t] = "complete" /\ PassLeft(t)
  /\ pass' = [pass EXCEPT ![t] = @ + 1]
  /\ GoTo(t, "execute")
  /\ UNCHANGED <<policy, pending, lastRun, guidance, made, saved, turnVars, said, hand, ticked,
                 first, offered, rejected, ranBy, home>>

\* ConsumeApprovedPlan. Seeded fault: it leaves the plan.
KeepLastRun == lastRun
Consumed == 0

\* The last executed plan is saved in the turn's project.
SaveGraph(t) ==
  \/ project[t] # None /\ lastRun # 0 /\ saved' = [saved EXCEPT ![t] = lastRun] /\ lastRun' = Consumed
  \/ (project[t] = None \/ lastRun = 0) /\ UNCHANGED <<saved, lastRun>>

\* Nothing is missing, or a pass failed or was the last one. The workflow task
\* of the turn is marked done if what it was to produce is there.
Finish(t) ==
  /\ pc[t] \in {"complete", "finish"}
  /\ ticked' \in {ticked, [ticked EXCEPT ![t] = project[t] # None]}
  /\ SaveGraph(t)
  /\ GoTo(t, "leave")
  /\ UNCHANGED <<policy, pending, guidance, made, turnVars, said, hand, pass, first, offered, rejected,
                 ranBy, home>>

\* A proposal or a read-only turn: there is nothing to complete.
Conclude(t) ==
  /\ pc[t] = "conclude"
  /\ SaveGraph(t)
  /\ GoTo(t, "leave")
  /\ UNCHANGED <<policy, pending, guidance, made, turnVars, said, hand, pass, ticked, first, offered,
                 rejected, ranBy, home>>

\* The deferred ClearProjectContext.
ClearedGuidance == None

\* The turn ends, and with it what was local to it. History is kept of the
\* plans that can still be executed or saved.
Leave(t) ==
  LET kept == {pending.plan, lastRun} \cup {hand[u] : u \in Turns}
                \cup {saved[u] : u \in Turns \ {t}}
  IN
  /\ pc[t] = "leave"
  /\ guidance' = IF project[t] = None THEN guidance ELSE ClearedGuidance
  /\ GoTo(t, "done")
  /\ mode' = [mode EXCEPT ![t] = "plain"] /\ project' = [project EXCEPT ![t] = None]
  /\ pass' = [pass EXCEPT ![t] = 0] /\ ticked' = [ticked EXCEPT ![t] = FALSE]
  /\ first' = [first EXCEPT ![t] = "none"] /\ saved' = [saved EXCEPT ![t] = 0]
  /\ ranBy' = [g \in Plans |-> IF g \in kept THEN ranBy[g] ELSE {}]
  /\ home' = [g \in Plans |-> IF g \in kept THEN home[g] ELSE {}]
  /\ rejected' = rejected \cap kept
  /\ overlapped' = {u \in overlapped : u \in Live \ {t} \/ \E g \in Plans : u \in ranBy'[g]}
  /\ UNCHANGED <<policy, pending, lastRun, made, offered, said, hand>>

\* Half an hour passes over the pending plan - not between a proposal and the
\* look at it that follows at once.
Expire ==
  /\ pending # NoPlan /\ pending.fresh
  /\ \A t \in Turns : pc[t] # "returned"
  /\ pending' = [pending EXCEPT !.fresh = FALSE]
  /\ UNCHANGED <<policy, lastRun, guidance, made, saved, turnVars, pc, said, hand, pass, ticked,
                 first, offered, rejected, ranBy, home>>

-----------------------------------------------------------------------------
Init ==
  /\ policy \in Policies
  /\ pending = NoPlan /\ lastRun = 0 /\ guidance = None /\ made = 0
  /\ pc = [t \in Turns |-> "new"] /\ mode = [t \in Turns |-> "plain"]
  /\ project = [t \in Turns |-> None] /\ said = [t \in Turns |-> "nothing"]
  /\ hand = [t \in Turns |-> 0] /\ pass = hand /\ offered = hand /\ saved = hand
  /\ ticked = [t \in Turns |-> FALSE] /\ first = [t \in Turns |-> "none"]
  /\ rejected = {} /\ overlapped = {}
  /\ ranBy = [g \in Plans |-> {}] /\ home = ranBy

Gate(t) == TakePending(t) \/ NoPending(t) \/ Approve(t) \/ Reject(t) \/ Revise(t)
Work(t) == Refused(t) \/ Answer(t) \/ ProposePlan(t) \/ StartPlan(t) \/ PlanEnds(t)
Handler(t) == AfterExecute(t) \/ Correct(t) \/ Finish(t) \/ Conclude(t) \/ Leave(t)
TurnStep(t) == Gate(t) \/ Work(t) \/ Handler(t)

Next ==
  \/ \E t \in Turns : Begin(t) \/ TurnStep(t)
  \/ Expire

Spec == Init /\ [][Next]_vars

-----------------------------------------------------------------------------
(* Properties *)

Places == {"new", "execute", "approve", "reject", "revise", "route", "run", "loop", "returned",
           "complete", "finish", "conclude", "leave", "done"}

TypeOK ==
  /\ policy \in Policies
  /\ pending \in [plan : 0..MaxPlans, fresh : BOOLEAN] /\ (pending.plan = 0 => pending.fresh)
  /\ lastRun \in 0..MaxPlans /\ made \in 0..MaxPlans
  /\ guidance \in Projects \cup {None} /\ saved \in [Turns -> 0..MaxPlans]
  /\ pc \in [Turns -> Places] /\ mode \in [Turns -> {"readonly", "loop", "plain"}]
  /\ project \in [Turns -> Projects \cup {None}]
  /\ said \in [Turns -> {"nothing", "approve", "reject", "revise"}]
  /\ hand \in [Turns -> 0..MaxPlans] /\ pass \in [Turns -> 0..MaxPasses]
  /\ \A t \in Turns : hand[t] # 0 <=> pc[t] \in {"approve", "reject", "revise", "run", "loop"}
  /\ ticked \in [Turns -> BOOLEAN]
  /\ first \in [Turns -> {"none", "failed", "proposal", "answer"}]
  /\ offered \in [Turns -> 0..MaxPlans] /\ rejected \subseteq Plans
  /\ ranBy \in [Plans -> SUBSET Turns] /\ overlapped \subseteq Turns
  /\ home \in [Plans -> SUBSET (Projects \cup {None})]

\* Under plan_approval "always" a planned graph runs only on the user's own
\* approval, never on a text of the program - a corrective goal - and, unless
\* turns overlapped, it is the plan that was pending when the user wrote it
\* (kernel_execute.go:479 "always means always").
ApprovedAsOffered ==
  \A t \in Turns :
    policy = "always" /\ pc[t] = "run" =>
      /\ said[t] = "approve" /\ pass[t] = 0
      /\ t \notin overlapped => hand[t] = offered[t]

\* A decision is final: a plan is executed once, and never after it was
\* rejected - unless the turns overlapped, when replies to one plan can all
\* have taken it before the first of them was carried out (plan_gate.go:211).
DecisionsAreFinal ==
  \A g \in Plans :
    \A t \in ranBy[g] \ overlapped : ranBy[g] = {t} /\ g \notin rejected

\* A turn whose answer is a proposal is neither continued by the program nor
\* does it mark a task done (chat_handler.go:310), unless another turn decided
\* on the proposal before this one looked.
ProposalTurnsDoNotBuild ==
  \A t \in Live \ overlapped : first[t] = "proposal" => pass[t] = 0 /\ ~ticked[t]

\* A turn that runs alone works with the documents of its own project, and with
\* none if it has none: whatever ends a turn takes its documents away
\* (kernel_execute.go:41).
GuidanceIsOwn == \A t \in Live \ overlapped : guidance = project[t]

\* The graph saved in a project was executed by a turn of that project; only a
\* turn without a project, a turn that failed after it had run its plan, or
\* overlapping turns can leave a graph to another project.
SavedGraphIsOwn ==
  \A t \in Turns : saved[t] # 0 =>
    home[saved[t]] \cap {project[t], None} # {} \/ ranBy[saved[t]] \cap overlapped # {}
=============================================================================
