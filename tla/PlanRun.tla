------------------------------- MODULE PlanRun -------------------------------
(***************************************************************************)
(* The execution of a planned task graph by the kernel:                    *)
(* kernel/orchestrator/dag_executor.go (executePlannedGraph, executeDAG),  *)
(* execlog.go (the run journal that makes a run resumable), repair.go and  *)
(* contract.go (acceptance checks, repair rounds, auto-rollback), and the  *)
(* runtime DAG of kernel/dag/dag.go.                                       *)
(*                                                                         *)
(* One goal is attempted up to MaxAttempts times. An attempt can be        *)
(* cancelled by the user at any point and the process can die at any       *)
(* point; the next attempt at the goal finds the journal the previous one  *)
(* left. Task outputs, prompts and model answers are abstracted: what is   *)
(* kept of a task is its status, whether its output is on disk in the      *)
(* journal and whether its edits are in the workspace.                     *)
(***************************************************************************)
EXTENDS Naturals, FiniteSets

CONSTANTS
  Nodes,           \* the tasks of the plan graph
  Deps,            \* Deps[n]: the tasks whose output n needs
  Checkable,       \* tasks with a machine-checkable acceptance command
  HasArtifacts,    \* some task promises files, checked for existence
  MaxRepairRounds, \* maxRepairRounds (2 in the code)
  MaxAttempts      \* bound of the model: attempts at the goal

\* plan.Graph.Validate: a plan has finitely many tasks, dependencies are tasks of the graph and Waves() finds
\* no cycle, i.e. every non-empty set of tasks has one that needs none of it.
ASSUME DepsAssumption ==
  /\ Deps \in [Nodes -> SUBSET Nodes]
  /\ \A S \in SUBSET Nodes : S # {} => \E n \in S : Deps[n] \cap S = {}
ASSUME NodesAssumption == IsFiniteSet(Nodes)
ASSUME CheckableAssumption == Checkable \subseteq Nodes /\ HasArtifacts \in BOOLEAN
ASSUME BoundsAssumption == MaxRepairRounds \in Nat /\ MaxAttempts \in Nat

VARIABLES
  pc,         \* where the attempt is
  status,     \* d.nodes[n].Status: the runtime DAG
  processed,  \* executeDAG's processed map
  file,       \* the journal on disk: what loadPrevious would make of it
  memDone,    \* journal.done: what the previous attempts completed
  journal,    \* history: whether this attempt has a journal, and read all of it
  wave,       \* tasks dispatched by ExecuteAll and not yet recorded
  reply,      \* what the agent of each dispatched task returned
  results,    \* tasks with an entry in allResults
  cancelled,  \* ctx.Err() # nil
  graph,      \* the plan graph's node statuses, synced from the DAG
  verdict,    \* the last verifyContract
  round,      \* repair runs made so far
  tree,       \* tasks whose edits are in the workspace
  pre,        \* the pre-execution checkpoint
  reverted,   \* the auto-rollback happened
  outcome,    \* what recordOutcome was told of this attempt
  attempts    \* attempts started

vars == <<pc, status, processed, file, memDone, journal, wave, reply, results,
          cancelled, graph, verdict, round, tree, pre, reverted, outcome, attempts>>

\* Fields of one attempt that no step after executeDAG reads again.
execVars == <<status, processed, file, memDone, journal, wave, reply, results>>
\* Fields only the acceptance phase touches.
checkVars == <<graph, verdict, round, pre, reverted, outcome>>

Statuses == {"pending", "completed", "failed", "cancelled"}

Fresh == [n \in Nodes |-> "pending"]
NoReply == [n \in Nodes |-> "none"]
EmptyFile == [done |-> {}, finished |-> FALSE]
FinishedFile == [done |-> {}, finished |-> TRUE]
NoCheckpoint == [ok |-> FALSE, tree |-> {}]
Unchecked == [failing |-> {}, missing |-> FALSE]

Completed == {n \in Nodes : status[n] = "completed"}
Failed == {n \in Nodes : status[n] = "failed"}

\* The transitive dependents of n: the least set that contains n's direct
\* dependents and is closed under taking dependents (CancelDescendants' walk
\* over d.edges).
Descendants == [n \in Nodes |->
  {m \in Nodes : \A S \in SUBSET Nodes :
     (\A x \in Nodes : Deps[x] \cap (S \cup {n}) # {} => x \in S) => m \in S}]

\* CancelDescendants(n) cancels what is still pending downstream of n. Seeded
\* fault: it cancels whatever is pending.
BlockAnyPending(n) == {m \in Nodes \ (wave \cup {n}) : status[m] = "pending"}
Blocked(n) == {m \in Descendants[n] : status[m] = "pending"}

\* GetReadyTasks: pending, all dependencies completed, not processed.
Ready == {n \in Nodes \ processed : status[n] = "pending" /\ Deps[n] \subseteq Completed}

\* Was anything checkable, and did all of it hold (loop.Verdict).
AnyChecked == Checkable # {} \/ HasArtifacts
Passed == verdict.failing = {} /\ ~verdict.missing

-----------------------------------------------------------------------------
(* Starting an attempt *)

\* NewExecJournal reads the goal's journal. One that says run_finished is
\* deleted, or left where it is if that fails: then nothing of it is ever
\* replayed. A file that cannot be opened, or read to its end, gives some of
\* what it holds or nothing, and the attempt appends to it all the same.
\* Without its directory there is no journal: nothing is read or written.
OpenJournal ==
  \/ /\ journal' = "read" /\ memDone' = file.done
     /\ file' \in {file, IF file.finished THEN EmptyFile ELSE file}
  \/ /\ journal' = "cut" /\ memDone' \in SUBSET file.done
     /\ UNCHANGED file
  \/ /\ journal' = "nil" /\ memDone' = {}
     /\ UNCHANGED file

\* executePlannedGraph up to the loop of executeDAG: a checkpoint of the
\* workspace (which may fail: then there is no auto-rollback), then the
\* journal of the goal.
BeginAttempt ==
  /\ pc = "idle"
  /\ attempts < MaxAttempts
  /\ attempts' = attempts + 1
  /\ pre' \in {NoCheckpoint, [ok |-> TRUE, tree |-> tree]}
  /\ OpenJournal
  /\ status' = Fresh /\ graph' = Fresh /\ reply' = NoReply
  /\ processed' = {} /\ wave' = {} /\ results' = {}
  /\ cancelled' = FALSE /\ reverted' = FALSE /\ outcome' = "none"
  /\ verdict' = Unchecked /\ round' = 0
  /\ pc' = "pick"
  /\ UNCHANGED tree

-----------------------------------------------------------------------------
(* The loop of executeDAG *)

\* Seeded fault: the journal is written but never consulted.
ReplaysNothing == {}
Replayable == Ready \cap memDone

\* Ready tasks the journal already has are marked completed without running;
\* the others of the wave go to ExecuteAll. A wave that was replayed whole
\* goes straight back to the head of the loop.
PickWave ==
  /\ pc = "pick"
  /\ Ready # {}
  /\ status' = [n \in Nodes |-> IF n \in Replayable THEN "completed" ELSE status[n]]
  /\ processed' = processed \cup Replayable
  /\ results' = results \cup Replayable
  /\ wave' = Ready \ Replayable
  /\ reply' = NoReply
  /\ pc' = IF Ready \subseteq Replayable THEN "pick" ELSE "wave"
  /\ UNCHANGED <<file, memDone, journal, cancelled, tree, attempts, checkVars>>

\* Nothing is ready: either every task was processed, or the loop gives up
\* with "DAG deadlock: unresolvable dependencies".
LeaveLoop ==
  /\ pc = "pick"
  /\ Ready = {}
  /\ pc' = IF processed = Nodes THEN "finish" ELSE "partial"
  /\ UNCHANGED <<execVars, cancelled, tree, attempts, checkVars>>

\* One agent of the wave returns. A successful one has made its edits; one
\* that failed may have made some of them before it did.
AgentReturns(n) ==
  /\ pc = "wave"
  /\ n \in wave /\ reply[n] = "none"
  /\ \/ reply' = [reply EXCEPT ![n] = "ok"] /\ tree' = tree \cup {n}
     \/ reply' = [reply EXCEPT ![n] = "fail"] /\ tree' \in {tree, tree \cup {n}}
  /\ UNCHANGED <<pc, status, processed, file, memDone, journal, wave, results,
                 cancelled, attempts, checkVars>>

\* Seeded fault: only the successful agents are waited for and counted.
AllSucceeded == \A n \in wave : reply[n] = "ok"
AllReturned == \A n \in wave : reply[n] # "none"

\* ExecuteAll returns once every agent did. A context cancelled by then makes
\* the loop return with what earlier waves recorded; this wave is dropped.
WaveEnds ==
  /\ pc = "wave"
  /\ AllReturned
  /\ pc' = IF cancelled THEN "partial" ELSE "record"
  /\ UNCHANGED <<execVars, cancelled, tree, attempts, checkVars>>

\* The result of every task is kept, a failed one's too.
Collect(n) == results \cup {n}

\* What the journal is worth after one more event: a finished one stays so,
\* and a nil journal writes nothing.
Appended(done) ==
  IF file.finished \/ journal = "nil" THEN file ELSE [file EXCEPT !.done = done]

\* Record the outcome of one task of the wave: the status, the journal event
\* (a best-effort append, which a full disk loses), and for a failure the
\* cancellation of everything downstream of the task.
RecordResult(n) ==
  LET blocked == Blocked(n)
      last == wave = {n}
  IN
  /\ pc = "record"
  /\ n \in wave
  /\ results' = Collect(n)
  /\ wave' = wave \ {n}
  /\ \/ /\ reply[n] = "ok"
        /\ status' = [status EXCEPT ![n] = "completed"]
        /\ processed' = processed \cup {n}
        /\ file' \in {file, Appended(file.done \cup {n})}
     \/ /\ reply[n] = "fail"
        /\ status' = [m \in Nodes |-> IF m = n THEN "failed"
                                      ELSE IF m \in blocked THEN "cancelled"
                                      ELSE status[m]]
        /\ processed' = processed \cup {n} \cup blocked
        /\ file' \in {file, Appended(file.done \ {n})}
  /\ pc' = IF last THEN "pick" ELSE "record"
  /\ UNCHANGED <<memDone, journal, reply, cancelled, tree, attempts, checkVars>>

-----------------------------------------------------------------------------
(* The end of executeDAG: ExecJournal.Finish, a write and then a removal *)

FinishAppend ==
  /\ pc = "finish"
  /\ file' \in IF journal = "nil" THEN {file} ELSE {file, FinishedFile}
  /\ pc' = "remove"
  /\ UNCHANGED <<status, processed, memDone, journal, wave, reply, results,
                 cancelled, tree, attempts, checkVars>>

\* Seeded fault: the journal is marked finished and left where it is.
FinishKeepsFile ==
  /\ pc = "remove"
  /\ memDone' = {}
  /\ pc' = "merge"
  /\ UNCHANGED <<file, status, processed, journal, wave, reply, results, cancelled,
                 tree, attempts, checkVars>>

\* The removal may fail where the mark was written. That both fail is left
\* out: each of the two is there because the other may.
FinishRemove ==
  /\ pc = "remove"
  /\ file' \in IF journal = "nil" THEN {file}
               ELSE {EmptyFile, IF file.finished THEN file ELSE EmptyFile}
  /\ memDone' = {}
  /\ pc' = "merge"
  /\ UNCHANGED <<status, processed, journal, wave, reply, results, cancelled, tree,
                 attempts, checkVars>>

-----------------------------------------------------------------------------
(* executePlannedGraph after executeDAG *)

\* The error path: nothing completed means an error; otherwise the completed
\* results are merged and the attempt is recorded as a failure.
ReturnPartial ==
  /\ pc = "partial"
  /\ graph' = status
  /\ outcome' = IF results = {} THEN "error" ELSE "failure"
  /\ pc' = "idle"
  /\ UNCHANGED <<execVars, cancelled, verdict, round, tree, pre, reverted, attempts>>

\* The graph takes the DAG's statuses and the results are merged. mergeResults
\* fails only without results, and here every task was run, replayed or
\* blocked by one that ran.
Merge ==
  /\ pc = "merge"
  /\ graph' = status
  /\ pc' = "verify"
  /\ UNCHANGED <<execVars, cancelled, verdict, round, tree, pre, reverted, outcome,
                 attempts>>

\* verifyContract: run every acceptance command, stat every artifact. A
\* command run under a cancelled context does not succeed.
VerifyContract ==
  /\ pc = "verify"
  /\ \E failing \in SUBSET Checkable, missing \in BOOLEAN :
       /\ cancelled => failing = Checkable
       /\ missing => HasArtifacts
       /\ verdict' = [failing |-> failing, missing |-> missing]
  /\ pc' = "repair"
  /\ UNCHANGED <<execVars, cancelled, graph, round, tree, pre, reverted, outcome,
                 attempts>>

NeedsRepair == AnyChecked /\ ~Passed

RepairBudgetLeft == round < MaxRepairRounds

\* One round of the repair loop: the ReAct loop runs on the evidence and the
\* contract is verified again.
RepairRound ==
  /\ pc = "repair"
  /\ NeedsRepair
  /\ RepairBudgetLeft
  /\ ~cancelled
  /\ round' = round + 1
  /\ pc' = "verify"
  /\ UNCHANGED <<execVars, cancelled, graph, verdict, tree, pre, reverted, outcome,
                 attempts>>

\* The repair loop ends: nothing to repair, the rounds are used up, the
\* context is cancelled, or the loop is missing or returned an error.
RepairEnds ==
  /\ pc = "repair"
  /\ pc' = IF NeedsRepair THEN "settle" ELSE "outcome"
  /\ UNCHANGED <<execVars, cancelled, graph, verdict, round, tree, pre, reverted,
                 outcome, attempts>>

\* A task with a failing proof is not complete. Seeded fault: the agents'
\* word is taken for it.
StatusAsReported == graph
StatusByEvidence == [n \in Nodes |->
  IF n \in verdict.failing /\ graph[n] = "completed" THEN "failed" ELSE graph[n]]

\* Acceptance still fails: tasks with a failing proof are marked failed in the
\* graph and the workspace is rolled back to the pre-run checkpoint, if there
\* is one. A rollback that fails may have undone some of the edits.
Settle ==
  /\ pc = "settle"
  /\ graph' = StatusByEvidence
  /\ \/ pre.ok /\ tree' = pre.tree /\ reverted' = TRUE
     \/ pre.ok /\ \E kept \in SUBSET tree : tree' = pre.tree \cup kept /\ UNCHANGED reverted
     \/ ~pre.ok /\ UNCHANGED <<tree, reverted>>
  /\ pc' = "outcome"
  /\ UNCHANGED <<execVars, cancelled, verdict, round, pre, outcome, attempts>>

\* recordOutcome(..., len(d.FailedNodes()) == 0, ...): the statuses of the
\* runtime DAG decide, not those of the graph.
RecordOutcome ==
  /\ pc = "outcome"
  /\ outcome' = IF Failed = {} THEN "success" ELSE "failure"
  /\ pc' = "idle"
  /\ UNCHANGED <<execVars, cancelled, graph, verdict, round, tree, pre, reverted,
                 attempts>>

-----------------------------------------------------------------------------
(* The environment *)

\* The user cancels the request: its context is done from here on.
Cancel ==
  /\ pc \notin {"idle", "down"}
  /\ ~cancelled
  /\ cancelled' = TRUE
  /\ UNCHANGED <<pc, execVars, tree, attempts, checkVars>>

\* The process dies. The journal and the workspace survive; an agent that was
\* running may have left edits behind.
Crash ==
  /\ pc \notin {"idle", "down"}
  /\ pc' = "down"
  /\ status' = Fresh /\ graph' = Fresh /\ reply' = NoReply
  /\ processed' = {} /\ memDone' = {} /\ journal' = "nil" /\ wave' = {} /\ results' = {}
  /\ cancelled' = FALSE /\ reverted' = FALSE /\ outcome' = "none"
  /\ verdict' = Unchecked /\ round' = 0 /\ pre' = NoCheckpoint
  /\ \E partly \in SUBSET {n \in wave : reply[n] = "none"} : tree' = tree \cup partly
  /\ UNCHANGED <<file, attempts>>

Restart ==
  /\ pc = "down"
  /\ pc' = "idle"
  /\ UNCHANGED <<execVars, cancelled, tree, attempts, checkVars>>

-----------------------------------------------------------------------------
\* Nothing was attempted yet and no journal of the goal is on disk.
Init ==
  /\ pc = "idle"
  /\ status = Fresh /\ graph = Fresh /\ reply = NoReply
  /\ processed = {} /\ memDone = {} /\ journal = "nil" /\ wave = {} /\ results = {}
  /\ file = EmptyFile
  /\ cancelled = FALSE /\ reverted = FALSE /\ outcome = "none"
  /\ verdict = Unchecked /\ round = 0 /\ pre = NoCheckpoint
  /\ tree = {} /\ attempts = 0

\* The steps the attempt's own goroutines take.
Executor ==
  \/ PickWave \/ LeaveLoop \/ WaveEnds
  \/ \E n \in Nodes : AgentReturns(n) \/ RecordResult(n)
  \/ FinishAppend \/ FinishRemove \/ ReturnPartial \/ Merge
  \/ VerifyContract \/ RepairRound \/ RepairEnds \/ Settle \/ RecordOutcome

Next == BeginAttempt \/ Executor \/ Cancel \/ Crash \/ Restart

Spec == Init /\ [][Next]_vars

\* The goroutines of an attempt are never starved, and every agent and check
\* runs under a deadline. Nothing is assumed of the user or of crashes.
FairSpec == Spec /\ WF_vars(Executor)

-----------------------------------------------------------------------------
(* Properties *)

\* Every variable stays within its type; an attempt makes at most
\* MaxRepairRounds repair runs and the model at most MaxAttempts attempts.
TypeOK ==
  /\ pc \in {"idle", "down", "pick", "wave", "record", "finish", "remove", "partial",
             "merge", "verify", "repair", "settle", "outcome"}
  /\ status \in [Nodes -> Statuses] /\ graph \in [Nodes -> Statuses]
  /\ processed \subseteq Nodes /\ memDone \subseteq Nodes
  /\ journal \in {"nil", "cut", "read"}
  /\ wave \subseteq Nodes /\ results \subseteq Nodes /\ tree \subseteq Nodes
  /\ file \in [done : SUBSET Nodes, finished : BOOLEAN]
  /\ reply \in [Nodes -> {"none", "ok", "fail"}]
  /\ pre \in [ok : BOOLEAN, tree : SUBSET Nodes]
  /\ verdict \in [failing : SUBSET Checkable, missing : BOOLEAN]
  /\ cancelled \in BOOLEAN /\ reverted \in BOOLEAN
  /\ round \in 0..MaxRepairRounds
  /\ outcome \in {"none", "success", "failure", "error"}
  /\ attempts \in 0..MaxAttempts

\* A task counts as done only when everything it depends on is done, also when
\* some of it was replayed from a previous attempt's journal.
CompletedAfterDeps == \A n \in Completed : Deps[n] \subseteq Completed

\* The loop never gives up with "DAG deadlock": when nothing is ready, every
\* task has been run, replayed or blocked. Cancelling the descendants of each
\* failure (dag.go:253) is what this depends on.
NoDagDeadlock == pc = "pick" /\ Ready = {} => processed = Nodes

\* When the loop is over, exactly the tasks downstream of a failure are
\* cancelled and every other task completed or failed: a failure blocks
\* nothing it should not, and nothing that depends on it slips through.
BlockedByFailureOnly ==
  pc \in {"finish", "remove", "merge"} =>
    \A n \in Nodes :
      /\ status[n] # "pending"
      /\ status[n] = "cancelled" <=> \E f \in Failed : n \in Descendants[f]

\* The results handed to the merge are those of the tasks that ran or were
\* replayed, no more and no fewer: in the partial answer of a cancelled run
\* (dag_executor.go:51) as in a full one.
ResultsMatchStatuses ==
  pc \notin {"idle", "down", "record"} => results = Completed \cup Failed

\* What the journal offers for replay is in the workspace: no order of task
\* edits, journal writes, crashes, cancellations and auto-rollbacks makes a
\* resumed run skip a task whose edits are gone.
JournalledWorkIsOnDisk == file.done \subseteq tree

\* A task the journal has as completed is never paid for again: an attempt
\* that could read the journal dispatches no task to an agent while the
\* journal holds it (execlog.go:7), also when earlier attempts could not read
\* it and did work of their own.
NoTaskPaidTwice ==
  [][journal = "read" => \A n \in file.done : n \notin wave' \ wave]_vars

\* A green tick is not contradicted by the evidence: once an attempt is
\* recorded, no task the graph shows as completed has a failing proof
\* (repair.go:95).
GreenTickHasNoFailingProof ==
  outcome \in {"success", "failure"} =>
    \A n \in verdict.failing : graph[n] # "completed"

\* Every attempt comes to an end: it returns to the caller or the process died.
\* Neither replay, nor blocked tasks, nor repair can keep it going for ever.
AttemptEnds == pc = "pick" ~> pc \in {"idle", "down"}

\* The tasks no agent was given yet, those no agent answered for, and those
\* without a final status.
Undispatched == Nodes \ (processed \cup wave)
Unanswered == {n \in Nodes \ processed : ~(n \in wave /\ reply[n] # "none")}
Unprocessed == Nodes \ processed

\* A task can still cost a wave of its own, an answer and a record.
TasksLeft == 2 * Cardinality(Undispatched) + Cardinality(Unanswered) + Cardinality(Unprocessed)

\* Each repair round is followed by one more verification.
RoundsLeft == 2 * (MaxRepairRounds - round)

\* How many steps the attempt can still take by itself: what AttemptEnds
\* rests on beside fairness. No journal, failure or repair adds to it.
StepsLeft ==
  CASE pc \in {"idle", "down"} -> 0
    [] pc \in {"partial", "outcome"} -> 1
    [] pc = "settle" -> 2
    [] pc = "repair" -> RoundsLeft + 3
    [] pc = "verify" -> RoundsLeft + 4
    [] pc = "merge" -> 2 * MaxRepairRounds + 5
    [] pc = "remove" -> 2 * MaxRepairRounds + 6
    [] pc = "finish" -> 2 * MaxRepairRounds + 7
    [] pc \in {"pick", "record"} -> 2 * MaxRepairRounds + 8 + TasksLeft
    [] pc = "wave" -> 2 * MaxRepairRounds + 9 + TasksLeft

\* Every step of the attempt uses up one of those left, also when a wave was
\* replayed whole and the loop of executeDAG goes straight back to its head
\* (dag_executor.go:152); only a new attempt adds any.
EveryStepIsPaidFor ==
  [][/\ Executor => StepsLeft' < StepsLeft
     /\ ~BeginAttempt => StepsLeft' <= StepsLeft]_vars

\* repair.go:107 "Repair rounds are exhausted and the graph is still provably
\* broken": the workspace is reverted only after every repair round was used.
RevertOnlyAfterRepairExhausted == reverted => round = MaxRepairRounds

\* dag_executor.go:71 a run with unfinished work "must not read as a clean
\* success", and repair.go:95 statuses "must reflect the evidence, not the
\* sub-agent's opinion": a run recorded as a success passed its checks.
SuccessWasVerified == outcome = "success" => Passed

=============================================================================
