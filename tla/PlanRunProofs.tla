---------------------------- MODULE PlanRunProofs ----------------------------
(***************************************************************************)
(* Proofs about PlanRun, for any acyclic task graph and any number of      *)
(* attempts, cancellations and crashes.                                    *)
(***************************************************************************)
EXTENDS PlanRunRefinement, FiniteSetTheorems, TLAPS

\* S contains n's dependents and the dependents of its own members.
ClosedBelow(S, n) == \A x \in Nodes : Deps[x] \cap (S \cup {n}) # {} => x \in S

LEMMA DescendantsClosed ==
  ASSUME NEW n \in Nodes, NEW x \in Nodes, NEW d \in Deps[x],
         d = n \/ d \in Descendants[n]
  PROVE  x \in Descendants[n]
<1> SUFFICES ASSUME NEW S \in SUBSET Nodes, ClosedBelow(S, n)
             PROVE  x \in S
  BY DEF Descendants, ClosedBelow
<1>1. d = n \/ d \in S
  BY DEF Descendants, ClosedBelow
<1> QED BY <1>1 DEF ClosedBelow

LEMMA DescendantsLeast ==
  ASSUME NEW n \in Nodes, NEW S \in SUBSET Nodes, ClosedBelow(S, n)
  PROVE  Descendants[n] \subseteq S
BY DEF Descendants, ClosedBelow

-----------------------------------------------------------------------------
(* Type correctness *)

Files == [done : SUBSET Nodes, finished : BOOLEAN]

LEMMA StartValues ==
  /\ Fresh \in [Nodes -> Statuses] /\ NoReply \in [Nodes -> {"none", "ok", "fail"}]
  /\ EmptyFile \in Files /\ FinishedFile \in Files
  /\ NoCheckpoint \in [ok : BOOLEAN, tree : SUBSET Nodes]
  /\ Unchecked \in [failing : SUBSET Checkable, missing : BOOLEAN]
  /\ 0 \in 0..MaxRepairRounds /\ 0 \in 0..MaxAttempts
BY BoundsAssumption
DEF Fresh, NoReply, EmptyFile, FinishedFile, Files, NoCheckpoint, Unchecked, Statuses

LEMMA InitType == Init => TypeOK
BY StartValues DEF Init, TypeOK, Files

LEMMA NextType == TypeOK /\ [Next]_vars => TypeOK'
<1> SUFFICES ASSUME TypeOK, [Next]_vars
             PROVE  TypeOK'
  OBVIOUS
<1> USE DEF TypeOK, Statuses
<1>1. CASE BeginAttempt
  <2>1. attempts' \in 0..MaxAttempts
    BY <1>1, BoundsAssumption DEF BeginAttempt
  <2>2. file' \in Files /\ memDone' \subseteq Nodes
    BY <1>1, StartValues DEF BeginAttempt, OpenJournal, Files
  <2>3. pre' \in [ok : BOOLEAN, tree : SUBSET Nodes]
    <3>1. [ok |-> TRUE, tree |-> tree] \in [ok : BOOLEAN, tree : SUBSET Nodes]
      OBVIOUS
    <3> QED BY <1>1, <3>1, StartValues DEF BeginAttempt
  <2> QED BY <1>1, <2>1, <2>2, <2>3, StartValues DEF BeginAttempt, OpenJournal, Files
<1>2. CASE PickWave
  BY <1>2 DEF PickWave, Ready, Replayable, NoReply, checkVars
<1>3. CASE LeaveLoop
  BY <1>3 DEF LeaveLoop, execVars, checkVars
<1>4. ASSUME NEW n \in Nodes, AgentReturns(n)
      PROVE  TypeOK'
  BY <1>4 DEF AgentReturns, checkVars
<1>5. CASE WaveEnds
  BY <1>5 DEF WaveEnds, execVars, checkVars
<1>6. ASSUME NEW n \in Nodes, RecordResult(n)
      PROVE  TypeOK'
  <2>1. Blocked(n) \subseteq Nodes
    BY DEF Blocked, Descendants
  <2>2. \A done \in SUBSET Nodes : Appended(done) \in [done : SUBSET Nodes, finished : BOOLEAN]
    BY DEF Appended
  <2>3. file.done \cup {n} \in SUBSET Nodes /\ file.done \ {n} \in SUBSET Nodes
    OBVIOUS
  <2>4. file' \in [done : SUBSET Nodes, finished : BOOLEAN]
    BY <1>6, <2>2, <2>3 DEF RecordResult
  <2>5. status' \in [Nodes -> Statuses] /\ processed' \subseteq Nodes
    BY <1>6, <2>1 DEF RecordResult
  <2> QED BY <1>6, <2>4, <2>5 DEF RecordResult, Collect, checkVars
<1>7. CASE FinishAppend
  <2>1. file' \in Files
    BY <1>7, StartValues DEF FinishAppend, Files
  <2> QED BY <1>7, <2>1 DEF FinishAppend, checkVars, Files
<1>8. CASE FinishRemove
  <2>1. file' \in Files
    BY <1>8, StartValues DEF FinishRemove, Files
  <2> QED BY <1>8, <2>1 DEF FinishRemove, checkVars, Files
<1>9. CASE ReturnPartial
  BY <1>9 DEF ReturnPartial, execVars
<1>10. CASE Merge
  BY <1>10 DEF Merge, execVars
<1>11. CASE VerifyContract
  BY <1>11 DEF VerifyContract, execVars
<1>12. CASE RepairRound
  BY <1>12, BoundsAssumption DEF RepairRound, RepairBudgetLeft, execVars
<1>13. CASE RepairEnds
  BY <1>13 DEF RepairEnds, execVars
<1>14. CASE Settle
  BY <1>14 DEF Settle, StatusByEvidence, execVars
<1>15. CASE RecordOutcome
  BY <1>15 DEF RecordOutcome, execVars
<1>16. CASE Cancel
  BY <1>16 DEF Cancel, execVars, checkVars
<1>17. CASE Crash
  BY <1>17, StartValues DEF Crash
<1>18. CASE Restart
  BY <1>18 DEF Restart, execVars, checkVars
<1>19. CASE UNCHANGED vars
  BY <1>19 DEF vars
<1> QED BY <1>1, <1>2, <1>3, <1>4, <1>5, <1>6, <1>7, <1>8, <1>9, <1>10, <1>11, <1>12,
           <1>13, <1>14, <1>15, <1>16, <1>17, <1>18, <1>19 DEF Next, Executor

\* Type correctness of every reachable state; an attempt makes at most
\* MaxRepairRounds repair runs.
THEOREM TypeCorrect == Spec => []TypeOK
<1>1. TypeOK /\ [Next]_vars => TypeOK'
  BY NextType
<1> QED BY InitType, <1>1, PTL DEF Spec

-----------------------------------------------------------------------------
(* The graph: statuses, waves and blocked tasks *)

\* A task was processed exactly when it has a final status.
ProcessedIsSettled == \A n \in Nodes : n \in processed <=> status[n] # "pending"

\* Only tasks with all their dependencies ran.
RanAfterDeps == \A n \in Nodes : status[n] \in {"completed", "failed"} => Deps[n] \subseteq Completed

\* A failure reaches the direct dependents, and so does a cancellation.
FailureSpreads == \A n \in Nodes, d \in Nodes :
  d \in Deps[n] /\ status[d] \in {"failed", "cancelled"} => status[n] = "cancelled"

\* The tasks of a wave stay ready until they are recorded.
WaveIsReady == \A n \in wave : status[n] = "pending" /\ Deps[n] \subseteq Completed

CancelledHasCause == \A n \in Nodes : status[n] = "cancelled" =>
  \E f \in Failed : n \in Descendants[f]

ResultsExact == results = Completed \cup Failed

GraphInv == /\ ProcessedIsSettled /\ RanAfterDeps /\ FailureSpreads
            /\ WaveIsReady /\ CancelledHasCause /\ ResultsExact

graphState == <<status, processed, wave, results>>

\* A task whose dependencies are complete is downstream of no task that is
\* still pending.
LEMMA ReadyIsNotDownstream ==
  ASSUME RanAfterDeps, DepsAssumption,
         NEW n \in Nodes, n \notin Completed, NEW m \in Nodes, Deps[m] \subseteq Completed
  PROVE  m \notin Descendants[n]
<1> DEFINE S == {x \in Nodes : ~(Deps[x] \subseteq Completed)}
<1>1. ClosedBelow(S, n)
  BY DEF ClosedBelow, RanAfterDeps, Completed
<1>2. S \in SUBSET Nodes /\ m \notin S
  OBVIOUS
<1> HIDE DEF S
<1> QED BY <1>1, <1>2, DescendantsLeast

LEMMA InitGraph == Init => GraphInv
BY DEF Init, Fresh, GraphInv, ProcessedIsSettled, RanAfterDeps, FailureSpreads, WaveIsReady,
       CancelledHasCause, ResultsExact, Completed, Failed

\* Starting an attempt and dying both leave an untouched graph.
LEMMA FreshGraph ==
  ASSUME status' = Fresh, processed' = {}, wave' = {}, results' = {}
  PROVE  GraphInv'
BY DEF Fresh, GraphInv, ProcessedIsSettled, RanAfterDeps, FailureSpreads, WaveIsReady,
       CancelledHasCause, ResultsExact, Completed, Failed

LEMMA PickGraph ==
  ASSUME TypeOK, GraphInv, PickWave
  PROVE  GraphInv'
<1> USE DEF GraphInv
<1>0. \A n \in Nodes : Deps[n] \subseteq Nodes
  BY DepsAssumption
<1>1. /\ status' = [n \in Nodes |-> IF n \in Replayable THEN "completed" ELSE status[n]]
      /\ processed' = processed \cup Replayable
      /\ results' = results \cup Replayable
      /\ wave' = Ready \ Replayable
  BY DEF PickWave
<1>2. Replayable \subseteq Ready /\ Ready \subseteq Nodes
      /\ \A n \in Ready : status[n] = "pending" /\ Deps[n] \subseteq Completed
  BY DEF Replayable, Ready
<1> HIDE DEF GraphInv
<1>3. Completed' = Completed \cup Replayable /\ Failed' = Failed
  BY <1>1, <1>2 DEF Completed, Failed
<1>4. ProcessedIsSettled'
  BY <1>1, <1>2 DEF GraphInv, ProcessedIsSettled
<1>5. RanAfterDeps'
  BY <1>1, <1>2, <1>3 DEF GraphInv, RanAfterDeps
<1>6. FailureSpreads'
  BY <1>0, <1>1, <1>2 DEF GraphInv, FailureSpreads, Completed
<1>7. WaveIsReady'
  BY <1>1, <1>2, <1>3 DEF WaveIsReady
<1>8. CancelledHasCause'
  BY <1>1, <1>2, <1>3 DEF GraphInv, CancelledHasCause
<1>9. ResultsExact'
  BY <1>1, <1>3 DEF GraphInv, ResultsExact
<1> QED BY <1>4, <1>5, <1>6, <1>7, <1>8, <1>9 DEF GraphInv

LEMMA RecordOkGraph ==
  ASSUME TypeOK, GraphInv, NEW n \in wave,
         status' = [status EXCEPT ![n] = "completed"], processed' = processed \cup {n},
         results' = results \cup {n}, wave' = wave \ {n}
  PROVE  GraphInv'
<1>0. /\ n \in Nodes /\ status[n] = "pending" /\ Deps[n] \subseteq Completed
      /\ \A m \in Nodes : Deps[m] \subseteq Nodes
  BY DepsAssumption DEF TypeOK, GraphInv, WaveIsReady
<1>1. \A m \in Nodes : status'[m] = IF m = n THEN "completed" ELSE status[m]
  BY DEF TypeOK
<1>2. Completed' = Completed \cup {n} /\ Failed' = Failed
  BY <1>0, <1>1 DEF Completed, Failed
<1>3. ProcessedIsSettled'
  BY <1>1 DEF GraphInv, ProcessedIsSettled
<1>4. RanAfterDeps'
  BY <1>0, <1>1, <1>2 DEF GraphInv, RanAfterDeps
<1>5. FailureSpreads'
  BY <1>0, <1>1 DEF GraphInv, FailureSpreads, Completed
<1>6. WaveIsReady'
  BY <1>1, <1>2 DEF GraphInv, WaveIsReady, TypeOK
<1>7. CancelledHasCause'
  BY <1>1, <1>2 DEF GraphInv, CancelledHasCause
<1>8. ResultsExact'
  BY <1>2 DEF GraphInv, ResultsExact
<1> QED BY <1>3, <1>4, <1>5, <1>6, <1>7, <1>8 DEF GraphInv

LEMMA RecordFailGraph ==
  ASSUME TypeOK, GraphInv, NEW n \in wave,
         status' = [m \in Nodes |-> IF m = n THEN "failed"
                                    ELSE IF m \in Blocked(n) THEN "cancelled"
                                    ELSE status[m]],
         processed' = processed \cup {n} \cup Blocked(n),
         results' = results \cup {n}, wave' = wave \ {n}
  PROVE  GraphInv'
<1>0. /\ n \in Nodes /\ status[n] = "pending" /\ Deps[n] \subseteq Completed
      /\ n \notin Completed
      /\ \A m \in Nodes : Deps[m] \subseteq Nodes
  BY DepsAssumption DEF TypeOK, GraphInv, WaveIsReady, Completed
<1>1. \A m \in Nodes : m \in Blocked(n) <=> m \in Descendants[n] /\ status[m] = "pending"
  BY DEF Blocked, Descendants
<1>b. Blocked(n) \subseteq Nodes
  BY <1>0 DEF Blocked, Descendants
<1>2. \A m \in Nodes : status'[m] = IF m = n THEN "failed"
                                    ELSE IF m \in Blocked(n) THEN "cancelled" ELSE status[m]
  OBVIOUS
<1>3. Completed' = Completed /\ Failed' = Failed \cup {n}
  BY <1>0, <1>1, <1>2 DEF Completed, Failed
<1>4. ProcessedIsSettled'
  BY <1>b, <1>0, <1>2 DEF GraphInv, ProcessedIsSettled
<1>5. RanAfterDeps'
  BY <1>0, <1>2, <1>3 DEF GraphInv, RanAfterDeps
<1>6. FailureSpreads'
  <2> SUFFICES ASSUME NEW m \in Nodes, NEW d \in Nodes, d \in Deps[m],
                      status'[d] \in {"failed", "cancelled"}
               PROVE  status'[m] = "cancelled"
    BY DEF FailureSpreads
  <2>1. m # n
    BY <1>0, <1>2, <1>1 DEF Completed
  <2>2. CASE d = n \/ d \in Blocked(n)
    <3>1. m \in Descendants[n]
      BY <1>0, <1>1, <2>2, DescendantsClosed
    <3>2. status[d] = "pending"
      BY <1>0, <1>1, <2>2
    <3>3. status[m] \in {"pending", "cancelled"}
      BY <3>2 DEF GraphInv, RanAfterDeps, Completed, TypeOK, Statuses
    <3> QED BY <1>1, <1>2, <2>1, <3>1, <3>3
  <2>3. CASE d # n /\ d \notin Blocked(n)
    <3>1. status[m] = "cancelled"
      BY <1>2, <2>3 DEF GraphInv, FailureSpreads
    <3> QED BY <1>1, <1>2, <2>1, <3>1
  <2> QED BY <2>2, <2>3
<1>7. WaveIsReady'
  <2> SUFFICES ASSUME NEW m \in wave, m # n
               PROVE  status'[m] = "pending" /\ Deps[m] \subseteq Completed
    BY <1>3 DEF WaveIsReady
  <2>1. m \in Nodes /\ status[m] = "pending" /\ Deps[m] \subseteq Completed
    BY DEF TypeOK, GraphInv, WaveIsReady
  <2>2. m \notin Blocked(n)
    BY <1>0, <1>1, <2>1, ReadyIsNotDownstream, DepsAssumption DEF GraphInv
  <2> QED BY <1>2, <2>1, <2>2
<1>8. CancelledHasCause'
  BY <1>0, <1>1, <1>2, <1>3 DEF GraphInv, CancelledHasCause
<1>9. ResultsExact'
  BY <1>3 DEF GraphInv, ResultsExact
<1> QED BY <1>4, <1>5, <1>6, <1>7, <1>8, <1>9 DEF GraphInv

\* No other step touches the graph.
LEMMA GraphFrame ==
  [Next]_vars =>
    \/ BeginAttempt \/ PickWave \/ Crash
    \/ \E n \in Nodes : RecordResult(n)
    \/ UNCHANGED graphState
<1> SUFFICES ASSUME [Next]_vars
             PROVE  \/ BeginAttempt \/ PickWave \/ Crash
                    \/ \E n \in Nodes : RecordResult(n)
                    \/ UNCHANGED graphState
  OBVIOUS
<1> USE DEF graphState, execVars, checkVars
<1>1. CASE LeaveLoop \/ WaveEnds \/ (\E n \in Nodes : AgentReturns(n))
  BY <1>1 DEF LeaveLoop, WaveEnds, AgentReturns
<1>2. CASE FinishAppend \/ FinishRemove \/ ReturnPartial \/ Merge
  BY <1>2 DEF FinishAppend, FinishRemove, ReturnPartial, Merge
<1>3. CASE VerifyContract \/ RepairRound \/ RepairEnds \/ Settle \/ RecordOutcome
  BY <1>3 DEF VerifyContract, RepairRound, RepairEnds, Settle, RecordOutcome
<1>4. CASE Cancel \/ Restart \/ UNCHANGED vars
  BY <1>4 DEF Cancel, Restart, vars
<1> QED BY <1>1, <1>2, <1>3, <1>4 DEF Next, Executor

LEMMA NextGraph == TypeOK /\ GraphInv /\ [Next]_vars => GraphInv'
<1> SUFFICES ASSUME TypeOK, GraphInv, [Next]_vars
             PROVE  GraphInv'
  OBVIOUS
<1>1. CASE BeginAttempt
  BY <1>1, FreshGraph DEF BeginAttempt
<1>2. CASE PickWave
  BY <1>2, PickGraph
<1>3. CASE Crash
  BY <1>3, FreshGraph DEF Crash
<1>4. ASSUME NEW n \in Nodes, RecordResult(n)
      PROVE  GraphInv'
  <2>1. /\ n \in wave /\ results' = results \cup {n} /\ wave' = wave \ {n}
    BY <1>4 DEF RecordResult, Collect
  <2>2. CASE reply[n] = "ok"
    <3>1. status' = [status EXCEPT ![n] = "completed"] /\ processed' = processed \cup {n}
      BY <1>4, <2>2 DEF RecordResult
    <3> QED BY <2>1, <3>1, RecordOkGraph
  <2>3. CASE reply[n] = "fail"
    <3>1. /\ status' = [m \in Nodes |-> IF m = n THEN "failed"
                                        ELSE IF m \in Blocked(n) THEN "cancelled"
                                        ELSE status[m]]
          /\ processed' = processed \cup {n} \cup Blocked(n)
      BY <1>4, <2>3 DEF RecordResult
    <3> QED BY <2>1, <3>1, RecordFailGraph
  <2> QED BY <1>4, <2>2, <2>3 DEF RecordResult
<1>5. CASE UNCHANGED graphState
  <2>1. Completed' = Completed /\ Failed' = Failed
    BY <1>5 DEF graphState, Completed, Failed
  <2> QED BY <1>5, <2>1
          DEF graphState, GraphInv, ProcessedIsSettled, RanAfterDeps, FailureSpreads,
              WaveIsReady, CancelledHasCause, ResultsExact
<1> QED BY <1>1, <1>2, <1>3, <1>4, <1>5, GraphFrame

\* The loop is left for the merge only when every task was processed.
LoopIsOver == pc \in {"finish", "remove", "merge"} => processed = Nodes

LEMMA NextLoopIsOver == LoopIsOver /\ [Next]_vars => LoopIsOver'
<1> SUFFICES ASSUME LoopIsOver, [Next]_vars
             PROVE  LoopIsOver'
  OBVIOUS
<1> USE DEF LoopIsOver, execVars, checkVars
<1>1. CASE BeginAttempt \/ PickWave \/ LeaveLoop \/ WaveEnds \/ Crash \/ Restart
  BY <1>1 DEF BeginAttempt, PickWave, LeaveLoop, WaveEnds, Crash, Restart
<1>2. CASE \E n \in Nodes : AgentReturns(n) \/ RecordResult(n)
  BY <1>2 DEF AgentReturns, RecordResult
<1>3. CASE FinishAppend \/ FinishRemove \/ ReturnPartial \/ Merge
  BY <1>3 DEF FinishAppend, FinishRemove, ReturnPartial, Merge
<1>4. CASE VerifyContract \/ RepairRound \/ RepairEnds \/ Settle \/ RecordOutcome
  BY <1>4 DEF VerifyContract, RepairRound, RepairEnds, Settle, RecordOutcome
<1>5. CASE Cancel \/ UNCHANGED vars
  BY <1>5 DEF Cancel, vars
<1> QED BY <1>1, <1>2, <1>3, <1>4, <1>5 DEF Next, Executor

\* What GraphInv says of a state the loop looks at.
LEMMA GraphProperties ==
  ASSUME TypeOK, GraphInv, LoopIsOver
  PROVE  CompletedAfterDeps /\ NoDagDeadlock /\ BlockedByFailureOnly /\ ResultsMatchStatuses
<1>1. CompletedAfterDeps
  BY DEF CompletedAfterDeps, GraphInv, RanAfterDeps, Completed
<1>2. NoDagDeadlock
  <2> SUFFICES ASSUME Ready = {}, processed # Nodes
               PROVE  FALSE
    BY DEF NoDagDeadlock
  <2>1. PICK n \in Nodes \ processed : Deps[n] \cap (Nodes \ processed) = {}
    <3>1. Nodes \ processed # {}
      BY DEF TypeOK
    <3> QED BY <3>1, DepsAssumption
  <2>2. \A d \in Deps[n] : d \in Nodes /\ status[d] # "pending"
    BY <2>1, DepsAssumption DEF GraphInv, ProcessedIsSettled
  <2>3. status[n] = "pending"
    BY <2>1 DEF GraphInv, ProcessedIsSettled
  <2>4. \A d \in Deps[n] : d \in Completed
    BY <2>1, <2>2, <2>3 DEF GraphInv, FailureSpreads, Completed, TypeOK, Statuses
  <2> QED BY <2>1, <2>3, <2>4 DEF Ready
<1>3. BlockedByFailureOnly
  <2> SUFFICES ASSUME processed = Nodes, NEW n \in Nodes
               PROVE  /\ status[n] # "pending"
                      /\ status[n] = "cancelled" <=> \E f \in Failed : n \in Descendants[f]
    BY DEF BlockedByFailureOnly, LoopIsOver
  <2>1. ASSUME NEW f \in Failed, n \in Descendants[f]
        PROVE  status[n] = "cancelled"
    <3> DEFINE S == {x \in Nodes : status[x] = "cancelled"}
    <3>1. ClosedBelow(S, f)
      BY DepsAssumption DEF ClosedBelow, GraphInv, FailureSpreads, Failed
    <3>2. f \in Nodes /\ S \in SUBSET Nodes
      BY DEF Failed
    <3> HIDE DEF S
    <3>3. n \in S
      BY <2>1, <3>1, <3>2, DescendantsLeast
    <3> QED BY <3>3 DEF S
  <2> QED BY <2>1 DEF GraphInv, ProcessedIsSettled, CancelledHasCause
<1>4. ResultsMatchStatuses
  BY DEF ResultsMatchStatuses, GraphInv, ResultsExact
<1> QED BY <1>1, <1>2, <1>3, <1>4

LEMMA InvGraph == Spec => [](TypeOK /\ GraphInv /\ LoopIsOver)
<1>1. Init => TypeOK /\ GraphInv /\ LoopIsOver
  BY InitType, InitGraph DEF Init, LoopIsOver
<1>2. TypeOK /\ GraphInv /\ LoopIsOver /\ [Next]_vars => (TypeOK /\ GraphInv /\ LoopIsOver)'
  BY NextType, NextGraph, NextLoopIsOver
<1> QED BY <1>1, <1>2, PTL DEF Spec

\* For any acyclic graph, also when part of it is replayed from a journal, a
\* task is done only after everything it depends on (GetReadyTasks).
THEOREM DependenciesFirst == Spec => []CompletedAfterDeps
<1>1. TypeOK /\ GraphInv /\ LoopIsOver => CompletedAfterDeps
  BY GraphProperties
<1> QED BY <1>1, InvGraph, PTL

\* For any acyclic graph, executeDAG never reaches its "DAG deadlock" return.
THEOREM DagDeadlockIsUnreachable == Spec => []NoDagDeadlock
<1>1. TypeOK /\ GraphInv /\ LoopIsOver => NoDagDeadlock
  BY GraphProperties
<1> QED BY <1>1, InvGraph, PTL

\* CancelDescendants blocks exactly what is downstream of a failure.
THEOREM FailuresBlockTheirDependents == Spec => []BlockedByFailureOnly
<1>1. TypeOK /\ GraphInv /\ LoopIsOver => BlockedByFailureOnly
  BY GraphProperties
<1> QED BY <1>1, InvGraph, PTL

\* The merge is given the results of the tasks that ran or were replayed.
THEOREM ResultsAreComplete == Spec => []ResultsMatchStatuses
<1>1. TypeOK /\ GraphInv /\ LoopIsOver => ResultsMatchStatuses
  BY GraphProperties
<1> QED BY <1>1, InvGraph, PTL

-----------------------------------------------------------------------------
(* The journal and the workspace *)

\* While the loop runs, what the journal holds was read from it at the start
\* or has been processed since, if it could be read; after the loop it holds
\* nothing, if there is one to write to, and otherwise what it held before the
\* attempt, which the checkpoint has too; and it never holds a task whose
\* edits are not in the workspace.
JournalInv ==
  /\ file.finished => file.done = {}
  /\ pc \in {"pick", "wave", "record"} /\ journal = "read" =>
       file.done \subseteq memDone \cup processed
  /\ pc \in {"merge", "verify", "repair", "settle", "outcome"} /\ journal # "nil" =>
       file.done = {}
  /\ journal = "nil" /\ pre.ok => file.done \subseteq pre.tree
  /\ pc \in {"wave", "record"} => \A n \in wave : reply[n] = "ok" => n \in tree
  /\ file.done \subseteq tree

LEMMA InitJournal == Init => JournalInv
BY DEF Init, JournalInv, EmptyFile, NoCheckpoint

LEMMA NextJournal == TypeOK /\ JournalInv /\ [Next]_vars => JournalInv'
<1> SUFFICES ASSUME TypeOK, JournalInv, [Next]_vars
             PROVE  JournalInv'
  OBVIOUS
<1> USE DEF JournalInv
<1>e. EmptyFile.done = {} /\ FinishedFile.done = {} /\ FinishedFile.finished
  BY DEF EmptyFile, FinishedFile
<1>1. CASE BeginAttempt
  BY <1>1, <1>e DEF BeginAttempt, OpenJournal, NoCheckpoint
<1>2. CASE PickWave
  BY <1>2 DEF PickWave, NoReply, TypeOK, Ready, checkVars
<1>3. CASE LeaveLoop
  BY <1>3 DEF LeaveLoop, execVars, checkVars
<1>4. ASSUME NEW n \in Nodes, AgentReturns(n)
      PROVE  JournalInv'
  <2>1. /\ pc = "wave" /\ UNCHANGED <<pc, processed, file, memDone, journal, wave, pre>>
        /\ tree \subseteq tree'
        /\ \A m \in Nodes : reply'[m] = "ok" => m \in tree' \/ reply[m] = "ok"
    BY <1>4 DEF AgentReturns, TypeOK, checkVars
  <2>2. wave \subseteq Nodes
    BY DEF TypeOK
  <2> QED BY <2>1, <2>2
<1>5. CASE WaveEnds
  BY <1>5 DEF WaveEnds, execVars, checkVars
<1>6. ASSUME NEW n \in Nodes, RecordResult(n)
      PROVE  JournalInv'
  <2>1. /\ pc = "record" /\ n \in wave /\ wave' \subseteq wave
        /\ UNCHANGED <<memDone, journal, reply, tree, pre>> /\ pc' \in {"pick", "record"}
        /\ processed \cup {n} \subseteq processed'
    BY <1>6 DEF RecordResult, checkVars
  <2>2. \A done : /\ Appended(done).done = (IF file.finished \/ journal = "nil" THEN file.done ELSE done)
                  /\ Appended(done).finished = file.finished
    BY DEF Appended, TypeOK
  <2>3. /\ file'.done \subseteq file.done \cup (IF reply[n] = "ok" THEN {n} ELSE {})
        /\ file'.finished => file'.done = {}
        /\ journal = "nil" => file'.done \subseteq file.done
    <3>1. CASE reply[n] = "ok"
      <4>1. file' \in {file, Appended(file.done \cup {n})}
        BY <1>6, <3>1 DEF RecordResult
      <4> QED BY <2>2, <3>1, <4>1
    <3>2. CASE reply[n] = "fail"
      <4>1. file' \in {file, Appended(file.done \ {n})}
        BY <1>6, <3>2 DEF RecordResult
      <4> QED BY <2>2, <3>2, <4>1
    <3> QED BY <1>6, <3>1, <3>2 DEF RecordResult
  <2>4. reply[n] = "ok" => n \in tree
    BY <2>1
  <2> QED BY <2>1, <2>3, <2>4
<1>7. CASE FinishAppend
  BY <1>7, <1>e DEF FinishAppend, checkVars
<1>8. CASE FinishRemove
  BY <1>8, <1>e DEF FinishRemove, checkVars
<1>9. CASE ReturnPartial
  BY <1>9 DEF ReturnPartial, execVars
<1>10. CASE Merge
  BY <1>10 DEF Merge, execVars
<1>11. CASE VerifyContract \/ RepairRound \/ RepairEnds \/ RecordOutcome
  BY <1>11 DEF VerifyContract, RepairRound, RepairEnds, RecordOutcome, execVars
<1>12. CASE Settle
  BY <1>12 DEF Settle, execVars
<1>13. CASE Cancel
  BY <1>13 DEF Cancel, execVars, checkVars
<1>14. CASE Crash
  BY <1>14 DEF Crash, NoCheckpoint
<1>15. CASE Restart
  BY <1>15 DEF Restart, execVars, checkVars
<1>16. CASE UNCHANGED vars
  BY <1>16 DEF vars
<1> QED BY <1>1, <1>2, <1>3, <1>4, <1>5, <1>6, <1>7, <1>8, <1>9, <1>10, <1>11, <1>12,
           <1>13, <1>14, <1>15, <1>16 DEF Next, Executor

LEMMA InvJournal == Spec => [](TypeOK /\ JournalInv)
<1>1. TypeOK /\ JournalInv /\ [Next]_vars => (TypeOK /\ JournalInv)'
  BY NextType, NextJournal
<1> QED BY InitType, InitJournal, <1>1, PTL DEF Spec

\* Crashes, cancellations, lost journal writes and auto-rollbacks in any
\* number and order never leave the journal offering a task for replay whose
\* edits are gone from the workspace.
THEOREM ReplayIsSafe == Spec => []JournalledWorkIsOnDisk
<1>1. TypeOK /\ JournalInv => JournalledWorkIsOnDisk
  BY DEF JournalInv, JournalledWorkIsOnDisk
<1> QED BY <1>1, InvJournal, PTL

\* However often the goal is attempted, with or without a journal, no agent is
\* given a task that the journal holds as completed by an attempt that read it.
THEOREM CompletedWorkIsNotRedone == Spec => NoTaskPaidTwice
<1>1. TypeOK /\ JournalInv /\ [Next]_vars
        => [journal = "read" => \A n \in file.done : n \notin wave' \ wave]_vars
  <2> SUFFICES ASSUME JournalInv, Next, journal = "read", NEW n \in file.done, n \in wave', n \notin wave
               PROVE  FALSE
    OBVIOUS
  <2>1. CASE PickWave
    BY <2>1 DEF PickWave, JournalInv, Ready, Replayable
  <2>2. CASE BeginAttempt \/ Crash
    BY <2>2 DEF BeginAttempt, Crash
  <2>3. CASE \E m \in Nodes : RecordResult(m)
    BY <2>3 DEF RecordResult
  <2>4. CASE UNCHANGED graphState
    BY <2>4 DEF graphState
  <2> QED BY <2>1, <2>2, <2>3, <2>4, GraphFrame
<1> QED BY <1>1, InvJournal, PTL DEF Spec, NoTaskPaidTwice

-----------------------------------------------------------------------------
(* The evidence *)

\* No verdict and no outcome before their time, and a graph that agrees with
\* the last verdict once the checks are settled.
EvidenceInv ==
  /\ pc \in {"pick", "wave", "record", "finish", "remove", "merge", "partial"} =>
       verdict.failing = {}
  /\ pc \notin {"idle", "down"} => outcome = "none"
  /\ pc = "outcome" => \A n \in verdict.failing : graph[n] # "completed"
  /\ GreenTickHasNoFailingProof

LEMMA InitEvidence == Init => EvidenceInv
BY DEF Init, EvidenceInv, GreenTickHasNoFailingProof

LEMMA NextEvidence == TypeOK /\ EvidenceInv /\ [Next]_vars => EvidenceInv'
<1> SUFFICES ASSUME TypeOK, EvidenceInv, [Next]_vars
             PROVE  EvidenceInv'
  OBVIOUS
<1> USE DEF EvidenceInv, GreenTickHasNoFailingProof
<1>1. CASE BeginAttempt
  BY <1>1 DEF BeginAttempt, Unchecked
<1>2. CASE PickWave \/ LeaveLoop \/ WaveEnds
  BY <1>2 DEF PickWave, LeaveLoop, WaveEnds, execVars, checkVars
<1>3. ASSUME NEW n \in Nodes, AgentReturns(n) \/ RecordResult(n)
      PROVE  EvidenceInv'
  BY <1>3 DEF AgentReturns, RecordResult, checkVars
<1>4. CASE FinishAppend \/ FinishRemove
  BY <1>4 DEF FinishAppend, FinishRemove, checkVars
<1>5. CASE ReturnPartial \/ Merge
  BY <1>5 DEF ReturnPartial, Merge
<1>6. CASE VerifyContract \/ RepairRound
  BY <1>6 DEF VerifyContract, RepairRound
<1>7. CASE RepairEnds
  <2>1. ~NeedsRepair => verdict.failing = {}
    BY DEF NeedsRepair, AnyChecked, Passed, TypeOK
  <2> QED BY <1>7, <2>1 DEF RepairEnds
<1>8. CASE Settle
  <2>1. \A n \in verdict.failing : graph'[n] # "completed"
    BY <1>8, CheckableAssumption DEF Settle, StatusByEvidence, TypeOK
  <2> QED BY <1>8, <2>1 DEF Settle
<1>9. CASE RecordOutcome
  BY <1>9 DEF RecordOutcome
<1>10. CASE Cancel \/ Restart
  BY <1>10 DEF Cancel, Restart, checkVars
<1>11. CASE Crash
  BY <1>11 DEF Crash
<1>12. CASE UNCHANGED vars
  BY <1>12 DEF vars
<1> QED BY <1>1, <1>2, <1>3, <1>4, <1>5, <1>6, <1>7, <1>8, <1>9, <1>10, <1>11, <1>12
        DEF Next, Executor

\* Once an attempt is recorded, no task with a failing proof is shown as
\* completed (repairFailedAcceptance).
THEOREM GreenTicksAreBacked == Spec => []GreenTickHasNoFailingProof
<1>1. TypeOK /\ EvidenceInv /\ [Next]_vars => (TypeOK /\ EvidenceInv)'
  BY NextType, NextEvidence
<1>2. EvidenceInv => GreenTickHasNoFailingProof
  BY DEF EvidenceInv
<1> QED BY InitType, InitEvidence, <1>1, <1>2, PTL DEF Spec
-----------------------------------------------------------------------------
(* PlanRun implements TaskGraph *)

\* Every descendant waits for n or for another descendant.
LEMMA DescendantsHaveCause ==
  ASSUME DepsAssumption, NEW n \in Nodes, NEW m \in Descendants[n]
  PROVE  \E d \in Deps[m] : d = n \/ d \in Descendants[n]
<1> DEFINE S == {x \in Nodes : \E d \in Deps[x] : d = n \/ d \in Descendants[n]}
<1>1. ClosedBelow(S, n)
  <2> SUFFICES ASSUME NEW x \in Nodes, NEW d \in Deps[x], d \in S \cup {n}
               PROVE  d = n \/ d \in Descendants[n]
    BY DEF ClosedBelow
  <2> QED BY DescendantsClosed
<1>2. S \in SUBSET Nodes
  OBVIOUS
<1>3. m \in S
  <2> HIDE DEF S
  <2> QED BY <1>1, <1>2, DescendantsLeast
<1> QED BY <1>3

\* What CancelDescendants blocks is what waits for the failed task.
LEMMA BlockedIsWaiting ==
  ASSUME TypeOK, GraphInv, NEW n \in wave
  PROVE  Abstract!Waiting(Blocked(n), n)
<1>0. /\ n \in Nodes /\ status[n] = "pending" /\ n \notin Completed
      /\ \A m \in Nodes : Deps[m] \subseteq Nodes
  BY DepsAssumption DEF TypeOK, GraphInv, WaveIsReady, Completed
<1> SUFFICES ASSUME NEW m \in Nodes, status[m] = "pending", m # n
             PROVE  m \in Blocked(n) <=> Deps[m] \cap (Blocked(n) \cup {n}) # {}
  BY DEF Abstract!Waiting, Abstract!With
<1>1. ASSUME NEW d \in Deps[m], d \in Blocked(n) \cup {n}
      PROVE  m \in Blocked(n)
  <2>1. d = n \/ d \in Descendants[n]
    BY <1>1 DEF Blocked
  <2> QED BY <1>0, <2>1, DescendantsClosed DEF Blocked
<1>2. ASSUME m \in Blocked(n)
      PROVE  \E d \in Deps[m] : d \in Blocked(n) \cup {n}
  <2>1. PICK d \in Deps[m] : d = n \/ d \in Descendants[n]
    BY <1>0, <1>2, DescendantsHaveCause, DepsAssumption DEF Blocked
  <2>2. d \in Nodes /\ status[d] \notin {"failed", "cancelled"}
    BY <1>0 DEF GraphInv, FailureSpreads
  <2>3. d # n => d \notin Completed
    BY <1>0, <2>1, <2>2, ReadyIsNotDownstream, DepsAssumption
    DEF GraphInv, RanAfterDeps, Completed
  <2>4. d # n => status[d] = "pending"
    BY <2>2, <2>3 DEF Completed, TypeOK, Statuses
  <2> QED BY <2>1, <2>4 DEF Blocked
<1> QED BY <1>1, <1>2

\* Every step of PlanRun is a step of TaskGraph or leaves its state alone.
LEMMA StepSimulation ==
  TypeOK /\ GraphInv /\ LoopIsOver /\ [Next]_vars => [Abstract!Next]_(Abstract!vars)
<1> SUFFICES ASSUME TypeOK, GraphInv, LoopIsOver, [Next]_vars
             PROVE  Abstract!Next \/ UNCHANGED <<Phase, status>>
  BY DEF Abstract!vars
<1> USE DEF Phase, execVars, checkVars
<1>1. CASE BeginAttempt
  BY <1>1 DEF BeginAttempt, Fresh, Abstract!Next, Abstract!Start
<1>2. CASE PickWave
  <2>1. Replayable \in SUBSET Abstract!Startable
    BY DEF Replayable, Ready, Completed, Abstract!Startable, Abstract!With
  <2>2. Abstract!Complete(Replayable)
    BY <1>2 DEF PickWave, Abstract!Complete
  <2> QED BY <2>1, <2>2 DEF Abstract!Next
<1>3. CASE LeaveLoop
  <2>1. processed = Nodes => \A n \in Nodes : status[n] # "pending"
    BY DEF GraphInv, ProcessedIsSettled
  <2>2. CASE processed = Nodes
    BY <1>3, <2>1, <2>2 DEF LeaveLoop, Abstract!Next, Abstract!Finish, Abstract!With
  <2>3. CASE processed # Nodes
    BY <1>3, <2>3 DEF LeaveLoop
  <2> QED BY <2>2, <2>3
<1>4. ASSUME NEW n \in Nodes, RecordResult(n)
      PROVE  Abstract!Next
  <2>1. n \in wave /\ n \in Abstract!Startable
    BY <1>4 DEF RecordResult, GraphInv, WaveIsReady, Completed, Abstract!Startable, Abstract!With
  <2>2. pc = "record" /\ pc' \in {"pick", "record"}
    BY <1>4 DEF RecordResult
  <2>3. CASE reply[n] = "ok"
    <3>1. status' = [m \in Nodes |-> IF m \in {n} THEN "completed" ELSE status[m]]
      BY <1>4, <2>3 DEF RecordResult, TypeOK
    <3>2. Abstract!Complete({n})
      BY <2>2, <3>1 DEF Abstract!Complete
    <3> QED BY <2>1, <3>2 DEF Abstract!Next
  <2>4. CASE reply[n] = "fail"
    <3>1. Abstract!Fail(n, Blocked(n))
      BY <1>4, <2>1, <2>2, <2>4, BlockedIsWaiting DEF RecordResult, Abstract!Fail
    <3>2. Blocked(n) \in SUBSET (Abstract!With("pending") \ {n})
      <4>1. n \notin Descendants[n]
        BY <2>1, ReadyIsNotDownstream, DepsAssumption
        DEF GraphInv, WaveIsReady, Completed, TypeOK
      <4> QED BY <4>1 DEF Blocked, Descendants, Abstract!With
    <3> QED BY <2>1, <3>1, <3>2 DEF Abstract!Next
  <2> QED BY <1>4, <2>3, <2>4 DEF RecordResult
<1>5. CASE WaveEnds \/ (\E n \in Nodes : AgentReturns(n))
  BY <1>5 DEF WaveEnds, AgentReturns
<1>6. CASE FinishAppend \/ FinishRemove \/ Merge \/ VerifyContract
  BY <1>6 DEF FinishAppend, FinishRemove, Merge, VerifyContract
<1>7. CASE RepairRound \/ RepairEnds \/ Settle
  BY <1>7 DEF RepairRound, RepairEnds, Settle
<1>8. CASE ReturnPartial \/ RecordOutcome
  BY <1>8 DEF ReturnPartial, RecordOutcome, Abstract!Next, Abstract!Leave
<1>9. CASE Crash
  <2>1. status' = [n \in Nodes |-> "pending"] /\ pc' = "down" /\ pc \notin {"idle", "down"}
    BY <1>9 DEF Crash, Fresh
  <2> QED BY <2>1 DEF Abstract!Next, Abstract!Leave
<1>10. CASE Cancel \/ Restart
  BY <1>10 DEF Cancel, Restart
<1>11. CASE UNCHANGED vars
  BY <1>11 DEF vars
<1> QED BY <1>1, <1>2, <1>3, <1>4, <1>5, <1>6, <1>7, <1>8, <1>9, <1>10, <1>11
        DEF Next, Executor

\* For any acyclic graph, executePlannedGraph and executeDAG - with waves run by
\* agents in any order, replay, cancellation, crashes and any number of
\* attempts - implement the task graph the user is promised.
THEOREM PlanRunImplementsTaskGraph == Spec => ImplementsTaskGraph
<1>1. Init => Abstract!Init
  BY DEF Init, Fresh, Phase, Abstract!Init
<1> QED BY <1>1, StepSimulation, InvGraph, PTL
        DEF Spec, ImplementsTaskGraph, Abstract!Spec
-----------------------------------------------------------------------------
(* Why an attempt ends *)

\* A set of tasks that lost some of them is smaller.
LEMMA FewerTasks ==
  ASSUME NEW S \in SUBSET Nodes, NEW T \in SUBSET S
  PROVE  /\ Cardinality(S) \in Nat /\ Cardinality(T) \in Nat
         /\ Cardinality(T) <= Cardinality(S)
         /\ T # S => Cardinality(T) < Cardinality(S)
<1>1. IsFiniteSet(S)
  BY NodesAssumption, FS_Subset
<1>2. IsFiniteSet(T) /\ Cardinality(T) <= Cardinality(S)
      /\ (Cardinality(S) = Cardinality(T) => S = T)
  BY <1>1, FS_Subset
<1>3. Cardinality(S) \in Nat /\ Cardinality(T) \in Nat
  BY <1>1, <1>2, FS_CardinalityType
<1> QED BY <1>2, <1>3

\* What is left of the tasks is a number, at most four for each of them.
FewTasks == TasksLeft \in Nat /\ TasksLeft <= 4 * Cardinality(Nodes)

\* It is.
LEMMA TasksAreFew == FewTasks
<1>1. /\ Undispatched \in SUBSET Nodes /\ Unanswered \in SUBSET Nodes
      /\ Unprocessed \in SUBSET Nodes /\ Nodes \in SUBSET Nodes
  BY DEF Undispatched, Unanswered, Unprocessed
<1>2. /\ Cardinality(Undispatched) \in Nat /\ Cardinality(Undispatched) <= Cardinality(Nodes)
      /\ Cardinality(Unanswered) \in Nat /\ Cardinality(Unanswered) <= Cardinality(Nodes)
      /\ Cardinality(Unprocessed) \in Nat /\ Cardinality(Unprocessed) <= Cardinality(Nodes)
      /\ Cardinality(Nodes) \in Nat
  BY <1>1, FewerTasks
<1> QED BY <1>2 DEF FewTasks, TasksLeft

\* It is after a step.
LEMMA TasksStayFew == FewTasks'
BY TasksAreFew, PTL

\* No task is set back by a step.
TasksKept ==
  /\ Undispatched' \subseteq Undispatched
  /\ Unanswered' \subseteq Unanswered
  /\ Unprocessed' \subseteq Unprocessed

\* Then what is left shrinks with each set that does.
LEMMA TasksGoDown ==
  ASSUME TasksKept
  PROVE  /\ TasksLeft' <= TasksLeft
         /\ Undispatched' # Undispatched => TasksLeft' + 2 <= TasksLeft
         /\ Unanswered' # Unanswered \/ Unprocessed' # Unprocessed => TasksLeft' < TasksLeft
<1> DEFINE d == Cardinality(Undispatched)
           a == Cardinality(Unanswered)
           p == Cardinality(Unprocessed)
           dd == Cardinality(Undispatched')
           aa == Cardinality(Unanswered')
           pp == Cardinality(Unprocessed')
<1>1. /\ Undispatched \in SUBSET Nodes /\ Unanswered \in SUBSET Nodes
      /\ Unprocessed \in SUBSET Nodes
  BY DEF Undispatched, Unanswered, Unprocessed
<1>2. d \in Nat /\ dd \in Nat /\ dd <= d /\ (Undispatched' # Undispatched => dd < d)
  BY <1>1, FewerTasks DEF TasksKept
<1>3. a \in Nat /\ aa \in Nat /\ aa <= a /\ (Unanswered' # Unanswered => aa < a)
  BY <1>1, FewerTasks DEF TasksKept
<1>4. p \in Nat /\ pp \in Nat /\ pp <= p /\ (Unprocessed' # Unprocessed => pp < p)
  BY <1>1, FewerTasks DEF TasksKept
<1>5. TasksLeft = 2 * d + a + p /\ TasksLeft' = 2 * dd + aa + pp
  BY DEF TasksLeft
<1> HIDE DEF d, a, p, dd, aa, pp
<1> QED BY <1>2, <1>3, <1>4, <1>5

\* The loop is at its head only when every task it dispatched was recorded.
HeadIsClear == pc = "pick" => wave = {}

\* A wave is recorded whole before the loop returns to its head.
LEMMA NextHeadIsClear == HeadIsClear /\ [Next]_vars => HeadIsClear'
<1> SUFFICES ASSUME HeadIsClear, [Next]_vars
             PROVE  HeadIsClear'
  OBVIOUS
<1> USE DEF HeadIsClear, execVars, checkVars
<1>1. CASE BeginAttempt \/ PickWave \/ LeaveLoop \/ WaveEnds \/ Crash \/ Restart
  BY <1>1 DEF BeginAttempt, PickWave, LeaveLoop, WaveEnds, Crash, Restart
<1>2. CASE \E n \in Nodes : AgentReturns(n) \/ RecordResult(n)
  BY <1>2 DEF AgentReturns, RecordResult
<1>3. CASE FinishAppend \/ FinishRemove \/ ReturnPartial \/ Merge
  BY <1>3 DEF FinishAppend, FinishRemove, ReturnPartial, Merge
<1>4. CASE VerifyContract \/ RepairRound \/ RepairEnds \/ Settle \/ RecordOutcome
  BY <1>4 DEF VerifyContract, RepairRound, RepairEnds, Settle, RecordOutcome
<1>5. CASE Cancel \/ UNCHANGED vars
  BY <1>5 DEF Cancel, vars
<1> QED BY <1>1, <1>2, <1>3, <1>4, <1>5 DEF Next, Executor

\* What the steps of an attempt rest on.
AttemptInv == TypeOK /\ GraphInv /\ HeadIsClear

\* A wave that is replayed whole, or dispatched, leaves fewer to dispatch.
LEMMA PickIsPaidFor ==
  ASSUME AttemptInv, AttemptInv', PickWave
  PROVE  StepsLeft' < StepsLeft
<1>1. /\ pc = "pick" /\ pc' \in {"pick", "wave"} /\ wave = {} /\ Ready # {}
      /\ processed' = processed \cup Replayable /\ wave' = Ready \ Replayable
      /\ reply' = NoReply
  BY DEF PickWave, AttemptInv, HeadIsClear
<1>2. Ready \subseteq Undispatched /\ Replayable \subseteq Ready
  BY <1>1 DEF Ready, Undispatched, Replayable
<1>3. TasksKept
  BY <1>1 DEF TasksKept, Undispatched, Unanswered, Unprocessed
<1>4. Undispatched' # Undispatched
  <2>1. Undispatched' \cap Ready = {}
    BY <1>1 DEF Undispatched
  <2> QED BY <1>1, <1>2, <2>1
<1>5. TasksLeft' + 2 <= TasksLeft /\ TasksLeft \in Nat /\ TasksLeft' \in Nat
  BY <1>3, <1>4, TasksGoDown, TasksAreFew, TasksStayFew DEF FewTasks
<1> QED BY <1>1, <1>5, BoundsAssumption DEF StepsLeft

\* An agent answers once.
LEMMA AnswerIsPaidFor ==
  ASSUME AttemptInv, NEW n \in Nodes, AgentReturns(n)
  PROVE  StepsLeft' < StepsLeft
<1>1. /\ pc = "wave" /\ n \in wave /\ reply[n] = "none"
      /\ UNCHANGED <<pc, processed, wave>>
      /\ reply'[n] # "none" /\ \A m \in Nodes \ {n} : reply'[m] = reply[m]
  BY DEF AgentReturns, AttemptInv, TypeOK
<1>2. n \in Unanswered /\ n \notin Unanswered'
  BY <1>1 DEF Unanswered, AttemptInv, GraphInv, ProcessedIsSettled, WaveIsReady
<1>3. TasksKept
  BY <1>1 DEF TasksKept, Undispatched, Unanswered, Unprocessed
<1>4. TasksLeft' < TasksLeft /\ TasksLeft \in Nat /\ TasksLeft' \in Nat
  BY <1>2, <1>3, TasksGoDown, TasksAreFew, TasksStayFew DEF FewTasks
<1> QED BY <1>1, <1>4, BoundsAssumption DEF StepsLeft

\* A task is recorded once, with what it blocks.
LEMMA RecordIsPaidFor ==
  ASSUME AttemptInv, NEW n \in Nodes, RecordResult(n)
  PROVE  StepsLeft' < StepsLeft
<1>1. /\ pc = "record" /\ pc' \in {"pick", "record"} /\ n \in wave
      /\ wave' = wave \ {n} /\ UNCHANGED reply
      /\ processed \cup {n} \subseteq processed'
  BY DEF RecordResult
<1>2. n \in Unprocessed /\ n \notin Unprocessed'
  BY <1>1 DEF Unprocessed, AttemptInv, GraphInv, ProcessedIsSettled, WaveIsReady
<1>3. TasksKept
  BY <1>1 DEF TasksKept, Undispatched, Unanswered, Unprocessed
<1>4. TasksLeft' < TasksLeft /\ TasksLeft \in Nat /\ TasksLeft' \in Nat
  BY <1>2, <1>3, TasksGoDown, TasksAreFew, TasksStayFew DEF FewTasks
<1> QED BY <1>1, <1>4, BoundsAssumption DEF StepsLeft

\* A round has a worth of its own, and at most MaxRepairRounds are left.
FewRounds == RoundsLeft \in 0..(2 * MaxRepairRounds)

\* They are in every state of the right type.
LEMMA RoundsAreFew == TypeOK => FewRounds
BY BoundsAssumption DEF TypeOK, RoundsLeft, FewRounds

\* They are after a step.
LEMMA RoundsStayFew == TypeOK' => FewRounds'
BY RoundsAreFew, PTL

\* The steps outside the loop each lead on, a repair round to a verification
\* that is worth less.
LEMMA OtherStepsArePaidFor ==
  ASSUME AttemptInv, AttemptInv', Executor,
         ~PickWave, \A n \in Nodes : ~AgentReturns(n) /\ ~RecordResult(n)
  PROVE  StepsLeft' < StepsLeft
<1> USE BoundsAssumption DEF StepsLeft
<1>0. /\ TasksLeft \in Nat /\ TasksLeft' \in Nat
      /\ RoundsLeft \in 0..(2 * MaxRepairRounds) /\ RoundsLeft' \in 0..(2 * MaxRepairRounds)
  BY TasksAreFew, TasksStayFew, RoundsAreFew, RoundsStayFew DEF FewTasks, FewRounds, AttemptInv
<1>1. CASE LeaveLoop
  BY <1>0, <1>1 DEF LeaveLoop
<1>2. CASE WaveEnds
  <2>1. TasksLeft' = TasksLeft
    BY <1>2 DEF WaveEnds, execVars, TasksLeft, Undispatched, Unanswered, Unprocessed
  <2> QED BY <1>0, <1>2, <2>1 DEF WaveEnds
<1>3. CASE FinishAppend \/ FinishRemove \/ ReturnPartial \/ Merge
  BY <1>0, <1>3 DEF FinishAppend, FinishRemove, ReturnPartial, Merge
<1>4. CASE VerifyContract \/ RepairEnds
  <2>1. RoundsLeft' = RoundsLeft
    BY <1>4 DEF VerifyContract, RepairEnds, RoundsLeft
  <2> QED BY <1>0, <1>4, <2>1 DEF VerifyContract, RepairEnds
<1>5. CASE RepairRound
  <2>1. RoundsLeft' = RoundsLeft - 2
    BY <1>5 DEF RepairRound, RepairBudgetLeft, RoundsLeft, AttemptInv, TypeOK
  <2> QED BY <1>0, <1>5, <2>1 DEF RepairRound
<1>6. CASE Settle \/ RecordOutcome
  BY <1>6 DEF Settle, RecordOutcome
<1> QED BY <1>1, <1>2, <1>3, <1>4, <1>5, <1>6 DEF Executor

\* Every step of the attempt is paid for.
LEMMA ExecutorPays ==
  ASSUME AttemptInv, AttemptInv', Executor
  PROVE  StepsLeft' < StepsLeft
<1>1. CASE PickWave
  BY <1>1, PickIsPaidFor
<1>2. ASSUME NEW n \in Nodes, AgentReturns(n)
      PROVE  StepsLeft' < StepsLeft
  BY <1>2, AnswerIsPaidFor
<1>3. ASSUME NEW n \in Nodes, RecordResult(n)
      PROVE  StepsLeft' < StepsLeft
  BY <1>3, RecordIsPaidFor
<1> QED BY <1>1, <1>2, <1>3, OtherStepsArePaidFor

\* There are never more steps left than a new attempt has.
FewSteps ==
  StepsLeft \in Nat /\ StepsLeft <= 2 * MaxRepairRounds + 9 + 4 * Cardinality(Nodes)

\* Counted by the place where the attempt is.
LEMMA StepsAreFew == TypeOK => FewSteps
<1> SUFFICES ASSUME TypeOK PROVE FewSteps
  OBVIOUS
<1>1. Cardinality(Nodes) \in Nat /\ MaxRepairRounds \in Nat
  BY NodesAssumption, FS_CardinalityType, BoundsAssumption
<1>2. /\ TasksLeft \in Nat /\ TasksLeft <= 4 * Cardinality(Nodes)
      /\ RoundsLeft \in Nat /\ RoundsLeft <= 2 * MaxRepairRounds
  BY <1>1, TasksAreFew, RoundsAreFew DEF FewTasks, FewRounds
<1>3. pc \in {"idle", "down", "pick", "wave", "record", "finish", "remove", "partial",
             "merge", "verify", "repair", "settle", "outcome"}
  BY DEF TypeOK
<1> QED BY <1>1, <1>2, <1>3 DEF StepsLeft, FewSteps

\* They are few after a step.
LEMMA StepsStayFew == TypeOK' => FewSteps'
BY StepsAreFew, PTL

\* An attempt takes no more steps by itself than four for each task of the
\* graph, two for each repair round and nine: whatever was replayed from the
\* journal, whichever agents failed and however often the checks did.
THEOREM AttemptsAreBounded ==
  Spec => /\ EveryStepIsPaidFor
          /\ [](StepsLeft <= 2 * MaxRepairRounds + 9 + 4 * Cardinality(Nodes))
<1>1. Init => AttemptInv
  BY InitType, InitGraph DEF Init, AttemptInv, HeadIsClear
<1>2. AttemptInv /\ [Next]_vars => AttemptInv'
  BY NextType, NextGraph, NextHeadIsClear DEF AttemptInv
<1>3. AttemptInv => StepsLeft <= 2 * MaxRepairRounds + 9 + 4 * Cardinality(Nodes)
  BY StepsAreFew DEF FewSteps, AttemptInv
<1>4. AttemptInv /\ [Next]_vars
        => [/\ Executor => StepsLeft' < StepsLeft
            /\ ~BeginAttempt => StepsLeft' <= StepsLeft]_vars
  <2> SUFFICES ASSUME AttemptInv, Next
               PROVE  /\ Executor => StepsLeft' < StepsLeft
                      /\ ~BeginAttempt => StepsLeft' <= StepsLeft
    OBVIOUS
  <2>1. AttemptInv'
    BY <1>2
  <2>2. StepsLeft \in Nat /\ StepsLeft' \in Nat
    BY <2>1, StepsAreFew, StepsStayFew DEF FewSteps, AttemptInv
  <2>3. Executor => StepsLeft' < StepsLeft
    BY <2>1, ExecutorPays
  <2>4. CASE Cancel
    <3>1. StepsLeft' = StepsLeft
      BY <2>4 DEF Cancel, execVars, checkVars, StepsLeft, TasksLeft, Undispatched, Unanswered,
                  Unprocessed, RoundsLeft
    <3> QED BY <2>2, <2>3, <3>1
  <2>5. CASE Crash \/ Restart
    <3>1. StepsLeft' = 0
      BY <2>5 DEF Crash, Restart, StepsLeft
    <3> QED BY <2>2, <2>3, <3>1
  <2> QED BY <2>2, <2>3, <2>4, <2>5 DEF Next
<1> QED BY <1>1, <1>2, <1>3, <1>4, PTL DEF Spec, EveryStepIsPaidFor
=============================================================================
