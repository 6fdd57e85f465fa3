--------------------------- MODULE AgentLoopProofs ---------------------------
(***************************************************************************)
(* Proofs about AgentLoop and the tool registry under it, for any tools,   *)
(* batches, clients, budgets and breaker settings.                         *)
(***************************************************************************)
EXTENDS AgentLoop, TLAPS

LEMMA BatchLength ==
  /\ \A b \in Batches : Len(b) \in Positions /\ b \in [1..Len(b) -> Sigs]
  /\ Len(<<>>) = 0
  /\ Positions \subseteq Nat
<1>1. ASSUME NEW n \in Positions, NEW b \in [1..n -> Sigs]
      PROVE  Len(b) = n
  BY <1>1, BatchAssumption DEF Positions
<1>2. \A b \in Batches : \E n \in Positions : b \in [1..n -> Sigs]
  BY DEF Batches
<1> QED BY <1>1, <1>2, BatchAssumption DEF Positions

-----------------------------------------------------------------------------
(* The breaker *)

\* The breaker's count is that of the handlers that failed in a row, and a
\* tool is in quarantine only from the threshold on.
BreakerInv ==
  /\ fails \in [Tools -> 0..Threshold] /\ failedRuns = fails
  /\ backoff \in [Tools -> BaseBackoff..MaxBackoff]
  /\ left \in [Tools -> 0..MaxBackoff]
  /\ \A t \in Tools : left[t] > 0 => fails[t] >= Threshold

\* Whatever happens to the breaker is a handler's end or time.
LEMMA OutcomeKeepsBreaker ==
  ASSUME BreakerInv, NEW t \in Tools, NEW how, Outcome(t, how)
  PROVE  BreakerInv'
<1> USE BreakerAssumption DEF BreakerInv
<1>1. CASE RecordSuccess(t)
  BY <1>1 DEF RecordSuccess
<1>2. CASE RecordFailure(t)
  <2>1. fails' \in [Tools -> 0..Threshold] /\ failedRuns' = fails'
    BY <1>2 DEF RecordFailure, CountFailure, Least
  <2>2. backoff' \in [Tools -> BaseBackoff..MaxBackoff]
    BY <1>2 DEF RecordFailure, CountFailure, Least
  <2>3. left' \in [Tools -> 0..MaxBackoff]
    BY <1>2 DEF RecordFailure, CountFailure
  <2>4. \A u \in Tools : left'[u] > 0 => fails'[u] >= Threshold
    BY <1>2 DEF RecordFailure, CountFailure, Least
  <2> QED BY <2>1, <2>2, <2>3, <2>4
<1>3. CASE UNCHANGED breakerVars
  BY <1>3 DEF breakerVars
<1> QED BY <1>1, <1>2, <1>3 DEF Outcome

\* Calls and clients run handlers of known tools.
LEMMA CallToolIsTool ==
  ASSUME RegistryTypeOK, NEW i \in Positions, call[i] # "none"
  PROVE  i \in 1..Len(batch) /\ batch[i] \in Sigs /\ CallTool(i) \in Tools
<1>1. batch \in [1..Len(batch) -> Sigs]
  <2>1. CASE batch \in Batches
    BY <2>1, BatchLength
  <2>2. CASE batch = <<>>
    BY <2>2, BatchLength DEF RegistryTypeOK, Positions
  <2> QED BY <2>1, <2>2 DEF RegistryTypeOK
<1>2. i \in 1..Len(batch)
  BY BatchLength DEF RegistryTypeOK, Positions
<1> QED BY <1>1, <1>2, SigsAssumption DEF CallTool

\* A handler ends only by an Outcome, and nothing but handlers and time
\* touches the breaker.
LEMMA BreakerFrame ==
  RegistryTypeOK /\ [Next]_vars =>
    \/ \E t \in Tools, how \in {"ok", "failed", "panic"} : Outcome(t, how)
    \/ Tick
    \/ UNCHANGED breakerVars
<1> SUFFICES ASSUME RegistryTypeOK, [Next]_vars
             PROVE  \/ \E t \in Tools, how \in {"ok", "failed", "panic"} : Outcome(t, how)
                    \/ Tick
                    \/ UNCHANGED breakerVars
  OBVIOUS
<1>1. ASSUME NEW i \in Positions, CallStep(i)
      PROVE  \/ \E t \in Tools, how \in {"ok", "failed", "panic"} : Outcome(t, how)
             \/ UNCHANGED breakerVars
  <2>1. CASE Admit(i) \/ Refuse(i) \/ ShortCircuit(i) \/ StartHandler(i)
    BY <2>1 DEF Admit, Refuse, ShortCircuit, StartHandler
  <2>2. CASE FinishHandler(i)
    <3>1. CallTool(i) \in Tools
      BY <2>2, CallToolIsTool DEF FinishHandler
    <3> QED BY <2>2, <3>1 DEF FinishHandler
  <2> QED BY <1>1, <2>1, <2>2 DEF CallStep
<1>2. ASSUME NEW c \in Clients, ClientStep(c)
      PROVE  \/ \E t \in Tools, how \in {"ok", "failed", "panic"} : Outcome(t, how)
             \/ UNCHANGED breakerVars
  <2>1. CASE ClientEnds(c)
    BY <2>1 DEF ClientEnds, RegistryTypeOK
  <2>2. CASE \E t \in Tools : ClientStarts(c, t)
    BY <2>2 DEF ClientStarts
  <2> QED BY <1>2, <2>1, <2>2 DEF ClientStep
<1>3. CASE RegistryStep
  BY <1>1, <1>2, <1>3 DEF RegistryStep
<1>4. CASE LoopStep
  <2> USE DEF registryVars
  <2>1. CASE HeadStops \/ HeadContinues \/ ThinkFails \/ ThinkAnswers
    BY <2>1 DEF HeadStops, HeadContinues, ThinkFails, ThinkAnswers
  <2>2. CASE BatchReturns \/ ObserveSuccess \/ ObserveFailure
    BY <2>2 DEF BatchReturns, ObserveSuccess, ObserveFailure
  <2>3. CASE Verify \/ CheckContract \/ NoContract \/ SelfEvaluate \/ Critique \/ Answer
    BY <2>3 DEF Verify, CheckContract, NoContract, SelfEvaluate, Critique, Answer
  <2>4. CASE \E b \in Batches : ThinkActs(b)
    BY <2>4 DEF ThinkActs
  <2> QED BY <1>4, <2>1, <2>2, <2>3, <2>4 DEF LoopStep
<1>5. CASE Cancel \/ UNCHANGED vars
  BY <1>5 DEF Cancel, vars, registryVars
<1> QED BY <1>3, <1>4, <1>5 DEF Next

LEMMA InitBreaker == Init => BreakerInv
BY BreakerAssumption DEF Init, RegistryInit, BreakerInv

LEMMA NextBreaker == RegistryTypeOK /\ BreakerInv /\ [Next]_vars => BreakerInv'
<1> SUFFICES ASSUME RegistryTypeOK, BreakerInv, [Next]_vars
             PROVE  BreakerInv'
  OBVIOUS
<1>1. CASE Tick
  BY <1>1, BreakerAssumption DEF Tick, BreakerInv
<1>2. CASE UNCHANGED breakerVars
  BY <1>2 DEF breakerVars, BreakerInv
<1> QED BY <1>1, <1>2, BreakerFrame, OutcomeKeepsBreaker

-----------------------------------------------------------------------------
(* Type correctness *)

BatchTypeOK ==
  /\ batch \in Batches \cup {<<>>}
  /\ call \in [Positions -> CallStates]
  /\ \A i \in Positions : call[i] = "none" <=> i > Len(batch)
  /\ client \in [Clients -> Tools \cup {Idle}]

\* Where the loop is in the batch, and how far its counters have come there.
PlaceInv ==
  /\ pc \notin {"observe", "done"} => at = 0
  /\ pc \in {"act", "observe"} => batch # <<>>
  /\ pc = "think" => iteration < MaxLoops
  /\ pc # "done" => \A s \in Sigs : stuckFails[s] < StuckAbort

LEMMA RegistryTypes == BreakerInv /\ BatchTypeOK => RegistryTypeOK
BY DEF RegistryTypeOK, BatchTypeOK, BreakerInv

\* The budgets, the verdicts and the stuck counts.
LoopTypeOK ==
  /\ pc \in {"head", "think", "act", "observe", "verify", "contract", "selfeval",
             "critique", "answer", "done"}
  /\ turn \in {"chat", "plain", "contract"} /\ critiqueOn \in BOOLEAN
  /\ iteration \in 0..MaxLoops /\ corrections \in 0..MaxCorrections
  /\ evalFailures \in 0..MaxEvalFailures
  /\ at \in 0..Len(batch) /\ (pc = "observe" => at > 0)
  /\ stuckFails \in [Sigs -> 0..StuckAbort]
  /\ nudged \subseteq Sigs /\ seen \subseteq Sigs
  /\ verdict \in {"none", "failing", "empty", "proven"}
  /\ cancelled \in BOOLEAN /\ result \in Results
  /\ verified \in {"no", "text", "contract", "opinion"} /\ checkedAt \in 0..MaxLoops

TypeInv == BreakerInv /\ BatchTypeOK /\ LoopTypeOK /\ PlaceInv

LEMMA TypeInvTypes == TypeInv => TypeOK /\ RegistryTypeOK
BY RegistryTypes DEF TypeInv, TypeOK, LoopTypeOK

LEMMA InitTypes == Init => TypeInv
<1> SUFFICES ASSUME Init
             PROVE  TypeInv
  OBVIOUS
<1>1. BatchTypeOK
  BY BatchLength DEF Init, RegistryInit, BatchTypeOK, NoCalls, CallStates, Positions
<1>2. PlaceInv
  BY BudgetsAssumption DEF Init, PlaceInv, NoFails
<1>3. at \in 0..Len(batch)
  BY BatchLength DEF Init, RegistryInit
<1>4. LoopTypeOK
  <2>1. stuckFails \in [Sigs -> 0..StuckAbort]
    BY BudgetsAssumption DEF Init, NoFails
  <2>2. 0 \in 0..MaxLoops /\ 0 \in 0..MaxCorrections /\ 0 \in 0..MaxEvalFailures
    BY BudgetsAssumption
  <2> QED BY <1>3, <2>1, <2>2, Zenon DEF Init, LoopTypeOK, Results
<1> QED BY <1>1, <1>2, <1>4, InitBreaker DEF TypeInv

\* A call of the batch changes its own entry only, and never back to "none".
LEMMA CallKeepsBatch ==
  ASSUME BatchTypeOK, NEW i \in Positions, CallStep(i)
  PROVE  BatchTypeOK' /\ UNCHANGED batch
<1>1. /\ call[i] # "none"
      /\ \E v \in CallStates \ {"none"} : call' = [call EXCEPT ![i] = v]
      /\ UNCHANGED <<batch, client>>
  BY DEF CallStep, Admit, Refuse, ShortCircuit, StartHandler, FinishHandler, CallStates
<1> QED BY <1>1 DEF BatchTypeOK

LEMMA RegistryKeepsTypes ==
  ASSUME BatchTypeOK, LoopTypeOK, PlaceInv, RegistryStep, UNCHANGED loopVars
  PROVE  BatchTypeOK' /\ LoopTypeOK' /\ PlaceInv'
<1>1. BatchTypeOK' /\ UNCHANGED batch
  <2>1. CASE \E i \in Positions : CallStep(i)
    BY <2>1, CallKeepsBatch
  <2>2. CASE \E c \in Clients : ClientStep(c)
    BY <2>2 DEF ClientStep, ClientStarts, ClientEnds, BatchTypeOK
  <2>3. CASE Tick
    BY <2>3 DEF Tick, BatchTypeOK
  <2> QED BY <2>1, <2>2, <2>3 DEF RegistryStep
<1> QED BY <1>1 DEF LoopTypeOK, PlaceInv, loopVars, runVars, budgetVars, stuckVars, checkVars

\* Every step that ends a round with a correction or moves on in the checks
\* leaves the batch alone.
LEMMA ChecksKeepTypes ==
  ASSUME BatchTypeOK, LoopTypeOK, PlaceInv,
         \/ HeadStops \/ HeadContinues \/ ThinkFails \/ ThinkAnswers \/ Verify
         \/ CheckContract \/ NoContract \/ SelfEvaluate \/ Critique \/ Answer \/ Cancel
  PROVE  BatchTypeOK' /\ LoopTypeOK' /\ PlaceInv'
<1>0. UNCHANGED <<batch, call, client>>
  BY DEF HeadStops, HeadContinues, ThinkFails, ThinkAnswers, Verify, CheckContract, NoContract,
         SelfEvaluate, Critique, Answer, Cancel, registryVars
<1>1. BatchTypeOK'
  BY <1>0 DEF BatchTypeOK
<1> USE <1>0, BudgetsAssumption DEF LoopTypeOK, PlaceInv, runVars, budgetVars, stuckVars, checkVars,
      Return, Correct, CorrectionsLeft, Results
<1>2. CASE HeadStops \/ HeadContinues
  BY <1>1, <1>2 DEF HeadStops, HeadContinues
<1>3. CASE ThinkFails \/ ThinkAnswers
  BY <1>1, <1>3 DEF ThinkFails, ThinkAnswers
<1>4. CASE Verify \/ NoContract
  BY <1>1, <1>4 DEF Verify, NoContract
<1>5. CASE CheckContract
  BY <1>1, <1>5 DEF CheckContract
<1>6. CASE SelfEvaluate
  BY <1>1, <1>6 DEF SelfEvaluate, EvalRetryLeft
<1>7. CASE Critique
  <2>1. /\ Correct \/ (pc' = "answer" /\ UNCHANGED <<corrections, verified>>)
        /\ UNCHANGED <<runVars, iteration, evalFailures, stuckVars, checkVars, cancelled, result>>
        /\ pc = "critique" /\ UNCHANGED verified
    BY <1>7, Zenon DEF Critique
  <2> QED BY <1>1, <2>1
<1>8. CASE Answer
  BY <1>1, <1>8 DEF Answer, Completion
<1>9. CASE Cancel
  BY <1>1, <1>9 DEF Cancel
<1> QED BY <1>2, <1>3, <1>4, <1>5, <1>6, <1>7, <1>8, <1>9

\* Only a failing call raises its own count, and not past the abort.
LEMMA BatchStepsKeepTypes ==
  ASSUME BatchTypeOK, LoopTypeOK, PlaceInv,
         \/ \E b \in Batches : ThinkActs(b)
         \/ BatchReturns \/ ObserveSuccess \/ ObserveFailure
  PROVE  BatchTypeOK' /\ LoopTypeOK' /\ PlaceInv'
<1>0. /\ \A i \in 1..Len(batch) : batch[i] \in Sigs
      /\ Len(batch) \in Nat /\ (batch # <<>> => Len(batch) > 0)
      /\ \A b \in Batches : Len(b) \in Nat /\ Len(b) > 0 /\ b # <<>> /\ Len(b) <= MaxBatch
  BY BatchLength, BatchAssumption, SMTT(60) DEF BatchTypeOK, Positions
<1> USE DEF LoopTypeOK, PlaceInv, runVars, budgetVars, stuckVars, checkVars, breakerVars
<1>1. ASSUME NEW b \in Batches, ThinkActs(b)
      PROVE  BatchTypeOK' /\ LoopTypeOK' /\ PlaceInv'
  <2>1. BatchTypeOK'
    <3>1. \A i \in Positions : call'[i] = IF i <= Len(b) THEN "waiting" ELSE "none"
      BY <1>1 DEF ThinkActs, StartBatch
    <3>2. call' \in [Positions -> CallStates] /\ batch' = b /\ UNCHANGED client
      BY <1>1 DEF ThinkActs, StartBatch, CallStates
    <3>3. \A i \in Positions : i \in Nat
      BY BatchLength
    <3> QED BY <1>0, <3>1, <3>2, <3>3 DEF BatchTypeOK
  <2>2. batch' = b /\ iteration' = iteration + 1 /\ iteration' \in 0..MaxLoops
    BY <1>1, BudgetsAssumption DEF ThinkActs, StartBatch
  <2> QED BY <1>0, <1>1, <2>1, <2>2 DEF ThinkActs
<1>2. CASE BatchReturns
  BY <1>0, <1>2 DEF BatchReturns, registryVars, BatchTypeOK
<1>3. ASSUME NextResult, pc = "observe"
      PROVE  /\ batch' \in {batch, <<>>} /\ at' \in 0..Len(batch') /\ (pc' = "observe" => at' > 0)
             /\ pc' \in {"head", "observe"} /\ (pc' = "head" => at' = 0)
             /\ pc' = "observe" => batch' = batch
             /\ UNCHANGED client => BatchTypeOK'
  <2>1. CASE at = Len(batch)
    <3>1. batch' = <<>> /\ call' = NoCalls /\ at' = 0 /\ pc' = "head"
      BY <1>3, <2>1 DEF NextResult
    <3>2. \A i \in Positions : i \in Nat /\ i > 0
      BY BatchAssumption DEF Positions
    <3>3. UNCHANGED client => BatchTypeOK'
      BY <3>1, <3>2, BatchLength DEF BatchTypeOK, NoCalls, CallStates
    <3> QED BY <3>1, <3>3, BatchLength
  <2>2. CASE at # Len(batch)
    BY <1>0, <1>3, <2>2 DEF NextResult, BatchTypeOK
  <2> QED BY <2>1, <2>2
<1>4. CASE ObserveSuccess
  <2>1. stuckFails' \in [Sigs -> 0..StuckAbort] /\ \A s \in Sigs : stuckFails'[s] < StuckAbort
    <3>1. pc = "observe" /\ stuckFails' = [stuckFails EXCEPT ![batch[at]] = 0]
      BY <1>4 DEF ObserveSuccess, ClearCount
    <3>2. 0 \in 0..StuckAbort /\ 0 < StuckAbort
      BY BudgetsAssumption
    <3>3. \A u \in Sigs : stuckFails'[u] = 0 \/ stuckFails'[u] = stuckFails[u]
      BY <3>1
    <3>4. stuckFails' \in [Sigs -> 0..StuckAbort]
      BY <3>1, <3>2
    <3> QED BY <3>1, <3>2, <3>3, <3>4
  <2>2. nudged' \subseteq Sigs /\ seen' \subseteq Sigs
    BY <1>4 DEF ObserveSuccess, ClearCount
  <2> QED BY <1>3, <1>4, <2>1, <2>2 DEF ObserveSuccess
<1>5. CASE ObserveFailure
  <2> DEFINE s == batch[at]
  <2>0. pc = "observe" /\ s \in Sigs
    BY <1>0, <1>5 DEF ObserveFailure
  <2>1. stuckFails' = [stuckFails EXCEPT ![s] = @ + 1] /\ nudged' \subseteq Sigs
    BY <1>5, <2>0 DEF ObserveFailure, Nudge
  <2>2. stuckFails' \in [Sigs -> 0..StuckAbort]
    BY <2>0, <2>1, BudgetsAssumption
  <2>3. CASE stuckFails[s] + 1 < StuckAbort /\ NextResult /\ UNCHANGED result
    <3>1. \A u \in Sigs : stuckFails'[u] < StuckAbort
      BY <2>0, <2>1, <2>3, BudgetsAssumption
    <3> QED BY <1>3, <1>5, <2>0, <2>1, <2>2, <2>3, <3>1 DEF ObserveFailure
  <2>4. CASE Return("stuck") /\ UNCHANGED <<at, batch, call>>
    BY <1>5, <2>0, <2>1, <2>2, <2>4 DEF ObserveFailure, Return, Results, BatchTypeOK
  <2> QED BY <1>5, <2>3, <2>4 DEF ObserveFailure
<1> QED BY <1>1, <1>2, <1>4, <1>5

LEMMA NextTypes == TypeInv /\ [Next]_vars => TypeInv'
<1> SUFFICES ASSUME TypeInv, [Next]_vars
             PROVE  TypeInv'
  OBVIOUS
<1>1. BreakerInv'
  BY TypeInvTypes, NextBreaker DEF TypeInv
<1>2. CASE UNCHANGED vars
  BY <1>1, <1>2 DEF vars, loopVars, registryVars, runVars, budgetVars, stuckVars, checkVars,
                    TypeInv, BatchTypeOK, LoopTypeOK, PlaceInv
<1>3. CASE RegistryStep /\ UNCHANGED loopVars
  BY <1>1, <1>3, RegistryKeepsTypes DEF TypeInv
<1>4. CASE LoopStep \/ Cancel
  BY <1>1, <1>4, ChecksKeepTypes, BatchStepsKeepTypes DEF TypeInv, LoopStep
<1> QED BY <1>2, <1>3, <1>4 DEF Next

LEMMA TypesAlways == Spec => []TypeInv
BY InitTypes, NextTypes, PTL DEF Spec

\* Every variable keeps its type, for any budgets and any number of tools,
\* calls in a batch and clients.
THEOREM LoopTypeCorrect == Spec => []TypeOK
BY TypesAlways, TypeInvTypes, PTL

\* The breaker is tripped by handlers that ran and failed, in a row, and by
\* nothing else, in any order of batches and clients.
THEOREM QuarantineIsAlwaysEarned == Spec => []QuarantineIsEarned
<1>1. TypeInv => QuarantineIsEarned
  BY DEF TypeInv, BreakerInv, QuarantineIsEarned
<1> QED BY <1>1, TypesAlways, PTL

-----------------------------------------------------------------------------
(* The verdict, the budgets and what the run reports *)

\* What is known of the contract and of the budgets at each station of the
\* checks, and what the report says of them at the end.
VerdictInv ==
  /\ pc \notin {"answer", "done"} => verdict # "proven"
  /\ pc \in {"contract", "selfeval"} => verified = "no"
  /\ pc = "selfeval" /\ turn = "contract" =>
       /\ checkedAt = iteration /\ verdict \in {"failing", "empty"}
       /\ verdict = "failing" => ~CorrectionsLeft
  /\ pc = "critique" => verified = "opinion"
  /\ pc = "critique" /\ turn = "contract" => checkedAt = iteration /\ verdict = "empty"
  /\ pc = "answer" =>
       /\ verified = "no" =>
            /\ corrections = MaxCorrections \/ evalFailures = MaxEvalFailures
            /\ verdict # "proven"
       /\ verified # "no" /\ turn = "contract" =>
            checkedAt = iteration /\ verdict \in {"empty", "proven"}
  /\ pc # "done" => result = "none"
  /\ ResultAgreesWithContract /\ UnverifiedOnlyWhenBudgetSpent

LEMMA InitVerdict == Init => VerdictInv
BY DEF Init, VerdictInv, ResultAgreesWithContract, UnverifiedOnlyWhenBudgetSpent

reportVars == <<turn, budgetVars, checkVars, result, verified>>

LEMMA NextVerdict == TypeInv /\ VerdictInv /\ [Next]_vars => VerdictInv'
<1> SUFFICES ASSUME LoopTypeOK, VerdictInv, [Next]_vars
             PROVE  VerdictInv'
  BY DEF TypeInv
<1> USE BudgetsAssumption
    DEF VerdictInv, LoopTypeOK, ResultAgreesWithContract, UnverifiedOnlyWhenBudgetSpent,
        reportVars, runVars, budgetVars, checkVars, CorrectionsLeft
<1>1. CASE UNCHANGED <<pc, reportVars>>
  BY <1>1
<1>2. CASE HeadStops \/ HeadContinues \/ ThinkFails
  BY <1>2 DEF HeadStops, HeadContinues, ThinkFails, Return
<1>3. CASE ThinkAnswers \/ \E b \in Batches : ThinkActs(b)
  BY <1>3 DEF ThinkAnswers, ThinkActs
<1>4. CASE BatchReturns \/ ObserveSuccess
  BY <1>4 DEF BatchReturns, ObserveSuccess, NextResult
<1>5. CASE ObserveFailure
  BY <1>5 DEF ObserveFailure, NextResult, Return
<1>6. CASE Verify \/ NoContract
  BY <1>6 DEF Verify, NoContract, Correct
<1>7. CASE CheckContract
  BY <1>7 DEF CheckContract, Correct
<1>8. CASE SelfEvaluate
  BY <1>8 DEF SelfEvaluate, Correct, EvalRetryLeft
<1>9. CASE Critique
  <2>1. /\ Correct \/ (pc' = "answer" /\ UNCHANGED corrections)
        /\ UNCHANGED <<runVars, iteration, evalFailures, checkVars, result, verified>>
        /\ pc = "critique"
    BY <1>9, Zenon DEF Critique
  <2> QED BY <2>1 DEF Correct
<1>10. CASE Answer
  BY <1>10 DEF Answer, Return, Completion
<1>11. CASE Cancel
  BY <1>11 DEF Cancel
<1>12. CASE RegistryStep /\ UNCHANGED loopVars
  BY <1>1, <1>12 DEF loopVars
<1>13. CASE UNCHANGED vars
  BY <1>1, <1>13 DEF vars, loopVars
<1> QED BY <1>2, <1>3, <1>4, <1>5, <1>6, <1>7, <1>8, <1>9, <1>10, <1>11, <1>12, <1>13
        DEF Next, LoopStep

LEMMA VerdictAlways == Spec => [](TypeInv /\ VerdictInv)
<1>1. TypeInv /\ VerdictInv /\ [Next]_vars => (TypeInv /\ VerdictInv)'
  BY NextTypes, NextVerdict
<1> QED BY InitTypes, InitVerdict, <1>1, PTL DEF Spec

\* Whatever the model, the checks and the tools answer, the run's report agrees
\* with the last check of its contract.
THEOREM ReportAgreesWithContract == Spec => []ResultAgreesWithContract
<1>1. VerdictInv => ResultAgreesWithContract
  BY DEF VerdictInv
<1> QED BY <1>1, VerdictAlways, PTL

\* No answer leaves the loop unverified while there is a budget to verify it.
THEOREM UnverifiedIsTheLastResort == Spec => []UnverifiedOnlyWhenBudgetSpent
<1>1. VerdictInv => UnverifiedOnlyWhenBudgetSpent
  BY DEF VerdictInv
<1> QED BY <1>1, VerdictAlways, PTL

-----------------------------------------------------------------------------
(* Repeated failures *)

\* A call that failed StuckNudge times has a warning in the conversation, and
\* the model has read every warning that is not of this very batch.
StuckInv ==
  /\ \A s \in Sigs : stuckFails[s] >= StuckNudge => s \in nudged
  /\ pc \in {"act", "observe"} =>
       \A s \in nudged : s \in seen \/ \E i \in 1..(at - 1) : batch[i] = s
  /\ pc # "done" => result # "stuck"
  /\ NudgedBeforeAbort

LEMMA InitStuck == Init => StuckInv
BY BudgetsAssumption DEF Init, NoFails, StuckInv, NudgedBeforeAbort

LEMMA NextStuck == TypeInv /\ StuckInv /\ [Next]_vars => StuckInv'
<1> SUFFICES ASSUME TypeInv, StuckInv, [Next]_vars
             PROVE  StuckInv'
  OBVIOUS
<1>0. /\ \A i \in 1..Len(batch) : batch[i] \in Sigs
      /\ Len(batch) \in Nat /\ at \in 0..Len(batch) /\ (pc = "observe" => at > 0)
      /\ stuckFails \in [Sigs -> 0..StuckAbort] /\ nudged \subseteq Sigs
      /\ pc \notin {"observe", "done"} => at = 0
  BY BatchLength, SMTT(60) DEF TypeInv, BatchTypeOK, LoopTypeOK, PlaceInv, Positions
<1>u. ASSUME UNCHANGED <<batch, at, stuckFails, nudged, seen, result>>, pc' = pc \/ pc' \notin {"act", "observe"},
             pc = "done" => pc' = "done"
      PROVE  StuckInv'
  BY <1>0, <1>u DEF StuckInv, NudgedBeforeAbort
<1> USE DEF stuckVars
<1>1. CASE HeadContinues \/ Cancel
  BY <1>1, <1>u DEF HeadContinues, Cancel, registryVars
<1>2. CASE HeadStops \/ ThinkFails \/ Answer
  BY <1>2 DEF HeadStops, ThinkFails, Answer, Return, Completion, registryVars, StuckInv,
              NudgedBeforeAbort
<1>3. CASE ThinkAnswers
  BY <1>3 DEF ThinkAnswers, registryVars, StuckInv, NudgedBeforeAbort
<1>4. ASSUME NEW b \in Batches, ThinkActs(b)
      PROVE  StuckInv'
  BY <1>4 DEF ThinkActs, StartBatch, StuckInv, NudgedBeforeAbort
<1>5. CASE BatchReturns
  BY <1>0, <1>5 DEF BatchReturns, registryVars, StuckInv, NudgedBeforeAbort
<1>6. CASE ObserveSuccess
  <2>1. /\ pc = "observe" /\ pc' \in {"head", "observe"} /\ UNCHANGED result
        /\ stuckFails' = [stuckFails EXCEPT ![batch[at]] = 0]
        /\ nudged' = nudged \ {batch[at]} /\ seen' = seen \ {batch[at]}
        /\ pc' = "observe" => batch' = batch /\ at' = at + 1
    BY <1>6 DEF ObserveSuccess, ClearCount, NextResult
  <2>2. \A s \in Sigs : stuckFails'[s] >= StuckNudge => s \in nudged'
    BY <1>0, <2>1, BudgetsAssumption DEF StuckInv
  <2>3. ASSUME pc' = "observe", NEW s \in nudged'
        PROVE  s \in seen' \/ \E i \in 1..(at' - 1) : batch'[i] = s
    BY <1>0, <2>1, <2>3 DEF StuckInv
  <2> QED BY <2>1, <2>2, <2>3 DEF StuckInv, NudgedBeforeAbort
<1>7. CASE ObserveFailure
  <2> DEFINE s == batch[at]
  <2>1. /\ pc = "observe" /\ s \in Sigs /\ UNCHANGED seen
        /\ stuckFails' = [stuckFails EXCEPT ![s] = @ + 1]
        /\ nudged' = IF stuckFails[s] + 1 = StuckNudge THEN nudged \cup {s} ELSE nudged
    BY <1>0, <1>7 DEF ObserveFailure, Nudge
  <2>2. \A u \in Sigs : stuckFails'[u] >= StuckNudge => u \in nudged'
    BY <1>0, <2>1, BudgetsAssumption, SMTT(60) DEF StuckInv
  <2>3. CASE NextResult /\ UNCHANGED result
    <3>1. /\ pc' \in {"head", "observe"}
          /\ pc' = "observe" => batch' = batch /\ at' = at + 1
      BY <2>3 DEF NextResult
    <3>2. ASSUME pc' = "observe", NEW u \in nudged'
          PROVE  u \in seen' \/ \E i \in 1..(at' - 1) : batch'[i] = u
      BY <1>0, <2>1, <3>1, <3>2 DEF StuckInv
    <3> QED BY <2>1, <2>2, <2>3, <3>1, <3>2 DEF StuckInv, NudgedBeforeAbort
  <2>4. CASE stuckFails[s] + 1 >= StuckAbort /\ Return("stuck") /\ UNCHANGED <<at, batch, call>>
    <3>1. s \in nudged
      BY <1>0, <2>1, <2>4, BudgetsAssumption DEF StuckInv
    <3>2. s \in seen \/ \E i \in 1..(at - 1) : batch[i] = s
      BY <2>1, <3>1 DEF StuckInv
    <3>3. NudgedBeforeAbort'
      BY <1>0, <2>1, <2>4, <3>2 DEF NudgedBeforeAbort
    <3> QED BY <2>2, <2>4, <3>3 DEF Return, StuckInv
  <2> QED BY <1>7, <2>3, <2>4 DEF ObserveFailure
<1>8. CASE Verify \/ CheckContract \/ NoContract \/ SelfEvaluate
  BY <1>8, <1>u DEF Verify, CheckContract, NoContract, SelfEvaluate, Correct, registryVars
<1>9. CASE Critique
  <2>1. /\ Correct \/ pc' = "answer"
        /\ UNCHANGED <<stuckVars, result, registryVars>> /\ pc = "critique"
    BY <1>9, Zenon DEF Critique
  <2> QED BY <1>u, <2>1 DEF Correct, registryVars
<1>10. CASE RegistryStep /\ UNCHANGED loopVars
  <2>1. UNCHANGED batch
    BY <1>10, CallKeepsBatch DEF RegistryStep, ClientStep, ClientStarts, ClientEnds, Tick, TypeInv
  <2> QED BY <1>10, <1>u, <2>1 DEF loopVars
<1>11. CASE UNCHANGED vars
  BY <1>11, <1>u DEF vars, loopVars, registryVars
<1> QED BY <1>1, <1>2, <1>3, <1>4, <1>5, <1>6, <1>7, <1>8, <1>9, <1>10, <1>11
        DEF Next, LoopStep

\* The loop gives up on a repeated call only after the model was told, for any
\* thresholds with the nudge before the abort.
THEOREM ModelIsWarnedFirst == Spec => []NudgedBeforeAbort
<1>1. TypeInv /\ StuckInv /\ [Next]_vars => (TypeInv /\ StuckInv)'
  BY NextTypes, NextStuck
<1>2. StuckInv => NudgedBeforeAbort
  BY DEF StuckInv
<1> QED BY InitTypes, InitStuck, <1>1, <1>2, PTL DEF Spec

-----------------------------------------------------------------------------
(* Why the loop ends *)

\* What a round is worth.
LEMMA RoundIsWorthMore ==
  ASSUME NEW r \in Nat, NEW k \in Nat
  PROVE  (r + 1) * k = r * k + k /\ r * k \in Nat
OBVIOUS

\* A place is what a round leaves room for.
PlacesInv ==
  /\ RoundsLeft \in Nat /\ PlacesLeft \in Nat /\ StepsLeft \in Nat
  /\ pc = "observe" => Len(batch) - at \in 0..(MaxBatch - 1)

\* These are numbers.
LEMMA PlacesAreNumbers == TypeInv => PlacesInv
<1> SUFFICES ASSUME TypeInv PROVE PlacesInv
  OBVIOUS
<1>1. RoundsLeft \in Nat
  BY BudgetsAssumption DEF TypeInv, LoopTypeOK, RoundsLeft
<1>2. MaxBatch + 5 \in Nat /\ MaxBatch >= 1
  BY BatchAssumption
<1>3. pc = "observe" => Len(batch) - at \in 0..(MaxBatch - 1)
  <2>1. Len(batch) \in Nat /\ Len(batch) <= MaxBatch
    BY BatchLength, BatchAssumption DEF TypeInv, BatchTypeOK, Positions
  <2> QED BY <2>1, BatchAssumption DEF TypeInv, LoopTypeOK
<1>4. PlacesLeft \in Nat
  <2>1. CASE pc = "observe"
    <3>1. PlacesLeft = Len(batch) - at + 8
      BY <2>1 DEF PlacesLeft
    <3> QED BY <1>2, <1>3, <2>1, <3>1
  <2>2. CASE pc # "observe"
    BY <2>2, BatchAssumption DEF PlacesLeft
  <2> QED BY <2>1, <2>2
<1>5. StepsLeft \in Nat
  <2>1. RoundsLeft * (MaxBatch + 5) \in Nat
    BY <1>1, <1>2, RoundIsWorthMore
  <2> QED BY <1>4, <2>1 DEF StepsLeft
<1> QED BY <1>1, <1>3, <1>4, <1>5 DEF PlacesInv

\* They are after a step.
LEMMA PlacesStayNumbers == TypeInv' => PlacesInv'
BY PlacesAreNumbers, PTL

\* The end is nearer when the run is over, after a step in the same round to an earlier
\* place, and after any step that pays for another round.
Nearer ==
  \/ pc' = "done" /\ PlacesLeft > 0
  \/ pc' # "done" /\ RoundsLeft' = RoundsLeft /\ PlacesLeft' < PlacesLeft
  \/ pc' # "done" /\ RoundsLeft' = RoundsLeft - 1 /\ PlacesLeft' < PlacesLeft + (MaxBatch + 5)

\* Then there are fewer steps left.
LEMMA NearerTheEnd ==
  ASSUME TypeInv, TypeInv', pc # "done", Nearer
  PROVE  StepsLeft' < StepsLeft
<1> DEFINE k == MaxBatch + 5
           now == RoundsLeft * k
           then == RoundsLeft' * k
<1>1. /\ RoundsLeft \in Nat /\ PlacesLeft \in Nat /\ k \in Nat
      /\ RoundsLeft' \in Nat /\ PlacesLeft' \in Nat
  BY PlacesAreNumbers, PlacesStayNumbers, BatchAssumption DEF PlacesInv
<1>2. /\ now \in Nat /\ then \in Nat
      /\ StepsLeft = now + PlacesLeft
      /\ pc' # "done" => StepsLeft' = then + PlacesLeft'
      /\ pc' = "done" => StepsLeft' = 0
  BY <1>1, RoundIsWorthMore DEF StepsLeft
<1>3. RoundsLeft' = RoundsLeft => then = now
  OBVIOUS
<1>4. RoundsLeft' = RoundsLeft - 1 => now = then + k
  <2> SUFFICES ASSUME RoundsLeft' = RoundsLeft - 1 PROVE now = then + k
    OBVIOUS
  <2>1. RoundsLeft = RoundsLeft' + 1
    BY <1>1
  <2> QED BY <1>1, <2>1, RoundIsWorthMore
<1>5. \/ pc' = "done" /\ PlacesLeft > 0
      \/ pc' # "done" /\ RoundsLeft' = RoundsLeft /\ PlacesLeft' < PlacesLeft
      \/ pc' # "done" /\ RoundsLeft' = RoundsLeft - 1 /\ PlacesLeft' < PlacesLeft + k
  BY DEF Nearer
<1> HIDE DEF k, now, then
<1> QED BY <1>1, <1>2, <1>3, <1>4, <1>5

\* Every action of the loop.
LEMMA LoopStepIsCharged ==
  ASSUME TypeInv, TypeInv', LoopStep
  PROVE  StepsLeft' < StepsLeft
<1>0. pc # "done"
  BY DEF LoopStep, HeadStops, HeadContinues, ThinkFails, ThinkAnswers, ThinkActs, BatchReturns,
     ObserveSuccess, ObserveFailure, Verify, CheckContract, NoContract, SelfEvaluate, Critique,
     Answer
<1> SUFFICES Nearer
  BY <1>0, NearerTheEnd
<1>1. /\ iteration \in Nat /\ corrections \in Nat /\ MaxLoops \in Nat /\ MaxCorrections \in Nat
      /\ MaxBatch \in Nat /\ MaxBatch >= 1
  BY BudgetsAssumption, BatchAssumption DEF TypeInv, LoopTypeOK
<1>2. /\ pc = "observe" => Len(batch) - at \in 0..(MaxBatch - 1)
      /\ pc' = "observe" => Len(batch') - at' \in 0..(MaxBatch - 1)
  BY PlacesAreNumbers, PlacesStayNumbers DEF PlacesInv
<1>3. at \in Nat /\ Len(batch) \in Nat
  BY BatchLength, BatchAssumption DEF TypeInv, LoopTypeOK, BatchTypeOK, Positions
<1>a. ASSUME pc' = "done", pc # "done"
      PROVE  Nearer
  <2>1. pc \in {"head", "think", "act", "observe", "verify", "contract", "selfeval",
                "critique", "answer"}
    BY <1>a DEF TypeInv, LoopTypeOK
  <2>2. PlacesLeft > 0
    BY <1>1, <1>2, <2>1 DEF PlacesLeft
  <2> QED BY <1>a, <2>2 DEF Nearer
<1>b. ASSUME Correct, UNCHANGED iteration,
             pc \in {"verify", "contract", "selfeval", "critique"}
      PROVE  Nearer
  <2>1. RoundsLeft' = RoundsLeft - 1
    BY <1>1, <1>b DEF Correct, RoundsLeft
  <2>2. PlacesLeft' = 7 /\ PlacesLeft >= 2 /\ PlacesLeft \in Nat
    BY <1>b DEF Correct, PlacesLeft
  <2> QED BY <1>1, <1>b, <2>1, <2>2 DEF Correct, Nearer
<1>c. ASSUME UNCHANGED <<iteration, corrections>>,
             \/ pc = "head" /\ pc' = "think"
             \/ pc = "think" /\ pc' = "verify"
             \/ pc = "act" /\ pc' = "observe"
             \/ pc = "observe" /\ pc' = "head"
             \/ pc = "observe" /\ pc' = "observe" /\ at' = at + 1 /\ batch' = batch
             \/ pc = "verify" /\ pc' = "contract"
             \/ pc = "contract" /\ pc' \in {"selfeval", "answer"}
             \/ pc = "selfeval" /\ pc' \in {"critique", "answer"}
             \/ pc = "critique" /\ pc' = "answer"
      PROVE  Nearer
  <2>1. RoundsLeft' = RoundsLeft
    BY <1>c DEF RoundsLeft
  <2>2. PlacesLeft' < PlacesLeft
    <3>1. CASE pc = "observe" /\ pc' = "head"
      <4>1. PlacesLeft = (Len(batch) - at) + 8 /\ PlacesLeft' = 7
        BY <3>1 DEF PlacesLeft
      <4> QED BY <1>2, <3>1, <4>1
    <3>2. CASE pc = "observe" /\ pc' = "observe"
      <4>1. PlacesLeft = Len(batch) - at + 8 /\ PlacesLeft' = Len(batch) - (at + 1) + 8
        BY <1>c, <3>2 DEF PlacesLeft
      <4> QED BY <1>3, <4>1
    <3>3. CASE pc = "act" /\ pc' = "observe"
      <4>1. PlacesLeft = MaxBatch + 8 /\ PlacesLeft' = (Len(batch') - at') + 8
        BY <3>3 DEF PlacesLeft
      <4> QED BY <1>1, <1>2, <3>3, <4>1
    <3> QED BY <1>1, <1>c, <3>1, <3>2, <3>3 DEF PlacesLeft
  <2> QED BY <1>c, <2>1, <2>2 DEF Nearer
<1> USE DEF budgetVars
<1>4. CASE HeadStops \/ HeadContinues
  BY <1>4, <1>a, <1>c DEF HeadStops, HeadContinues, Return
<1>5. CASE ThinkFails \/ ThinkAnswers
  BY <1>5, <1>a, <1>c DEF ThinkFails, ThinkAnswers, Return
<1>6. CASE \E b \in Batches : ThinkActs(b)
  <2>1. pc = "think" /\ pc' = "act" /\ iteration' = iteration + 1 /\ UNCHANGED corrections
    BY <1>6 DEF ThinkActs
  <2>2. RoundsLeft' = RoundsLeft - 1 /\ PlacesLeft' = MaxBatch + 8 /\ PlacesLeft = 6
    BY <1>1, <2>1 DEF RoundsLeft, PlacesLeft
  <2> QED BY <1>1, <2>1, <2>2 DEF Nearer
<1>7. CASE BatchReturns
  BY <1>7, <1>c DEF BatchReturns
<1>8. CASE ObserveSuccess \/ ObserveFailure
  <2>1. pc = "observe" /\ UNCHANGED <<iteration, corrections>>
    BY <1>8 DEF ObserveSuccess, ObserveFailure
  <2>2. CASE NextResult
    <3>1. pc' \in {"head", "observe"} /\ (pc' = "observe" => at' = at + 1 /\ batch' = batch)
      BY <2>2 DEF NextResult
    <3> QED BY <1>c, <2>1, <3>1
  <2>3. CASE pc' = "done"
    BY <1>a, <2>1, <2>3
  <2> QED BY <1>8, <2>2, <2>3 DEF ObserveSuccess, ObserveFailure, Return
<1>9. CASE Verify
  BY <1>9, <1>b, <1>c DEF Verify
<1>10. CASE CheckContract
  BY <1>10, <1>b, <1>c DEF CheckContract
<1>11. CASE NoContract
  BY <1>11, <1>c DEF NoContract
<1>12. CASE SelfEvaluate
  BY <1>12, <1>b, <1>c DEF SelfEvaluate
<1>13. CASE Critique
  <2>1. /\ Correct \/ (pc' = "answer" /\ UNCHANGED corrections)
        /\ UNCHANGED iteration /\ pc = "critique"
    BY <1>13, Zenon DEF Critique
  <2> QED BY <1>b, <1>c, <2>1
<1>14. CASE Answer
  BY <1>14, <1>a DEF Answer, Return
<1> QED BY <1>4, <1>5, <1>6, <1>7, <1>8, <1>9, <1>10, <1>11, <1>12, <1>13, <1>14 DEF LoopStep

\* A run of the loop takes no more steps than its budgets pay for, whatever the model, the
\* tools, the checks and the critics answer: what LoopEnds rests on beside fairness.
THEOREM RunsAreBounded ==
  Spec => /\ EveryStepIsCharged
          /\ [](StepsLeft \in 0..((MaxLoops + MaxCorrections) * (MaxBatch + 5) + 7))
<1> DEFINE Bound == (MaxLoops + MaxCorrections) * (MaxBatch + 5) + 7
           Charged == IF LoopStep THEN StepsLeft' < StepsLeft ELSE StepsLeft' = StepsLeft
<1>1. TypeInv => StepsLeft \in Nat
  BY PlacesAreNumbers DEF PlacesInv
<1>2. Init => StepsLeft = Bound
  BY BudgetsAssumption DEF Init, StepsLeft, RoundsLeft, PlacesLeft
<1>3. ASSUME TypeInv, TypeInv', [Next]_vars
      PROVE  /\ [Charged]_vars
             /\ StepsLeft' = StepsLeft \/ StepsLeft' < StepsLeft
  <2>1. CASE LoopStep
    BY <1>3, <2>1, LoopStepIsCharged
  <2>2. CASE ~LoopStep /\ Next
    <3>1. CASE RegistryStep /\ UNCHANGED loopVars
      <4>1. UNCHANGED batch
        BY <1>3, <3>1, CallKeepsBatch
           DEF RegistryStep, ClientStep, ClientStarts, ClientEnds, Tick, TypeInv
      <4>2. UNCHANGED <<pc, iteration, corrections, at>>
        BY <3>1 DEF loopVars, budgetVars, stuckVars
      <4> QED BY <2>2, <4>1, <4>2 DEF StepsLeft, RoundsLeft, PlacesLeft
    <3>2. CASE Cancel
      BY <2>2, <3>2
         DEF Cancel, budgetVars, stuckVars, registryVars, StepsLeft, RoundsLeft, PlacesLeft
    <3> QED BY <2>2, <3>1, <3>2 DEF Next
  <2>3. CASE UNCHANGED vars
    BY <2>3 DEF vars, loopVars, registryVars, budgetVars, stuckVars, StepsLeft, RoundsLeft,
       PlacesLeft
  <2> QED BY <1>3, <2>1, <2>2, <2>3
<1> HIDE DEF Bound, Charged
<1>4. Bound \in Nat
  BY BudgetsAssumption, BatchAssumption, RoundIsWorthMore DEF Bound
<1>5. TypeInv /\ StepsLeft <= Bound /\ TypeInv' /\ [Next]_vars =>
        (StepsLeft <= Bound)' /\ [Charged]_vars
  <2>1. Bound' = Bound
    BY DEF Bound
  <2> SUFFICES ASSUME TypeInv, TypeInv', StepsLeft <= Bound, [Next]_vars
               PROVE  StepsLeft' <= Bound /\ [Charged]_vars
    BY <2>1
  <2>2. StepsLeft \in Nat /\ StepsLeft' \in Nat
    BY PlacesAreNumbers, PlacesStayNumbers DEF PlacesInv
  <2> QED BY <1>3, <1>4, <2>2
<1>6. Init => StepsLeft <= Bound
  BY <1>2, <1>4
<1>7. TypeInv /\ StepsLeft <= Bound => StepsLeft \in 0..Bound
  BY <1>1, <1>4
<1>8. Spec => [](StepsLeft \in 0..Bound) /\ [][Charged]_vars
  BY <1>5, <1>6, <1>7, TypesAlways, PTL DEF Spec
<1> QED BY <1>8 DEF Bound, Charged, EveryStepIsCharged

\* A call goes from waiting to its result by steps of its own, never back: no call of a
\* batch is run twice, and a batch has at most three steps for each of its calls.
THEOREM CallsGoForward == Spec => CallsAdvance
<1>1. ASSUME TypeInv, [Next]_vars
      PROVE  [\A i \in Positions : pc = "act" =>
                /\ StatesLeft(i)' <= StatesLeft(i)
                /\ CallStep(i) => StatesLeft(i)' < StatesLeft(i)]_vars
  <2> SUFFICES ASSUME Next, NEW i \in Positions, pc = "act"
               PROVE  /\ StatesLeft(i)' <= StatesLeft(i)
                      /\ CallStep(i) => StatesLeft(i)' < StatesLeft(i)
    BY <1>1
  <2>1. call \in [Positions -> CallStates]
    BY <1>1 DEF TypeInv, BatchTypeOK
  <2>2. ASSUME NEW j \in Positions, CallStep(j)
        PROVE  /\ StatesLeft(j)' < StatesLeft(j)
               /\ \A k \in Positions \ {j} : call'[k] = call[k]
    BY <2>1, <2>2 DEF CallStep, Admit, Refuse, ShortCircuit, StartHandler, FinishHandler,
       StatesLeft
  <2>3. StatesLeft(i) \in 0..3
    BY DEF StatesLeft
  <2>4. CASE UNCHANGED call
    <3>1. ~CallStep(i)
      BY <2>2, <2>3, <2>4 DEF StatesLeft
    <3> QED BY <2>3, <2>4, <3>1 DEF StatesLeft
  <2>5. CASE \E j \in Positions : CallStep(j)
    <3>1. PICK j \in Positions : CallStep(j)
      BY <2>5
    <3>2. CASE j = i
      BY <2>2, <2>3, <3>1, <3>2 DEF StatesLeft
    <3>3. CASE j # i
      <4>1. call'[i] = call[i]
        BY <2>2, <3>1, <3>3
      <4>2. ~CallStep(i)
        BY <2>2, <2>3, <4>1 DEF StatesLeft
      <4> QED BY <2>3, <4>1, <4>2 DEF StatesLeft
    <3> QED BY <3>2, <3>3
  <2>6. CASE LoopStep
    BY <2>4, <2>6 DEF LoopStep, HeadStops, HeadContinues, ThinkFails, ThinkAnswers, ThinkActs,
       BatchReturns, ObserveSuccess, ObserveFailure, Verify, CheckContract, NoContract,
       SelfEvaluate, Critique, Answer, registryVars
  <2>7. CASE Cancel \/ (\E c \in Clients : ClientStep(c)) \/ Tick
    BY <2>4, <2>7 DEF Cancel, ClientStep, ClientStarts, ClientEnds, Tick, registryVars
  <2> QED BY <2>5, <2>6, <2>7 DEF Next, RegistryStep
<1> QED BY <1>1, TypesAlways, PTL DEF Spec, CallsAdvance
=============================================================================
