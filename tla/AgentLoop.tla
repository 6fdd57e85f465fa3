------------------------------ MODULE AgentLoop ------------------------------
(***************************************************************************)
(* The ReAct loop: ReActLoop.run of kernel/loop/loop.go with the contract  *)
(* of contract.go, on top of the tool registry. One run of the loop: THINK *)
(* (a model call), ACT (a batch of tools), OBSERVE (their results), until  *)
(* an answer without tool calls has passed its checks or a budget is used  *)
(* up. Model calls, acceptance checks, self-evaluation and critique answer *)
(* arbitrarily; conversation texts are left out.                           *)
(***************************************************************************)
EXTENDS ToolRegistry

CONSTANTS
  MaxLoops,        \* acting turns (DefaultMaxLoops 25)
  MaxCorrections,  \* maxCorrections (8)
  MaxEvalFailures, \* maxEvalFailures (2)
  StuckNudge,      \* failures of one call until the model is told (3)
  StuckAbort       \* failures of one call until the loop gives up (4)

ASSUME BudgetsAssumption ==
  /\ MaxLoops \in Nat /\ MaxCorrections \in Nat /\ MaxEvalFailures \in Nat
  /\ StuckNudge \in Nat \ {0} /\ StuckAbort \in Nat /\ StuckNudge < StuckAbort

VARIABLES
  pc,           \* where the loop is
  turn,         \* "chat" (read-only), "plain", or "contract" (enforceable)
  critiqueOn,   \* selfCritiqueEnabled
  iteration, corrections, evalFailures,
  at,           \* the result of the batch to be observed next
  stuckFails,   \* consecutive failures of each signature
  verdict,      \* the last contract check
  cancelled,    \* ctx.Err() # nil
  result,       \* how the run ended
  nudged,       \* signatures whose nudge is in the conversation
  seen,         \* history: signatures whose nudge the model has read
  verified,     \* completionVerified of the answer at hand, and by what
  checkedAt     \* history: acting turns made when the contract was last checked

budgetVars == <<iteration, corrections, evalFailures>>
runVars == <<turn, critiqueOn>>
stuckVars == <<at, stuckFails, nudged, seen>>
checkVars == <<verdict, checkedAt>>
loopVars == <<pc, runVars, budgetVars, stuckVars, checkVars, cancelled, result, verified>>
vars == <<loopVars, registryVars>>

NoFails == [s \in Sigs |-> 0]
CorrectionsLeft == corrections < MaxCorrections

\* allToolCalls is not empty: every acting turn adds at least one call.
HasActed == iteration > 0

Return(r) ==
  /\ pc' = "done"
  /\ result' = r

\* Seeded fault: a correction round costs nothing.
CorrectForFree ==
  /\ CorrectionsLeft
  /\ UNCHANGED corrections
  /\ pc' = "head"

\* Back to the model with what was wrong with its answer.
Correct ==
  /\ CorrectionsLeft
  /\ corrections' = corrections + 1
  /\ pc' = "head"

-----------------------------------------------------------------------------
(* The head of the loop and THINK *)

\* A cancelled context, the iteration budget or the spend cap ends the run:
\* with the last text of the model if there is one, otherwise with an error.
HeadStops ==
  /\ pc = "head"
  /\ \/ cancelled /\ Return("error")
     \/ ~cancelled /\ \E r \in {"partial", "error"} : Return(r)
  /\ UNCHANGED <<runVars, budgetVars, stuckVars, checkVars, cancelled, verified, registryVars>>

HeadContinues ==
  /\ pc = "head"
  /\ ~cancelled
  /\ iteration < MaxLoops
  /\ pc' = "think"
  /\ UNCHANGED <<runVars, budgetVars, stuckVars, checkVars, cancelled, result, verified,
                 registryVars>>

\* The model call fails, with or without its one retry.
ThinkFails ==
  /\ pc = "think"
  /\ Return("error")
  /\ UNCHANGED <<runVars, budgetVars, stuckVars, checkVars, cancelled, verified, registryVars>>

ThinkAnswers ==
  /\ pc = "think"
  /\ ~cancelled
  /\ pc' = "verify"
  /\ seen' = nudged
  /\ UNCHANGED <<runVars, budgetVars, at, stuckFails, nudged, checkVars, cancelled,
                 result, verified, registryVars>>

ThinkActs(b) ==
  /\ pc = "think"
  /\ ~cancelled
  /\ pc' = "act"
  /\ iteration' = iteration + 1
  /\ seen' = nudged
  /\ StartBatch(b)
  /\ UNCHANGED <<runVars, corrections, evalFailures, at, stuckFails, nudged, checkVars,
                 cancelled, result, verified, breakerVars, client>>

-----------------------------------------------------------------------------
(* ACT and OBSERVE *)

\* DispatchAll returns when every call of the batch has its result.
BatchReturns ==
  /\ pc = "act"
  /\ BatchDone
  /\ pc' = "observe"
  /\ at' = 1
  /\ UNCHANGED <<runVars, budgetVars, stuckFails, nudged, seen, checkVars, cancelled,
                 result, verified, registryVars>>

\* On to the next result, or back to the head after the last one.
NextResult ==
  /\ at' = IF at = Len(batch) THEN 0 ELSE at + 1
  /\ pc' = IF at = Len(batch) THEN "head" ELSE "observe"
  /\ batch' = IF at = Len(batch) THEN <<>> ELSE batch
  /\ call' = IF at = Len(batch) THEN NoCalls ELSE call

\* A success clears the count of its signature.
ClearCount(s) ==
  /\ stuckFails' = [stuckFails EXCEPT ![s] = 0]
  /\ nudged' = nudged \ {s} /\ seen' = seen \ {s}

ObserveSuccess ==
  /\ pc = "observe"
  /\ call[at] = "ok"
  /\ ClearCount(batch[at])
  /\ NextResult
  /\ UNCHANGED <<runVars, budgetVars, checkVars, cancelled, result, verified, breakerVars,
                 client>>

\* A failure is counted; the StuckNudge-th puts a warning in the conversation.
Nudge(s) == IF stuckFails[s] + 1 = StuckNudge THEN nudged \cup {s} ELSE nudged

ObserveFailure ==
  LET s == batch[at] IN
  /\ pc = "observe"
  /\ call[at] = "failed"
  /\ stuckFails' = [stuckFails EXCEPT ![s] = @ + 1]
  /\ nudged' = Nudge(s)
  /\ \/ /\ stuckFails[s] + 1 < StuckAbort
        /\ NextResult
        /\ UNCHANGED result
     \/ /\ stuckFails[s] + 1 >= StuckAbort
        /\ Return("stuck")
        /\ UNCHANGED <<at, batch, call>>
  /\ UNCHANGED <<runVars, budgetVars, seen, checkVars, cancelled, verified, breakerVars, client>>

-----------------------------------------------------------------------------
(* An answer without tool calls: the stop conditions, in their order *)

\* The verification pipeline. A failure counts only while corrections last.
Verify ==
  /\ pc = "verify"
  /\ verified' = "no"
  /\ \/ Correct
     \/ pc' = "contract" /\ UNCHANGED corrections
  /\ UNCHANGED <<runVars, iteration, evalFailures, stuckVars, checkVars, cancelled, result,
                 registryVars>>

\* The acceptance gate: failing checks send the model back while corrections
\* last, passing ones prove completion, and a contract with nothing to check
\* says nothing. Seeded fault: checks that failed once are not run again.
CheckContractOnce ==
  /\ pc = "contract"
  /\ turn = "contract"
  /\ \E v \in IF verdict = "none" THEN {"failing", "empty", "proven"} ELSE {verdict} :
       /\ verdict' = v
       /\ checkedAt' = IF verdict = "none" THEN iteration ELSE checkedAt
       /\ \/ v = "failing" /\ Correct /\ UNCHANGED verified
          \/ v = "proven" /\ verified' = "contract" /\ pc' = "answer" /\ UNCHANGED corrections
          \/ (v = "failing" => ~CorrectionsLeft) /\ v # "proven" /\ pc' = "selfeval"
             /\ UNCHANGED <<verified, corrections>>
  /\ UNCHANGED <<runVars, iteration, evalFailures, stuckVars, cancelled, result,
                 registryVars>>

CheckContract ==
  /\ pc = "contract"
  /\ turn = "contract"
  /\ \E v \in {"failing", "empty", "proven"} :
       /\ verdict' = v
       /\ \/ v = "failing" /\ Correct /\ UNCHANGED verified
          \/ v = "proven" /\ verified' = "contract" /\ pc' = "answer" /\ UNCHANGED corrections
          \/ (v = "failing" => ~CorrectionsLeft) /\ v # "proven" /\ pc' = "selfeval"
             /\ UNCHANGED <<verified, corrections>>
  /\ checkedAt' = iteration
  /\ UNCHANGED <<runVars, iteration, evalFailures, stuckVars, cancelled, result,
                 registryVars>>

\* Without a contract: the text of a read-only turn that called no tools is
\* all there is to it, anything else has to be evaluated.
NoContract ==
  /\ pc = "contract"
  /\ turn # "contract"
  /\ \/ turn = "chat" /\ ~HasActed /\ verified' = "text" /\ pc' = "answer"
     \/ ~(turn = "chat" /\ ~HasActed) /\ UNCHANGED verified /\ pc' = "selfeval"
  /\ UNCHANGED <<runVars, budgetVars, stuckVars, checkVars, cancelled, result,
                 registryVars>>

\* A self-evaluation that cannot run holds the loop open a few times.
EvalRetryLeft == evalFailures < MaxEvalFailures

\* Self-evaluation, skipped when the corrections are used up: then the answer
\* goes out unverified. It says done, or not yet, or it cannot run.
SelfEvaluate ==
  /\ pc = "selfeval"
  /\ \/ ~CorrectionsLeft /\ pc' = "answer" /\ UNCHANGED <<corrections, evalFailures, verified>>
     \/ CorrectionsLeft /\ ~cancelled /\ pc' = "critique" /\ verified' = "opinion"
        /\ UNCHANGED <<corrections, evalFailures>>
     \/ ~cancelled /\ Correct /\ UNCHANGED <<evalFailures, verified>>
     \/ EvalRetryLeft /\ Correct /\ evalFailures' = evalFailures + 1 /\ UNCHANGED verified
     \/ CorrectionsLeft /\ ~EvalRetryLeft /\ pc' = "answer"
        /\ UNCHANGED <<corrections, evalFailures, verified>>
  /\ UNCHANGED <<runVars, iteration, stuckVars, checkVars, cancelled, result, registryVars>>

\* The optional critique of an answer only the model itself vouches for.
Critique ==
  /\ pc = "critique"
  /\ \/ critiqueOn /\ ~cancelled /\ Correct /\ UNCHANGED verified
     \/ pc' = "answer" /\ UNCHANGED <<corrections, verified>>
  /\ UNCHANGED <<runVars, iteration, evalFailures, stuckVars, checkVars, cancelled, result,
                 registryVars>>

\* The answer goes to the caller, as completed only when it was verified.
Completion == IF verified = "no" THEN "unverified" ELSE "completed"

Answer ==
  /\ pc = "answer"
  /\ Return(Completion)
  /\ UNCHANGED <<runVars, budgetVars, stuckVars, checkVars, cancelled, verified, registryVars>>

-----------------------------------------------------------------------------
Cancel ==
  /\ pc # "done"
  /\ ~cancelled
  /\ cancelled' = TRUE
  /\ UNCHANGED <<pc, runVars, budgetVars, stuckVars, checkVars, result, verified, registryVars>>

Init ==
  /\ RegistryInit
  /\ pc = "head"
  /\ turn \in {"chat", "plain", "contract"} /\ critiqueOn \in BOOLEAN
  /\ iteration = 0 /\ corrections = 0 /\ evalFailures = 0
  /\ at = 0 /\ stuckFails = NoFails /\ nudged = {} /\ seen = {}
  /\ verdict = "none" /\ cancelled = FALSE /\ result = "none"
  /\ verified = "no" /\ checkedAt = 0

LoopStep ==
  \/ HeadStops \/ HeadContinues
  \/ ThinkFails \/ ThinkAnswers \/ \E b \in Batches : ThinkActs(b)
  \/ BatchReturns \/ ObserveSuccess \/ ObserveFailure
  \/ Verify \/ CheckContract \/ NoContract \/ SelfEvaluate \/ Critique \/ Answer

Next ==
  \/ LoopStep
  \/ RegistryStep /\ UNCHANGED loopVars
  \/ Cancel

Spec == Init /\ [][Next]_vars

\* Model calls return (they have a deadline), a goroutine of the batch runs,
\* and a handler ends (its context times out after 120 s).
FairSpec ==
  /\ Spec
  /\ WF_vars(LoopStep)
  /\ \A i \in Positions : WF_vars(CallStep(i) /\ UNCHANGED loopVars)

-----------------------------------------------------------------------------
(* Properties *)

Results == {"none", "completed", "unverified", "partial", "stuck", "error"}

TypeOK ==
  /\ RegistryTypeOK
  /\ pc \in {"head", "think", "act", "observe", "verify", "contract", "selfeval",
             "critique", "answer", "done"}
  /\ turn \in {"chat", "plain", "contract"} /\ critiqueOn \in BOOLEAN
  /\ iteration \in 0..MaxLoops /\ corrections \in 0..MaxCorrections
  /\ evalFailures \in 0..MaxEvalFailures
  /\ at \in 0..Len(batch) /\ (pc = "observe" => at > 0)
  /\ stuckFails \in [Sigs -> 0..StuckAbort]
  /\ nudged \subseteq Sigs /\ seen \subseteq Sigs
  /\ verdict \in {"none", "failing", "empty", "proven"}
  /\ cancelled \in BOOLEAN /\ result \in Results
  /\ verified \in {"no", "text", "contract", "opinion"} /\ checkedAt \in 0..MaxLoops

\* What the run reports agrees with the last check of the contract: a run is
\* completed only when the checks were run after its last acting turn and did
\* not fail, and a run that gave up, was cut short or could not be verified
\* never carries a verdict that proves it done (loop.go:301, Result.Verdict is
\* "the final contract check"; the kernel records a success from it).
ResultAgreesWithContract ==
  /\ result = "completed" /\ turn = "contract" =>
       verdict \in {"empty", "proven"} /\ checkedAt = iteration
  /\ result \in {"unverified", "partial", "stuck"} => verdict # "proven"

\* An answer goes out unverified only because a budget for verifying it is
\* used up: the corrections, or the evaluations that could not run.
UnverifiedOnlyWhenBudgetSpent ==
  result = "unverified" => corrections = MaxCorrections \/ evalFailures = MaxEvalFailures

\* The loop aborts on a repeated call only after the model has read, in an
\* earlier round, that the call keeps failing (loop.go:416 "we nudge it to
\* change strategy; after one more repeat we break early") - unless the model
\* put the same call into one batch more than once, where the results that
\* nudge and abort can come together.
NudgedBeforeAbort ==
  result = "stuck" =>
    \/ batch[at] \in seen
    \/ \E i \in 1..Len(batch) : i # at /\ batch[i] = batch[at]

\* Every run ends: acting turns, corrections and evaluations that cannot run
\* are charged to budgets that nothing refills.
LoopEnds == <>(pc = "done")

\* Why it does: how many steps the loop has left at the most. A round, an acting turn or
\* a correction, is charged to a budget before its steps are taken.
RoundsLeft == (MaxLoops - iteration) + (MaxCorrections - corrections)
PlacesLeft ==
  CASE pc = "act" -> MaxBatch + 8
    [] pc = "observe" -> Len(batch) - at + 8
    [] pc = "head" -> 7
    [] pc = "think" -> 6
    [] pc = "verify" -> 5
    [] pc = "contract" -> 4
    [] pc = "selfeval" -> 3
    [] pc = "critique" -> 2
    [] pc = "answer" -> 1
    [] OTHER -> 0
StepsLeft == IF pc = "done" THEN 0 ELSE RoundsLeft * (MaxBatch + 5) + PlacesLeft

\* Every step of the loop brings its end nearer, and nothing else, neither tools nor
\* other clients nor a cancelled context, takes it further away (loop.go:456-475).
EveryStepIsCharged ==
  [][IF LoopStep THEN StepsLeft' < StepsLeft ELSE StepsLeft' = StepsLeft]_vars

\* What a call of a batch has before it.
StatesLeft(i) ==
  CASE call[i] = "waiting" -> 3 [] call[i] = "admitted" -> 2 [] call[i] = "running" -> 1
    [] OTHER -> 0

\* A call only goes forward, by steps of its own, until its batch is observed.
CallsAdvance ==
  [][\A i \in Positions : pc = "act" =>
       /\ StatesLeft(i)' <= StatesLeft(i)
       /\ CallStep(i) => StatesLeft(i)' < StatesLeft(i)]_vars

=============================================================================
