---------------------------- MODULE ChatTurnsProofs ----------------------------
(***************************************************************************)
(* Proofs about ChatTurns, for any number of turns, plans and passes, any  *)
(* projects, and any turns allowed to overlap.                             *)
(***************************************************************************)
EXTENDS ChatTurns, TLAPS

USE DEF GoTo, turnVars

-----------------------------------------------------------------------------
(* The parts of the invariant *)

\* Plans are numbered as they are made; a plan that was run or rejected, or is
\* about to run, is not pending, and never will be again.
PlansNumbered ==
  /\ pending.plan <= made
  /\ \A t \in Turns : hand[t] <= made
  /\ \A g \in Plans : ranBy[g] # {} \/ g \in rejected => g <= made /\ pending.plan # g
  /\ \A t \in Turns : pc[t] \in {"run", "loop"} => pending.plan # hand[t]

\* A turn that is not marked as overlapping is the only one.
Alone == \A t \in Live \ overlapped : Live = {t}

\* What a turn on its own hears is what the user was offered.
HeardAsOffered ==
  \A t \in Turns :
    /\ pc[t] = "execute" /\ pass[t] = 0 /\ t \notin overlapped => pending.plan = offered[t]
    /\ pc[t] = "approve" \/ (policy = "always" /\ pc[t] = "run") =>
         /\ said[t] = "approve" /\ pass[t] = 0
         /\ t \notin overlapped => hand[t] = offered[t]

\* A plan in the hands of a turn on its own was not decided on before, and one
\* that such a turn ran is in nobody's hands.
HandsFresh ==
  \A t \in Turns \ overlapped :
    hand[t] # 0 => ranBy[hand[t]] = {} /\ hand[t] \notin rejected
RunsFinal ==
  \A g \in Plans : \A t \in ranBy[g] \ overlapped :
    ranBy[g] = {t} /\ g \notin rejected /\ \A u \in Turns : hand[u] # g
DecidedOnce == HandsFresh /\ RunsFinal

\* A proposal ends what a turn on its own does.
ProposalEnds ==
  /\ \A t \in Turns : ticked[t] => pc[t] = "leave"
  /\ \A t \in Turns : pc[t] = "new" => first[t] = "none"
  /\ \A t \in Live \ overlapped :
       first[t] = "proposal" =>
         /\ pass[t] = 0 /\ ~ticked[t]
         /\ pc[t] \in {"returned", "conclude", "leave"}
         /\ pc[t] = "returned" => pending.plan # 0 /\ pending.fresh

\* Documents in the kernel belong to a turn that is still at work.
GuidanceHeld ==
  /\ GuidanceIsOwn
  /\ guidance # None => \E u \in Live : project[u] # None

\* A graph that was saved, or waits to be, was run in a project that fits, by
\* overlapping turns, or by a turn on its own that will save it.
LeftOver(g) == None \in home[g] \/ \E u \in overlapped : u \in ranBy[g]
SavedOwned ==
  \A t \in Turns : saved[t] # 0 =>
    pc[t] = "leave" /\ (LeftOver(saved[t]) \/ project[t] \in home[saved[t]])
Owes(u) ==
  /\ pc[u] # "leave"
  /\ pc[u] \in {"returned", "complete", "finish", "conclude"} \/ pass[u] > 0
LastOwned ==
  lastRun # 0 => LeftOver(lastRun) \/
    \E u \in Live \ overlapped :
      /\ u \in ranBy[lastRun] /\ project[u] \in home[lastRun]
      /\ Owes(u)

\* TypeOK in three parts.
PendingOK ==
  /\ pending \in [plan : 0..MaxPlans, fresh : BOOLEAN] /\ (pending.plan = 0 => pending.fresh)
  /\ made \in 0..MaxPlans
TurnsOK ==
  /\ pc \in [Turns -> Places] /\ pass \in [Turns -> 0..MaxPasses]
  /\ said \in [Turns -> {"nothing", "approve", "reject", "revise"}]
  /\ hand \in [Turns -> 0..MaxPlans]
  /\ \A t \in Turns : hand[t] # 0 <=> pc[t] \in {"approve", "reject", "revise", "run", "loop"}
OthersOK ==
  /\ policy \in Policies
  /\ lastRun \in 0..MaxPlans
  /\ guidance \in Projects \cup {None} /\ saved \in [Turns -> 0..MaxPlans]
  /\ mode \in [Turns -> {"readonly", "loop", "plain"}]
  /\ project \in [Turns -> Projects \cup {None}]
  /\ ticked \in [Turns -> BOOLEAN]
  /\ first \in [Turns -> {"none", "failed", "proposal", "answer"}]
  /\ offered \in [Turns -> 0..MaxPlans] /\ rejected \subseteq Plans
  /\ ranBy \in [Plans -> SUBSET Turns] /\ overlapped \subseteq Turns
  /\ home \in [Plans -> SUBSET (Projects \cup {None})]

LEMMA TypeInParts == TypeOK <=> PendingOK /\ TurnsOK /\ OthersOK
BY DEF TypeOK, PendingOK, TurnsOK, OthersOK

LEMMA StepKeepsPending ==
  ASSUME PendingOK, TurnsOK, [Next]_vars
  PROVE  PendingOK'
<1> USE BoundsAssumption DEF PendingOK, NoPlan
<1>1. ASSUME NEW t \in Turns, Begin(t) PROVE PendingOK'
  BY <1>1 DEF Begin
<1>2. ASSUME NEW t \in Turns, Refused(t) PROVE PendingOK'
  BY <1>2 DEF Refused, Fail
<1>3. ASSUME NEW t \in Turns, TakePending(t) PROVE PendingOK'
  BY <1>3 DEF TakePending, Heard
<1>4. ASSUME NEW t \in Turns, NoPending(t) PROVE PendingOK'
  <2>1. made' = made /\ (pending' = pending \/ pending' = NoPlan)
    BY <1>4 DEF NoPending
  <2>2. CASE pending' = pending
    BY <2>1, <2>2
  <2>3. CASE pending' = NoPlan
    BY <2>1, <2>3
  <2> QED BY <2>1, <2>2, <2>3
<1>5. ASSUME NEW t \in Turns, Approve(t) PROVE PendingOK'
  BY <1>5 DEF Approve, Withdrawn
<1>6. ASSUME NEW t \in Turns, Reject(t) PROVE PendingOK'
  BY <1>6 DEF Reject, Withdrawn, Return
<1>7. ASSUME NEW t \in Turns, Revise(t) PROVE PendingOK'
  <2>1. CASE Propose(t)
    BY <2>1 DEF Propose
  <2>2. CASE UNCHANGED <<made, pending>>
    BY <2>2
  <2> QED BY <1>7, <2>1, <2>2 DEF Revise
<1>8. ASSUME NEW t \in Turns, Answer(t) PROVE PendingOK'
  BY <1>8 DEF Answer, Return, Fail
<1>9. ASSUME NEW t \in Turns, ProposePlan(t) PROVE PendingOK'
  BY <1>9 DEF ProposePlan, Propose, Return
<1>10. ASSUME NEW t \in Turns, StartPlan(t) PROVE PendingOK'
  BY <1>10 DEF StartPlan, ApprovalRequired
<1>11. ASSUME NEW t \in Turns, PlanEnds(t) PROVE PendingOK'
  BY <1>11 DEF PlanEnds, Return, Fail
<1>12. ASSUME NEW t \in Turns, AfterExecute(t) PROVE PendingOK'
  BY <1>12 DEF AfterExecute, Awaiting
<1>13. ASSUME NEW t \in Turns, Correct(t) PROVE PendingOK'
  BY <1>13 DEF Correct, PassLeft
<1>14. ASSUME NEW t \in Turns, Finish(t) PROVE PendingOK'
  BY <1>14 DEF Finish, SaveGraph, Consumed
<1>15. ASSUME NEW t \in Turns, Conclude(t) PROVE PendingOK'
  BY <1>15 DEF Conclude, SaveGraph, Consumed
<1>16. ASSUME NEW t \in Turns, Leave(t) PROVE PendingOK'
  BY <1>16 DEF Leave, ClearedGuidance
<1>17. CASE Expire
  BY <1>17 DEF Expire
<1>18. CASE UNCHANGED vars
  BY <1>18 DEF vars
<1> QED
  BY <1>1, <1>2, <1>3, <1>4, <1>5, <1>6, <1>7, <1>8, <1>9, <1>10,
     <1>11, <1>12, <1>13, <1>14, <1>15, <1>16, <1>17, <1>18
  DEF Next, TurnStep, Gate, Work, Handler

LEMMA StepKeepsTurns ==
  ASSUME PendingOK, TurnsOK, [Next]_vars
  PROVE  TurnsOK'
<1> USE BoundsAssumption DEF PendingOK, TurnsOK, NoPlan, Places
<1>1. ASSUME NEW t \in Turns, Begin(t) PROVE TurnsOK'
  BY <1>1 DEF Begin
<1>2. ASSUME NEW t \in Turns, Refused(t) PROVE TurnsOK'
  BY <1>2 DEF Refused, Fail
<1>3. ASSUME NEW t \in Turns, TakePending(t) PROVE TurnsOK'
  BY <1>3 DEF TakePending, Heard
<1>4. ASSUME NEW t \in Turns, NoPending(t) PROVE TurnsOK'
  BY <1>4 DEF NoPending
<1>5. ASSUME NEW t \in Turns, Approve(t) PROVE TurnsOK'
  BY <1>5 DEF Approve, Withdrawn
<1>6. ASSUME NEW t \in Turns, Reject(t) PROVE TurnsOK'
  BY <1>6 DEF Reject, Withdrawn, Return
<1>7. ASSUME NEW t \in Turns, Revise(t) PROVE TurnsOK'
  BY <1>7, SMTT(60) DEF Revise, Propose, Return
<1>8. ASSUME NEW t \in Turns, Answer(t) PROVE TurnsOK'
  BY <1>8 DEF Answer, Return, Fail
<1>9. ASSUME NEW t \in Turns, ProposePlan(t) PROVE TurnsOK'
  BY <1>9 DEF ProposePlan, Propose, Return
<1>10. ASSUME NEW t \in Turns, StartPlan(t) PROVE TurnsOK'
  BY <1>10 DEF StartPlan, ApprovalRequired
<1>11. ASSUME NEW t \in Turns, PlanEnds(t) PROVE TurnsOK'
  BY <1>11 DEF PlanEnds, Return, Fail
<1>12. ASSUME NEW t \in Turns, AfterExecute(t) PROVE TurnsOK'
  BY <1>12 DEF AfterExecute, Awaiting
<1>13. ASSUME NEW t \in Turns, Correct(t) PROVE TurnsOK'
  BY <1>13 DEF Correct, PassLeft
<1>14. ASSUME NEW t \in Turns, Finish(t) PROVE TurnsOK'
  BY <1>14 DEF Finish, SaveGraph, Consumed
<1>15. ASSUME NEW t \in Turns, Conclude(t) PROVE TurnsOK'
  BY <1>15 DEF Conclude, SaveGraph, Consumed
<1>16. ASSUME NEW t \in Turns, Leave(t) PROVE TurnsOK'
  BY <1>16 DEF Leave, ClearedGuidance
<1>17. CASE Expire
  BY <1>17 DEF Expire
<1>18. CASE UNCHANGED vars
  BY <1>18 DEF vars
<1> QED
  BY <1>1, <1>2, <1>3, <1>4, <1>5, <1>6, <1>7, <1>8, <1>9, <1>10,
     <1>11, <1>12, <1>13, <1>14, <1>15, <1>16, <1>17, <1>18
  DEF Next, TurnStep, Gate, Work, Handler

LEMMA StepKeepsOthers ==
  ASSUME PendingOK, TurnsOK, OthersOK, [Next]_vars
  PROVE  OthersOK'
<1> USE BoundsAssumption, ProjectsAssumption DEF PendingOK, TurnsOK, OthersOK, Plans, Live
<1>1. ASSUME NEW t \in Turns, Begin(t) PROVE OthersOK'
  BY <1>1, SMTT(60) DEF Begin
<1>2. ASSUME NEW t \in Turns, Refused(t) PROVE OthersOK'
  BY <1>2 DEF Refused, Fail
<1>3. ASSUME NEW t \in Turns, TakePending(t) PROVE OthersOK'
  BY <1>3 DEF TakePending, Heard
<1>4. ASSUME NEW t \in Turns, NoPending(t) PROVE OthersOK'
  BY <1>4 DEF NoPending
<1>5. ASSUME NEW t \in Turns, Approve(t) PROVE OthersOK'
  BY <1>5 DEF Approve, Withdrawn
<1>6. ASSUME NEW t \in Turns, Reject(t) PROVE OthersOK'
  <2>1. /\ offered' \in [Turns -> 0..MaxPlans]
        /\ first' \in [Turns -> {"none", "failed", "proposal", "answer"}]
    BY <1>6 DEF Reject, Return
  <2>2. rejected \subseteq Plans /\ hand[t] \in Plans /\ rejected' = rejected \cup {hand[t]}
    BY <1>6 DEF Reject
  <2>3. rejected' \subseteq Plans
    BY <2>2, Zenon
  <2> QED BY <1>6, <2>1, <2>3 DEF Reject
<1>7. ASSUME NEW t \in Turns, Revise(t) PROVE OthersOK'
  <2>1. PICK what \in {"proposal", "answer"} : Return(t, what)
    BY <1>7 DEF Revise, Propose
  <2>2. /\ offered' \in [Turns -> 0..MaxPlans]
        /\ first' \in [Turns -> {"none", "failed", "proposal", "answer"}]
    BY <2>1 DEF Return
  <2> QED BY <1>7, <2>2 DEF Revise
<1>8. ASSUME NEW t \in Turns, Answer(t) PROVE OthersOK'
  <2>1. CASE Return(t, "answer")
    BY <1>8, <2>1 DEF Answer, Return
  <2>2. CASE Fail(t)
    BY <1>8, <2>2 DEF Answer, Fail
  <2> QED BY <1>8, <2>1, <2>2 DEF Answer
<1>9. ASSUME NEW t \in Turns, ProposePlan(t) PROVE OthersOK'
  BY <1>9 DEF ProposePlan, Propose, Return
<1>10. ASSUME NEW t \in Turns, StartPlan(t) PROVE OthersOK'
  BY <1>10 DEF StartPlan, ApprovalRequired
<1>11. ASSUME NEW t \in Turns, PlanEnds(t) PROVE OthersOK'
  <2>1. /\ offered' \in [Turns -> 0..MaxPlans]
        /\ first' \in [Turns -> {"none", "failed", "proposal", "answer"}]
    <3>1. CASE Return(t, "answer")
      BY <3>1 DEF Return
    <3>2. CASE Fail(t)
      BY <3>2 DEF Fail
    <3> QED BY <1>11, <3>1, <3>2 DEF PlanEnds
  <2>2. lastRun' \in 0..MaxPlans
    BY <1>11 DEF PlanEnds
  <2>3. ranBy' \in [Plans -> SUBSET Turns]
    BY <1>11 DEF PlanEnds
  <2>4. home' \in [Plans -> SUBSET (Projects \cup {None})]
    BY <1>11 DEF PlanEnds
  <2> QED BY <1>11, <2>1, <2>2, <2>3, <2>4 DEF PlanEnds
<1>12. ASSUME NEW t \in Turns, AfterExecute(t) PROVE OthersOK'
  BY <1>12 DEF AfterExecute, Awaiting
<1>13. ASSUME NEW t \in Turns, Correct(t) PROVE OthersOK'
  BY <1>13 DEF Correct, PassLeft
<1>14. ASSUME NEW t \in Turns, Finish(t) PROVE OthersOK'
  <2>1. lastRun' \in 0..MaxPlans /\ saved' \in [Turns -> 0..MaxPlans]
    BY <1>14 DEF Finish, SaveGraph, Consumed
  <2>2. ticked' \in [Turns -> BOOLEAN]
    <3>1. (project[t] # None) \in BOOLEAN
      OBVIOUS
    <3>2. [ticked EXCEPT ![t] = project[t] # None] \in [Turns -> BOOLEAN]
      BY <3>1, Zenon
    <3> QED BY <1>14, <3>2 DEF Finish
  <2> QED BY <1>14, <2>1, <2>2 DEF Finish
<1>15. ASSUME NEW t \in Turns, Conclude(t) PROVE OthersOK'
  BY <1>15, SMTT(60) DEF Conclude, SaveGraph, Consumed
<1>16. ASSUME NEW t \in Turns, Leave(t) PROVE OthersOK'
  BY <1>16 DEF Leave, ClearedGuidance
<1>17. CASE Expire
  BY <1>17 DEF Expire
<1>18. CASE UNCHANGED vars
  BY <1>18 DEF vars
<1> QED
  BY <1>1, <1>2, <1>3, <1>4, <1>5, <1>6, <1>7, <1>8, <1>9, <1>10,
     <1>11, <1>12, <1>13, <1>14, <1>15, <1>16, <1>17, <1>18
  DEF Next, TurnStep, Gate, Work, Handler

LEMMA StepKeepsType ==
  ASSUME TypeOK, [Next]_vars
  PROVE  TypeOK'
<1>1. PendingOK' /\ TurnsOK' /\ OthersOK'
  BY TypeInParts, StepKeepsPending, StepKeepsTurns, StepKeepsOthers
<1> QED BY <1>1 DEF TypeOK, PendingOK, TurnsOK, OthersOK

LEMMA StepKeepsNumbers ==
  ASSUME TypeOK, PlansNumbered, [Next]_vars
  PROVE  PlansNumbered'
<1> USE BoundsAssumption DEF TypeOK, PlansNumbered, Plans, NoPlan
<1>1. ASSUME NEW t \in Turns, Begin(t) PROVE PlansNumbered'
  BY <1>1 DEF Begin
<1>2. ASSUME NEW t \in Turns, Refused(t) PROVE PlansNumbered'
  BY <1>2 DEF Refused, Fail
<1>3. ASSUME NEW t \in Turns, TakePending(t) PROVE PlansNumbered'
  BY <1>3 DEF TakePending, Heard
<1>4. ASSUME NEW t \in Turns, NoPending(t) PROVE PlansNumbered'
  BY <1>4 DEF NoPending
<1>5. ASSUME NEW t \in Turns, Approve(t) PROVE PlansNumbered'
  BY <1>5 DEF Approve, Withdrawn
<1>6. ASSUME NEW t \in Turns, Reject(t) PROVE PlansNumbered'
  BY <1>6 DEF Reject, Withdrawn, Return
<1>7. ASSUME NEW t \in Turns, Revise(t) PROVE PlansNumbered'
  BY <1>7, SMTT(60) DEF Revise, Propose, Return
<1>8. ASSUME NEW t \in Turns, Answer(t) PROVE PlansNumbered'
  BY <1>8 DEF Answer, Return, Fail
<1>9. ASSUME NEW t \in Turns, ProposePlan(t) PROVE PlansNumbered'
  BY <1>9, SMTT(60) DEF ProposePlan, Propose, Return
<1>10. ASSUME NEW t \in Turns, StartPlan(t) PROVE PlansNumbered'
  BY <1>10, SMTT(60) DEF StartPlan, ApprovalRequired
<1>11. ASSUME NEW t \in Turns, PlanEnds(t) PROVE PlansNumbered'
  BY <1>11 DEF PlanEnds, Return, Fail
<1>12. ASSUME NEW t \in Turns, AfterExecute(t) PROVE PlansNumbered'
  BY <1>12 DEF AfterExecute, Awaiting
<1>13. ASSUME NEW t \in Turns, Correct(t) PROVE PlansNumbered'
  BY <1>13 DEF Correct, PassLeft
<1>14. ASSUME NEW t \in Turns, Finish(t) PROVE PlansNumbered'
  BY <1>14 DEF Finish, SaveGraph, Consumed
<1>15. ASSUME NEW t \in Turns, Conclude(t) PROVE PlansNumbered'
  BY <1>15 DEF Conclude, SaveGraph, Consumed
<1>16. ASSUME NEW t \in Turns, Leave(t) PROVE PlansNumbered'
  BY <1>16 DEF Leave, ClearedGuidance
<1>17. CASE Expire
  BY <1>17 DEF Expire
<1>18. CASE UNCHANGED vars
  BY <1>18 DEF vars
<1> QED
  BY <1>1, <1>2, <1>3, <1>4, <1>5, <1>6, <1>7, <1>8, <1>9, <1>10,
     <1>11, <1>12, <1>13, <1>14, <1>15, <1>16, <1>17, <1>18
  DEF Next, TurnStep, Gate, Work, Handler

LEMMA StepKeepsAlone ==
  ASSUME TypeOK, Alone, [Next]_vars
  PROVE  Alone'
<1> USE BoundsAssumption DEF TypeOK, Alone, Live
<1>1. ASSUME NEW t \in Turns, Begin(t) PROVE Alone'
  BY <1>1 DEF Begin
<1>2. ASSUME NEW t \in Turns, Refused(t) PROVE Alone'
  BY <1>2 DEF Refused, Fail
<1>3. ASSUME NEW t \in Turns, TakePending(t) PROVE Alone'
  BY <1>3 DEF TakePending, Heard
<1>4. ASSUME NEW t \in Turns, NoPending(t) PROVE Alone'
  BY <1>4 DEF NoPending
<1>5. ASSUME NEW t \in Turns, Approve(t) PROVE Alone'
  BY <1>5 DEF Approve, Withdrawn
<1>6. ASSUME NEW t \in Turns, Reject(t) PROVE Alone'
  BY <1>6 DEF Reject, Withdrawn, Return
<1>7. ASSUME NEW t \in Turns, Revise(t) PROVE Alone'
  BY <1>7, SMTT(60) DEF Revise, Propose, Return
<1>8. ASSUME NEW t \in Turns, Answer(t) PROVE Alone'
  BY <1>8 DEF Answer, Return, Fail
<1>9. ASSUME NEW t \in Turns, ProposePlan(t) PROVE Alone'
  BY <1>9 DEF ProposePlan, Propose, Return
<1>10. ASSUME NEW t \in Turns, StartPlan(t) PROVE Alone'
  BY <1>10 DEF StartPlan, ApprovalRequired
<1>11. ASSUME NEW t \in Turns, PlanEnds(t) PROVE Alone'
  BY <1>11 DEF PlanEnds, Return, Fail
<1>12. ASSUME NEW t \in Turns, AfterExecute(t) PROVE Alone'
  BY <1>12 DEF AfterExecute, Awaiting
<1>13. ASSUME NEW t \in Turns, Correct(t) PROVE Alone'
  BY <1>13 DEF Correct, PassLeft
<1>14. ASSUME NEW t \in Turns, Finish(t) PROVE Alone'
  BY <1>14 DEF Finish, SaveGraph, Consumed
<1>15. ASSUME NEW t \in Turns, Conclude(t) PROVE Alone'
  BY <1>15 DEF Conclude, SaveGraph, Consumed
<1>16. ASSUME NEW t \in Turns, Leave(t) PROVE Alone'
  BY <1>16 DEF Leave, ClearedGuidance
<1>17. CASE Expire
  BY <1>17 DEF Expire
<1>18. CASE UNCHANGED vars
  BY <1>18 DEF vars
<1> QED
  BY <1>1, <1>2, <1>3, <1>4, <1>5, <1>6, <1>7, <1>8, <1>9, <1>10,
     <1>11, <1>12, <1>13, <1>14, <1>15, <1>16, <1>17, <1>18
  DEF Next, TurnStep, Gate, Work, Handler

LEMMA StepKeepsHeard ==
  ASSUME TypeOK, Alone, HeardAsOffered, [Next]_vars
  PROVE  HeardAsOffered'
<1> USE BoundsAssumption DEF TypeOK, Alone, HeardAsOffered, Live, NoPlan
<1>1. ASSUME NEW t \in Turns, Begin(t) PROVE HeardAsOffered'
  BY <1>1 DEF Begin
<1>2. ASSUME NEW t \in Turns, Refused(t) PROVE HeardAsOffered'
  BY <1>2 DEF Refused, Fail
<1>3. ASSUME NEW t \in Turns, TakePending(t) PROVE HeardAsOffered'
  BY <1>3 DEF TakePending, Heard
<1>4. ASSUME NEW t \in Turns, NoPending(t) PROVE HeardAsOffered'
  BY <1>4 DEF NoPending
<1>5. ASSUME NEW t \in Turns, Approve(t) PROVE HeardAsOffered'
  BY <1>5 DEF Approve, Withdrawn
<1>6. ASSUME NEW t \in Turns, Reject(t) PROVE HeardAsOffered'
  BY <1>6 DEF Reject, Withdrawn, Return
<1>7. ASSUME NEW t \in Turns, Revise(t) PROVE HeardAsOffered'
  BY <1>7, SMTT(60) DEF Revise, Propose, Return
<1>8. ASSUME NEW t \in Turns, Answer(t) PROVE HeardAsOffered'
  BY <1>8 DEF Answer, Return, Fail
<1>9. ASSUME NEW t \in Turns, ProposePlan(t) PROVE HeardAsOffered'
  BY <1>9 DEF ProposePlan, Propose, Return
<1>10. ASSUME NEW t \in Turns, StartPlan(t) PROVE HeardAsOffered'
  BY <1>10 DEF StartPlan, ApprovalRequired
<1>11. ASSUME NEW t \in Turns, PlanEnds(t) PROVE HeardAsOffered'
  BY <1>11 DEF PlanEnds, Return, Fail
<1>12. ASSUME NEW t \in Turns, AfterExecute(t) PROVE HeardAsOffered'
  BY <1>12 DEF AfterExecute, Awaiting
<1>13. ASSUME NEW t \in Turns, Correct(t) PROVE HeardAsOffered'
  BY <1>13 DEF Correct, PassLeft
<1>14. ASSUME NEW t \in Turns, Finish(t) PROVE HeardAsOffered'
  BY <1>14 DEF Finish, SaveGraph, Consumed
<1>15. ASSUME NEW t \in Turns, Conclude(t) PROVE HeardAsOffered'
  BY <1>15 DEF Conclude, SaveGraph, Consumed
<1>16. ASSUME NEW t \in Turns, Leave(t) PROVE HeardAsOffered'
  BY <1>16 DEF Leave, ClearedGuidance
<1>17. CASE Expire
  BY <1>17 DEF Expire
<1>18. CASE UNCHANGED vars
  BY <1>18 DEF vars
<1> QED
  BY <1>1, <1>2, <1>3, <1>4, <1>5, <1>6, <1>7, <1>8, <1>9, <1>10,
     <1>11, <1>12, <1>13, <1>14, <1>15, <1>16, <1>17, <1>18
  DEF Next, TurnStep, Gate, Work, Handler

\* Of two turns at work both overlap.
LEMMA EmptyHanded ==
  ASSUME TypeOK, Alone, NEW t \in Live, NEW u \in Turns, u # t,
         t \notin overlapped \/ u \notin overlapped
  PROVE  hand[u] = 0
<1> SUFFICES ASSUME hand[u] # 0 PROVE FALSE
  BY DEF TypeOK
<1>1. pc[u] \in {"approve", "reject", "revise", "run", "loop"}
  BY DEF TypeOK
<1>2. u \in Live
  BY <1>1 DEF Live
<1> QED BY <1>2 DEF Alone

\* A plan that ends is recorded as run by its turn, and no other is.
LEMMA RunIsRecorded ==
  ASSUME TypeOK, NEW t \in Turns, PlanEnds(t)
  PROVE  \A g \in Plans : ranBy'[g] = IF g = hand[t] THEN ranBy[g] \cup {t} ELSE ranBy[g]
<1>1. ranBy \in [Plans -> SUBSET Turns]
  BY DEF TypeOK
<1>2. ranBy' = [ranBy EXCEPT ![hand[t]] = @ \cup {t}]
  BY DEF PlanEnds
<1> QED BY <1>1, <1>2

LEMMA StepKeepsDecided ==
  ASSUME TypeOK, Alone, PlansNumbered, DecidedOnce, [Next]_vars
  PROVE  DecidedOnce'
<1> USE BoundsAssumption DEF TypeOK, Alone, PlansNumbered, DecidedOnce, HandsFresh, RunsFinal, Live, Plans, NoPlan
<1>1. ASSUME NEW t \in Turns, Begin(t) PROVE DecidedOnce'
  BY <1>1, SMTT(60) DEF Begin
<1>2. ASSUME NEW t \in Turns, Refused(t) PROVE DecidedOnce'
  BY <1>2 DEF Refused, Fail
<1>3. ASSUME NEW t \in Turns, TakePending(t) PROVE DecidedOnce'
  BY <1>3, SMTT(60) DEF TakePending, Heard
<1>4. ASSUME NEW t \in Turns, NoPending(t) PROVE DecidedOnce'
  BY <1>4 DEF NoPending
<1>5. ASSUME NEW t \in Turns, Approve(t) PROVE DecidedOnce'
  BY <1>5 DEF Approve, Withdrawn
<1>6. ASSUME NEW t \in Turns, Reject(t) PROVE DecidedOnce'
  <2>1. HandsFresh'
    <3>1. \A u \in Turns \ overlapped : u # t => hand[u] = 0
      <4>1. t \in Live
        BY <1>6 DEF Reject
      <4> QED BY <4>1, EmptyHanded
    <3> QED BY <1>6, <3>1 DEF Reject, HandsFresh
  <2>2. RunsFinal'
    <3>1. rejected' = rejected \cup {hand[t]} /\ hand[t] # 0
      BY <1>6 DEF Reject
    <3>2. UNCHANGED <<ranBy, overlapped>> /\ \A u \in Turns : hand'[u] \in {hand[u], 0}
      BY <1>6 DEF Reject
    <3>3. RunsFinal
      OBVIOUS
    <3> QED BY <3>1, <3>2, <3>3, SMTT(60) DEF RunsFinal
  <2> QED BY <2>1, <2>2
<1>7. ASSUME NEW t \in Turns, Revise(t) PROVE DecidedOnce'
  BY <1>7, SMTT(60) DEF Revise, Propose, Return
<1>8. ASSUME NEW t \in Turns, Answer(t) PROVE DecidedOnce'
  BY <1>8 DEF Answer, Return, Fail
<1>9. ASSUME NEW t \in Turns, ProposePlan(t) PROVE DecidedOnce'
  BY <1>9 DEF ProposePlan, Propose, Return
<1>10. ASSUME NEW t \in Turns, StartPlan(t) PROVE DecidedOnce'
  <2>1. HandsFresh'
    <3>1. made + 1 \in Plans /\ ranBy[made + 1] = {} /\ made + 1 \notin rejected
      BY <1>10 DEF StartPlan
    <3> QED BY <1>10, <3>1 DEF StartPlan, HandsFresh
  <2>2. RunsFinal'
    <3>1. \A g \in Plans : ranBy[g] # {} => g # made + 1
      BY <1>10, SMTT(60) DEF StartPlan
    <3> QED BY <1>10, <3>1, SMTT(60) DEF StartPlan, RunsFinal
  <2> QED BY <2>1, <2>2
<1>11. ASSUME NEW t \in Turns, PlanEnds(t) PROVE DecidedOnce'
  <2>1. HandsFresh'
    <3>1. \A u \in Turns \ overlapped : u # t => hand[u] = 0
      <4>1. t \in Live
        BY <1>11 DEF PlanEnds
      <4> QED BY <4>1, EmptyHanded
    <3>2. \A u \in Turns \ overlapped : hand'[u] = 0
      BY <1>11, <3>1 DEF PlanEnds
    <3> QED BY <1>11, <3>2 DEF PlanEnds, HandsFresh
  <2>2. \A g \in Plans : ranBy'[g] = IF g = hand[t] THEN ranBy[g] \cup {t} ELSE ranBy[g]
    BY <1>11, RunIsRecorded, Zenon
  <2>3. RunsFinal'
    <3> SUFFICES ASSUME NEW g \in Plans, NEW v \in ranBy'[g] \ overlapped'
                 PROVE  ranBy'[g] = {v} /\ g \notin rejected' /\ \A u \in Turns : hand'[u] # g
      BY DEF RunsFinal
    <3>1. UNCHANGED <<rejected, overlapped>> /\ \A u \in Turns : hand'[u] = IF u = t THEN 0 ELSE hand[u]
      <4>1. hand' = [hand EXCEPT ![t] = 0] /\ UNCHANGED <<rejected, overlapped>>
        BY <1>11 DEF PlanEnds
      <4> QED BY <4>1
    <3>2. ranBy'[g] = IF g = hand[t] THEN ranBy[g] \cup {t} ELSE ranBy[g]
      BY <2>2
    <3>3. CASE v \in ranBy[g]
      <4>1. ranBy[g] = {v} /\ g \notin rejected /\ \A u \in Turns : hand[u] # g
        BY <3>1, <3>3 DEF RunsFinal
      <4> QED BY <3>1, <3>2, <4>1, SMTT(60)
    <3>4. CASE v \notin ranBy[g]
      <4>1. v = t /\ g = hand[t] /\ t \notin overlapped
        BY <3>1, <3>2, <3>4
      <4>2. ranBy[g] = {} /\ g \notin rejected
        BY <4>1 DEF HandsFresh
      <4>3. t \in Live
        BY <1>11 DEF PlanEnds
      <4>4. \A u \in Turns : u # t => hand[u] = 0
        BY <4>1, <4>3, EmptyHanded
      <4> QED BY <3>1, <3>2, <4>1, <4>2, <4>4
    <3> QED BY <3>3, <3>4
  <2> QED BY <2>1, <2>3
<1>12. ASSUME NEW t \in Turns, AfterExecute(t) PROVE DecidedOnce'
  BY <1>12 DEF AfterExecute, Awaiting
<1>13. ASSUME NEW t \in Turns, Correct(t) PROVE DecidedOnce'
  BY <1>13 DEF Correct, PassLeft
<1>14. ASSUME NEW t \in Turns, Finish(t) PROVE DecidedOnce'
  BY <1>14 DEF Finish, SaveGraph, Consumed
<1>15. ASSUME NEW t \in Turns, Conclude(t) PROVE DecidedOnce'
  BY <1>15 DEF Conclude, SaveGraph, Consumed
<1>16. ASSUME NEW t \in Turns, Leave(t) PROVE DecidedOnce'
  <2>1. \A u \in Turns : hand[u] # 0 => u \in Live \ {t}
    BY <1>16 DEF Leave
  <2>2. \A u \in overlapped : u \notin overlapped' =>
           u \notin Live \ {t} /\ \A g \in Plans : u \notin ranBy'[g]
    BY <1>16 DEF Leave
  <2>3. \A g \in Plans : ranBy'[g] \in {ranBy[g], {}}
    BY <1>16 DEF Leave
  <2>4. rejected' \subseteq rejected /\ hand' = hand
    BY <1>16 DEF Leave
  <2>5. HandsFresh'
    <3> SUFFICES ASSUME NEW u \in Turns \ overlapped', hand'[u] # 0
                 PROVE  ranBy'[hand'[u]] = {} /\ hand'[u] \notin rejected'
      BY DEF HandsFresh
    <3>1. u \notin overlapped /\ hand[u] \in Plans
      BY <2>1, <2>2, <2>4
    <3>2. ranBy[hand[u]] = {} /\ hand[u] \notin rejected
      BY <3>1, <2>4 DEF HandsFresh
    <3> QED BY <2>3, <2>4, <3>1, <3>2
  <2>6. RunsFinal'
    BY <2>2, <2>3, <2>4 DEF RunsFinal
  <2> QED BY <2>5, <2>6
<1>17. CASE Expire
  BY <1>17 DEF Expire
<1>18. CASE UNCHANGED vars
  BY <1>18 DEF vars
<1> QED
  BY <1>1, <1>2, <1>3, <1>4, <1>5, <1>6, <1>7, <1>8, <1>9, <1>10,
     <1>11, <1>12, <1>13, <1>14, <1>15, <1>16, <1>17, <1>18
  DEF Next, TurnStep, Gate, Work, Handler

LEMMA StepKeepsProposals ==
  ASSUME TypeOK, Alone, ProposalEnds, [Next]_vars
  PROVE  ProposalEnds'
<1> USE BoundsAssumption DEF TypeOK, Alone, ProposalEnds, Live, NoPlan
<1>1. ASSUME NEW t \in Turns, Begin(t) PROVE ProposalEnds'
  BY <1>1 DEF Begin
<1>2. ASSUME NEW t \in Turns, Refused(t) PROVE ProposalEnds'
  BY <1>2 DEF Refused, Fail
<1>3. ASSUME NEW t \in Turns, TakePending(t) PROVE ProposalEnds'
  BY <1>3 DEF TakePending, Heard
<1>4. ASSUME NEW t \in Turns, NoPending(t) PROVE ProposalEnds'
  BY <1>4 DEF NoPending
<1>5. ASSUME NEW t \in Turns, Approve(t) PROVE ProposalEnds'
  BY <1>5 DEF Approve, Withdrawn
<1>6. ASSUME NEW t \in Turns, Reject(t) PROVE ProposalEnds'
  BY <1>6 DEF Reject, Withdrawn, Return
<1>7. ASSUME NEW t \in Turns, Revise(t) PROVE ProposalEnds'
  BY <1>7, SMTT(60) DEF Revise, Propose, Return
<1>8. ASSUME NEW t \in Turns, Answer(t) PROVE ProposalEnds'
  BY <1>8 DEF Answer, Return, Fail
<1>9. ASSUME NEW t \in Turns, ProposePlan(t) PROVE ProposalEnds'
  BY <1>9 DEF ProposePlan, Propose, Return
<1>10. ASSUME NEW t \in Turns, StartPlan(t) PROVE ProposalEnds'
  BY <1>10 DEF StartPlan, ApprovalRequired
<1>11. ASSUME NEW t \in Turns, PlanEnds(t) PROVE ProposalEnds'
  BY <1>11, SMTT(60) DEF PlanEnds, Return, Fail
<1>12. ASSUME NEW t \in Turns, AfterExecute(t) PROVE ProposalEnds'
  BY <1>12 DEF AfterExecute, Awaiting
<1>13. ASSUME NEW t \in Turns, Correct(t) PROVE ProposalEnds'
  BY <1>13 DEF Correct, PassLeft
<1>14. ASSUME NEW t \in Turns, Finish(t) PROVE ProposalEnds'
  BY <1>14 DEF Finish, SaveGraph, Consumed
<1>15. ASSUME NEW t \in Turns, Conclude(t) PROVE ProposalEnds'
  BY <1>15 DEF Conclude, SaveGraph, Consumed
<1>16. ASSUME NEW t \in Turns, Leave(t) PROVE ProposalEnds'
  BY <1>16 DEF Leave, ClearedGuidance
<1>17. CASE Expire
  BY <1>17 DEF Expire
<1>18. CASE UNCHANGED vars
  BY <1>18 DEF vars
<1> QED
  BY <1>1, <1>2, <1>3, <1>4, <1>5, <1>6, <1>7, <1>8, <1>9, <1>10,
     <1>11, <1>12, <1>13, <1>14, <1>15, <1>16, <1>17, <1>18
  DEF Next, TurnStep, Gate, Work, Handler

LEMMA StepKeepsGuidance ==
  ASSUME TypeOK, Alone, GuidanceHeld, [Next]_vars
  PROVE  GuidanceHeld'
<1> USE ProjectsAssumption DEF TypeOK, Alone, GuidanceHeld, GuidanceIsOwn, Live
<1>1. ASSUME NEW t \in Turns, Begin(t) PROVE GuidanceHeld'
  BY <1>1 DEF Begin
<1>2. ASSUME NEW t \in Turns, Refused(t) PROVE GuidanceHeld'
  BY <1>2 DEF Refused, Fail
<1>3. ASSUME NEW t \in Turns, TakePending(t) PROVE GuidanceHeld'
  BY <1>3 DEF TakePending, Heard
<1>4. ASSUME NEW t \in Turns, NoPending(t) PROVE GuidanceHeld'
  BY <1>4 DEF NoPending
<1>5. ASSUME NEW t \in Turns, Approve(t) PROVE GuidanceHeld'
  BY <1>5 DEF Approve, Withdrawn
<1>6. ASSUME NEW t \in Turns, Reject(t) PROVE GuidanceHeld'
  BY <1>6 DEF Reject, Withdrawn, Return
<1>7. ASSUME NEW t \in Turns, Revise(t) PROVE GuidanceHeld'
  BY <1>7, SMTT(60) DEF Revise, Propose, Return
<1>8. ASSUME NEW t \in Turns, Answer(t) PROVE GuidanceHeld'
  BY <1>8 DEF Answer, Return, Fail
<1>9. ASSUME NEW t \in Turns, ProposePlan(t) PROVE GuidanceHeld'
  BY <1>9 DEF ProposePlan, Propose, Return
<1>10. ASSUME NEW t \in Turns, StartPlan(t) PROVE GuidanceHeld'
  BY <1>10 DEF StartPlan, ApprovalRequired
<1>11. ASSUME NEW t \in Turns, PlanEnds(t) PROVE GuidanceHeld'
  BY <1>11 DEF PlanEnds, Return, Fail
<1>12. ASSUME NEW t \in Turns, AfterExecute(t) PROVE GuidanceHeld'
  BY <1>12 DEF AfterExecute, Awaiting
<1>13. ASSUME NEW t \in Turns, Correct(t) PROVE GuidanceHeld'
  BY <1>13 DEF Correct, PassLeft
<1>14. ASSUME NEW t \in Turns, Finish(t) PROVE GuidanceHeld'
  BY <1>14 DEF Finish, SaveGraph, Consumed
<1>15. ASSUME NEW t \in Turns, Conclude(t) PROVE GuidanceHeld'
  BY <1>15 DEF Conclude, SaveGraph, Consumed
<1>16. ASSUME NEW t \in Turns, Leave(t) PROVE GuidanceHeld'
  BY <1>16 DEF Leave, ClearedGuidance
<1>17. CASE Expire
  BY <1>17 DEF Expire
<1>18. CASE UNCHANGED vars
  BY <1>18 DEF vars
<1> QED
  BY <1>1, <1>2, <1>3, <1>4, <1>5, <1>6, <1>7, <1>8, <1>9, <1>10,
     <1>11, <1>12, <1>13, <1>14, <1>15, <1>16, <1>17, <1>18
  DEF Next, TurnStep, Gate, Work, Handler

\* A step of a turn at work that saves nothing.
LEMMA SavedFrame ==
  ASSUME SavedOwned, NEW t \in Turns, pc[t] # "leave",
         \A u \in Turns \ {t} : pc'[u] = pc[u],
         UNCHANGED <<saved, home, ranBy, overlapped, project>>
  PROVE  SavedOwned'
BY DEF SavedOwned, LeftOver

LEMMA StepKeepsSaved ==
  ASSUME TypeOK, Alone, SavedOwned, LastOwned, [Next]_vars
  PROVE  SavedOwned'
<1> USE BoundsAssumption DEF TypeOK, Alone, SavedOwned, LastOwned, LeftOver, Live, Plans
<1>1. ASSUME NEW t \in Turns, Begin(t) PROVE SavedOwned'
  BY <1>1, SMTT(60) DEF Begin
<1>2. ASSUME NEW t \in Turns, Refused(t) PROVE SavedOwned'
  BY <1>2, SMTT(60) DEF Refused, Fail
<1>3. ASSUME NEW t \in Turns, TakePending(t) PROVE SavedOwned'
  <2>1. \A u \in Turns \ {t} : pc'[u] = pc[u]
    BY <1>3 DEF TakePending
  <2> QED BY <1>3, <2>1, SavedFrame DEF TakePending
<1>4. ASSUME NEW t \in Turns, NoPending(t) PROVE SavedOwned'
  BY <1>4 DEF NoPending
<1>5. ASSUME NEW t \in Turns, Approve(t) PROVE SavedOwned'
  BY <1>5, SMTT(60) DEF Approve, Withdrawn
<1>6. ASSUME NEW t \in Turns, Reject(t) PROVE SavedOwned'
  BY <1>6, SMTT(60) DEF Reject, Withdrawn, Return
<1>7. ASSUME NEW t \in Turns, Revise(t) PROVE SavedOwned'
  <2>1. \A u \in Turns \ {t} : pc'[u] = pc[u]
    BY <1>7, SMTT(60) DEF Revise, Propose, Return
  <2> QED BY <1>7, <2>1, SavedFrame DEF Revise
<1>8. ASSUME NEW t \in Turns, Answer(t) PROVE SavedOwned'
  <2>1. \A u \in Turns \ {t} : pc'[u] = pc[u]
    BY <1>8 DEF Answer, Return, Fail
  <2> QED BY <1>8, <2>1, SavedFrame DEF Answer
<1>9. ASSUME NEW t \in Turns, ProposePlan(t) PROVE SavedOwned'
  BY <1>9 DEF ProposePlan, Propose, Return
<1>10. ASSUME NEW t \in Turns, StartPlan(t) PROVE SavedOwned'
  BY <1>10 DEF StartPlan, ApprovalRequired
<1>11. ASSUME NEW t \in Turns, PlanEnds(t) PROVE SavedOwned'
  BY <1>11, SMTT(60) DEF PlanEnds, Return, Fail
<1>12. ASSUME NEW t \in Turns, AfterExecute(t) PROVE SavedOwned'
  BY <1>12, SMTT(60) DEF AfterExecute, Awaiting
<1>13. ASSUME NEW t \in Turns, Correct(t) PROVE SavedOwned'
  BY <1>13 DEF Correct, PassLeft
<1>14. ASSUME NEW t \in Turns, Finish(t) PROVE SavedOwned'
  <2>1. pc'[t] = "leave" /\ \A u \in Turns \ {t} : pc'[u] = pc[u]
    BY <1>14 DEF Finish
  <2>2. UNCHANGED <<home, ranBy, overlapped, project>> /\ pc[t] # "leave"
    BY <1>14 DEF Finish
  <2>3. CASE saved' = saved
    BY <2>1, <2>2, <2>3, SavedFrame
  <2>4. CASE lastRun # 0 /\ saved' = [saved EXCEPT ![t] = lastRun]
    <3>1. \A u \in Live \ overlapped : u = t
      <4>1. t \in Live
        BY <1>14 DEF Finish, Live
      <4> QED BY <4>1 DEF Alone
    <3>2. LeftOver(lastRun) \/ project[t] \in home[lastRun]
      BY <2>4, <3>1 DEF LastOwned
    <3>3. saved'[t] = lastRun /\ \A u \in Turns \ {t} : saved'[u] = saved[u]
      BY <2>4
    <3> QED BY <2>1, <2>2, <3>2, <3>3, SMTT(60) DEF SavedOwned, LeftOver
  <2> QED BY <1>14, <2>3, <2>4 DEF Finish, SaveGraph
<1>15. ASSUME NEW t \in Turns, Conclude(t) PROVE SavedOwned'
  <2>1. pc'[t] = "leave" /\ \A u \in Turns \ {t} : pc'[u] = pc[u]
    BY <1>15 DEF Conclude
  <2>2. UNCHANGED <<home, ranBy, overlapped, project>> /\ pc[t] # "leave"
    BY <1>15 DEF Conclude
  <2>3. CASE saved' = saved
    BY <2>1, <2>2, <2>3, SavedFrame
  <2>4. CASE lastRun # 0 /\ saved' = [saved EXCEPT ![t] = lastRun]
    <3>1. \A u \in Live \ overlapped : u = t
      <4>1. t \in Live
        BY <1>15 DEF Conclude, Live
      <4> QED BY <4>1 DEF Alone
    <3>2. LeftOver(lastRun) \/ project[t] \in home[lastRun]
      BY <2>4, <3>1 DEF LastOwned
    <3>3. saved'[t] = lastRun /\ \A u \in Turns \ {t} : saved'[u] = saved[u]
      BY <2>4
    <3> QED BY <2>1, <2>2, <3>2, <3>3, SMTT(60) DEF SavedOwned, LeftOver
  <2> QED BY <1>15, <2>3, <2>4 DEF Conclude, SaveGraph
<1>16. ASSUME NEW t \in Turns, Leave(t) PROVE SavedOwned'
  <2> DEFINE kept == {pending.plan, lastRun} \cup {hand[u] : u \in Turns}
                       \cup {saved[u] : u \in Turns \ {t}}
  <2>1. \A u \in Turns : saved'[u] = IF u = t THEN 0 ELSE saved[u]
    BY <1>16 DEF Leave
  <2>2. \A u \in Turns \ {t} : pc'[u] = pc[u] /\ project'[u] = project[u]
    BY <1>16 DEF Leave
  <2>3. \A g \in Plans \cap kept : home'[g] = home[g] /\ ranBy'[g] = ranBy[g]
    <3>1. /\ ranBy' = [g \in Plans |-> IF g \in kept THEN ranBy[g] ELSE {}]
          /\ home' = [g \in Plans |-> IF g \in kept THEN home[g] ELSE {}]
      BY <1>16 DEF Leave
    <3> HIDE DEF kept
    <3> QED BY <3>1
  <2>4. \A g \in Plans : \A u \in overlapped : u \in ranBy'[g] => u \in overlapped'
    BY <1>16 DEF Leave
  <2>5. ASSUME NEW u \in Turns, saved'[u] # 0
        PROVE  pc'[u] = "leave" /\ (LeftOver(saved[u])' \/ project'[u] \in home'[saved'[u]])
    <3>1. u # t /\ saved'[u] = saved[u] /\ saved[u] \in Plans \cap kept
      BY <2>1, <2>5, SMTT(60)
    <3>2. pc[u] = "leave" /\ (LeftOver(saved[u]) \/ project[u] \in home[saved[u]])
      BY <2>5, <3>1 DEF SavedOwned
    <3>3. pc'[u] = "leave" /\ project'[u] = project[u]
      BY <2>2, <3>1, <3>2
    <3>4. home'[saved[u]] = home[saved[u]] /\ ranBy'[saved[u]] = ranBy[saved[u]]
      BY <2>3, <3>1
    <3>5. LeftOver(saved[u]) => LeftOver(saved[u])'
      BY <2>4, <3>1, <3>4 DEF LeftOver
    <3> QED BY <3>1, <3>2, <3>3, <3>4, <3>5
  <2> QED BY <2>5 DEF SavedOwned
<1>17. CASE Expire
  BY <1>17 DEF Expire
<1>18. CASE UNCHANGED vars
  BY <1>18 DEF vars
<1> QED
  BY <1>1, <1>2, <1>3, <1>4, <1>5, <1>6, <1>7, <1>8, <1>9, <1>10,
     <1>11, <1>12, <1>13, <1>14, <1>15, <1>16, <1>17, <1>18
  DEF Next, TurnStep, Gate, Work, Handler

\* A step of a turn at work that leaves the last plan alone, and after which the
\* turn still saves it if it would have before.
LEMMA LastFrame ==
  ASSUME Alone, LastOwned, NEW t \in Live, Owes(t) => Owes(t)',
         Owes(t) => t \in Live',
         UNCHANGED <<lastRun, home, ranBy, overlapped, project>>
  PROVE  LastOwned'
<1>1. \A u \in Live \ overlapped : u = t
  BY DEF Alone
<1> QED BY <1>1 DEF LastOwned, LeftOver

LEMMA StepKeepsLast ==
  ASSUME TypeOK, Alone, LastOwned, [Next]_vars
  PROVE  LastOwned'
<1> USE BoundsAssumption DEF TypeOK
<1>1. ASSUME NEW t \in Turns, Begin(t) PROVE LastOwned'
  <2>1. UNCHANGED <<lastRun, home, ranBy>> /\ overlapped' = IF Live = {} THEN overlapped ELSE overlapped \cup Live \cup {t}
    BY <1>1 DEF Begin
  <2> QED BY <2>1 DEF LastOwned, LeftOver
<1>2. ASSUME NEW t \in Turns, Refused(t) PROVE LastOwned'
  <2>1. UNCHANGED <<lastRun, home, ranBy, overlapped, project>> /\ t \in Live
    BY <1>2 DEF Refused, Fail, Live
  <2>2. Owes(t) => Owes(t)' /\ t \in Live'
    BY <1>2 DEF Refused, Fail, Owes, Live
  <2> QED BY <2>1, <2>2, LastFrame
<1>3. ASSUME NEW t \in Turns, TakePending(t) PROVE LastOwned'
  <2>1. UNCHANGED <<lastRun, home, ranBy, overlapped, project>> /\ t \in Live
    BY <1>3 DEF TakePending, Heard, Live
  <2>2. Owes(t) => Owes(t)' /\ t \in Live'
    BY <1>3 DEF TakePending, Heard, Owes, Live
  <2> QED BY <2>1, <2>2, LastFrame
<1>4. ASSUME NEW t \in Turns, NoPending(t) PROVE LastOwned'
  <2>1. UNCHANGED <<lastRun, home, ranBy, overlapped, project>> /\ t \in Live
    BY <1>4 DEF NoPending, Live
  <2>2. Owes(t) => Owes(t)' /\ t \in Live'
    BY <1>4 DEF NoPending, Owes, Live
  <2> QED BY <2>1, <2>2, LastFrame
<1>5. ASSUME NEW t \in Turns, Approve(t) PROVE LastOwned'
  <2>1. UNCHANGED <<lastRun, home, ranBy, overlapped, project>> /\ t \in Live
    BY <1>5 DEF Approve, Live
  <2>2. Owes(t) => Owes(t)' /\ t \in Live'
    BY <1>5 DEF Approve, Owes, Live
  <2> QED BY <2>1, <2>2, LastFrame
<1>6. ASSUME NEW t \in Turns, Reject(t) PROVE LastOwned'
  <2>1. UNCHANGED <<lastRun, home, ranBy, overlapped, project>> /\ t \in Live
    BY <1>6 DEF Reject, Return, Live
  <2>2. Owes(t) => Owes(t)' /\ t \in Live'
    BY <1>6 DEF Reject, Return, Owes, Live
  <2> QED BY <2>1, <2>2, LastFrame
<1>7. ASSUME NEW t \in Turns, Revise(t) PROVE LastOwned'
  <2>1. UNCHANGED <<lastRun, home, ranBy, overlapped, project>> /\ t \in Live
    BY <1>7 DEF Revise, Propose, Return, Live
  <2>2. Owes(t) => Owes(t)' /\ t \in Live'
    BY <1>7 DEF Revise, Propose, Return, Owes, Live
  <2> QED BY <2>1, <2>2, LastFrame
<1>8. ASSUME NEW t \in Turns, Answer(t) PROVE LastOwned'
  <2>1. UNCHANGED <<lastRun, home, ranBy, overlapped, project>> /\ t \in Live
    BY <1>8 DEF Answer, Return, Fail, Live
  <2>2. Owes(t) => Owes(t)' /\ t \in Live'
    BY <1>8 DEF Answer, Return, Fail, Owes, Live
  <2> QED BY <2>1, <2>2, LastFrame
<1>9. ASSUME NEW t \in Turns, ProposePlan(t) PROVE LastOwned'
  <2>1. UNCHANGED <<lastRun, home, ranBy, overlapped, project>> /\ t \in Live
    BY <1>9 DEF ProposePlan, Propose, Return, Live
  <2>2. Owes(t) => Owes(t)' /\ t \in Live'
    BY <1>9 DEF ProposePlan, Propose, Return, Owes, Live
  <2> QED BY <2>1, <2>2, LastFrame
<1>10. ASSUME NEW t \in Turns, StartPlan(t) PROVE LastOwned'
  <2>1. UNCHANGED <<lastRun, home, ranBy, overlapped, project>> /\ t \in Live
    BY <1>10 DEF StartPlan, Live
  <2>2. Owes(t) => Owes(t)' /\ t \in Live'
    BY <1>10 DEF StartPlan, Owes, Live
  <2> QED BY <2>1, <2>2, LastFrame
<1>11. ASSUME NEW t \in Turns, PlanEnds(t) PROVE LastOwned'
  <2>1. t \in Live /\ hand[t] \in Plans /\ UNCHANGED <<overlapped, project>>
    BY <1>11 DEF PlanEnds, Live, Plans
  <2>2. \A g \in Plans : home[g] \subseteq home'[g] /\ ranBy[g] \subseteq ranBy'[g]
    BY <1>11 DEF PlanEnds
  <2>3. /\ t \in ranBy'[hand[t]]
        /\ (IF pc'[t] = "leave" THEN None ELSE project[t]) \in home'[hand[t]]
    BY <1>11, <2>1 DEF PlanEnds
  <2>4. pc'[t] \in {"returned", "leave", "finish"}
    BY <1>11 DEF PlanEnds, Return, Fail
  <2>5. CASE lastRun' = hand[t]
    <3>1. CASE pc'[t] = "leave" \/ t \in overlapped
      BY <2>1, <2>3, <2>5, <3>1 DEF LastOwned, LeftOver
    <3>2. CASE pc'[t] # "leave" /\ t \notin overlapped
      BY <2>1, <2>3, <2>4, <2>5, <3>2 DEF LastOwned, Owes, Live
    <3> QED BY <3>1, <3>2
  <2>6. CASE lastRun' = lastRun /\ lastRun # 0
    <3>1. LeftOver(lastRun) => LeftOver(lastRun)'
      BY <2>1, <2>2, <2>6 DEF LeftOver, Plans
    <3>2. Owes(t) => Owes(t)' /\ t \in Live'
      BY <1>11 DEF PlanEnds, Return, Fail, Owes, Live
    <3>3. \A u \in Live \ overlapped : u = t
      BY <2>1 DEF Alone
    <3> QED BY <2>1, <2>2, <2>6, <3>1, <3>2, <3>3 DEF LastOwned, Plans
  <2> QED BY <1>11, <2>5, <2>6 DEF PlanEnds, LastOwned
<1>12. ASSUME NEW t \in Turns, AfterExecute(t) PROVE LastOwned'
  <2>1. UNCHANGED <<lastRun, home, ranBy, overlapped, project>> /\ t \in Live
    BY <1>12 DEF AfterExecute, Live
  <2>2. Owes(t) => Owes(t)' /\ t \in Live'
    BY <1>12 DEF AfterExecute, Owes, Live
  <2> QED BY <2>1, <2>2, LastFrame
<1>13. ASSUME NEW t \in Turns, Correct(t) PROVE LastOwned'
  <2>1. UNCHANGED <<lastRun, home, ranBy, overlapped, project>> /\ t \in Live
    BY <1>13 DEF Correct, Live
  <2>2. Owes(t) => Owes(t)' /\ t \in Live'
    BY <1>13 DEF Correct, Owes, Live
  <2> QED BY <2>1, <2>2, LastFrame
<1>14. ASSUME NEW t \in Turns, Finish(t) PROVE LastOwned'
  <2>1. UNCHANGED <<home, ranBy, overlapped, project>> /\ t \in Live
    BY <1>14 DEF Finish, Live
  <2>2. lastRun' = 0 \/ (lastRun' = lastRun /\ (project[t] = None \/ lastRun = 0))
    <3>1. SaveGraph(t)
      BY <1>14 DEF Finish
    <3> QED BY <3>1 DEF SaveGraph, Consumed
  <2>3. CASE lastRun' = lastRun /\ lastRun # 0 /\ project[t] = None
    <3>1. \A u \in Live \ overlapped : u = t
      BY <2>1 DEF Alone
    <3>2. LeftOver(lastRun)
      BY <2>3, <3>1 DEF LastOwned, LeftOver
    <3> QED BY <2>1, <2>3, <3>2 DEF LastOwned, LeftOver
  <2> QED BY <2>2, <2>3 DEF LastOwned
<1>15. ASSUME NEW t \in Turns, Conclude(t) PROVE LastOwned'
  <2>1. UNCHANGED <<home, ranBy, overlapped, project>> /\ t \in Live
    BY <1>15 DEF Conclude, Live
  <2>2. lastRun' = 0 \/ (lastRun' = lastRun /\ (project[t] = None \/ lastRun = 0))
    <3>1. SaveGraph(t)
      BY <1>15 DEF Conclude
    <3> QED BY <3>1 DEF SaveGraph, Consumed
  <2>3. CASE lastRun' = lastRun /\ lastRun # 0 /\ project[t] = None
    <3>1. \A u \in Live \ overlapped : u = t
      BY <2>1 DEF Alone
    <3>2. LeftOver(lastRun)
      BY <2>3, <3>1 DEF LastOwned, LeftOver
    <3> QED BY <2>1, <2>3, <3>2 DEF LastOwned, LeftOver
  <2> QED BY <2>2, <2>3 DEF LastOwned
<1>16. ASSUME NEW t \in Turns, Leave(t) PROVE LastOwned'
  <2>1. t \in Live /\ ~Owes(t) /\ lastRun' = lastRun
    BY <1>16 DEF Leave, Owes, Live
  <2>2. CASE lastRun # 0
    <3>1. home'[lastRun] = home[lastRun] /\ ranBy'[lastRun] = ranBy[lastRun]
      BY <1>16, <2>2 DEF Leave, Plans
    <3>2. \A u \in overlapped : u \in ranBy'[lastRun] => u \in overlapped'
      BY <1>16, <2>2 DEF Leave, Plans
    <3>3. LeftOver(lastRun)
      BY <2>1, <2>2 DEF LastOwned, Alone
    <3> QED BY <2>1, <3>1, <3>2, <3>3 DEF LastOwned, LeftOver
  <2> QED BY <2>1, <2>2 DEF LastOwned
<1>17. CASE Expire
  BY <1>17 DEF Expire, LastOwned, LeftOver, Owes, Live
<1>18. CASE UNCHANGED vars
  BY <1>18 DEF vars, LastOwned, LeftOver, Owes, Live
<1> QED
  BY <1>1, <1>2, <1>3, <1>4, <1>5, <1>6, <1>7, <1>8, <1>9, <1>10,
     <1>11, <1>12, <1>13, <1>14, <1>15, <1>16, <1>17, <1>18
  DEF Next, TurnStep, Gate, Work, Handler

-----------------------------------------------------------------------------
(* The theorems *)

\* The inductive invariant.
Inv ==
  /\ TypeOK /\ PlansNumbered /\ Alone /\ HeardAsOffered /\ DecidedOnce
  /\ ProposalEnds /\ GuidanceHeld /\ SavedOwned /\ LastOwned

LEMMA InitEstablishes == Init => Inv
<1> SUFFICES ASSUME Init PROVE Inv
  OBVIOUS
<1> USE BoundsAssumption, ProjectsAssumption DEF Init, NoPlan, Live, Plans
<1>1. TypeOK
  BY DEF TypeOK, Places
<1>2. PlansNumbered
  BY DEF PlansNumbered
<1>3. Alone /\ HeardAsOffered
  BY DEF Alone, HeardAsOffered
<1>4. DecidedOnce
  BY DEF DecidedOnce, HandsFresh, RunsFinal
<1>5. ProposalEnds
  BY DEF ProposalEnds
<1>6. GuidanceHeld
  BY DEF GuidanceHeld, GuidanceIsOwn
<1>7. SavedOwned /\ LastOwned
  BY DEF SavedOwned, LastOwned
<1> QED BY <1>1, <1>2, <1>3, <1>4, <1>5, <1>6, <1>7 DEF Inv

LEMMA Inductive == Spec => []Inv
<1>1. ASSUME Inv, [Next]_vars PROVE Inv'
  <2> USE <1>1 DEF Inv
  <2>1. TypeOK'
    BY StepKeepsType
  <2>2. PlansNumbered' /\ Alone' /\ HeardAsOffered'
    BY StepKeepsNumbers, StepKeepsAlone, StepKeepsHeard
  <2>3. DecidedOnce' /\ ProposalEnds' /\ GuidanceHeld'
    BY StepKeepsDecided, StepKeepsProposals, StepKeepsGuidance
  <2>4. SavedOwned' /\ LastOwned'
    BY StepKeepsSaved, StepKeepsLast
  <2> QED BY <2>1, <2>2, <2>3, <2>4
<1> QED BY InitEstablishes, <1>1, PTL DEF Spec

\* The kernel's and the handler's state stay well-formed however turns overlap.
THEOREM TurnsTypeCorrect == Spec => []TypeOK
<1>1. Inv => TypeOK
  BY DEF Inv
<1> QED BY <1>1, Inductive, PTL

\* Under "always" only the user's own approval starts a planned graph, and
\* unless turns overlapped it is the plan that was pending when they wrote.
THEOREM RunsWhatWasApproved == Spec => []ApprovedAsOffered
<1>1. Inv => ApprovedAsOffered
  BY DEF Inv, HeardAsOffered, ApprovedAsOffered
<1> QED BY <1>1, Inductive, PTL

\* A plan is executed once, and never after it was rejected, unless turns
\* overlapped.
THEOREM DecisionsStand == Spec => []DecisionsAreFinal
<1>1. Inv => DecisionsAreFinal
  BY DEF Inv, DecidedOnce, RunsFinal, DecisionsAreFinal
<1> QED BY <1>1, Inductive, PTL

\* A turn that answers with a proposal builds nothing behind the user's back.
THEOREM ProposalsWait == Spec => []ProposalTurnsDoNotBuild
<1>1. Inv => ProposalTurnsDoNotBuild
  BY DEF Inv, ProposalEnds, ProposalTurnsDoNotBuild
<1> QED BY <1>1, Inductive, PTL

\* However a turn ends, its project's documents do not guide the next one.
THEOREM GuidanceDoesNotLeak == Spec => []GuidanceIsOwn
<1>1. Inv => GuidanceIsOwn
  BY DEF Inv, GuidanceHeld
<1> QED BY <1>1, Inductive, PTL

\* A project's graph.json holds a plan that was run there, apart from the named
\* ways a graph is left over.
THEOREM GraphIsSavedAtHome == Spec => []SavedGraphIsOwn
<1>1. Inv => SavedGraphIsOwn
  BY DEF Inv, SavedOwned, LeftOver, TypeOK, SavedGraphIsOwn
<1> QED BY <1>1, Inductive, PTL
=============================================================================
