------------------------- MODULE PermissionGateProofs -------------------------
(***************************************************************************)
(* Proofs about PermissionGate, for any number of concurrent checks, any   *)
(* tools and any calls.                                                    *)
(***************************************************************************)
EXTENDS PermissionGate, TLAPS, FiniteSetTheorems

LEMMA InitType == Init => TypeOK
BY CallAssumption DEF Init, TypeOK, NoVerdict, NoCheck, Levels, Answers, Verdicts

LEMMA NextType == TypeOK /\ [Next]_vars => TypeOK'
<1> SUFFICES ASSUME TypeOK, [Next]_vars
             PROVE  TypeOK'
  OBVIOUS
<1> USE DEF TypeOK, gateVars, approverVars
<1>1. ASSUME NEW k \in Checks, NEW c \in Calls,
             NEW next \in {"queued", "allowed", "denied"}, Start(k, c, next),
             deniedCount' \in Nat
      PROVE  TypeOK'
  BY <1>1 DEF Start
<1>2. ASSUME NEW k \in Checks, NEW c \in Calls,
             \/ CheckRuledOut(k, c) \/ CheckAllows(k, c)
             \/ CheckRefuses(k, c) \/ CheckAsks(k, c)
      PROVE  TypeOK'
  BY <1>1, <1>2 DEF CheckRuledOut, CheckAllows, CheckRefuses, CheckAsks
<1>3. ASSUME NEW k \in Checks, TakePrompt(k)
      PROVE  TypeOK'
  BY <1>3 DEF TakePrompt
<1>4. ASSUME NEW k \in Checks, NEW v \in Verdicts, Record(k, v)
      PROVE  TypeOK'
  BY <1>4, CallAssumption DEF Record, SessionAllows, Verdicts, Answers
<1>5. ASSUME NEW k \in Checks, GateTakes(k) \/ GateExpires(k)
      PROVE  TypeOK'
  BY <1>4, <1>5 DEF GateTakes, GateExpires, Verdicts
<1>6. ASSUME NEW k \in Checks, Register(k)
      PROVE  TypeOK'
  BY <1>6 DEF Register
<1>7. ASSUME NEW k \in Checks, NEW a \in Answers, Resolve(k, a)
      PROVE  TypeOK'
  BY <1>7 DEF Resolve
<1>8. ASSUME NEW k \in Checks, NEW v \in Verdicts, ApproverReturns(k, v)
      PROVE  TypeOK'
  BY <1>8 DEF ApproverReturns
<1>9. ASSUME NEW k \in Checks, ApproverTakes(k) \/ ApproverExpires(k)
      PROVE  TypeOK'
  BY <1>8, <1>9 DEF ApproverTakes, ApproverExpires, Verdicts
<1>10. CASE CancelAll
  BY <1>10 DEF CancelAll, Answers
<1>11. CASE (\E l \in Levels : SetLevel(l)) \/ ResetSession
  BY <1>11 DEF SetLevel, ResetSession
<1>12. CASE UNCHANGED vars
  BY <1>12 DEF vars
<1> QED BY <1>2, <1>3, <1>5, <1>6, <1>7, <1>9, <1>10, <1>11, <1>12
        DEF Next, CheckStep, ApproverStep

\* Type correctness of every reachable state.
THEOREM TypeCorrect == Spec => []TypeOK
<1>1. TypeOK /\ [Next]_vars => TypeOK'
  BY NextType
<1> QED BY InitType, <1>1, PTL DEF Spec

-----------------------------------------------------------------------------
(* The prompt and the counters *)

\* promptMu is held exactly by the check whose question is being asked.
PromptIsHeld == \A k \in Checks : pc[k] = "prompt" <=> prompter = k

RuledChecks == {k \in Checks : pc[k] # "new" /\ call[k] \in Ruled}
BeingAsked == IF prompter = NoCheck THEN 0 ELSE 1

PromptInv == PromptIsHeld /\ QuestionsAccountedFor

LEMMA ChecksFinite == /\ IsFiniteSet(Checks) /\ NoCheck \notin Checks
                      /\ IsFiniteSet(RuledChecks) /\ Cardinality(RuledChecks) \in Nat
<1>1. IsFiniteSet(Checks)
  BY FS_Interval, MaxChecksAssumption DEF Checks
<1>2. IsFiniteSet(RuledChecks)
  BY <1>1, FS_Subset DEF RuledChecks
<1> QED BY <1>1, <1>2, FS_CardinalityType DEF NoCheck, Checks

LEMMA InitPrompt == Init => PromptInv
<1> SUFFICES ASSUME Init PROVE PromptInv
  OBVIOUS
<1>1. RuledChecks = {}
  BY DEF Init, RuledChecks
<1> QED BY <1>1, ChecksFinite, FS_EmptySet
        DEF Init, PromptInv, PromptIsHeld, QuestionsAccountedFor, RuledChecks

LEMMA NextPrompt == TypeOK /\ PromptInv /\ [Next]_vars => PromptInv'
<1> SUFFICES ASSUME TypeOK, PromptInv, [Next]_vars
             PROVE  PromptInv'
  OBVIOUS
<1> DEFINE ruled == Cardinality(RuledChecks)
<1>a. /\ asked + ruled = approved + deniedCount + BeingAsked
      /\ asked \in Nat /\ approved \in Nat /\ deniedCount \in Nat /\ ruled \in Nat
  BY ChecksFinite DEF PromptInv, QuestionsAccountedFor, RuledChecks, BeingAsked, TypeOK
<1>b. SUFFICES PromptIsHeld' /\ asked' + ruled' = approved' + deniedCount' + BeingAsked'
  BY DEF PromptInv, QuestionsAccountedFor, RuledChecks, BeingAsked
<1>c. UNCHANGED <<pc, call>> => RuledChecks' = RuledChecks
  BY DEF RuledChecks
<1>d. prompter' = prompter => BeingAsked' = BeingAsked
  BY DEF BeingAsked
<1>1. ASSUME NEW k \in Checks, NEW c \in Calls,
             NEW next \in {"queued", "allowed", "denied"}, Start(k, c, next)
      PROVE  /\ PromptIsHeld' /\ prompter' = prompter
             /\ asked' = asked /\ approved' = approved
             /\ c \in Ruled => ruled' = ruled + 1
             /\ c \notin Ruled => ruled' = ruled
  <2>1. /\ pc[k] = "new" /\ UNCHANGED <<asked, approved, prompter>>
        /\ pc' = [pc EXCEPT ![k] = next] /\ call' = [call EXCEPT ![k] = c]
    BY <1>1 DEF Start
  <2>2. PromptIsHeld'
    BY <2>1 DEF PromptInv, PromptIsHeld, TypeOK
  <2>3. k \notin RuledChecks
    BY <2>1 DEF RuledChecks
  <2>4. c \in Ruled => RuledChecks' = RuledChecks \cup {k}
    BY <2>1 DEF RuledChecks, TypeOK
  <2>5. c \notin Ruled => RuledChecks' = RuledChecks
    BY <2>1 DEF RuledChecks, TypeOK
  <2> QED BY <2>1, <2>2, <2>3, <2>4, <2>5, ChecksFinite, FS_AddElement
<1>2. ASSUME NEW k \in Checks, NEW c \in Calls,
             \/ CheckRuledOut(k, c) \/ CheckAllows(k, c)
             \/ CheckRefuses(k, c) \/ CheckAsks(k, c)
      PROVE  PromptIsHeld' /\ asked' + ruled' = approved' + deniedCount' + BeingAsked'
  <2>1. CASE CheckRuledOut(k, c)
    <3>1. c \in Ruled /\ Start(k, c, "denied") /\ deniedCount' = deniedCount + 1
      BY <2>1 DEF CheckRuledOut
    <3> HIDE DEF ruled
    <3>2. /\ PromptIsHeld' /\ prompter' = prompter
          /\ asked' = asked /\ approved' = approved /\ ruled' = ruled + 1
      BY <1>1, <3>1
    <3> QED BY <1>a, <1>d, <3>1, <3>2 DEF BeingAsked
  <2>2. CASE CheckAllows(k, c) \/ CheckRefuses(k, c) \/ CheckAsks(k, c)
    <3>1. /\ c \notin Ruled /\ deniedCount' = deniedCount
          /\ \E next \in {"queued", "allowed", "denied"} : Start(k, c, next)
      BY <2>2 DEF CheckAllows, CheckRefuses, CheckAsks, Unsettled, Start
    <3> HIDE DEF ruled
    <3>2. /\ PromptIsHeld' /\ prompter' = prompter
          /\ asked' = asked /\ approved' = approved /\ ruled' = ruled
      BY <1>1, <3>1
    <3> QED BY <1>a, <1>d, <3>1, <3>2 DEF BeingAsked
  <2> QED BY <1>2, <2>1, <2>2
<1>3. ASSUME NEW k \in Checks, TakePrompt(k)
      PROVE  PromptIsHeld' /\ asked' + ruled' = approved' + deniedCount' + BeingAsked'
  <2>1. /\ pc[k] = "queued" /\ prompter = NoCheck
        /\ UNCHANGED <<approved, deniedCount, call>>
        /\ \/ /\ pc' = [pc EXCEPT ![k] = "allowed"] /\ UNCHANGED <<asked, prompter>>
           \/ /\ pc' = [pc EXCEPT ![k] = "denied"] /\ UNCHANGED <<asked, prompter>>
           \/ /\ pc' = [pc EXCEPT ![k] = "prompt"] /\ asked' = asked + 1 /\ prompter' = k
    BY <1>3 DEF TakePrompt
  <2>2. PromptIsHeld'
    BY <2>1, ChecksFinite DEF PromptInv, PromptIsHeld, TypeOK
  <2>3. RuledChecks' = RuledChecks
    BY <2>1 DEF RuledChecks, TypeOK
  <2> HIDE DEF ruled
  <2>4. ruled' = ruled
    BY <2>3 DEF ruled
  <2> QED BY <1>a, <2>1, <2>2, <2>4, ChecksFinite DEF BeingAsked
<1>4. ASSUME NEW k \in Checks, NEW v \in Verdicts, Record(k, v)
      PROVE  PromptIsHeld' /\ asked' + ruled' = approved' + deniedCount' + BeingAsked'
  <2>1. /\ pc[k] = "prompt" /\ prompter' = NoCheck /\ UNCHANGED <<asked, call>>
        /\ \E p \in {"allowed", "denied"} : pc' = [pc EXCEPT ![k] = p]
        /\ \/ approved' = approved + 1 /\ deniedCount' = deniedCount
           \/ approved' = approved /\ deniedCount' = deniedCount + 1
    BY <1>4 DEF Record
  <2>2. prompter = k
    BY <2>1 DEF PromptInv, PromptIsHeld
  <2>3. PromptIsHeld'
    BY <2>1, <2>2, ChecksFinite DEF PromptInv, PromptIsHeld, TypeOK
  <2>4. RuledChecks' = RuledChecks
    BY <2>1 DEF RuledChecks, TypeOK
  <2> HIDE DEF ruled
  <2>5. ruled' = ruled
    BY <2>4 DEF ruled
  <2> QED BY <1>a, <2>1, <2>2, <2>3, <2>5, ChecksFinite DEF BeingAsked
<1>5. ASSUME NEW k \in Checks, GateTakes(k) \/ GateExpires(k)
      PROVE  PromptIsHeld' /\ asked' + ruled' = approved' + deniedCount' + BeingAsked'
  BY <1>4, <1>5 DEF GateTakes, GateExpires, Verdicts, TypeOK
<1>6. ASSUME UNCHANGED <<asked, approved, deniedCount, prompter, pc, call>>
      PROVE  PromptIsHeld' /\ asked' + ruled' = approved' + deniedCount' + BeingAsked'
  BY <1>6, <1>a, <1>c, <1>d DEF PromptInv, PromptIsHeld
<1>7. ASSUME NEW k \in Checks, ApproverStep(k)
      PROVE  UNCHANGED <<asked, approved, deniedCount, prompter, pc, call>>
  BY <1>7 DEF ApproverStep, Register, Resolve, ApproverTakes, ApproverExpires,
              ApproverReturns, gateVars
<1>8. CASE CancelAll \/ (\E l \in Levels : SetLevel(l)) \/ ResetSession \/ UNCHANGED vars
  <2>1. UNCHANGED <<asked, approved, deniedCount, prompter, pc, call>>
    BY <1>8 DEF CancelAll, SetLevel, ResetSession, vars, gateVars
  <2> QED BY <2>1, <1>6
<1> HIDE DEF ruled
<1> QED BY <1>2, <1>3, <1>5, <1>6, <1>7, <1>8 DEF Next, CheckStep

\* For any number of checks, every question is approved, denied or being
\* asked: Stats adds up.
THEOREM StatsAddUp == Spec => []QuestionsAccountedFor
<1>1. TypeOK /\ PromptInv /\ [Next]_vars => (TypeOK /\ PromptInv)'
  BY NextType, NextPrompt
<1>2. PromptInv => QuestionsAccountedFor
  BY DEF PromptInv
<1> QED BY InitType, InitPrompt, <1>1, <1>2, PTL DEF Spec

\* No question is open about a call the session has refused: the question was
\* asked after the session was read, and promptMu keeps every other refusal out
\* until it is answered.
OpenQuestion == \A k \in Checks : pc[k] = "prompt" => call[k] \notin denied

LEMMA InitOpen == Init => OpenQuestion
BY DEF Init, OpenQuestion

\* One step keeps OpenQuestion, and lets no refused call through.
LEMMA NextOpen ==
  TypeOK /\ PromptInv /\ OpenQuestion /\ [Next]_vars =>
    /\ OpenQuestion'
    /\ [\A k \in Checks : pc[k] # "allowed" /\ pc'[k] = "allowed" /\ call'[k] \in denied =>
          ToolOf[call'[k]] \in allowed \/ FastAllowed(call'[k])]_vars
<1> SUFFICES ASSUME TypeOK, PromptInv, OpenQuestion, [Next]_vars
             PROVE  /\ OpenQuestion'
                    /\ \A k \in Checks :
                         pc[k] # "allowed" /\ pc'[k] = "allowed" /\ call'[k] \in denied =>
                           ToolOf[call'[k]] \in allowed \/ FastAllowed(call'[k])
  OBVIOUS
<1> DEFINE Stuck == \A k \in Checks :
             pc[k] # "allowed" /\ pc'[k] = "allowed" /\ call'[k] \in denied =>
               ToolOf[call'[k]] \in allowed \/ FastAllowed(call'[k])
<1> USE DEF TypeOK, OpenQuestion
<1>1. ASSUME NEW j \in Checks, NEW c \in Calls,
             \/ CheckRuledOut(j, c) \/ CheckAllows(j, c)
             \/ CheckRefuses(j, c) \/ CheckAsks(j, c)
      PROVE  OpenQuestion' /\ Stuck
  BY <1>1 DEF CheckRuledOut, CheckAllows, CheckRefuses, CheckAsks, Start
<1>2. ASSUME NEW j \in Checks, TakePrompt(j)
      PROVE  OpenQuestion' /\ Stuck
  BY <1>2 DEF TakePrompt, SettledAllow, SettledDeny
<1>3. ASSUME NEW j \in Checks, NEW v, Record(j, v)
      PROVE  OpenQuestion' /\ Stuck
  <2>1. /\ pc[j] = "prompt" /\ call' = call /\ call[j] \notin denied
        /\ \A k \in Checks : k # j => pc[k] # "prompt" /\ pc'[k] = pc[k]
        /\ pc'[j] # "prompt"
    BY <1>3 DEF Record, PromptInv, PromptIsHeld
  <2> QED BY <2>1
<1>4. ASSUME NEW j \in Checks, GateTakes(j) \/ GateExpires(j)
      PROVE  OpenQuestion' /\ Stuck
  BY <1>3, <1>4 DEF GateTakes, GateExpires
<1>5. ASSUME NEW j \in Checks, ApproverStep(j)
      PROVE  OpenQuestion' /\ Stuck
  BY <1>5 DEF ApproverStep, Register, Resolve, ApproverTakes, ApproverExpires,
              ApproverReturns, gateVars
<1>6. CASE CancelAll \/ (\E l \in Levels : SetLevel(l)) \/ ResetSession \/ UNCHANGED vars
  BY <1>6 DEF CancelAll, SetLevel, ResetSession, vars, gateVars
<1> QED BY <1>1, <1>2, <1>4, <1>5, <1>6 DEF Next, CheckStep

\* For any calls and any number of checks, a refusal given in the session is
\* not worked around by a check that waited, or that is asked, at the time.
THEOREM RefusalsStick == Spec => RefusalSticks
<1>1. TypeOK /\ PromptInv /\ [Next]_vars => (TypeOK /\ PromptInv)'
  BY NextType, NextPrompt
<1> QED BY InitType, InitPrompt, InitOpen, NextOpen, <1>1, PTL DEF Spec, RefusalSticks

-----------------------------------------------------------------------------
(* Consent *)

\* A question lives from TakePrompt to the approver's return; before it is
\* registered, and while it is pending, nobody has answered it; and an allow
\* on its way to the gate is the user's.
QuestionOrder == \A k \in Checks :
  /\ pc[k] \in {"new", "queued"} => approver[k] = "off"
  /\ approver[k] \in {"off", "starting"} => k \notin pending /\ said[k] = "none"
                                         /\ chan[k] = "none"
  /\ approver[k] # "returned" => ret[k] = "none"
  /\ k \in pending => approver[k] = "waiting" /\ said[k] = "none"
  /\ chan[k] \in {"once", "session"} => said[k] = chan[k]
  /\ ret[k] \in {"once", "session"} => said[k] = ret[k]

\* Every tool allowed for the session was allowed so by the user.
AllowedByUser == \A t \in allowed : \E j \in Checks :
  said[j] = "session" /\ pc[j] # "new" /\ ToolOf[call[j]] = t

ConsentInv == QuestionOrder /\ AllowedByUser /\ ConsentBehindEveryRisk

LEMMA InitConsent == Init => ConsentInv
BY DEF Init, ConsentInv, QuestionOrder, AllowedByUser, ConsentBehindEveryRisk, NoVerdict

\* Answers are never withdrawn, and a check's call never changes once made:
\* a step that neither allows a tool nor lets a check through keeps consent.
LEMMA ConsentKept ==
  ASSUME ConsentInv, allowed' \subseteq allowed,
         \A k \in Checks :
           /\ said[k] # "none" => said'[k] = said[k]
           /\ pc[k] # "new" => pc'[k] # "new" /\ call'[k] = call[k]
           /\ pc'[k] = "allowed" => pc[k] = "allowed" /\ seenLevel'[k] = seenLevel[k]
  PROVE  AllowedByUser' /\ ConsentBehindEveryRisk'
<1>1. \A j \in Checks : said[j] = "session" =>
        said'[j] = "session" /\ pc[j] # "new" /\ pc'[j] # "new" /\ call'[j] = call[j]
  BY DEF ConsentInv, QuestionOrder
<1>2. AllowedByUser'
  BY <1>1 DEF ConsentInv, AllowedByUser
<1>3. ASSUME NEW k \in Checks, pc'[k] = "allowed", NeedsConsent(k)'
      PROVE  \/ said'[k] \in {"once", "session"}
             \/ \E j \in Checks : said'[j] = "session" /\ ToolOf[call'[j]] = ToolOf[call'[k]]
  <2>1. /\ pc[k] = "allowed" /\ call'[k] = call[k] /\ seenLevel'[k] = seenLevel[k]
    BY <1>3
  <2>2. NeedsConsent(k)
    BY <1>3, <2>1 DEF NeedsConsent
  <2>3. \/ said[k] \in {"once", "session"}
        \/ \E j \in Checks : said[j] = "session" /\ ToolOf[call[j]] = ToolOf[call[k]]
    BY <2>1, <2>2 DEF ConsentInv, ConsentBehindEveryRisk
  <2>4. CASE said[k] \in {"once", "session"}
    BY <2>4
  <2>5. CASE \E j \in Checks : said[j] = "session" /\ ToolOf[call[j]] = ToolOf[call[k]]
    BY <1>1, <2>1, <2>5
  <2> QED BY <2>3, <2>4, <2>5
<1> QED BY <1>2, <1>3 DEF ConsentBehindEveryRisk

LEMMA StartConsent ==
  ASSUME TypeOK, ConsentInv, NEW k \in Checks, NEW c \in Calls,
         \/ CheckRuledOut(k, c) \/ CheckAllows(k, c)
         \/ CheckRefuses(k, c) \/ CheckAsks(k, c)
  PROVE  ConsentInv'
<1> USE DEF TypeOK
<1>1. /\ pc[k] = "new" /\ call' = [call EXCEPT ![k] = c]
      /\ seenLevel' = [seenLevel EXCEPT ![k] = level]
      /\ \E next \in {"queued", "allowed", "denied"} : pc' = [pc EXCEPT ![k] = next]
      /\ UNCHANGED <<allowed, approverVars, said>>
  BY DEF CheckRuledOut, CheckAllows, CheckRefuses, CheckAsks, Start
<1>2. QuestionOrder'
  BY <1>1 DEF ConsentInv, QuestionOrder, approverVars
<1>3. CASE ~CheckAllows(k, c)
  <2>1. pc'[k] # "allowed"
    BY <1>3 DEF CheckRuledOut, CheckRefuses, CheckAsks, Start
  <2>2. \A j \in Checks : /\ said[j] # "none" => said'[j] = said[j]
                          /\ pc[j] # "new" => pc'[j] # "new" /\ call'[j] = call[j]
                          /\ pc'[j] = "allowed" =>
                               pc[j] = "allowed" /\ seenLevel'[j] = seenLevel[j]
    BY <1>1, <2>1
  <2> QED BY <1>1, <1>2, <2>2, ConsentKept DEF ConsentInv
<1>4. CASE CheckAllows(k, c)
  <2>1. /\ call'[k] = c /\ seenLevel'[k] = level
        /\ FastAllowed(c) \/ Harmless(c) \/ JudgeMayClear(c)
    BY <1>1, <1>4 DEF CheckAllows
  <2>2. AllowedByUser'
    BY <1>1 DEF ConsentInv, AllowedByUser
  <2>3. ASSUME NEW j \in Checks, pc'[j] = "allowed", NeedsConsent(j)'
        PROVE  \/ said'[j] \in {"once", "session"}
               \/ \E i \in Checks : said'[i] = "session" /\ ToolOf[call'[i]] = ToolOf[call'[j]]
    <3>1. CASE j = k
      <4>1. c \in Central \/ level = "strict" \/ (level = "normal" /\ c \in Dangerous \ Judgeable)
        BY <2>1, <2>3, <3>1 DEF NeedsConsent
      <4>2. ToolOf[c] \in allowed
        BY <2>1, <4>1, CallAssumption DEF FastAllowed, Harmless, JudgeMayClear
      <4>3. PICK i \in Checks : said[i] = "session" /\ pc[i] # "new" /\ ToolOf[call[i]] = ToolOf[c]
        BY <4>2 DEF ConsentInv, AllowedByUser
      <4> QED BY <1>1, <2>1, <3>1, <4>3
    <3>2. CASE j # k
      <4>1. pc[j] = "allowed" /\ call'[j] = call[j] /\ NeedsConsent(j)
        BY <1>1, <2>3, <3>2 DEF NeedsConsent
      <4>2. \/ said[j] \in {"once", "session"}
            \/ \E i \in Checks : said[i] = "session" /\ ToolOf[call[i]] = ToolOf[call[j]]
        BY <4>1 DEF ConsentInv, ConsentBehindEveryRisk
      <4>3. \A i \in Checks : said[i] = "session" => pc[i] # "new"
        BY DEF ConsentInv, QuestionOrder
      <4> QED BY <1>1, <4>1, <4>2, <4>3
    <3> QED BY <3>1, <3>2
  <2> QED BY <1>2, <2>2, <2>3 DEF ConsentInv, ConsentBehindEveryRisk
<1> QED BY <1>3, <1>4

\* Leaving the queue with an allow means that the session had allowed the tool.
LEMMA TakePromptConsent ==
  ASSUME TypeOK, ConsentInv, NEW k \in Checks, TakePrompt(k)
  PROVE  ConsentInv'
<1> USE DEF TypeOK
<1>1. /\ pc[k] = "queued" /\ UNCHANGED <<allowed, call, pending, chan, ret, said, seenLevel>>
  BY DEF TakePrompt
<1>2. CASE SettledAllow(k) /\ pc' = [pc EXCEPT ![k] = "allowed"] /\ approver' = approver
  <2>1. QuestionOrder'
    BY <1>1, <1>2 DEF ConsentInv, QuestionOrder
  <2>2. AllowedByUser'
    BY <1>1, <1>2 DEF ConsentInv, AllowedByUser
  <2>3. \E j \in Checks : said[j] = "session" /\ ToolOf[call[j]] = ToolOf[call[k]]
    BY <1>2 DEF SettledAllow, ConsentInv, AllowedByUser
  <2>4. ASSUME NEW j \in Checks, pc'[j] = "allowed", NeedsConsent(j)'
        PROVE  \/ said[j] \in {"once", "session"}
               \/ \E i \in Checks : said[i] = "session" /\ ToolOf[call[i]] = ToolOf[call[j]]
    <3>1. CASE j = k
      BY <2>3, <3>1
    <3>2. CASE j # k
      <4>1. pc[j] = "allowed" /\ NeedsConsent(j)
        BY <1>1, <1>2, <2>4, <3>2 DEF NeedsConsent
      <4> QED BY <4>1 DEF ConsentInv, ConsentBehindEveryRisk
    <3> QED BY <3>1, <3>2
  <2>5. ConsentBehindEveryRisk'
    BY <1>1, <2>4 DEF ConsentBehindEveryRisk
  <2> QED BY <2>1, <2>2, <2>5 DEF ConsentInv
<1>3. CASE \/ pc' = [pc EXCEPT ![k] = "denied"] /\ approver' = approver
           \/ pc' = [pc EXCEPT ![k] = "prompt"]
              /\ approver' = [approver EXCEPT ![k] = "starting"]
  <2>1. QuestionOrder'
    BY <1>1, <1>3 DEF ConsentInv, QuestionOrder
  <2>2. \A j \in Checks : /\ said[j] # "none" => said'[j] = said[j]
                          /\ pc[j] # "new" => pc'[j] # "new" /\ call'[j] = call[j]
                          /\ pc'[j] = "allowed" =>
                               pc[j] = "allowed" /\ seenLevel'[j] = seenLevel[j]
    BY <1>1, <1>3
  <2> QED BY <1>1, <2>1, <2>2, ConsentKept DEF ConsentInv
<1> QED BY <1>2, <1>3 DEF TakePrompt

\* The gate lets a check through on the approver's allow, which is the user's.
LEMMA RecordConsent ==
  ASSUME TypeOK, ConsentInv, NEW k \in Checks, NEW v \in Verdicts, Record(k, v),
         v \in {"once", "session"} => said[k] = v
  PROVE  ConsentInv'
<1> USE DEF TypeOK
<1>1. pc[k] = "prompt" /\ UNCHANGED <<call, approver, pending, chan, ret, said, seenLevel>>
  BY DEF Record, approverVars
<1>2. CASE v \in {"deny", "silent"}
  <2>1. pc' = [pc EXCEPT ![k] = "denied"] /\ allowed' = allowed
    BY <1>2 DEF Record
  <2>2. QuestionOrder'
    BY <1>1, <2>1 DEF ConsentInv, QuestionOrder
  <2>3. \A j \in Checks : /\ said[j] # "none" => said'[j] = said[j]
                          /\ pc[j] # "new" => pc'[j] # "new" /\ call'[j] = call[j]
                          /\ pc'[j] = "allowed" =>
                               pc[j] = "allowed" /\ seenLevel'[j] = seenLevel[j]
    BY <1>1, <2>1
  <2> QED BY <2>1, <2>2, <2>3, ConsentKept DEF ConsentInv
<1>3. CASE v \in {"once", "session"}
  <2>1. /\ pc' = [pc EXCEPT ![k] = "allowed"] /\ said[k] = v
        /\ v = "once" => allowed' = allowed
        /\ v = "session" => allowed' = allowed \cup {ToolOf[call[k]]}
    BY <1>3 DEF Record, SessionAllows
  <2>2. QuestionOrder'
    BY <1>1, <2>1 DEF ConsentInv, QuestionOrder
  <2>3. AllowedByUser'
    BY <1>1, <1>3, <2>1 DEF ConsentInv, AllowedByUser
  <2>4. ASSUME NEW j \in Checks, pc'[j] = "allowed", NeedsConsent(j)'
        PROVE  \/ said[j] \in {"once", "session"}
               \/ \E i \in Checks : said[i] = "session" /\ ToolOf[call[i]] = ToolOf[call[j]]
    <3>1. CASE j = k
      BY <1>3, <2>1, <3>1
    <3>2. CASE j # k
      <4>1. pc[j] = "allowed" /\ NeedsConsent(j)
        BY <1>1, <2>1, <2>4, <3>2 DEF NeedsConsent
      <4> QED BY <4>1 DEF ConsentInv, ConsentBehindEveryRisk
    <3> QED BY <3>1, <3>2
  <2>5. ConsentBehindEveryRisk'
    BY <1>1, <2>4 DEF ConsentBehindEveryRisk
  <2> QED BY <2>2, <2>3, <2>5 DEF ConsentInv
<1> QED BY <1>2, <1>3 DEF Verdicts, Answers

LEMMA NextConsent == TypeOK /\ ConsentInv /\ [Next]_vars => ConsentInv'
<1> SUFFICES ASSUME TypeOK, ConsentInv, [Next]_vars
             PROVE  ConsentInv'
  OBVIOUS
<1>1. ASSUME NEW k \in Checks, GateTakes(k)
      PROVE  ConsentInv'
  <2>1. ret[k] \in Verdicts /\ Record(k, ret[k])
    BY <1>1 DEF GateTakes, TypeOK
  <2>2. ret[k] \in {"once", "session"} => said[k] = ret[k]
    BY DEF ConsentInv, QuestionOrder
  <2> QED BY <2>1, <2>2, RecordConsent
<1>2. ASSUME NEW k \in Checks, GateExpires(k)
      PROVE  ConsentInv'
  BY <1>2, RecordConsent DEF GateExpires, Verdicts
<1>3. ASSUME UNCHANGED <<pc, call, seenLevel>>, allowed' \subseteq allowed,
             \A j \in Checks : said[j] # "none" => said'[j] = said[j],
             QuestionOrder'
      PROVE  ConsentInv'
  <2>1. \A j \in Checks : /\ said[j] # "none" => said'[j] = said[j]
                          /\ pc[j] # "new" => pc'[j] # "new" /\ call'[j] = call[j]
                          /\ pc'[j] = "allowed" =>
                               pc[j] = "allowed" /\ seenLevel'[j] = seenLevel[j]
    BY <1>3
  <2> QED BY <1>3, <2>1, ConsentKept DEF ConsentInv
<1>4. ASSUME NEW k \in Checks, Register(k)
      PROVE  ConsentInv'
  <2>1. /\ UNCHANGED <<pc, call, seenLevel, allowed, said, chan, ret>>
        /\ approver[k] = "starting" /\ approver' = [approver EXCEPT ![k] = "waiting"]
        /\ pending' = pending \cup {k}
    BY <1>4 DEF Register, gateVars
  <2>2. QuestionOrder'
    BY <2>1 DEF ConsentInv, QuestionOrder, TypeOK
  <2> QED BY <1>3, <2>1, <2>2
<1>5. ASSUME NEW k \in Checks, NEW a \in Answers, Resolve(k, a)
      PROVE  ConsentInv'
  <2>1. /\ UNCHANGED <<pc, call, seenLevel, allowed, approver, ret>>
        /\ k \in pending /\ pending' = pending \ {k}
        /\ chan' = [chan EXCEPT ![k] = a] /\ said' = [said EXCEPT ![k] = a]
    BY <1>5 DEF Resolve, gateVars
  <2>2. QuestionOrder'
    BY <2>1 DEF ConsentInv, QuestionOrder, TypeOK
  <2>3. \A j \in Checks : said[j] # "none" => said'[j] = said[j]
    BY <2>1 DEF ConsentInv, QuestionOrder, TypeOK
  <2> QED BY <1>3, <2>1, <2>2, <2>3
<1>6. ASSUME NEW k \in Checks, NEW v \in Verdicts, ApproverReturns(k, v),
             v \in {"once", "session"} => said[k] = v
      PROVE  ConsentInv'
  <2>1. /\ UNCHANGED <<pc, call, seenLevel, allowed, said, chan>>
        /\ approver[k] = "waiting" /\ approver' = [approver EXCEPT ![k] = "returned"]
        /\ pending' = pending \ {k} /\ ret' = [ret EXCEPT ![k] = v]
    BY <1>6 DEF ApproverReturns, gateVars
  <2>2. QuestionOrder'
    BY <1>6, <2>1 DEF ConsentInv, QuestionOrder, TypeOK
  <2> QED BY <1>3, <2>1, <2>2
<1>7. ASSUME NEW k \in Checks, ApproverTakes(k) \/ ApproverExpires(k)
      PROVE  ConsentInv'
  <2>1. CASE ApproverTakes(k)
    <3>1. /\ chan[k] \in Verdicts /\ ApproverReturns(k, chan[k])
          /\ chan[k] \in {"once", "session"} => said[k] = chan[k]
      BY <2>1 DEF ApproverTakes, ConsentInv, QuestionOrder, TypeOK, Verdicts
    <3> QED BY <1>6, <3>1
  <2>2. CASE ApproverExpires(k)
    BY <1>6, <2>2 DEF ApproverExpires, Verdicts
  <2> QED BY <1>7, <2>1, <2>2
<1>8. CASE CancelAll
  <2>1. /\ UNCHANGED <<pc, call, seenLevel, allowed, said, approver, ret>>
        /\ pending' = {}
        /\ chan' = [k \in Checks |-> IF k \in pending THEN "deny" ELSE chan[k]]
    BY <1>8 DEF CancelAll, gateVars
  <2>2. QuestionOrder'
    BY <2>1 DEF ConsentInv, QuestionOrder, TypeOK
  <2> QED BY <1>3, <2>1, <2>2
<1>9. CASE (\E l \in Levels : SetLevel(l)) \/ ResetSession \/ UNCHANGED vars
  <2>1. /\ UNCHANGED <<pc, call, seenLevel, said, approver, pending, chan, ret>>
        /\ allowed' \subseteq allowed
    BY <1>9 DEF SetLevel, ResetSession, vars, gateVars, approverVars
  <2>2. QuestionOrder'
    BY <2>1 DEF ConsentInv, QuestionOrder
  <2> QED BY <1>3, <2>1, <2>2
<1> QED BY StartConsent, TakePromptConsent, <1>1, <1>2, <1>4, <1>5, <1>7, <1>8, <1>9
        DEF Next, CheckStep, ApproverStep

\* No call that needs the user's consent goes through without it, whatever the
\* number of concurrent checks, timeouts, cancellations and level changes.
THEOREM NoConsentIsMadeUp == Spec => []ConsentBehindEveryRisk
<1>1. TypeOK /\ ConsentInv /\ [Next]_vars => (TypeOK /\ ConsentInv)'
  BY NextType, NextConsent
<1>2. ConsentInv => ConsentBehindEveryRisk
  BY DEF ConsentInv
<1> QED BY InitType, InitConsent, <1>1, <1>2, PTL DEF Spec
=============================================================================
