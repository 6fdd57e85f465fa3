----------------------- MODULE RequestOverridesProofs -----------------------
(***************************************************************************)
(* Proofs about RequestOverrides, for any finite set of requests, any      *)
(* values and any number of reloads.                                       *)
(***************************************************************************)
EXTENDS RequestOverrides, TLAPS, FiniteSetTheorems

\* Each setting has one place in either order.
LEMMA OrderFacts ==
  /\ \A i \in 1..3 : ApplyOrder[i] \in Settings /\ RestoreOrder[i] \in Settings
  /\ \A s \in Settings : Position(ApplyOrder, s) \in 1..3
                         /\ Position(RestoreOrder, s) \in 1..3
  /\ \A s \in Settings, i \in 1..3 :
       /\ ApplyOrder[i] = s <=> Position(ApplyOrder, s) = i
       /\ RestoreOrder[i] = s <=> Position(RestoreOrder, s) = i
<1>1. \A i \in 1..3 : i = 1 \/ i = 2 \/ i = 3
  OBVIOUS
<1>2. /\ ApplyOrder[1] = "brain" /\ ApplyOrder[2] = "mode" /\ ApplyOrder[3] = "safety"
      /\ RestoreOrder[1] = "mode" /\ RestoreOrder[2] = "safety" /\ RestoreOrder[3] = "brain"
  BY DEF ApplyOrder, RestoreOrder
<1>3. \A s \in Settings : /\ \E i \in 1..3 : ApplyOrder[i] = s
                          /\ \E i \in 1..3 : RestoreOrder[i] = s
  <2>1. 1 \in 1..3 /\ 2 \in 1..3 /\ 3 \in 1..3
    OBVIOUS
  <2> QED BY <1>2, <2>1 DEF Settings
<1>4. \A s \in Settings : /\ Position(ApplyOrder, s) \in 1..3
                          /\ ApplyOrder[Position(ApplyOrder, s)] = s
                          /\ Position(RestoreOrder, s) \in 1..3
                          /\ RestoreOrder[Position(RestoreOrder, s)] = s
  BY <1>3, Zenon DEF Position
<1> QED BY <1>1, <1>2, <1>4 DEF Settings

\* Where a request can be: it is on its first setting and writes nothing
\* outside apply and restore, and it writes only settings it overrides.
Control ==
  \A r \in Requests :
    /\ phase[r] \in {"new", "run", "done"} => idx[r] = 1 /\ ~writing[r]
    /\ phase[r] = "apply" /\ writing[r] => wants[r][AppliedSetting(r)] # NoOverride
    /\ phase[r] = "restore" /\ writing[r] => wants[r][RestoredSetting(r)] # NoOverride

LEMMA InitTypeControl == Init => TypeOK /\ Control
BY ValuesAssumption, RequestsAssumption DEF Init, TypeOK, Control, Settings

\* The typing of the steps, one lemma for the seven request steps.
LEMMA StepType ==
  ASSUME TypeOK, Control, NEW r \in Requests, Step(r)
  PROVE  TypeOK' /\ Control'
<1> USE DEF TypeOK
<1>0. AppliedSetting(r) \in Settings /\ RestoredSetting(r) \in Settings
  BY OrderFacts DEF AppliedSetting, RestoredSetting
<1>a. ASSUME NEW p \in {"run", "done"}, Advance(r, p), phase[r] \in {"apply", "restore"}
      PROVE  /\ phase' \in [Requests -> {"new", "apply", "run", "restore", "done"}]
             /\ idx' \in [Requests -> 1..3]
             /\ writing' \in [Requests -> BOOLEAN]
             /\ wants' = wants => Control'
  <2>1. idx[r] \in 1..3 /\ (idx[r] # 3 => idx[r] + 1 \in 1..3)
    OBVIOUS
  <2> QED BY <1>a, <2>1, SMTT(30) DEF Advance, Control, AppliedSetting, RestoredSetting
<1>1. CASE Begin(r)
  BY <1>1, SMTT(30) DEF Begin, Control, histVars, AppliedSetting, RestoredSetting
<1>2. CASE LeaveSettingAlone(r)
  BY <1>2, <1>a DEF LeaveSettingAlone, histVars
<1>3. CASE CountIn(r)
  BY <1>0, <1>3, SMTT(30) DEF CountIn, Captured, Control, AppliedSetting, RestoredSetting
<1>4. CASE WriteOverride(r)
  <2>1. wants[r][AppliedSetting(r)] \in Values
    BY <1>0, <1>4 DEF WriteOverride, Control
  <2> QED BY <1>0, <1>4, <1>a, <2>1 DEF WriteOverride, histVars
<1>5. CASE RequestReturns(r)
  BY <1>5, SMTT(30) DEF RequestReturns, Control, histVars, AppliedSetting, RestoredSetting
<1>6. CASE CountOut(r)
  <2>1. CASE depth[RestoredSetting(r)] = 1
    <3>1. /\ phase[r] = "restore" /\ wants[r][RestoredSetting(r)] # NoOverride
          /\ depth' = [depth EXCEPT ![RestoredSetting(r)] = @ - 1]
          /\ writing' = [writing EXCEPT ![r] = TRUE]
          /\ UNCHANGED <<live, base, wants, old, phase, idx, histVars>>
      BY <1>6, <2>1 DEF CountOut
    <3>2. TypeOK'
      BY <1>0, <3>1 DEF histVars
    <3>3. Control'
      BY <3>1 DEF Control, AppliedSetting, RestoredSetting
    <3> QED BY <3>2, <3>3
  <2>2. CASE depth[RestoredSetting(r)] # 1
    BY <1>0, <1>6, <1>a, <2>2 DEF CountOut, histVars
  <2> QED BY <2>1, <2>2
<1>7. CASE WriteBase(r)
  BY <1>0, <1>7, <1>a DEF WriteBase, histVars
<1> QED BY <1>1, <1>2, <1>3, <1>4, <1>5, <1>6, <1>7 DEF Step

LEMMA NextType == TypeOK /\ Control /\ [Next]_vars => TypeOK' /\ Control'
<1> SUFFICES ASSUME TypeOK, Control, [Next]_vars
             PROVE  TypeOK' /\ Control'
  OBVIOUS
<1>1. ASSUME NEW r \in Requests, Step(r)
      PROVE  TypeOK' /\ Control'
  BY <1>1, StepType
<1>2. ASSUME NEW v \in Values, ReloadModels(v)
      PROVE  TypeOK' /\ Control'
  BY <1>2, RequestsAssumption
  DEF ReloadModels, TypeOK, Control, reqVars, AppliedSetting, RestoredSetting, Settings
<1>3. CASE UNCHANGED vars
  BY <1>3 DEF vars, reqVars, histVars, TypeOK, Control, AppliedSetting, RestoredSetting
<1> QED BY <1>1, <1>2, <1>3 DEF Next

\* Type correctness of every reachable state.
THEOREM TypeCorrect == Spec => []TypeOK
<1>1. Init => TypeOK /\ Control
  BY InitTypeControl
<1>2. TypeOK /\ Control /\ [Next]_vars => (TypeOK /\ Control)'
  BY NextType
<1> QED BY <1>1, <1>2, PTL DEF Spec

-----------------------------------------------------------------------------
(* Who holds an override of s, step by step *)

\* A step of r changes nobody else's hold; r gains one where it counts itself
\* in and loses one where it counts itself out.
HoldsEffect(r, s) ==
  /\ \A q \in Requests \ {r} : /\ Holds(q, s)' <=> Holds(q, s)
                               /\ WillRestore(q, s)' <=> WillRestore(q, s)
  /\ CountIn(r) /\ AppliedSetting(r) = s =>
       ~Holds(r, s) /\ Holds(r, s)' /\ ~WillRestore(r, s)'
  /\ WriteOverride(r) /\ AppliedSetting(r) = s => Holds(r, s)
  /\ CountOut(r) /\ RestoredSetting(r) = s =>
       /\ Holds(r, s) /\ ~Holds(r, s)'
       /\ WillRestore(r, s)' <=> depth[s] = 1
  /\ ~(CountIn(r) /\ AppliedSetting(r) = s)
     /\ ~(CountOut(r) /\ RestoredSetting(r) = s) =>
       /\ Holds(r, s)' <=> Holds(r, s)
       /\ WillRestore(r, s)' <=> WillRestore(r, s) /\ ~WriteBase(r)

LEMMA HoldsStep ==
  ASSUME TypeOK, Control, NEW r \in Requests, Step(r), NEW s \in Settings
  PROVE  HoldsEffect(r, s)
<1> DEFINE pa == Position(ApplyOrder, s)
           pr == Position(RestoreOrder, s)
<1>0. /\ pa \in 1..3 /\ pr \in 1..3
      /\ AppliedSetting(r) \in Settings /\ RestoredSetting(r) \in Settings
      /\ AppliedSetting(r) = s <=> pa = idx[r]
      /\ RestoredSetting(r) = s <=> pr = idx[r]
      /\ idx[r] \in 1..3
  BY OrderFacts DEF TypeOK, AppliedSetting, RestoredSetting
<1>r. RestoredSetting(r)' = s <=> pr = idx'[r]
  <2>1. idx'[r] \in 1..3
    BY StepType DEF TypeOK
  <2> QED BY <2>1, OrderFacts DEF RestoredSetting
<1>q. ASSUME NEW q \in Requests \ {r}
      PROVE  /\ Holds(q, s)' <=> Holds(q, s)
             /\ WillRestore(q, s)' <=> WillRestore(q, s)
  <2>1. /\ wants'[q] = wants[q] /\ phase'[q] = phase[q]
        /\ idx'[q] = idx[q] /\ writing'[q] = writing[q]
    BY DEF Step, Begin, LeaveSettingAlone, CountIn, WriteOverride, RequestReturns,
           CountOut, WriteBase, Advance, TypeOK
  <2> QED BY <2>1 DEF Holds, WillRestore, HasCountedIn, HasCountedOut, RestoredSetting
<1> HIDE DEF pa, pr
<1>h. /\ Holds(r, s) <=>
           /\ wants[r][s] # NoOverride
           /\ \/ phase[r] \in {"run", "restore"}
              \/ phase[r] = "apply" /\ (idx[r] > pa \/ (idx[r] = pa /\ writing[r]))
           /\ ~(phase[r] = "restore" /\ (idx[r] > pr \/ (idx[r] = pr /\ writing[r])))
      /\ Holds(r, s)' <=>
           /\ wants'[r][s] # NoOverride
           /\ \/ phase'[r] \in {"run", "restore"}
              \/ phase'[r] = "apply" /\ (idx'[r] > pa \/ (idx'[r] = pa /\ writing'[r]))
           /\ ~(phase'[r] = "restore" /\ (idx'[r] > pr \/ (idx'[r] = pr /\ writing'[r])))
      /\ WillRestore(r, s) <=> phase[r] = "restore" /\ writing[r] /\ pr = idx[r]
      /\ WillRestore(r, s)' <=> phase'[r] = "restore" /\ writing'[r] /\ pr = idx'[r]
  BY <1>0, <1>r DEF Holds, WillRestore, HasCountedIn, HasCountedOut, pa, pr
<1> DEFINE Goal ==
         /\ CountIn(r) /\ AppliedSetting(r) = s =>
              ~Holds(r, s) /\ Holds(r, s)' /\ ~WillRestore(r, s)'
         /\ WriteOverride(r) /\ AppliedSetting(r) = s => Holds(r, s)
         /\ CountOut(r) /\ RestoredSetting(r) = s =>
              /\ Holds(r, s) /\ ~Holds(r, s)'
              /\ WillRestore(r, s)' <=> depth[s] = 1
         /\ ~(CountIn(r) /\ AppliedSetting(r) = s)
            /\ ~(CountOut(r) /\ RestoredSetting(r) = s) =>
              /\ Holds(r, s)' <=> Holds(r, s)
              /\ WillRestore(r, s)' <=> WillRestore(r, s) /\ ~WriteBase(r)
<1> SUFFICES Goal
  BY <1>q DEF HoldsEffect
<1>t. /\ phase[r] \in {"new", "apply", "run", "restore", "done"} /\ writing[r] \in BOOLEAN
      /\ phase[r] \in {"new", "run", "done"} => idx[r] = 1 /\ ~writing[r]
      /\ phase[r] = "apply" /\ writing[r] => wants[r][AppliedSetting(r)] # NoOverride
      /\ phase[r] = "restore" /\ writing[r] => wants[r][RestoredSetting(r)] # NoOverride
  BY DEF TypeOK, Control
<1>c. CountIn(r) => phase[r] = "apply" /\ ~writing[r] /\ wants[r][AppliedSetting(r)] # NoOverride
  BY DEF CountIn, Captured
<1>d. CountOut(r) => phase[r] = "restore" /\ ~writing[r]
                     /\ wants[r][RestoredSetting(r)] # NoOverride
  BY DEF CountOut
<1>w. WriteBase(r) => phase[r] = "restore" /\ writing[r]
  BY DEF WriteBase
<1>o. WriteOverride(r) => phase[r] = "apply" /\ writing[r]
  BY DEF WriteOverride
<1>v. ASSUME NEW p \in {"run", "done"}, Advance(r, p)
      PROVE  /\ writing'[r] = FALSE
             /\ idx'[r] = IF idx[r] = 3 THEN 1 ELSE idx[r] + 1
             /\ phase'[r] = IF idx[r] = 3 THEN p ELSE phase[r]
  BY <1>v DEF Advance, TypeOK
<1>1. CASE Begin(r)
  <2>1. phase[r] = "new" /\ phase'[r] = "apply" /\ idx'[r] = idx[r] /\ writing'[r] = writing[r]
    BY <1>1 DEF Begin, TypeOK
  <2> QED BY <2>1, <1>0, <1>h, <1>t, <1>c, <1>d, <1>w, <1>o
<1>2. CASE LeaveSettingAlone(r)
  <2>1. ~writing[r] /\ wants' = wants
    BY <1>2 DEF LeaveSettingAlone
  <2>2. CASE phase[r] = "apply" /\ wants[r][AppliedSetting(r)] = NoOverride /\ Advance(r, "run")
    <3>1. /\ writing'[r] = FALSE
          /\ idx'[r] = (IF idx[r] = 3 THEN 1 ELSE idx[r] + 1)
          /\ phase'[r] = (IF idx[r] = 3 THEN "run" ELSE phase[r])
      BY <2>2, <1>v
    <3> QED BY <2>1, <2>2, <3>1, <1>0, <1>h, <1>t, <1>c, <1>d, <1>w, <1>o
  <2>3. CASE phase[r] = "restore" /\ wants[r][RestoredSetting(r)] = NoOverride
             /\ Advance(r, "done")
    <3>1. /\ writing'[r] = FALSE
          /\ idx'[r] = (IF idx[r] = 3 THEN 1 ELSE idx[r] + 1)
          /\ phase'[r] = (IF idx[r] = 3 THEN "done" ELSE phase[r])
      BY <2>3, <1>v
    <3> QED BY <2>1, <2>3, <3>1, <1>0, <1>h, <1>t, <1>c, <1>d, <1>w, <1>o
  <2> QED BY <1>2, <2>2, <2>3 DEF LeaveSettingAlone
<1>3. CASE CountIn(r)
  <2>1. /\ wants' = wants /\ phase' = phase /\ idx' = idx /\ writing'[r] = TRUE
    BY <1>3 DEF CountIn, Captured, TypeOK
  <2> QED BY <2>1, <1>3, <1>0, <1>h, <1>t, <1>c, <1>d, <1>w, <1>o
<1>4. CASE WriteOverride(r)
  <2>1. phase[r] = "apply" /\ writing[r] /\ wants' = wants /\ Advance(r, "run")
    BY <1>4 DEF WriteOverride
  <2>2. /\ writing'[r] = FALSE
        /\ idx'[r] = (IF idx[r] = 3 THEN 1 ELSE idx[r] + 1)
        /\ phase'[r] = (IF idx[r] = 3 THEN "run" ELSE phase[r])
    BY <2>1, <1>v
  <2> QED BY <2>1, <2>2, <1>0, <1>h, <1>t, <1>c, <1>d, <1>w, <1>o
<1>5. CASE RequestReturns(r)
  <2>1. /\ phase[r] = "run" /\ phase'[r] = "restore"
        /\ wants' = wants /\ idx' = idx /\ writing' = writing
    BY <1>5 DEF RequestReturns, TypeOK
  <2> QED BY <2>1, <1>0, <1>h, <1>t, <1>c, <1>d, <1>w, <1>o
<1>6. CASE CountOut(r)
  <2>1. wants' = wants
    BY <1>6 DEF CountOut
  <2>2. CASE depth[RestoredSetting(r)] = 1
    <3>1. phase' = phase /\ idx' = idx /\ writing'[r] = TRUE
      BY <1>6, <2>2 DEF CountOut, TypeOK
    <3> QED BY <2>1, <2>2, <3>1, <1>6, <1>0, <1>h, <1>t, <1>c, <1>d, <1>w, <1>o
  <2>3. CASE depth[RestoredSetting(r)] # 1
    <3>1. Advance(r, "done")
      BY <1>6, <2>3 DEF CountOut
    <3>2. /\ writing'[r] = FALSE
          /\ idx'[r] = (IF idx[r] = 3 THEN 1 ELSE idx[r] + 1)
          /\ phase'[r] = (IF idx[r] = 3 THEN "done" ELSE phase[r])
      BY <3>1, <1>v
    <3> QED BY <2>1, <2>3, <3>1, <3>2, <1>6, <1>0, <1>h, <1>t, <1>c, <1>d, <1>w, <1>o
  <2> QED BY <2>2, <2>3
<1>7. CASE WriteBase(r)
  <2>1. phase[r] = "restore" /\ writing[r] /\ wants' = wants /\ Advance(r, "done")
    BY <1>7 DEF WriteBase
  <2>2. /\ writing'[r] = FALSE
        /\ idx'[r] = (IF idx[r] = 3 THEN 1 ELSE idx[r] + 1)
        /\ phase'[r] = (IF idx[r] = 3 THEN "done" ELSE phase[r])
    BY <2>1, <1>v
  <2> QED BY <1>7, <2>1, <2>2, <1>0, <1>h, <1>t, <1>c, <1>d, <1>w, <1>o
<1> QED BY <1>1, <1>2, <1>3, <1>4, <1>5, <1>6, <1>7 DEF Step
-----------------------------------------------------------------------------
(* The counter and the saved values *)

\* The base a last override out is about to write is the configured value.
WritersBringBase ==
  \A s \in Settings : \A r \in RestoringWriters(s) :
    ~raced[s] => old[r][s] = configured[s]

IInv == /\ TypeOK /\ Control
        /\ DepthCountsHolders
        /\ BaseKeptOutsideTheWindow /\ SavedBaseIsConfigured /\ WritersBringBase

LEMMA HoldersFinite ==
  ASSUME NEW s \in Settings
  PROVE  IsFiniteSet(Holders(s)) /\ IsFiniteSet(Holders(s)')
BY RequestsAssumption, FS_Subset DEF Holders

LEMMA InitIInv == Init => IInv
<1> SUFFICES ASSUME Init PROVE IInv
  OBVIOUS
<1>1. TypeOK /\ Control
  BY InitTypeControl
<1>2. \A s \in Settings : Holders(s) = {} /\ RestoringWriters(s) = {}
  BY DEF Init, Holders, Holds, RestoringWriters, WillRestore
<1>3. DepthCountsHolders
  BY <1>2, FS_EmptySet DEF Init, DepthCountsHolders
<1> QED BY <1>1, <1>2, <1>3
        DEF Init, IInv, BaseKeptOutsideTheWindow, SavedBaseIsConfigured, WritersBringBase

\* What one step of r does to the values of one setting.
LEMMA StepEffect ==
  ASSUME TypeOK, NEW r \in Requests, Step(r), NEW s \in Settings
  PROVE  /\ configured' = configured
         /\ raced[s] => raced'[s]
         /\ CountIn(r) /\ AppliedSetting(r) = s =>
              /\ live'[s] = live[s] /\ depth'[s] = depth[s] + 1
              /\ old'[r][s] = (IF depth[s] = 0 THEN live[s] ELSE base[s])
              /\ base'[s] = (IF depth[s] = 0 THEN live[s] ELSE base[s])
              /\ ~raced'[s] => RestoringWriters(s) = {}
              /\ \A q \in Requests \ {r} : old'[q] = old[q]
         /\ CountOut(r) /\ RestoredSetting(r) = s =>
              /\ live'[s] = live[s] /\ depth'[s] = depth[s] - 1
         /\ ~(CountIn(r) /\ AppliedSetting(r) = s) =>
              base'[s] = base[s] /\ \A q \in Requests : old'[q][s] = old[q][s]
         /\ ~(CountIn(r) /\ AppliedSetting(r) = s)
            /\ ~(CountOut(r) /\ RestoredSetting(r) = s) => depth'[s] = depth[s]
         /\ WriteBase(r) /\ WillRestore(r, s) => live'[s] = old[r][s]
         /\ ~(WriteOverride(r) /\ AppliedSetting(r) = s)
            /\ ~(WriteBase(r) /\ WillRestore(r, s)) => live'[s] = live[s]
<1> USE DEF TypeOK
<1>0. AppliedSetting(r) \in Settings /\ RestoredSetting(r) \in Settings
  BY OrderFacts DEF AppliedSetting, RestoredSetting
<1>p. /\ CountIn(r) => phase[r] = "apply" /\ ~writing[r]
      /\ WriteOverride(r) => phase[r] = "apply" /\ writing[r]
      /\ CountOut(r) => phase[r] = "restore" /\ ~writing[r]
      /\ WillRestore(r, s) => phase[r] = "restore" /\ writing[r]
  BY DEF CountIn, Captured, WriteOverride, CountOut, WillRestore
<1>1. CASE Begin(r) \/ LeaveSettingAlone(r) \/ RequestReturns(r)
  <2>1. UNCHANGED <<live, depth, base, old, configured, raced>>
    BY <1>1 DEF Begin, LeaveSettingAlone, RequestReturns, histVars
  <2>2. ~CountIn(r) /\ ~CountOut(r) /\ ~WillRestore(r, s)
    BY <1>1, <1>p DEF Begin, LeaveSettingAlone, RequestReturns, CountIn, CountOut
  <2> QED BY <2>1, <2>2
<1>2. CASE CountIn(r)
  <2>1. /\ UNCHANGED <<live, configured>> /\ ~WriteOverride(r) /\ ~CountOut(r)
        /\ ~WillRestore(r, s)
    BY <1>2, <1>p DEF CountIn, Captured
  <2>2. CASE AppliedSetting(r) = s
    <3>1. /\ depth'[s] = depth[s] + 1
          /\ raced[s] => raced'[s]
          /\ ~raced'[s] => RestoringWriters(s) = {}
          /\ base'[s] = (IF depth[s] = 0 THEN live[s] ELSE base[s])
          /\ old'[r][s] = (IF depth[s] = 0 THEN live[s] ELSE base[s])
          /\ \A q \in Requests \ {r} : old'[q] = old[q]
      BY <1>2, <2>2 DEF CountIn, Captured
    <3> QED BY <1>2, <2>1, <2>2, <3>1
  <2>3. CASE AppliedSetting(r) # s
    <3>1. /\ depth'[s] = depth[s] /\ raced'[s] = raced[s] /\ base'[s] = base[s]
          /\ \A q \in Requests : old'[q][s] = old[q][s]
      BY <1>0, <1>2, <2>3 DEF CountIn, Captured
    <3> QED BY <2>1, <2>3, <3>1
  <2> QED BY <2>2, <2>3
<1>3. CASE WriteOverride(r)
  <2>1. /\ UNCHANGED <<depth, base, old, configured, raced>>
        /\ live' = [live EXCEPT ![AppliedSetting(r)] = wants[r][AppliedSetting(r)]]
    BY <1>3 DEF WriteOverride, histVars
  <2> QED BY <2>1, <1>0, <1>3, <1>p
<1>4. CASE CountOut(r)
  <2>1. /\ UNCHANGED <<live, base, old, configured, raced>>
        /\ depth' = [depth EXCEPT ![RestoredSetting(r)] = @ - 1]
    BY <1>4 DEF CountOut, histVars
  <2> QED BY <2>1, <1>0, <1>4, <1>p
<1>5. CASE WriteBase(r)
  <2>1. /\ UNCHANGED <<depth, base, old, configured, raced>>
        /\ live' = [live EXCEPT ![RestoredSetting(r)] = old[r][RestoredSetting(r)]]
        /\ phase[r] = "restore" /\ writing[r]
    BY <1>5 DEF WriteBase, histVars
  <2> QED BY <2>1, <1>0, <1>5, <1>p DEF WillRestore
<1> QED BY <1>1, <1>2, <1>3, <1>4, <1>5 DEF Step

LEMMA StepDepth ==
  ASSUME IInv, NEW r \in Requests, Step(r)
  PROVE  DepthCountsHolders'
<1> SUFFICES ASSUME NEW s \in Settings
             PROVE  depth'[s] = Cardinality(Holders(s)')
  BY DEF DepthCountsHolders
<1>0. TypeOK /\ Control
  BY DEF IInv
<1>e. HoldsEffect(r, s)
  BY <1>0, HoldsStep
<1>h. /\ \A q \in Requests \ {r} : Holds(q, s)' <=> Holds(q, s)
      /\ CountIn(r) /\ AppliedSetting(r) = s => ~Holds(r, s) /\ Holds(r, s)'
      /\ CountOut(r) /\ RestoredSetting(r) = s => Holds(r, s) /\ ~Holds(r, s)'
      /\ ~(CountIn(r) /\ AppliedSetting(r) = s)
         /\ ~(CountOut(r) /\ RestoredSetting(r) = s) => (Holds(r, s)' <=> Holds(r, s))
  BY <1>e DEF HoldsEffect
<1>1. depth[s] = Cardinality(Holders(s)) /\ depth[s] \in Int
  BY DEF IInv, DepthCountsHolders, TypeOK
<1>2. IsFiniteSet(Holders(s))
  BY HoldersFinite
<1>3. CASE CountIn(r) /\ AppliedSetting(r) = s
  <2>1. Holders(s)' = Holders(s) \cup {r} /\ r \notin Holders(s)
    BY <1>3, <1>h DEF Holders
  <2>2. Cardinality(Holders(s)') = Cardinality(Holders(s)) + 1
    BY <1>2, <2>1, FS_AddElement
  <2> QED BY <1>1, <1>3, <2>2, <1>0, StepEffect
<1>4. CASE CountOut(r) /\ RestoredSetting(r) = s
  <2>1. Holders(s)' = Holders(s) \ {r} /\ r \in Holders(s)
    BY <1>4, <1>h DEF Holders
  <2>2. Cardinality(Holders(s)') = Cardinality(Holders(s)) - 1
    BY <1>2, <2>1, FS_RemoveElement
  <2> QED BY <1>1, <1>4, <2>2, <1>0, StepEffect
<1>5. CASE ~(CountIn(r) /\ AppliedSetting(r) = s) /\ ~(CountOut(r) /\ RestoredSetting(r) = s)
  <2>1. Holders(s)' = Holders(s)
    BY <1>5, <1>h DEF Holders
  <2> QED BY <1>1, <1>5, <2>1, <1>0, StepEffect
<1> QED BY <1>3, <1>4, <1>5

LEMMA StepValues ==
  ASSUME IInv, NEW r \in Requests, Step(r)
  PROVE  BaseKeptOutsideTheWindow' /\ SavedBaseIsConfigured' /\ WritersBringBase'
<1>0. TypeOK /\ Control
  BY DEF IInv
<1>d. DepthCountsHolders'
  BY StepDepth
<1>1. ASSUME NEW s \in Settings, ~raced'[s]
      PROVE  /\ Quiet(s)' => live'[s] = configured'[s]
             /\ \A q \in Holders(s)' :
                  old'[q][s] = configured'[s] /\ base'[s] = configured'[s]
             /\ \A q \in RestoringWriters(s)' : old'[q][s] = configured'[s]
  <2>e. HoldsEffect(r, s)
    BY <1>0, HoldsStep
  <2>c. configured'[s] = configured[s] /\ ~raced[s]
    BY <1>0, <1>1, StepEffect
  <2>i. /\ Quiet(s) => live[s] = configured[s]
        /\ \A q \in Holders(s) : old[q][s] = configured[s] /\ base[s] = configured[s]
        /\ \A q \in RestoringWriters(s) : old[q][s] = configured[s]
    BY <2>c DEF IInv, BaseKeptOutsideTheWindow, SavedBaseIsConfigured, WritersBringBase,
                Holders
  <2>q. /\ Quiet(s) <=> Holders(s) = {} /\ RestoringWriters(s) = {}
        /\ Quiet(s)' <=> Holders(s)' = {} /\ RestoringWriters(s)' = {}
    BY DEF Quiet
  <2>s. Holders(s) \subseteq Requests /\ RestoringWriters(s) \subseteq Requests
    BY DEF Holders, RestoringWriters
  <2>o. \A q \in Requests \ {r} : /\ Holds(q, s)' <=> Holds(q, s)
                                  /\ WillRestore(q, s)' <=> WillRestore(q, s)
    BY <2>e DEF HoldsEffect
  <2>1. CASE CountIn(r) /\ AppliedSetting(r) = s
    <3> DEFINE captured == IF depth[s] = 0 THEN live[s] ELSE base[s]
    <3>0. ~Holds(r, s) /\ Holds(r, s)' /\ ~WillRestore(r, s)'
      BY <2>1, <2>e DEF HoldsEffect
    <3>h. Holders(s)' = Holders(s) \cup {r}
      BY <3>0, <2>o DEF Holders
    <3>w. RestoringWriters(s)' \subseteq RestoringWriters(s)
      BY <3>0, <2>o DEF RestoringWriters
    <3>1. Holders(s)' = Holders(s) \cup {r} /\ RestoringWriters(s)' \subseteq RestoringWriters(s)
      BY <3>h, <3>w
    <3>2. /\ old'[r][s] = captured /\ base'[s] = captured
          /\ RestoringWriters(s) = {}
          /\ \A q \in Requests \ {r} : old'[q] = old[q]
      BY <1>0, <1>1, <2>1, StepEffect
    <3>3. captured = configured[s]
      <4>1. CASE depth[s] = 0
        <5>1. Holders(s) = {}
          BY <4>1, HoldersFinite, FS_EmptySet DEF IInv, DepthCountsHolders
        <5> QED BY <3>2, <4>1, <5>1, <2>i DEF Quiet
      <4>2. CASE depth[s] # 0
        <5>1. Holders(s) # {}
          BY <4>2, FS_EmptySet DEF IInv, DepthCountsHolders
        <5> QED BY <4>2, <5>1, <2>i
      <4> QED BY <4>1, <4>2
    <3> HIDE DEF captured
    <3> QED BY <3>1, <3>2, <3>3, <2>c, <2>i, <2>q, <2>s
  <2>2. CASE CountOut(r) /\ RestoredSetting(r) = s
    <3>0. /\ Holds(r, s) /\ ~Holds(r, s)'
          /\ WillRestore(r, s)' <=> depth[s] = 1
      BY <2>2, <2>e DEF HoldsEffect
    <3>1. /\ r \in Holders(s) /\ Holders(s)' \subseteq Holders(s)
          /\ RestoringWriters(s)' \subseteq RestoringWriters(s) \cup {r}
          /\ depth[s] = 1 => r \in RestoringWriters(s)'
      <4>1. r \in Holders(s) /\ Holders(s)' \subseteq Holders(s)
        BY <3>0, <2>o DEF Holders
      <4>2. RestoringWriters(s)' \subseteq RestoringWriters(s) \cup {r}
        BY <2>o DEF RestoringWriters
      <4>3. depth[s] = 1 => r \in RestoringWriters(s)'
        BY <3>0 DEF RestoringWriters
      <4> QED BY <4>1, <4>2, <4>3
    <3>2. ~CountIn(r)
      BY <2>2 DEF CountIn, Captured, CountOut
    <3>3. /\ base'[s] = base[s] /\ depth'[s] = depth[s] - 1
          /\ \A q \in Requests : old'[q][s] = old[q][s]
      BY <1>0, <2>2, <3>2, StepEffect
    <3>4. ~Quiet(s)'
      <4>1. CASE depth[s] = 1
        BY <3>1, <4>1, <2>q
      <4>2. CASE depth[s] # 1
        <5>1. depth'[s] = Cardinality(Holders(s)') /\ depth[s] \in Int
          BY <1>0, <1>d DEF DepthCountsHolders, TypeOK
        <5>2. Holders(s)' # {}
          BY <3>3, <4>2, <5>1, FS_EmptySet
        <5> QED BY <5>2, <2>q
      <4> QED BY <4>1, <4>2
    <3> QED BY <3>1, <3>3, <3>4, <2>c, <2>i, <2>s
  <2>3. CASE ~(CountIn(r) /\ AppliedSetting(r) = s) /\ ~(CountOut(r) /\ RestoredSetting(r) = s)
    <3>0. /\ Holds(r, s)' <=> Holds(r, s)
          /\ WillRestore(r, s)' <=> WillRestore(r, s) /\ ~WriteBase(r)
          /\ WriteOverride(r) /\ AppliedSetting(r) = s => Holds(r, s)
      BY <2>3, <2>e DEF HoldsEffect
    <3>1. /\ Holders(s)' = Holders(s)
          /\ RestoringWriters(s)' \subseteq RestoringWriters(s)
          /\ \A q \in RestoringWriters(s) \ RestoringWriters(s)' :
               q = r /\ WriteBase(r) /\ WillRestore(r, s)
          /\ WriteOverride(r) /\ AppliedSetting(r) = s => Holders(s) # {}
          /\ WillRestore(r, s) => r \in RestoringWriters(s)
      <4>1. Holders(s)' = Holders(s)
        BY <3>0, <2>o DEF Holders
      <4>2. RestoringWriters(s)' \subseteq RestoringWriters(s)
        BY <3>0, <2>o DEF RestoringWriters
      <4>3. \A q \in RestoringWriters(s) \ RestoringWriters(s)' :
              q = r /\ WriteBase(r) /\ WillRestore(r, s)
        BY <3>0, <2>o DEF RestoringWriters
      <4>4. /\ WriteOverride(r) /\ AppliedSetting(r) = s => Holders(s) # {}
            /\ WillRestore(r, s) => r \in RestoringWriters(s)
        BY <3>0 DEF Holders, RestoringWriters
      <4> QED BY <4>1, <4>2, <4>3, <4>4
    <3>2. base'[s] = base[s] /\ \A q \in Requests : old'[q][s] = old[q][s]
      BY <1>0, <2>3, StepEffect
    <3>3. /\ WriteBase(r) /\ WillRestore(r, s) => live'[s] = old[r][s]
          /\ ~(WriteOverride(r) /\ AppliedSetting(r) = s)
             /\ ~(WriteBase(r) /\ WillRestore(r, s)) => live'[s] = live[s]
      BY <1>0, StepEffect
    <3>4. Quiet(s)' => live'[s] = configured'[s]
      <4> SUFFICES ASSUME Quiet(s)' PROVE live'[s] = configured[s]
        BY <2>c
      <4>1. Holders(s) = {} /\ RestoringWriters(s)' = {}
        BY <3>1, <2>q
      <4>2. CASE RestoringWriters(s) = {}
        BY <4>1, <4>2, <3>1, <3>3, <2>i, <2>q
      <4>3. CASE RestoringWriters(s) # {}
        BY <4>1, <4>3, <3>1, <3>3, <2>i
      <4> QED BY <4>2, <4>3
    <3> QED BY <3>1, <3>2, <3>4, <2>c, <2>i, <2>s
  <2> QED BY <2>1, <2>2, <2>3
<1> QED BY <1>1 DEF BaseKeptOutsideTheWindow, SavedBaseIsConfigured, WritersBringBase

\* A reload holds nothing and marks the window when somebody does.
LEMMA ReloadKeepsIInv ==
  ASSUME IInv, NEW v \in Values, ReloadModels(v)
  PROVE  IInv'
<1>1. TypeOK' /\ Control'
  BY NextType DEF IInv, Next
<1>2. /\ UNCHANGED <<depth, base, wants, old, phase, idx, writing>>
      /\ live' = [live EXCEPT !["mode"] = v]
      /\ configured' = [configured EXCEPT !["mode"] = v]
      /\ raced' = [raced EXCEPT !["mode"] =
                     @ \/ Holders("mode") # {} \/ RestoringWriters("mode") # {}]
  BY DEF ReloadModels, reqVars
<1>3. \A s \in Settings : Holders(s)' = Holders(s) /\ RestoringWriters(s)' = RestoringWriters(s)
  BY <1>2 DEF Holders, Holds, HasCountedIn, HasCountedOut, RestoringWriters, WillRestore,
              RestoredSetting
<1>4. DepthCountsHolders'
  BY <1>2, <1>3 DEF IInv, DepthCountsHolders
<1>5. ASSUME NEW s \in Settings, ~raced'[s]
      PROVE  /\ ~raced[s]
             /\ s = "mode" => Quiet(s) /\ live'[s] = v /\ configured'[s] = v
             /\ s # "mode" => live'[s] = live[s] /\ configured'[s] = configured[s]
  BY <1>2, <1>5 DEF IInv, TypeOK, Quiet
<1>6. BaseKeptOutsideTheWindow' /\ SavedBaseIsConfigured' /\ WritersBringBase'
  BY <1>2, <1>3, <1>5
  DEF IInv, BaseKeptOutsideTheWindow, SavedBaseIsConfigured, WritersBringBase, Quiet
<1> QED BY <1>1, <1>4, <1>6 DEF IInv

LEMMA NextIInv == IInv /\ [Next]_vars => IInv'
<1> SUFFICES ASSUME IInv, [Next]_vars
             PROVE  IInv'
  OBVIOUS
<1>1. ASSUME NEW r \in Requests, Step(r)
      PROVE  IInv'
  <2>1. TypeOK' /\ Control'
    BY <1>1, StepType DEF IInv
  <2> QED BY <1>1, <2>1, StepDepth, StepValues DEF IInv
<1>2. ASSUME NEW v \in Values, ReloadModels(v)
      PROVE  IInv'
  BY <1>2, ReloadKeepsIInv
<1>3. CASE UNCHANGED vars
  <2>1. TypeOK' /\ Control'
    BY NextType DEF IInv
  <2>2. UNCHANGED <<live, depth, base, wants, old, phase, idx, writing, configured, raced>>
    BY <1>3 DEF vars, reqVars, histVars
  <2>3. \A s \in Settings : Holders(s)' = Holders(s)
                            /\ RestoringWriters(s)' = RestoringWriters(s)
    BY <2>2 DEF Holders, Holds, HasCountedIn, HasCountedOut, RestoringWriters, WillRestore,
                RestoredSetting
  <2> QED BY <2>1, <2>2, <2>3
          DEF IInv, DepthCountsHolders, BaseKeptOutsideTheWindow, SavedBaseIsConfigured,
              WritersBringBase, Quiet
<1> QED BY <1>1, <1>2, <1>3 DEF Next

\* The counter of each setting is the number of requests that override it,
\* for any number of requests (overrideMu with modeDepth, safetyDepth and
\* forceLocDepth).
THEOREM DepthIsExact == Spec => []DepthCountsHolders
<1>1. IInv => DepthCountsHolders
  BY DEF IInv
<1> QED BY <1>1, InitIInv, NextIInv, PTL DEF Spec

\* Outside the window between the unlock and the setter, a setting nobody
\* overrides has its configured value.
THEOREM BaseKept == Spec => []BaseKeptOutsideTheWindow
<1>1. IInv => BaseKeptOutsideTheWindow
  BY DEF IInv
<1> QED BY <1>1, InitIInv, NextIInv, PTL DEF Spec

\* Outside that window no request saves another one's override as the base.
THEOREM SavedBase == Spec => []SavedBaseIsConfigured
<1>1. IInv => SavedBaseIsConfigured
  BY DEF IInv
<1> QED BY <1>1, InitIInv, NextIInv, PTL DEF Spec
=============================================================================
