-------------------------- MODULE RequestOverrides --------------------------
(***************************************************************************)
(* Per-request overrides of settings that live on shared objects:          *)
(* ApplyRequestOverrides of kernel/orchestrator/kernel.go. A request may    *)
(* override the brain selector and the routing mode (on the router) and    *)
(* the safety level (on the permission gate) for its own duration. Each    *)
(* setting has a depth counter and a base value under overrideMu; the      *)
(* router's and the gate's own setters are called after that lock is       *)
(* released, so counting and writing are two steps.                        *)
(*                                                                         *)
(* Requests run concurrently (the server does not serialise them). Loop    *)
(* and tool overrides travel in the request's context and share nothing.   *)
(***************************************************************************)
EXTENDS Integers, FiniteSets, Sequences

CONSTANTS
  Requests,   \* requests with overrides
  Values,     \* the values a setting can have
  Default,    \* the configured value at start
  NoOverride, \* an empty string in the request: leave the setting alone
  MaxReloads  \* bound of the model: model reloads

ASSUME ValuesAssumption == Default \in Values /\ NoOverride \notin Values
ASSUME RequestsAssumption == IsFiniteSet(Requests) /\ MaxReloads \in Nat

Settings == {"brain", "mode", "safety"}

\* The order in which one request applies and restores its overrides.
ApplyOrder == <<"brain", "mode", "safety">>
RestoreOrder == <<"mode", "safety", "brain">>

VARIABLES
  live,       \* what the router and the gate use
  depth,      \* modeDepth, safetyDepth, forceLocDepth
  base,       \* modeBase, safetyBase, forceLocBase
  wants,      \* the overrides of each request
  old,        \* the request's oldMode, oldLevel, oldForceLocal
  phase,      \* where each request is
  idx,        \* which setting it is applying or restoring
  writing,    \* it has counted and is about to call the setter
  configured, \* history: the value the configuration last asked for
  raced,      \* history: a save or a reload fell into a request's override
  reloads     \* reloads made

reqVars == <<wants, old, phase, idx, writing>>
histVars == <<configured, raced, reloads>>
vars == <<live, depth, base, reqVars, histVars>>

AppliedSetting(r) == ApplyOrder[idx[r]]
RestoredSetting(r) == RestoreOrder[idx[r]]

\* On to the next setting, or to the next phase after the third one.
Advance(r, nextPhase) ==
  /\ writing' = [writing EXCEPT ![r] = FALSE]
  /\ idx' = [idx EXCEPT ![r] = IF @ = 3 THEN 1 ELSE @ + 1]
  /\ phase' = [phase EXCEPT ![r] = IF idx[r] = 3 THEN nextPhase ELSE @]

\* Requests that are between counting themselves in and counting themselves
\* out of setting s.
Position(order, s) == CHOOSE i \in 1..3 : order[i] = s
HasCountedIn(r, s) ==
  \/ phase[r] \in {"run", "restore"}
  \/ phase[r] = "apply" /\ \/ idx[r] > Position(ApplyOrder, s)
                           \/ idx[r] = Position(ApplyOrder, s) /\ writing[r]
HasCountedOut(r, s) ==
  /\ phase[r] = "restore"
  /\ \/ idx[r] > Position(RestoreOrder, s)
     \/ idx[r] = Position(RestoreOrder, s) /\ writing[r]
Holds(r, s) == wants[r][s] # NoOverride /\ HasCountedIn(r, s) /\ ~HasCountedOut(r, s)
Holders(s) == {r \in Requests : Holds(r, s)}

\* Requests about to write the base of s back.
WillRestore(r, s) == phase[r] = "restore" /\ writing[r] /\ RestoredSetting(r) = s
RestoringWriters(s) == {r \in Requests : WillRestore(r, s)}

-----------------------------------------------------------------------------
(* ApplyRequestOverrides *)

Begin(r) ==
  /\ phase[r] = "new"
  /\ wants' \in {[wants EXCEPT ![r] = w] : w \in [Settings -> Values \cup {NoOverride}]}
  /\ phase' = [phase EXCEPT ![r] = "apply"]
  /\ UNCHANGED <<live, depth, base, old, idx, writing, histVars>>

LeaveSettingAlone(r) ==
  /\ ~writing[r]
  /\ \/ phase[r] = "apply" /\ wants[r][AppliedSetting(r)] = NoOverride /\ Advance(r, "run")
     \/ phase[r] = "restore" /\ wants[r][RestoredSetting(r)] = NoOverride
                             /\ Advance(r, "done")
  /\ UNCHANGED <<live, depth, base, wants, old, histVars>>

\* The first override of a setting saves the value in use, the others take the
\* saved one. Seeded fault: every override saves the value in use.
CaptureLive(s) == live[s]
Captured(s) == IF depth[s] = 0 THEN live[s] ELSE base[s]

\* Under overrideMu: the first override captures the base, all of them count.
CountIn(r) ==
  LET s == AppliedSetting(r)
      captured == Captured(s)
  IN
  /\ phase[r] = "apply" /\ ~writing[r] /\ wants[r][s] # NoOverride
  /\ base' = [base EXCEPT ![s] = captured]
  /\ depth' = [depth EXCEPT ![s] = @ + 1]
  /\ old' = [old EXCEPT ![r][s] = captured]
  /\ writing' = [writing EXCEPT ![r] = TRUE]
  /\ raced' = [raced EXCEPT ![s] = @ \/ RestoringWriters(s) # {}]
  /\ UNCHANGED <<live, wants, phase, idx, configured, reloads>>

\* SetForceLocal, SetMode, SetLevel: after the unlock.
WriteOverride(r) ==
  LET s == AppliedSetting(r) IN
  /\ phase[r] = "apply" /\ writing[r]
  /\ live' = [live EXCEPT ![s] = wants[r][s]]
  /\ Advance(r, "run")
  /\ UNCHANGED <<depth, base, wants, old, histVars>>

-----------------------------------------------------------------------------
(* The restore function, deferred to the end of the request *)

RequestReturns(r) ==
  /\ phase[r] = "run"
  /\ phase' = [phase EXCEPT ![r] = "restore"]
  /\ UNCHANGED <<live, depth, base, wants, old, idx, writing, histVars>>

\* Seeded fault: the last override out does not write the base back.
CountOutOnly(r) ==
  /\ phase[r] = "restore" /\ ~writing[r] /\ wants[r][RestoredSetting(r)] # NoOverride
  /\ depth' = [depth EXCEPT ![RestoredSetting(r)] = @ - 1]
  /\ Advance(r, "done")
  /\ UNCHANGED <<live, base, wants, old, histVars>>

\* Under overrideMu: only the last override out will write the base back.
CountOut(r) ==
  LET s == RestoredSetting(r) IN
  /\ phase[r] = "restore" /\ ~writing[r] /\ wants[r][s] # NoOverride
  /\ depth' = [depth EXCEPT ![s] = @ - 1]
  /\ IF depth[s] = 1
     THEN writing' = [writing EXCEPT ![r] = TRUE] /\ UNCHANGED <<phase, idx>>
     ELSE Advance(r, "done")
  /\ UNCHANGED <<live, base, wants, old, histVars>>

WriteBase(r) ==
  LET s == RestoredSetting(r) IN
  /\ phase[r] = "restore" /\ writing[r]
  /\ live' = [live EXCEPT ![s] = old[r][s]]
  /\ Advance(r, "done")
  /\ UNCHANGED <<depth, base, wants, old, histVars>>

-----------------------------------------------------------------------------
\* ReloadModels: the configuration's routing mode is put on the router at
\* once, whatever overrides are active.
ReloadModels(v) ==
  /\ reloads < MaxReloads
  /\ reloads' = reloads + 1
  /\ live' = [live EXCEPT !["mode"] = v]
  /\ configured' = [configured EXCEPT !["mode"] = v]
  /\ raced' = [raced EXCEPT !["mode"] =
                 @ \/ Holders("mode") # {} \/ RestoringWriters("mode") # {}]
  /\ UNCHANGED <<depth, base, reqVars>>

Init ==
  /\ live = [s \in Settings |-> Default] /\ configured = live
  /\ base = live \* the zero value, read by nobody while the depth is 0
  /\ depth = [s \in Settings |-> 0]
  /\ wants = [r \in Requests |-> [s \in Settings |-> NoOverride]]
  /\ old = [r \in Requests |-> [s \in Settings |-> Default]]
  /\ phase = [r \in Requests |-> "new"]
  /\ idx = [r \in Requests |-> 1]
  /\ writing = [r \in Requests |-> FALSE]
  /\ raced = [s \in Settings |-> FALSE]
  /\ reloads = 0

Step(r) ==
  \/ Begin(r) \/ LeaveSettingAlone(r) \/ CountIn(r) \/ WriteOverride(r)
  \/ RequestReturns(r) \/ CountOut(r) \/ WriteBase(r)

Next ==
  \/ \E r \in Requests : Step(r)
  \/ \E v \in Values : ReloadModels(v)

Spec == Init /\ [][Next]_vars

-----------------------------------------------------------------------------
(* Properties *)

TypeOK ==
  /\ live \in [Settings -> Values] /\ base \in [Settings -> Values]
  /\ configured \in [Settings -> Values]
  /\ depth \in [Settings -> Int]
  /\ wants \in [Requests -> [Settings -> Values \cup {NoOverride}]]
  /\ old \in [Requests -> [Settings -> Values]]
  /\ phase \in [Requests -> {"new", "apply", "run", "restore", "done"}]
  /\ idx \in [Requests -> 1..3]
  /\ writing \in [Requests -> BOOLEAN]
  /\ raced \in [Settings -> BOOLEAN]
  /\ reloads \in 0..MaxReloads

\* The counter of a setting is the number of requests that override it, from
\* the save of one to the restore of another: it cannot go negative, miss a
\* request or stay up when all have gone.
DepthCountsHolders == \A s \in Settings : depth[s] = Cardinality(Holders(s))

Quiet(s) == Holders(s) = {} /\ RestoringWriters(s) = {}

\* When nobody overrides a setting it has its configured value, unless a save
\* or a reload fell between another request's save and its restoring write:
\* that window, between the unlock and the setter, is the only way to leak.
BaseKeptOutsideTheWindow ==
  \A s \in Settings : Quiet(s) /\ ~raced[s] => live[s] = configured[s]

\* While overrides overlap, the base they will restore is the configured
\* value and not another request's override (kernel.go:135), outside the
\* same window.
SavedBaseIsConfigured ==
  \A s \in Settings, r \in Requests :
    r \in Holders(s) /\ ~raced[s] => old[r][s] = configured[s] /\ base[s] = configured[s]

\* request_state.go:12 "after every request finishes, the router and gate
\* return to their configured base".
BaseRestoredWhenAllFinish ==
  (\A r \in Requests : phase[r] \in {"new", "done"}) =>
    \A s \in Settings : live[s] = configured[s]

=============================================================================
