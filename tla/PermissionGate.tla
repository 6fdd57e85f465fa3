--------------------------- MODULE PermissionGate ---------------------------
(***************************************************************************)
(* The approval of tool calls: Gate.Check and Gate.ask of                  *)
(* infra/permission/gate.go, with the web approver behind them,            *)
(* infra/permission/server_gate.go.                                        *)
(*                                                                         *)
(* Tool calls run concurrently (a batch of one reply, several sub-agents,  *)
(* several requests), so each Check is a process of its own: it reads the  *)
(* level and the session's decisions, and when it has to ask, it queues    *)
(* for promptMu, asks through the approver and records the answer. The     *)
(* approver's side of one question is a second process, which the gate's   *)
(* timeout does not stop. The user answers, changes the level, starts a    *)
(* new session or cancels the turn at any moment.                          *)
(*                                                                         *)
(* A call is the pair of tool and arguments (callKey); what classify,      *)
(* highBlastRadius, the rules and the judge say of it are sets of calls.   *)
(***************************************************************************)
EXTENDS Naturals, FiniteSets

CONSTANTS
  Tools,      \* tool names
  Calls,      \* tool calls: a tool with its arguments
  ToolOf,     \* the tool of each call
  Ruled,      \* calls a deny rule or the allow-list refuses
  Dangerous,  \* calls classify (or the secret scan) flags
  Central,    \* writes to a file much of the repository depends on
  Judgeable,  \* calls whose risk leaves the decision to the judge
  MaxChecks   \* bound of the model: Checks made

\* A central write is flagged whatever classify says, and the judge is never
\* consulted about one (gate.go:440, 456).
ASSUME CallAssumption ==
  /\ Calls # {}
  /\ ToolOf \in [Calls -> Tools]
  /\ Ruled \subseteq Calls /\ Dangerous \subseteq Calls
  /\ Central \subseteq Dangerous /\ Judgeable \subseteq Dangerous \ Central
ASSUME MaxChecksAssumption == MaxChecks \in Nat

Checks == 1..MaxChecks
Levels == {"relaxed", "normal", "strict"}
NoCheck == 0

\* The three answers a user can give, and the verdict nobody gave: a denial
\* marked Unanswered.
Answers == {"once", "session", "deny"}
Verdicts == Answers \cup {"silent"}

VARIABLES
  level,     \* Gate.level
  allowed,   \* Gate.allowed: tools allowed for the session
  denied,    \* Gate.denied: calls refused for the session
  asked, approved, deniedCount, \* the gate's counters
  prompter,  \* the Check holding promptMu
  pc,        \* where each Check is
  call,      \* the call it decides
  approver,  \* the approver goroutine of each Check's question
  pending,   \* ServerApprover.pending
  chan,      \* pendingEntry.ch: the verdict sent to the approver goroutine
  ret,       \* what the approver returned to askWithTimeout
  said,      \* history: what the user really answered to each question
  seenLevel  \* history: the level each Check read

gateVars == <<level, allowed, denied, asked, approved, deniedCount, prompter, pc, call>>
approverVars == <<approver, pending, chan, ret>>
vars == <<gateVars, approverVars, said, seenLevel>>

-----------------------------------------------------------------------------
(* Gate.Check *)

\* Seeded fault: a central file takes the fast paths too.
FastAllowedAnyFile(c) == level = "relaxed" \/ ToolOf[c] \in allowed

\* The fast paths: a relaxed level, or a tool allowed for the session. A
\* central write takes neither.
FastAllowed(c) == c \notin Central /\ (level = "relaxed" \/ ToolOf[c] \in allowed)

\* Not settled by rules, level or session: normal lets harmless calls through.
Harmless(c) == level = "normal" /\ c \notin Dangerous
JudgeMayClear(c) == level = "normal" /\ c \in Judgeable
Unsettled(c) == c \notin Ruled /\ ~FastAllowed(c) /\ c \notin denied

\* Check number k is made, for call c; the level is read once.
Start(k, c, next) ==
  /\ pc[k] = "new"
  /\ k > 1 => pc[k - 1] # "new"
  /\ call' = [call EXCEPT ![k] = c]
  /\ seenLevel' = [seenLevel EXCEPT ![k] = level]
  /\ pc' = [pc EXCEPT ![k] = next]
  /\ UNCHANGED <<level, allowed, denied, asked, approved, prompter, approverVars, said>>

\* The allow-list and the deny rules come before everything else.
CheckRuledOut(k, c) ==
  /\ c \in Ruled
  /\ Start(k, c, "denied")
  /\ deniedCount' = deniedCount + 1

CheckAllows(k, c) ==
  /\ c \notin Ruled
  /\ FastAllowed(c) \/ (c \notin denied /\ (Harmless(c) \/ JudgeMayClear(c)))
  /\ Start(k, c, "allowed")
  /\ UNCHANGED deniedCount

CheckRefuses(k, c) ==
  /\ c \notin Ruled /\ ~FastAllowed(c)
  /\ c \in denied
  /\ Start(k, c, "denied")
  /\ UNCHANGED deniedCount

CheckAsks(k, c) ==
  /\ Unsettled(c) /\ ~Harmless(c)
  /\ Start(k, c, "queued")
  /\ UNCHANGED deniedCount

-----------------------------------------------------------------------------
(* Gate.ask *)

\* The session's decisions, read again under promptMu. Seeded fault: only the
\* allow side is.
DenialForgotten(k) == FALSE
SettledAllow(k) == ToolOf[call[k]] \in allowed
SettledDeny(k) == ~SettledAllow(k) /\ call[k] \in denied

\* promptMu is acquired and the session cache re-checked. A question the
\* session settled meanwhile is not asked; otherwise the approver starts.
TakePrompt(k) ==
  /\ pc[k] = "queued"
  /\ prompter = NoCheck
  /\ \/ /\ SettledAllow(k)
        /\ pc' = [pc EXCEPT ![k] = "allowed"]
        /\ UNCHANGED <<asked, prompter, approver>>
     \/ /\ SettledDeny(k)
        /\ pc' = [pc EXCEPT ![k] = "denied"]
        /\ UNCHANGED <<asked, prompter, approver>>
     \/ /\ ~SettledAllow(k) /\ ~SettledDeny(k)
        /\ pc' = [pc EXCEPT ![k] = "prompt"]
        /\ asked' = asked + 1
        /\ prompter' = k
        /\ approver' = [approver EXCEPT ![k] = "starting"]
  /\ UNCHANGED <<level, allowed, denied, approved, deniedCount, call, pending, chan,
                 ret, said, seenLevel>>

\* "Allow for session" settles the tool.
SessionAllows(k) == {ToolOf[call[k]]}

\* ask's switch on the verdict: an answer is cached, a silence is not.
Record(k, v) ==
  /\ pc[k] = "prompt"
  /\ prompter' = NoCheck
  /\ \/ /\ v \in {"once", "session"}
        /\ pc' = [pc EXCEPT ![k] = "allowed"]
        /\ allowed' = IF v = "session" THEN allowed \cup SessionAllows(k) ELSE allowed
        /\ approved' = approved + 1
        /\ UNCHANGED <<denied, deniedCount>>
     \/ /\ v \in {"deny", "silent"}
        /\ pc' = [pc EXCEPT ![k] = "denied"]
        /\ denied' = IF v = "deny" THEN denied \cup {call[k]} ELSE denied
        /\ deniedCount' = deniedCount + 1
        /\ UNCHANGED <<allowed, approved>>
  /\ UNCHANGED <<level, asked, call, approverVars, said, seenLevel>>

\* askWithTimeout: the approver's verdict, or the gate's own timeout. Both may
\* be ready, and the select takes either. A verdict that comes later is dropped.
GateTakes(k) == ret[k] # "none" /\ Record(k, ret[k])
\* Seeded fault: the timer runs only while the question is on the screen.
GateExpiresWhileShown(k) == k \in pending /\ Record(k, "silent")
GateExpires(k) == Record(k, "silent")

-----------------------------------------------------------------------------
(* ServerApprover *)

\* Approve registers the question and the browser shows it.
Register(k) ==
  /\ approver[k] = "starting"
  /\ approver' = [approver EXCEPT ![k] = "waiting"]
  /\ pending' = pending \cup {k}
  /\ UNCHANGED <<gateVars, chan, ret, said, seenLevel>>

\* The user answers a pending question.
Resolve(k, a) ==
  /\ k \in pending
  /\ pending' = pending \ {k}
  /\ chan' = [chan EXCEPT ![k] = a]
  /\ said' = [said EXCEPT ![k] = a]
  /\ UNCHANGED <<gateVars, approver, ret, seenLevel>>

\* The turn is cancelled: every pending question gets a Deny verdict that is
\* not marked Unanswered.
CancelAll ==
  /\ pending # {}
  /\ chan' = [k \in Checks |-> IF k \in pending THEN "deny" ELSE chan[k]]
  /\ pending' = {}
  /\ UNCHANGED <<gateVars, approver, ret, said, seenLevel>>

ApproverReturns(k, v) ==
  /\ approver[k] = "waiting"
  /\ approver' = [approver EXCEPT ![k] = "returned"]
  /\ ret' = [ret EXCEPT ![k] = v]
  /\ pending' = pending \ {k}
  /\ UNCHANGED <<gateVars, chan, said, seenLevel>>

\* Approve's select: the verdict on the channel, or the approver's timeout,
\* which a verdict sent at the same moment does not stop.
ApproverTakes(k) == chan[k] # "none" /\ ApproverReturns(k, chan[k])
ApproverExpires(k) == ApproverReturns(k, "silent")

-----------------------------------------------------------------------------
(* The user at the session level *)

SetLevel(l) ==
  /\ l # level
  /\ level' = l
  /\ UNCHANGED <<allowed, denied, asked, approved, deniedCount, prompter, pc, call,
                 approverVars, said, seenLevel>>

ResetSession ==
  /\ allowed # {} \/ denied # {}
  /\ allowed' = {} /\ denied' = {}
  /\ UNCHANGED <<level, asked, approved, deniedCount, prompter, pc, call, approverVars,
                 said, seenLevel>>

-----------------------------------------------------------------------------
NoVerdict == [k \in Checks |-> "none"]

\* NewGate and NewServerApprover; the configuration sets the first level.
Init ==
  /\ level \in Levels
  /\ allowed = {} /\ denied = {}
  /\ asked = 0 /\ approved = 0 /\ deniedCount = 0
  /\ prompter = NoCheck
  /\ pc = [k \in Checks |-> "new"]
  /\ call = [k \in Checks |-> CHOOSE c \in Calls : TRUE]
  /\ approver = [k \in Checks |-> "off"]
  /\ pending = {} /\ chan = NoVerdict /\ ret = NoVerdict
  /\ said = NoVerdict
  /\ seenLevel = [k \in Checks |-> level]

CheckStep(k) ==
  \/ \E c \in Calls : \/ CheckRuledOut(k, c) \/ CheckAllows(k, c)
                      \/ CheckRefuses(k, c) \/ CheckAsks(k, c)
  \/ TakePrompt(k) \/ GateTakes(k) \/ GateExpires(k)

ApproverStep(k) ==
  \/ Register(k) \/ ApproverTakes(k) \/ ApproverExpires(k)
  \/ \E a \in Answers : Resolve(k, a)

Next ==
  \/ \E k \in Checks : CheckStep(k) \/ ApproverStep(k)
  \/ CancelAll
  \/ \E l \in Levels : SetLevel(l)
  \/ ResetSession

Spec == Init /\ [][Next]_vars

\* promptMu is handed on to a waiting Check, and the gate's timer fires. The
\* user and the approver may stay silent for ever.
FairSpec ==
  /\ Spec
  /\ \A k \in Checks : WF_vars(TakePrompt(k)) /\ WF_vars(GateExpires(k))
-----------------------------------------------------------------------------
(* Properties *)

TypeOK ==
  /\ level \in Levels /\ allowed \subseteq Tools /\ denied \subseteq Calls
  /\ asked \in Nat /\ approved \in Nat /\ deniedCount \in Nat
  /\ prompter \in Checks \cup {NoCheck}
  /\ pc \in [Checks -> {"new", "queued", "prompt", "allowed", "denied"}]
  /\ call \in [Checks -> Calls]
  /\ approver \in [Checks -> {"off", "starting", "waiting", "returned"}]
  /\ pending \subseteq Checks
  /\ chan \in [Checks -> Answers \cup {"none"}]
  /\ ret \in [Checks -> Verdicts \cup {"none"}]
  /\ said \in [Checks -> Answers \cup {"none"}]
  /\ seenLevel \in [Checks -> Levels]

\* The calls that the level of the time leaves to the user: all of them under
\* strict, the flagged ones under normal (a judge may clear some), central
\* writes always.
NeedsConsent(k) ==
  \/ call[k] \in Central
  \/ seenLevel[k] = "strict"
  \/ seenLevel[k] = "normal" /\ call[k] \in Dangerous \ Judgeable

\* No call that needs the user's consent goes through without it: the user
\* answered this very question with an allow, or some question about the same
\* tool with an allow for the session. Timeouts, late or lost answers,
\* cancelled turns, new sessions and level changes in between never make up an
\* approval (gate.go:538 "fails closed").
ConsentBehindEveryRisk ==
  \A k \in Checks : pc[k] = "allowed" /\ NeedsConsent(k) =>
    \/ said[k] \in {"once", "session"}
    \/ \E j \in Checks : said[j] = "session" /\ ToolOf[call[j]] = ToolOf[call[k]]

\* Every question is accounted for once: as approved, as denied (beside the
\* refusals by rule, which are counted too), or as the one being asked. Stats
\* reports these counters.
QuestionsAccountedFor ==
  asked + Cardinality({k \in Checks : pc[k] # "new" /\ call[k] \in Ruled})
    = approved + deniedCount + (IF prompter = NoCheck THEN 0 ELSE 1)

\* A refusal sticks (gate.go:518): once the session has a call refused, no Check
\* of that call goes through, except by what the user allows more widely, the
\* tool for the session or the relaxed level. That holds for a Check made
\* later, for one that waited for promptMu while the refusal was given, and for
\* the answer to a question: none is open about a call refused meanwhile.
RefusalSticks ==
  [][\A k \in Checks : pc[k] # "allowed" /\ pc'[k] = "allowed" /\ call'[k] \in denied =>
       ToolOf[call'[k]] \in allowed \/ FastAllowed(call'[k])]_vars

\* Every Check that queued to ask is decided, whatever the user, the approver
\* and the other Checks do: an unattended agent does not hang (gate.go:538).
EveryCheckDecides ==
  \A k \in Checks : pc[k] = "queued" ~> pc[k] \in {"allowed", "denied"}

\* gate.go:404 and :440: a write to a structurally central file "is escalated
\* even under permissive settings", i.e. the user is asked about that write and
\* not only about some other call of the same tool.
CentralWriteIsAsked ==
  \A k \in Checks : pc[k] = "allowed" /\ call[k] \in Central =>
    \E j \in Checks : call[j] = call[k] /\ said[j] \in {"once", "session"}

\* gate.go:518 "A refusal sticks for the session, but only when the user
\* actually refused".
DenialMeansRefusal ==
  \A c \in denied : \E k \in Checks : call[k] = c /\ said[k] = "deny"

=============================================================================
