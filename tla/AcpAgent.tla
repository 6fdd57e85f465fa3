------------------------------ MODULE AcpAgent ------------------------------
(***************************************************************************)
(* The agent behind an editor: surfaces/acp/acp.go and permission.go with  *)
(* their caller cmd/darkcode/app_acp.go. Serve reads one line after the    *)
(* other; a prompt runs in a goroutine of its own, and what it asks the    *)
(* editor is answered by a line that Serve reads.                          *)
(*                                                                         *)
(* The editor writes lines in any order, answers or does not, and reads    *)
(* what it is sent. A turn asks for permission as often as it likes, with  *)
(* the background context of app_acp.go: nothing cancels it.               *)
(***************************************************************************)
EXTENDS Naturals, Sequences

CONSTANTS
  Sessions,  \* session ids
  Prompts,   \* bound of the model: session/prompt requests
  Asks,      \* ids of what the agent asks; bound of the model: their number
  Nobody,
  Pipe,      \* bound of the model: lines on their way to the agent
  MaxLines   \* bound of the model: session/new, load and cancel lines

NamesAssumption == Nobody \notin Sessions \cup Prompts \cup Asks
BoundsAssumption == Pipe \in Nat /\ MaxLines \in Nat

VARIABLES
  input, eof,    \* lines on their way, and whether the editor is gone
  serving,       \* Serve: "reads", "waits" for the prompts, or "returned"
  \* Agent.
  known,         \* sessions
  cancelled, active,
  pending,       \* requests that wait for a reply
  mail,          \* what the channel of a request holds
  \* A prompt.
  pc, session,
  ask,           \* the request it waits for
  to,            \* the session it read from active
  stop,          \* what it will report
  \* The editor and history.
  asked,         \* the session each request was sent for, Nobody before
  answer,        \* what the editor answered to each
  verdict,       \* what came of each
  asker,         \* the prompt each is of
  lines,
  told           \* prompts whose session was cancelled between their line and their end

agent == <<known, cancelled, active, pending, mail>>
prompt == <<pc, session, ask, to, stop>>
editor == <<asked, answer, verdict, asker>>
vars == <<input, eof, serving, agent, prompt, editor, lines, told>>

Choices == {"allow", "reject", "cancelled", "refused"}
Line(type, s, p, a, choice) ==
  [type |-> type, session |-> s, prompt |-> p, ask |-> a, choice |-> choice]

Init ==
  /\ input = <<>> /\ eof = FALSE /\ serving = "reads"
  /\ known = {} /\ cancelled = {} /\ active = Nobody /\ pending = {}
  /\ mail = [a \in Asks |-> "none"]
  /\ pc = [p \in Prompts |-> "new"] /\ session = [p \in Prompts |-> Nobody]
  /\ ask = [p \in Prompts |-> Nobody] /\ to = [p \in Prompts |-> Nobody]
  /\ stop = [p \in Prompts |-> "none"]
  /\ asked = [a \in Asks |-> Nobody] /\ answer = [a \in Asks |-> "none"]
  /\ verdict = [a \in Asks |-> "none"] /\ asker = [a \in Asks |-> Nobody]
  /\ lines = 0 /\ told = {}

-----------------------------------------------------------------------------
(* The editor *)

Write(line) ==
  /\ ~eof /\ Len(input) < Pipe
  /\ input' = Append(input, line)

EditorSends(type, s) ==
  /\ type \in {"new", "load", "cancel"} /\ lines < MaxLines
  /\ Write(Line(type, s, Nobody, Nobody, "none"))
  /\ lines' = lines + 1
  /\ UNCHANGED <<eof, serving, agent, prompt, editor, told>>

EditorPrompts(p, s) ==
  /\ pc[p] = "new"
  /\ Write(Line("prompt", s, p, Nobody, "none"))
  /\ pc' = [pc EXCEPT ![p] = "sent"]
  /\ UNCHANGED <<eof, serving, agent, session, ask, to, stop, editor, lines, told>>

EditorAnswers(a, choice) ==
  /\ asked[a] # Nobody /\ answer[a] = "none"
  /\ Write(Line("reply", Nobody, Nobody, a, choice))
  /\ answer' = [answer EXCEPT ![a] = choice]
  /\ UNCHANGED <<eof, serving, agent, prompt, asked, verdict, asker, lines, told>>

EditorLeaves ==
  /\ ~eof
  /\ eof' = TRUE
  /\ UNCHANGED <<input, serving, agent, prompt, editor, lines, told>>

-----------------------------------------------------------------------------
(* Serve *)

\* Where a prompt is from the line Serve read to its answer.
InFlight == {p \in Prompts : pc[p] \notin {"new", "sent", "done"}}

\* session/new mints an id, session/load takes the one of the editor. The ids are
\* counted in each process, so the next one may be that of a session the editor
\* remembers from an earlier process and has loaded.
NewSession(line) == \E s \in Sessions :
  /\ line.type = "new"
  /\ known' = known \cup {s}
  /\ UNCHANGED <<cancelled, active, pending, mail, pc, session, told>>

LoadSession(line) ==
  /\ line.type = "load"
  /\ known' = known \cup {line.session}
  /\ cancelled' = cancelled \ {line.session}
  /\ UNCHANGED <<active, pending, mail, pc, session, told>>

\* session/cancel: the session is marked, and that is all.
CancelSession(line) ==
  /\ line.type = "cancel"
  /\ cancelled' = cancelled \cup {line.session}
  /\ told' = told \cup {p \in InFlight : session[p] = line.session /\ stop[p] = "none"}
  /\ UNCHANGED <<known, active, pending, mail, pc, session>>

StartPrompt(line) ==
  /\ line.type = "prompt"
  /\ pc' = [pc EXCEPT ![line.prompt] = "started"]
  /\ session' = [session EXCEPT ![line.prompt] = line.session]
  /\ UNCHANGED <<agent, told>>

\* Seeded fault: a reply goes to a request that waits, whichever it is.
SomeRequest(a) == IF pending = {} THEN a ELSE CHOOSE b \in pending : TRUE

\* Of the request a reply names.
RequestOf(a) == a

\* deliver: an id that is unknown is that of a waiter that gave up.
Deliver(line) ==
  /\ line.type = "reply"
  /\ LET a == RequestOf(line.ask) IN
       /\ pending' = pending \ {a}
       /\ mail' = IF a \in pending THEN [mail EXCEPT ![a] = line.choice] ELSE mail
  /\ UNCHANGED <<known, cancelled, active, pc, session, told>>

Serve ==
  /\ serving = "reads" /\ input # <<>>
  /\ input' = Tail(input)
  /\ LET line == Head(input) IN
       \/ NewSession(line) \/ LoadSession(line) \/ CancelSession(line)
       \/ StartPrompt(line) \/ Deliver(line)
  /\ UNCHANGED <<eof, serving, ask, to, stop, editor, lines>>

StreamEnds ==
  /\ serving = "reads" /\ input = <<>> /\ eof
  /\ serving' = "waits"
  /\ UNCHANGED <<input, eof, agent, prompt, editor, lines, told>>

\* inflight.Wait.
AllDone == InFlight = {}

ServeReturns ==
  /\ serving = "waits" /\ AllDone
  /\ serving' = "returned"
  /\ UNCHANGED <<input, eof, agent, prompt, editor, lines, told>>

-----------------------------------------------------------------------------
(* A prompt *)

\* A new turn clears a previous cancel.
CancelCleared(s) == cancelled \ {s}

\* The session is looked up. One that is unknown, and a prompt without text, is an
\* error.
Enter(p) == \E text \in BOOLEAN :
  /\ pc[p] = "started"
  /\ pc' = [pc EXCEPT ![p] = IF session[p] \in known /\ text THEN "entered" ELSE "done"]
  /\ stop' = [stop EXCEPT ![p] = IF session[p] \in known /\ text THEN @ ELSE "error"]
  /\ cancelled' = CancelCleared(session[p])
  /\ UNCHANGED <<input, eof, serving, known, active, pending, mail, session, ask, to, editor,
                 lines, told>>

Activate(p) ==
  /\ pc[p] = "entered"
  /\ pc' = [pc EXCEPT ![p] = "running"]
  /\ active' = session[p]
  /\ UNCHANGED <<input, eof, serving, known, cancelled, pending, mail, session, ask, to, stop,
                 editor, lines, told>>

\* RequestPermission: whose editor is asked is read from the one slot. Without a
\* session the answer is no.
Address(p) == \E a \in Asks :
  /\ pc[p] = "running" /\ asker[a] = Nobody
  /\ asker' = [asker EXCEPT ![a] = p]
  /\ IF active = Nobody
     THEN /\ verdict' = [verdict EXCEPT ![a] = "deny"]
          /\ UNCHANGED <<pc, ask, to>>
     ELSE /\ pc' = [pc EXCEPT ![p] = "addressed"]
          /\ ask' = [ask EXCEPT ![p] = a]
          /\ to' = [to EXCEPT ![p] = active]
          /\ UNCHANGED verdict
  /\ UNCHANGED <<input, eof, serving, agent, session, stop, asked, answer, lines, told>>

\* call: the request is registered, then sent.
Register(p) ==
  /\ pc[p] = "addressed"
  /\ pc' = [pc EXCEPT ![p] = "registered"]
  /\ pending' = pending \cup {ask[p]}
  /\ UNCHANGED <<input, eof, serving, known, cancelled, active, mail, session, ask, to, stop,
                 editor, lines, told>>

SendAsk(p) ==
  /\ pc[p] = "registered"
  /\ pc' = [pc EXCEPT ![p] = "waiting"]
  /\ asked' = [asked EXCEPT ![ask[p]] = to[p]]
  /\ UNCHANGED <<input, eof, serving, agent, session, ask, to, stop, answer, verdict, asker,
                 lines, told>>

Settled(p, v) ==
  /\ verdict' = [verdict EXCEPT ![ask[p]] = v]
  /\ pc' = [pc EXCEPT ![p] = "settled"]
  /\ UNCHANGED <<input, eof, serving, agent, session, ask, to, stop, asked, answer, asker,
                 lines, told>>

\* Only a selected option that allows is a yes.
Answered(p) ==
  /\ pc[p] = "waiting" /\ mail[ask[p]] # "none"
  /\ Settled(p, IF mail[ask[p]] = "allow" THEN "allow" ELSE "deny")

\* Seeded fault: there is no time-out.
NeverTimesOut(p) == FALSE /\ UNCHANGED vars

TimesOut(p) ==
  /\ pc[p] = "waiting"
  /\ Settled(p, "deny")

\* The deferred delete.
SlotFreed(a) == pending \ {a}

Resume(p) ==
  /\ pc[p] = "settled"
  /\ pc' = [pc EXCEPT ![p] = "running"]
  /\ pending' = SlotFreed(ask[p])
  /\ ask' = [ask EXCEPT ![p] = Nobody] /\ to' = [to EXCEPT ![p] = Nobody]
  /\ UNCHANGED <<input, eof, serving, known, cancelled, active, mail, session, stop, editor,
                 lines, told>>

\* Execute returns, with an error or without; then the mark of the session is read.
Executed(p) == \E failed \in BOOLEAN :
  /\ pc[p] = "running"
  /\ pc' = [pc EXCEPT ![p] = IF failed THEN "ending" ELSE "executed"]
  /\ stop' = [stop EXCEPT ![p] = IF failed THEN "refusal" ELSE @]
  /\ UNCHANGED <<input, eof, serving, agent, session, ask, to, editor, lines, told>>

Conclude(p) ==
  /\ pc[p] = "executed"
  /\ pc' = [pc EXCEPT ![p] = "ending"]
  /\ stop' = [stop EXCEPT ![p] = IF session[p] \in cancelled THEN "cancelled" ELSE "end_turn"]
  /\ UNCHANGED <<input, eof, serving, agent, session, ask, to, editor, lines, told>>

\* The deferred function, and the response.
Leave(p) ==
  /\ pc[p] = "ending"
  /\ pc' = [pc EXCEPT ![p] = "done"]
  /\ active' = IF active = session[p] THEN Nobody ELSE active
  /\ UNCHANGED <<input, eof, serving, known, cancelled, pending, mail, session, ask, to, stop,
                 editor, lines, told>>

AgentSteps(p) ==
  \/ Enter(p) \/ Activate(p) \/ Register(p) \/ SendAsk(p) \/ Answered(p) \/ TimesOut(p)
  \/ Resume(p) \/ Conclude(p) \/ Leave(p)

Next ==
  \/ \E type \in {"new", "load", "cancel"}, s \in Sessions : EditorSends(type, s)
  \/ \E p \in Prompts, s \in Sessions : EditorPrompts(p, s)
  \/ \E a \in Asks, choice \in Choices : EditorAnswers(a, choice)
  \/ EditorLeaves \/ Serve \/ StreamEnds \/ ServeReturns
  \/ \E p \in Prompts : AgentSteps(p) \/ Address(p) \/ Executed(p)

Spec == Init /\ [][Next]_vars

\* Goroutines run and timers fire, Execute returns, and the editor closes the
\* stream some day. It owes no answer.
FairSpec ==
  /\ Spec /\ WF_vars(Serve) /\ WF_vars(StreamEnds) /\ WF_vars(ServeReturns)
  /\ WF_vars(EditorLeaves)
  /\ \A p \in Prompts : WF_vars(AgentSteps(p)) /\ WF_vars(Executed(p))

-----------------------------------------------------------------------------
(* Properties *)

Lines ==
  [type : {"new", "load", "cancel", "prompt", "reply"}, session : Sessions \cup {Nobody},
   prompt : Prompts \cup {Nobody}, ask : Asks \cup {Nobody}, choice : Choices \cup {"none"}]

Places ==
  {"new", "sent", "started", "entered", "running", "addressed", "registered", "waiting",
   "settled", "executed", "ending", "done"}

\* Every variable keeps to its values, and a waiting prompt has its request.
TypeOK ==
  /\ input \in Seq(Lines) /\ Len(input) <= Pipe
  /\ eof \in BOOLEAN /\ serving \in {"reads", "waits", "returned"}
  /\ known \subseteq Sessions /\ cancelled \subseteq Sessions
  /\ active \in Sessions \cup {Nobody} /\ pending \subseteq Asks
  /\ mail \in [Asks -> Choices \cup {"none"}]
  /\ pc \in [Prompts -> Places] /\ session \in [Prompts -> Sessions \cup {Nobody}]
  /\ ask \in [Prompts -> Asks \cup {Nobody}] /\ to \in [Prompts -> Sessions \cup {Nobody}]
  /\ stop \in [Prompts -> {"none", "error", "refusal", "cancelled", "end_turn"}]
  /\ asked \in [Asks -> Sessions \cup {Nobody}] /\ answer \in [Asks -> Choices \cup {"none"}]
  /\ verdict \in [Asks -> {"none", "allow", "deny"}] /\ asker \in [Asks -> Prompts \cup {Nobody}]
  /\ lines \in 0..MaxLines /\ told \subseteq Prompts
  /\ \A p \in Prompts :
       (ask[p] # Nobody) <=> pc[p] \in {"addressed", "registered", "waiting", "settled"}

\* An action is allowed only when the editor allowed this very one: not by silence,
\* a refusal, a late answer, or the answer to another request.
OnlyApprovedIsAllowed == \A a \in Asks : verdict[a] = "allow" => answer[a] = "allow"

\* A request that is over holds no slot, whether it was answered or not.
SlotsAreFreed == \A a \in pending : \E p \in Prompts : ask[p] = a

\* When Serve has returned, no turn is left that writes to the stream.
NoTurnOutlivesServe == serving = "returned" => InFlight = {}

\* A prompt that reports it was cancelled was: by a line that came after its own,
\* not by one that was meant for the turn before.
CancelIsOwn == \A p \in Prompts : stop[p] = "cancelled" => p \in told

\* An editor that never answers strands nobody: every prompt that was read is
\* answered.
PromptsAreAnswered == \A p \in Prompts : pc[p] = "started" ~> pc[p] = "done"

\* What acp.go:46 says: an in-flight prompt that was asked to stop reports "that it was
\* cancelled rather than pretending it finished normally". Its goroutine clears the
\* mark when it starts after the cancel was read.
CancelIsReported == \A p \in told : stop[p] # "end_turn"

\* What acp.go:127 says: "session/cancel exists to interrupt a prompt that is still
\* running". The prompt goes on, and asks for permission to do more.
CancelInterrupts ==
  [][\A p \in told : pc[p] = "running" => pc'[p] # "addressed"]_vars

\* What acp.go:52 says: a permission request "has to be addressed to the editor UI that
\* asked for the work". Prompts of two sessions run at a time.
AskedWhereItRuns ==
  \A a \in Asks : asked[a] # Nobody => asked[a] = session[asker[a]]
=============================================================================
