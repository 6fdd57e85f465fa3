----------------------------- MODULE GuiSession -----------------------------
(***************************************************************************)
(* Which front end has the terminal: the loop of cmd/darkcode/app.go with  *)
(* RunGUI and RunCLI, the detection of closed browsers of                  *)
(* surfaces/server/session.go, its event streams (sse_handler.go) and the  *)
(* subscribers they count (surfaces/ui/events.go).                         *)
(*                                                                         *)
(* A stream is one connection of a browser tab; a tab that reloads closes  *)
(* one and opens another. A tab survives the end of the GUI's turn. A      *)
(* grace timer runs out at any time, and its callback then waits for guiMu *)
(* as long as it likes, while tabs come and go and turns begin and end.    *)
(***************************************************************************)
EXTENDS Naturals, Sequences, FiniteSets

CONSTANTS
  Streams,     \* connections
  Timers,      \* bound of the model: grace timers that can be armed
  Nobody,
  Leftovers,   \* whether a tab may be left from one turn of the GUI to the next
  MaxSessions  \* bound of the model: turns of the GUI

NobodyAssumption == Nobody \notin Timers
FlagsAssumption == Leftovers \in BOOLEAN
BoundsAssumption == MaxSessions \in Nat

VARIABLES
  main,      \* where the loop is
  session,   \* the turn of the GUI it is in
  switch,    \* the channel SwitchToCLI, of capacity 1
  resume,    \* ResumeOnDisconnect
  ever,      \* sseEverConnected
  grace,     \* guiGrace
  timer,     \* the timers
  stream,    \* the connections
  subs,      \* subscribers of the emitter
  \* History.
  sentIn,    \* the turn in which what is on the channel was sent
  endedBy,   \* the turn whose signal ended the last turn
  seen,      \* a stream was open at some time of this turn
  back,      \* the timers that ran when a tab came back
  lost       \* the timers that ran when another one's callback cleared guiGrace

gui == <<resume, ever, grace>>
history == <<sentIn, endedBy, seen, back, lost>>
vars == <<main, session, switch, gui, timer, stream, subs, history>>

Init ==
  /\ main = "cli" /\ session = 0 /\ switch = <<>>
  /\ resume = FALSE /\ ever = FALSE /\ grace = Nobody
  /\ timer = [t \in Timers |-> "unused"]
  /\ stream = [x \in Streams |-> "closed"] /\ subs = {}
  /\ sentIn = 0 /\ endedBy = 0 /\ seen = FALSE /\ back = {} /\ lost = {}

\* Seeded fault: the timer is forgotten and runs on.
Forgotten == timer

\* Stop, of the timer in guiGrace.
Stopped == IF grace # Nobody /\ timer[grace] = "armed"
           THEN [timer EXCEPT ![grace] = "unused"] ELSE timer

\* signalSwitchToCLI: dropped when there is a signal.
Signalled ==
  /\ switch' = IF switch = <<>> THEN <<"resume">> ELSE switch
  /\ sentIn' = IF switch = <<>> THEN session ELSE sentIn

-----------------------------------------------------------------------------
(* The loop *)

\* The user types /gui.
SwitchToGUI ==
  /\ main = "cli" /\ session < MaxSessions
  /\ Leftovers \/ \A x \in Streams : stream[x] = "closed"
  /\ main' = "arming" /\ session' = session + 1
  /\ seen' = (subs # {})
  /\ UNCHANGED <<switch, gui, timer, stream, subs, sentIn, endedBy, back, lost>>

\* SetGUIActive(true)
Arm ==
  /\ main = "arming"
  /\ timer' = Stopped /\ grace' = Nobody /\ ever' = FALSE /\ resume' = TRUE
  /\ main' = "draining"
  /\ UNCHANGED <<session, switch, stream, subs, history>>

Drained == <<>>

Drain ==
  /\ main = "draining"
  /\ switch' = Drained
  /\ main' = "waits"
  /\ UNCHANGED <<session, gui, timer, stream, subs, history>>

Receive ==
  /\ main = "waits" /\ switch # <<>>
  /\ switch' = <<>> /\ endedBy' = sentIn
  /\ main' = "disarming"
  /\ UNCHANGED <<session, gui, timer, stream, subs, sentIn, seen, back, lost>>

\* RunCLI: SetGUIActive(false). A program that has only the terminal.
Disarm ==
  /\ main = "disarming"
  /\ timer' = Stopped /\ grace' = Nobody /\ ever' = FALSE /\ resume' = FALSE
  /\ main' = "cli"
  /\ UNCHANGED <<session, switch, stream, subs, history>>

-----------------------------------------------------------------------------
(* Event streams *)

\* handleSSE subscribes, then tells the server: a tab of the browser that was opened when
\* RunGUI began to wait, or one that was reloaded or connects again.
Opens(x) ==
  /\ stream[x] = "closed" /\ session > 0
  /\ main # "waits" => Leftovers
  /\ stream' = [stream EXCEPT ![x] = "opening"]
  /\ subs' = subs \cup {x}
  /\ seen' = TRUE
  /\ UNCHANGED <<main, session, switch, gui, timer, sentIn, endedBy, back, lost>>

\* onSSEConnect
Connects(x) ==
  /\ stream[x] = "opening"
  /\ timer' = Stopped /\ grace' = Nobody /\ ever' = TRUE
  /\ stream' = [stream EXCEPT ![x] = "open"]
  /\ back' = back \cup {t \in Timers : timer[t] = "armed"}
  /\ UNCHANGED <<main, session, switch, resume, subs, sentIn, endedBy, seen, lost>>

Unsubscribed(x) == subs \ {x}

\* The connection is lost: the tab is closed or reloaded, or a ping fails.
Closes(x) ==
  /\ stream[x] = "open"
  /\ stream' = [stream EXCEPT ![x] = "closing"]
  /\ subs' = Unsubscribed(x)
  /\ UNCHANGED <<main, session, switch, gui, timer, history>>

\* A tab has been there in this turn of the GUI.
Resumable == resume /\ ever

\* onSSEDisconnect, of the last subscriber.
Disconnects(x) ==
  /\ stream[x] = "closing"
  /\ stream' = [stream EXCEPT ![x] = "closed"]
  /\ IF Resumable /\ subs = {}
     THEN \E t \in {u \in Timers : timer[u] = "unused"} :
            /\ timer' = [Stopped EXCEPT ![t] = "armed"]
            /\ grace' = t
            /\ back' = back \ {t} /\ lost' = lost \ {t}
     ELSE UNCHANGED <<timer, grace, back, lost>>
  /\ UNCHANGED <<main, session, switch, resume, ever, subs, sentIn, endedBy, seen>>

\* handleSwitchCLI: the button, in any tab.
Button ==
  /\ subs # {}
  /\ Signalled
  /\ UNCHANGED <<main, session, gui, timer, stream, subs, endedBy, seen, back, lost>>

-----------------------------------------------------------------------------
(* The grace timer *)

Expires(t) ==
  /\ timer[t] = "armed"
  /\ timer' = [timer EXCEPT ![t] = "expired"]
  /\ UNCHANGED <<main, session, switch, gui, stream, subs, history>>

\* The callback, under guiMu: a tab that has come back is left alone. Whatever
\* guiGrace holds by now is cleared, and runs on if it is another timer.
Decides(t) ==
  /\ timer[t] = "expired"
  /\ grace' = Nobody
  /\ lost' = lost \cup {u \in Timers : timer[u] = "armed"}
  /\ \/ /\ subs # {}
        /\ timer' = [timer EXCEPT ![t] = "unused"]
        /\ UNCHANGED ever
     \/ /\ subs = {}
        /\ timer' = [timer EXCEPT ![t] = "decided"]
        /\ ever' = FALSE
  /\ UNCHANGED <<main, session, switch, resume, stream, subs, sentIn, endedBy, seen, back>>

Signals(t) ==
  /\ timer[t] = "decided"
  /\ timer' = [timer EXCEPT ![t] = "unused"]
  /\ Signalled
  /\ UNCHANGED <<main, session, gui, stream, subs, endedBy, seen, back, lost>>

MainSteps == Arm \/ Drain \/ Receive \/ Disarm
StreamSteps(x) == Connects(x) \/ Disconnects(x)
TimerSteps(t) == Expires(t) \/ Decides(t) \/ Signals(t)

Next ==
  \/ SwitchToGUI \/ MainSteps \/ Button
  \/ \E x \in Streams : Opens(x) \/ Closes(x) \/ StreamSteps(x)
  \/ \E t \in Timers : TimerSteps(t)

Spec == Init /\ [][Next]_vars

\* Goroutines run and timers run out. Nobody must press a button or close a tab.
FairSpec ==
  /\ Spec /\ WF_vars(MainSteps)
  /\ \A x \in Streams : WF_vars(StreamSteps(x))
  /\ \A t \in Timers : WF_vars(TimerSteps(t))

-----------------------------------------------------------------------------
(* Properties *)

\* Every variable keeps to its values; a subscriber is a stream that is open.
TypeOK ==
  /\ main \in {"cli", "arming", "draining", "waits", "disarming"}
  /\ session \in 0..MaxSessions /\ switch \in {<<>>, <<"resume">>}
  /\ grace \in Timers \cup {Nobody}
  /\ timer \in [Timers -> {"unused", "armed", "expired", "decided"}]
  /\ stream \in [Streams -> {"closed", "opening", "open", "closing"}]
  /\ subs = {x \in Streams : stream[x] \in {"opening", "open"}}
  /\ back \subseteq Timers /\ lost \subseteq Timers

\* A turn of the GUI is ended by a signal that was sent in it, not by one that was
\* left on the channel by the turn before: a button that was pressed twice, a
\* timer beside a button.
EndsByItsOwn == [][main = "waits" /\ main' = "disarming" => endedBy' = session]_vars

\* A timer that was still running when a tab came back ends no turn, also when that
\* tab is closed again: each reload has the whole grace period. A timer that has
\* already run out is beyond recall, and so is one that guiGrace was cleared of
\* by the callback of such a timer.
ReloadIsNoEnd == \A t \in Timers : timer[t] = "decided" /\ t \in back => t \in lost

\* With the CLI at the terminal no timer runs, whatever tabs are left, but one that
\* guiGrace was cleared of by another timer's callback.
CliIsLeftAlone == main = "cli" => \A t \in Timers \ lost : timer[t] # "armed"

\* What server.go:87 says: closing the browser no longer leaves "the CLI hung on
\* <-SwitchToCLI": when a turn has had a tab and none is left, the CLI resumes. A tab
\* that is left from the turn before is not counted.
ClosedBrowserResumes ==
  main = "waits" /\ seen /\ subs = {} ~> main = "cli" \/ subs # {}
=============================================================================
