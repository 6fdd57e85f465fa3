---------------------------- MODULE EmbeddedServer ----------------------------
(***************************************************************************)
(* The local model server (model/provider/embedded): Provider and its      *)
(* ProcessManager, the llama-server processes they start, and the          *)
(* goroutines around them: a reaper and a health loop per process, and a   *)
(* restart per reported crash. Provider.mu is held through a call of       *)
(* LoadModel or UnloadModel, so those calls are one actor, User;           *)
(* ProcessManager.mu is held through Start, with its wait for health, and  *)
(* Stop, with its wait for the exit.                                       *)
(***************************************************************************)
EXTENDS Naturals, FiniteSets

CONSTANTS
  Models,     \* model files
  MaxProcs,   \* bound of the model: processes started
  MaxCalls,   \* bound of the model: calls of LoadModel and UnloadModel
  MaxMisses,  \* healthCheckMaxFails
  MaxTries,   \* attempts of one restart
  User, None

ASSUME BoundsAssumption ==
  MaxProcs \in Nat /\ MaxCalls \in Nat /\ MaxMisses \in Nat \ {0} /\ MaxTries \in Nat \ {0}

ASSUME NamesAssumption ==
  None \notin Models /\ User \notin 1..MaxProcs /\ None \notin {User} \cup 1..MaxProcs

Procs == 1..MaxProcs
Actors == {User} \cup Procs  \* a restart is named after the process whose loop asked for it

VARIABLES
  \* ProcessManager
  holder,      \* who holds mu beyond one step
  at,          \* where: waiting for health or exit in Start, or for the exit in Stop
  state,       \* ProcessState
  cmd,         \* the process of serverCmd; None also when its exec failed
  waitDone,    \* the channel of this process, or None: nil
  healthStop,  \* likewise
  \* Provider
  loaded,      \* loadedModel
  request,     \* the model the running LoadModel is for
  \* the processes, their channels and goroutines
  proc,        \* each process
  reaped,      \* processes whose reaper is done
  closed,      \* waitDone channels that are closed
  told,        \* healthStop channels that are closed
  cancelled,   \* processes whose launch context is cancelled
  watch,       \* each health loop
  misses,      \* its fails
  \* the program
  pc,          \* each actor
  tries,       \* the attempt a restart is at
  calls,       \* calls made, against MaxCalls
  panicked,    \* a channel was closed twice, or as nil
  givenUp      \* history: processes reported as crashed before their reaper saw them exit

manager == <<holder, at, state, cmd, waitDone, healthStop>>
provider == <<loaded, request>>
processes == <<proc, reaped, closed, cancelled>>
monitors == <<told, watch, misses>>
vars == <<manager, provider, processes, monitors, pc, tries, calls, panicked, givenUp>>

Alive == {i \in Procs : proc[i] \in {"mute", "up"}}  \* mute: loading, hung or just slow
Unused == {i \in Procs : proc[i] = "none"}

\* Seeded fault: the process gets no SIGKILL.
Spared == proc

Killed == IF cmd \in Alive THEN [proc EXCEPT ![cmd] = "dead"] ELSE proc

-----------------------------------------------------------------------------
(* The processes. They load, hang, recover and die as they please.         *)

MovesTo(i, to) ==
  /\ i \in Alive /\ proc[i] # to
  /\ proc' = [proc EXCEPT ![i] = to]
  /\ UNCHANGED <<manager, provider, reaped, closed, cancelled, monitors, pc, tries, calls, panicked, givenUp>>

Lives(i) == \E s \in {"mute", "up", "dead"} : MovesTo(i, s)

\* exec.CommandContext kills the process once its context is cancelled.
KilledByContext(i) == i \in cancelled /\ MovesTo(i, "dead")

\* The reaper closes the channel the manager has by then. Closing it twice, or
\* nil, is a panic that no goroutine recovers.
Reap(i) ==
  /\ proc[i] = "dead" /\ i \notin reaped
  /\ reaped' = reaped \cup {i}
  /\ IF waitDone = None \/ waitDone \in closed
     THEN panicked' = TRUE /\ UNCHANGED closed
     ELSE closed' = closed \cup {waitDone} /\ UNCHANGED panicked
  /\ UNCHANGED <<manager, provider, proc, cancelled, monitors, pc, tries, calls, givenUp>>

-----------------------------------------------------------------------------
(* ProcessManager.Start and Stop, for the actor a that calls them.         *)

Released == holder' = None /\ at' = "free"

\* The caller's side of Start's result: a restart sleeps and tries again.
StartFailed(a) ==
  /\ IF a # User /\ tries[a] < MaxTries
     THEN tries' = [tries EXCEPT ![a] = @ + 1] /\ UNCHANGED pc
     ELSE pc' = [pc EXCEPT ![a] = "idle"] /\ tries' = [tries EXCEPT ![a] = 0]
  /\ UNCHANGED loaded

\* LoadModel starts under a context that is never cancelled; a restart cancels
\* its own as soon as Start returns, and that is the context of the process.
StartSucceeded(a) ==
  /\ pc' = [pc EXCEPT ![a] = "idle"]
  /\ IF a = User THEN loaded' = request /\ UNCHANGED cancelled
     ELSE cancelled' = cancelled \cup {cmd} /\ UNCHANGED loaded
  /\ tries' = [tries EXCEPT ![a] = 0]

\* Seeded fault: only one's own launch is looked at.
NeverRunning == FALSE

AlreadyRunning == state = "running"

StartRefused(a) ==
  /\ pc[a] = "start" /\ holder = None
  /\ AlreadyRunning
  /\ StartFailed(a)
  /\ UNCHANGED <<manager, request, processes, monitors, calls, panicked, givenUp>>

\* No binary, no port, or the exec fails: only the last replaces serverCmd.
StartBreaks(a) ==
  /\ pc[a] = "start" /\ holder = None
  /\ ~AlreadyRunning
  /\ state' = "failed" /\ cmd' \in {cmd, None}
  /\ StartFailed(a)
  /\ UNCHANGED <<holder, at, waitDone, healthStop, request, processes, monitors, calls, panicked, givenUp>>

Launch(a) ==
  /\ pc[a] = "start" /\ holder = None
  /\ ~AlreadyRunning
  /\ \E i \in Unused :
       /\ \A j \in Unused : i <= j
       /\ proc' = [proc EXCEPT ![i] = "mute"]
       /\ cmd' = i /\ waitDone' = i
  /\ state' = "starting" /\ holder' = a /\ at' = "ready"
  /\ UNCHANGED <<healthStop, provider, reaped, closed, cancelled, monitors, pc, tries, calls, panicked, givenUp>>

\* waitForReady: healthy; a health loop is started for this process.
Ready(a) ==
  /\ holder = a /\ at = "ready"
  /\ proc[cmd] = "up"
  /\ state' = "running" /\ healthStop' = cmd
  /\ watch' = [watch EXCEPT ![cmd] = "wait"]
  /\ Released /\ StartSucceeded(a)
  /\ UNCHANGED <<cmd, waitDone, request, proc, reaped, closed, told, misses, calls, panicked, givenUp>>

\* waitForReady: the channel says it exited, or 60 s are over.
NotReady(a) ==
  /\ holder = a /\ at = "ready"
  /\ waitDone \in closed \/ proc[cmd] # "up"
  /\ state' = "failed" /\ proc' = Killed /\ at' = "reap"
  /\ UNCHANGED <<holder, cmd, waitDone, healthStop, provider, reaped, closed, cancelled, monitors, pc, tries, calls, panicked, givenUp>>

\* serverCmd stays, and without a channel.
ReapedAfterFailure(a) ==
  /\ holder = a /\ at = "reap"
  /\ waitDone \in closed
  /\ waitDone' = None
  /\ Released /\ StartFailed(a)
  /\ UNCHANGED <<state, cmd, healthStop, request, processes, monitors, calls, panicked, givenUp>>

\* The user's side of the end of Stop: LoadModel goes on, UnloadModel is done.
StopReturns ==
  /\ Released /\ state' = "stopped" /\ cmd' = None /\ waitDone' = None
  /\ pc' = [pc EXCEPT ![User] = IF @ = "swap" THEN "start" ELSE "idle"]
  /\ loaded' = IF pc[User] = "unload" THEN None ELSE loaded

BeginStop ==
  /\ pc[User] \in {"swap", "unload"} /\ holder = None
  /\ healthStop' = None
  /\ told' = told \cup ({healthStop} \ {None})
  /\ IF cmd = None
     THEN StopReturns
     ELSE /\ state' = "stopping" /\ holder' = User /\ at' = "term"
          /\ UNCHANGED <<cmd, waitDone, pc, loaded>>
  /\ UNCHANGED <<request, processes, watch, misses, tries, calls, panicked, givenUp>>

StopSeesExit ==
  /\ holder = User /\ at \in {"term", "kill"}
  /\ waitDone # None /\ waitDone \in closed
  /\ StopReturns
  /\ UNCHANGED <<healthStop, request, processes, monitors, tries, calls, panicked, givenUp>>

\* 10 s after the signal to terminate; then Stop waits without a limit.
StopKills ==
  /\ holder = User /\ at = "term"
  /\ proc' = Killed /\ at' = "kill"
  /\ UNCHANGED <<holder, state, cmd, waitDone, healthStop, provider, reaped, closed, cancelled, monitors, pc, tries, calls, panicked, givenUp>>

-----------------------------------------------------------------------------
(* LoadModel, UnloadModel (also the idle monitor and Close).               *)

Call ==
  /\ pc[User] = "idle" /\ calls < MaxCalls
  /\ calls' = calls + 1
  /\ \/ \E m \in Models : request' = m /\ pc' = [pc EXCEPT ![User] = "check"]
     \/ pc' = [pc EXCEPT ![User] = "unload"] /\ UNCHANGED request
  /\ UNCHANGED <<manager, loaded, processes, monitors, tries, panicked, givenUp>>

CheckLoaded ==
  /\ pc[User] = "check" /\ holder = None
  /\ pc' = [pc EXCEPT ![User] =
       IF state # "running" \/ loaded = None THEN "start"
       ELSE IF loaded = request THEN "idle" ELSE "swap"]
  /\ UNCHANGED <<manager, provider, processes, monitors, tries, calls, panicked, givenUp>>

-----------------------------------------------------------------------------
(* healthLoop, reportCrash and attemptRestart.                             *)

\* The loop leaves when told to, or when it finds another state at a tick.
WatchEnds(i) ==
  /\ watch[i] = "wait"
  /\ i \in told \/ (holder = None /\ state # "running")
  /\ watch' = [watch EXCEPT ![i] = "over"]
  /\ UNCHANGED <<manager, provider, processes, told, misses, pc, tries, calls, panicked, givenUp>>

SeesExit(i) ==
  /\ watch[i] = "wait" /\ i \in closed
  /\ watch' = [watch EXCEPT ![i] = "report"]
  /\ UNCHANGED <<manager, provider, processes, told, misses, pc, tries, calls, panicked, givenUp>>

Tick(i) ==
  /\ watch[i] = "wait" /\ holder = None /\ state = "running"
  /\ watch' = [watch EXCEPT ![i] = "poll"]
  /\ UNCHANGED <<manager, provider, processes, told, misses, pc, tries, calls, panicked, givenUp>>

EnoughMisses(n) == n >= MaxMisses

Poll(i) ==
  /\ watch[i] = "poll"
  /\ misses' = [misses EXCEPT ![i] = IF proc[i] = "up" THEN 0 ELSE @ + 1]
  /\ watch' = [watch EXCEPT ![i] = IF EnoughMisses(misses'[i]) THEN "report" ELSE "wait"]
  /\ UNCHANGED <<manager, provider, processes, told, pc, tries, calls, panicked, givenUp>>

\* Seeded fault: the restart is asked for, the state is left alone.
StaysRunning == UNCHANGED state

MarkFailed == state' = "failed"

\* Whose crash it is is not asked: any running server is marked failed.
ReportCrash(i) ==
  /\ watch[i] = "report" /\ holder = None
  /\ watch' = [watch EXCEPT ![i] = "over"]
  /\ IF state = "running"
     THEN /\ MarkFailed
          /\ pc' = [pc EXCEPT ![i] = "restart"]
          /\ givenUp' = givenUp \cup ({cmd} \ reaped)
     ELSE UNCHANGED <<state, pc, givenUp>>
  /\ UNCHANGED <<holder, at, cmd, waitDone, healthStop, provider, processes, told, misses, tries, calls, panicked>>

BeginRestart(i) ==
  /\ pc[i] = "restart" /\ pc[User] = "idle"
  /\ pc' = [pc EXCEPT ![i] = IF loaded = None THEN "idle" ELSE "start"]
  /\ tries' = [tries EXCEPT ![i] = 1]
  /\ UNCHANGED <<manager, provider, processes, monitors, calls, panicked, givenUp>>

-----------------------------------------------------------------------------
(* Specification. After a panic there is no program.                       *)

Init ==
  /\ holder = None /\ at = "free"
  /\ state = "stopped" /\ cmd = None /\ waitDone = None /\ healthStop = None
  /\ loaded = None /\ request = None
  /\ proc = [i \in Procs |-> "none"]
  /\ reaped = {} /\ closed = {} /\ told = {} /\ cancelled = {}
  /\ watch = [i \in Procs |-> "off"] /\ misses = [i \in Procs |-> 0]
  /\ pc = [a \in Actors |-> "idle"] /\ tries = [a \in Actors |-> 0]
  /\ calls = 0 /\ panicked = FALSE /\ givenUp = {}

Starting(a) == StartRefused(a) \/ StartBreaks(a) \/ Launch(a)
Waiting(a) == Ready(a) \/ NotReady(a) \/ ReapedAfterFailure(a)
Stopping == BeginStop \/ StopSeesExit \/ StopKills
HealthLoop(i) == WatchEnds(i) \/ SeesExit(i) \/ Tick(i) \/ Poll(i) \/ ReportCrash(i)

Next ==
  /\ ~panicked
  /\ \/ Call \/ CheckLoaded \/ Stopping
     \/ \E a \in Actors : Starting(a) \/ Waiting(a)
     \/ \E i \in Procs : Lives(i) \/ KilledByContext(i) \/ Reap(i) \/ HealthLoop(i) \/ BeginRestart(i)

Spec == Init /\ [][Next]_vars

\* Goroutines run, timers fire and killed processes die; nothing is assumed of
\* a process that is not killed, or of who calls.
Fairness ==
  /\ WF_vars(~panicked /\ (CheckLoaded \/ Stopping))
  /\ \A a \in Actors : WF_vars(~panicked /\ (Starting(a) \/ Waiting(a)))
  /\ \A i \in Procs : /\ WF_vars(~panicked /\ KilledByContext(i))
                      /\ WF_vars(~panicked /\ Reap(i))
                      /\ WF_vars(~panicked /\ HealthLoop(i))
                      /\ WF_vars(~panicked /\ BeginRestart(i))

FairSpec == Spec /\ Fairness

-----------------------------------------------------------------------------
(* Properties.                                                             *)

TypeOK ==
  /\ holder \in Actors \cup {None} /\ at \in {"free", "ready", "reap", "term", "kill"}
  /\ state \in {"stopped", "starting", "running", "stopping", "failed"}
  /\ cmd \in Procs \cup {None} /\ waitDone \in Procs \cup {None}
  /\ healthStop \in Procs \cup {None}
  /\ loaded \in Models \cup {None} /\ request \in Models \cup {None}
  /\ proc \in [Procs -> {"none", "mute", "up", "dead"}]
  /\ reaped \subseteq Procs /\ closed \subseteq Procs
  /\ told \subseteq Procs /\ cancelled \subseteq Procs
  /\ watch \in [Procs -> {"off", "wait", "poll", "report", "over"}]
  /\ misses \in [Procs -> 0..MaxMisses]
  /\ pc \in [Actors -> {"idle", "check", "swap", "unload", "restart", "start"}]
  /\ tries \in [Actors -> 0..MaxTries]
  /\ calls \in 0..MaxCalls /\ panicked \in BOOLEAN
  /\ givenUp \subseteq Procs

\* One server at a time, its exit observed exactly when it happened, and no
\* panic of a reaper (manager.go:57, "both ... observe process exit";
\* embedded_stub.go:26, no "multiple concurrent llama-server processes") -
\* until a server is reported as crashed that has not been seen to exit: one
\* that only answers slowly, or the successor of one that crashed.
SupervisedUnlessGivenUp ==
  givenUp = {} =>
    /\ Cardinality(Alive) <= 1
    /\ \A i \in closed : proc[i] = "dead"
    /\ ~panicked

\* A server that died while it was in use is noticed, and no longer offered to
\* clients (manager.go:304, else it is "only ever discovered when a real
\* request fails").
CrashIsNoticed ==
  (state = "running" /\ cmd # None /\ proc[cmd] = "dead") ~>
    (panicked \/ state # "running" \/ proc[cmd] # "dead")

\* Whoever holds the manager's lock gives it back, except a Stop after a Start
\* that failed: it waits on a nil channel, and the status, the models list and
\* every other call wait with it.
ManagerIsReleased ==
  holder # None ~> holder = None \/ panicked \/ (at = "kill" /\ waitDone = None)

=============================================================================
