--------------------------- MODULE ServicesProofs ---------------------------
(***************************************************************************)
(* Proofs about the services behind the agent: the manager of the embedded *)
(* model server (EmbeddedServer), and the four MCServices puts beside each *)
(* other - plugins, sources of tools, calls of a model and the client of   *)
(* language servers - for any processes, callers, tools and bounds.        *)
(***************************************************************************)
EXTENDS EmbeddedServer, MCServices, Sequences, FiniteSetTheorems, TLAPS

-----------------------------------------------------------------------------
(* The embedded model server *)

\* A health loop belongs to a process that became healthy, and is at work only
\* below the limit of missed checks. The lock is held exactly while somebody
\* waits, and who waits for health waits for a fresh process.
Watched ==
  /\ \A i \in Procs : proc[i] = "none" => watch[i] = "off"
  /\ \A i \in Procs : watch[i] \in {"off", "wait", "poll"} => misses[i] < MaxMisses
  /\ holder = None <=> at = "free"
  /\ at = "ready" => cmd \in Procs /\ watch[cmd] = "off"
  /\ state = "running" => cmd \in Procs

\* What is started and not reaped is the process the manager has in hand, with
\* the channel that stands for it - until a server is given up.
InHand ==
  /\ reaped \subseteq {i \in Procs : proc[i] = "dead"}
  /\ givenUp = {} =>
       /\ closed = reaped /\ ~panicked
       /\ \A i \in Procs \ reaped : proc[i] # "none" => cmd = i /\ waitDone = i
       /\ holder = None /\ state # "running" =>
            \A i \in Procs \ reaped : proc[i] = "none"

\* The inductive invariant of the manager.
ServerInv == TypeOK /\ Watched /\ InHand

USE DEF manager, provider, processes, monitors

\* Who can hold the lock.
LEMMA WhoActs == User \in Actors /\ Procs \subseteq Actors
BY DEF Actors

\* Every step keeps the types.
LEMMA StepKeepsType ==
  ASSUME TypeOK, Watched, [Next]_vars
  PROVE  TypeOK'
<1> USE BoundsAssumption, WhoActs DEF TypeOK
<1>1. ASSUME NEW i \in Procs, Lives(i) PROVE TypeOK'
  BY <1>1 DEF Lives, MovesTo, Alive
<1>2. ASSUME NEW i \in Procs, KilledByContext(i) PROVE TypeOK'
  BY <1>2 DEF KilledByContext, MovesTo, Alive
<1>3. ASSUME NEW i \in Procs, Reap(i) PROVE TypeOK'
  <2>1. panicked' \in BOOLEAN
    BY <1>3 DEF Reap
  <2>2. reaped' \subseteq Procs /\ closed' \subseteq Procs
    BY <1>3 DEF Reap
  <2>3. UNCHANGED <<manager, provider, proc, cancelled, monitors, pc, tries, calls, givenUp>>
    BY <1>3 DEF Reap
  <2> QED BY <2>1, <2>2, <2>3 DEF manager, provider, monitors
<1>4. ASSUME NEW a \in Actors, StartRefused(a) PROVE TypeOK'
  BY <1>4 DEF StartRefused, AlreadyRunning, StartFailed
<1>5. ASSUME NEW a \in Actors, StartBreaks(a) PROVE TypeOK'
  BY <1>5 DEF StartBreaks, AlreadyRunning, StartFailed
<1>6. ASSUME NEW a \in Actors, Launch(a) PROVE TypeOK'
  BY <1>6 DEF Launch, AlreadyRunning, Unused
<1>7. ASSUME NEW a \in Actors, Ready(a) PROVE TypeOK'
  BY <1>7 DEF Ready, Released, StartSucceeded, Watched
<1>8. ASSUME NEW a \in Actors, NotReady(a) PROVE TypeOK'
  BY <1>8 DEF NotReady, Killed, Alive
<1>9. ASSUME NEW a \in Actors, ReapedAfterFailure(a) PROVE TypeOK'
  BY <1>9 DEF ReapedAfterFailure, Released, StartFailed
<1>10. CASE BeginStop
  BY <1>10 DEF BeginStop, StopReturns, Released
<1>11. CASE StopSeesExit
  BY <1>11 DEF StopSeesExit, StopReturns, Released
<1>12. CASE StopKills
  BY <1>12, SMTT(60) DEF StopKills, Killed, Alive
<1>13. CASE Call
  BY <1>13 DEF Call
<1>14. CASE CheckLoaded
  BY <1>14 DEF CheckLoaded
<1>15. ASSUME NEW i \in Procs, WatchEnds(i) PROVE TypeOK'
  BY <1>15 DEF WatchEnds
<1>16. ASSUME NEW i \in Procs, SeesExit(i) PROVE TypeOK'
  BY <1>16 DEF SeesExit
<1>17. ASSUME NEW i \in Procs, Tick(i) PROVE TypeOK'
  BY <1>17 DEF Tick
<1>18. ASSUME NEW i \in Procs, Poll(i) PROVE TypeOK'
  BY <1>18 DEF Poll, EnoughMisses, Watched
<1>19. ASSUME NEW i \in Procs, ReportCrash(i) PROVE TypeOK'
  BY <1>19 DEF ReportCrash, MarkFailed, Watched
<1>20. ASSUME NEW i \in Procs, BeginRestart(i) PROVE TypeOK'
  BY <1>20 DEF BeginRestart
<1>21. CASE UNCHANGED vars
  BY <1>21 DEF vars
<1> QED
  BY <1>1, <1>2, <1>3, <1>4, <1>5, <1>6, <1>7, <1>8, <1>9, <1>10, <1>11,
     <1>12, <1>13, <1>14, <1>15, <1>16, <1>17, <1>18, <1>19, <1>20, <1>21
  DEF Next, Stopping, Starting, Waiting, HealthLoop

\* Every step keeps who watches and who holds the lock.
LEMMA StepKeepsWatched ==
  ASSUME TypeOK, Watched, [Next]_vars
  PROVE  Watched'
<1> USE BoundsAssumption, NamesAssumption DEF TypeOK, Watched, Procs, Actors
<1>1. ASSUME NEW i \in Procs, Lives(i) PROVE Watched'
  BY <1>1 DEF Lives, MovesTo, Alive
<1>2. ASSUME NEW i \in Procs, KilledByContext(i) PROVE Watched'
  BY <1>2 DEF KilledByContext, MovesTo, Alive
<1>3. ASSUME NEW i \in Procs, Reap(i) PROVE Watched'
  BY <1>3 DEF Reap
<1>4. ASSUME NEW a \in Actors, StartRefused(a) PROVE Watched'
  BY <1>4 DEF StartRefused, AlreadyRunning, StartFailed
<1>5. ASSUME NEW a \in Actors, StartBreaks(a) PROVE Watched'
  BY <1>5 DEF StartBreaks, AlreadyRunning, StartFailed
<1>6. ASSUME NEW a \in Actors, Launch(a) PROVE Watched'
  BY <1>6 DEF Launch, AlreadyRunning, Unused
<1>7. ASSUME NEW a \in Actors, Ready(a) PROVE Watched'
  BY <1>7 DEF Ready, Released, StartSucceeded
<1>8. ASSUME NEW a \in Actors, NotReady(a) PROVE Watched'
  BY <1>8 DEF NotReady, Killed, Alive
<1>9. ASSUME NEW a \in Actors, ReapedAfterFailure(a) PROVE Watched'
  BY <1>9 DEF ReapedAfterFailure, Released, StartFailed
<1>10. CASE BeginStop
  BY <1>10 DEF BeginStop, StopReturns, Released
<1>11. CASE StopSeesExit
  BY <1>11 DEF StopSeesExit, StopReturns, Released
<1>12. CASE StopKills
  BY <1>12, SMTT(60) DEF StopKills, Killed, Alive
<1>13. CASE Call
  BY <1>13 DEF Call
<1>14. CASE CheckLoaded
  BY <1>14 DEF CheckLoaded
<1>15. ASSUME NEW i \in Procs, WatchEnds(i) PROVE Watched'
  BY <1>15 DEF WatchEnds
<1>16. ASSUME NEW i \in Procs, SeesExit(i) PROVE Watched'
  BY <1>16 DEF SeesExit
<1>17. ASSUME NEW i \in Procs, Tick(i) PROVE Watched'
  BY <1>17 DEF Tick
<1>18. ASSUME NEW i \in Procs, Poll(i) PROVE Watched'
  BY <1>18, SMTT(60) DEF Poll, EnoughMisses
<1>19. ASSUME NEW i \in Procs, ReportCrash(i) PROVE Watched'
  BY <1>19 DEF ReportCrash, MarkFailed
<1>20. ASSUME NEW i \in Procs, BeginRestart(i) PROVE Watched'
  BY <1>20 DEF BeginRestart
<1>21. CASE UNCHANGED vars
  BY <1>21 DEF vars
<1> QED
  BY <1>1, <1>2, <1>3, <1>4, <1>5, <1>6, <1>7, <1>8, <1>9, <1>10, <1>11,
     <1>12, <1>13, <1>14, <1>15, <1>16, <1>17, <1>18, <1>19, <1>20, <1>21
  DEF Next, Stopping, Starting, Waiting, HealthLoop

\* Every step keeps what is started in the hand of the manager.
LEMMA StepKeepsInHand ==
  ASSUME TypeOK, Watched, InHand, [Next]_vars
  PROVE  InHand'
<1> USE BoundsAssumption, NamesAssumption DEF TypeOK, Watched, InHand, Procs, Actors
<1>1. ASSUME NEW i \in Procs, Lives(i) PROVE InHand'
  BY <1>1 DEF Lives, MovesTo, Alive
<1>2. ASSUME NEW i \in Procs, KilledByContext(i) PROVE InHand'
  BY <1>2, SMTT(60) DEF KilledByContext, MovesTo, Alive
<1>3. ASSUME NEW i \in Procs, Reap(i) PROVE InHand'
  BY <1>3, SMTT(60) DEF Reap
<1>4. ASSUME NEW a \in Actors, StartRefused(a) PROVE InHand'
  BY <1>4 DEF StartRefused, AlreadyRunning, StartFailed
<1>5. ASSUME NEW a \in Actors, StartBreaks(a) PROVE InHand'
  BY <1>5 DEF StartBreaks, AlreadyRunning, StartFailed
<1>6. ASSUME NEW a \in Actors, Launch(a) PROVE InHand'
  BY <1>6, SMTT(60) DEF Launch, AlreadyRunning, Unused
<1>7. ASSUME NEW a \in Actors, Ready(a) PROVE InHand'
  BY <1>7 DEF Ready, Released, StartSucceeded
<1>8. ASSUME NEW a \in Actors, NotReady(a) PROVE InHand'
  BY <1>8, SMTT(60) DEF NotReady, Killed, Alive
<1>9. ASSUME NEW a \in Actors, ReapedAfterFailure(a) PROVE InHand'
  BY <1>9, SMTT(60) DEF ReapedAfterFailure, Released, StartFailed
<1>10. CASE BeginStop
  BY <1>10 DEF BeginStop, StopReturns, Released
<1>11. CASE StopSeesExit
  BY <1>11 DEF StopSeesExit, StopReturns, Released
<1>12. CASE StopKills
  BY <1>12, SMTT(60) DEF StopKills, Killed, Alive
<1>13. CASE Call
  BY <1>13 DEF Call
<1>14. CASE CheckLoaded
  BY <1>14 DEF CheckLoaded
<1>15. ASSUME NEW i \in Procs, WatchEnds(i) PROVE InHand'
  BY <1>15 DEF WatchEnds
<1>16. ASSUME NEW i \in Procs, SeesExit(i) PROVE InHand'
  BY <1>16 DEF SeesExit
<1>17. ASSUME NEW i \in Procs, Tick(i) PROVE InHand'
  BY <1>17 DEF Tick
<1>18. ASSUME NEW i \in Procs, Poll(i) PROVE InHand'
  BY <1>18 DEF Poll, EnoughMisses
<1>19. ASSUME NEW i \in Procs, ReportCrash(i) PROVE InHand'
  BY <1>19 DEF ReportCrash, MarkFailed
<1>20. ASSUME NEW i \in Procs, BeginRestart(i) PROVE InHand'
  BY <1>20 DEF BeginRestart
<1>21. CASE UNCHANGED vars
  BY <1>21 DEF vars
<1> QED
  BY <1>1, <1>2, <1>3, <1>4, <1>5, <1>6, <1>7, <1>8, <1>9, <1>10, <1>11,
     <1>12, <1>13, <1>14, <1>15, <1>16, <1>17, <1>18, <1>19, <1>20, <1>21
  DEF Next, Stopping, Starting, Waiting, HealthLoop

-----------------------------------------------------------------------------
(* The theorems. *)

\* The invariant holds at first.
LEMMA InitEstablishes == Init => ServerInv
<1> SUFFICES ASSUME Init PROVE ServerInv
  OBVIOUS
<1> USE BoundsAssumption DEF Init
<1>1. TypeOK
  <2>1. misses \in [Procs -> 0..MaxMisses] /\ tries \in [Actors -> 0..MaxTries]
    OBVIOUS
  <2>2. pc \in [Actors -> {"idle", "check", "swap", "unload", "restart", "start"}]
    OBVIOUS
  <2>3. /\ proc \in [Procs -> {"none", "mute", "up", "dead"}]
        /\ watch \in [Procs -> {"off", "wait", "poll", "report", "over"}]
    OBVIOUS
  <2>4. panicked \in BOOLEAN
    OBVIOUS
  <2> QED BY <2>1, <2>2, <2>3, <2>4 DEF TypeOK
<1>2. Watched
  BY DEF Watched
<1>3. InHand
  BY DEF InHand
<1> QED BY <1>1, <1>2, <1>3 DEF ServerInv

\* It holds in every state.
LEMMA Inductive == Spec => []ServerInv
<1>1. ServerInv /\ [Next]_vars => ServerInv'
  BY StepKeepsType, StepKeepsWatched, StepKeepsInHand DEF ServerInv
<1> QED BY <1>1, InitEstablishes, PTL DEF Spec

\* Every variable keeps its type, the counters of misses and attempts their
\* limits (manager.go:85, embedded_stub.go:272).
THEOREM ServerTypeCorrect == Spec => []TypeOK
<1>1. ServerInv => TypeOK
  BY DEF ServerInv
<1> QED BY <1>1, Inductive, PTL

\* As long as no server is reported as crashed that has not been seen to exit,
\* there is one server at a time, waitDone says exactly that it has exited, and
\* no reaper panics (manager.go:57), however loads, unloads, crashes and
\* restarts interleave.
THEOREM OneSupervisedServer == Spec => []SupervisedUnlessGivenUp
<1>1. ServerInv => SupervisedUnlessGivenUp
  <2> SUFFICES ASSUME ServerInv, givenUp = {}
               PROVE  /\ Cardinality(Alive) <= 1
                      /\ \A i \in closed : proc[i] = "dead"
                      /\ ~panicked
    BY DEF SupervisedUnlessGivenUp
  <2>1. Alive \subseteq {cmd}
    BY DEF ServerInv, InHand, Alive
  <2>2. Cardinality({cmd}) = 1 /\ IsFiniteSet({cmd})
    BY FS_Singleton
  <2>3. Cardinality(Alive) <= 1
    BY <2>1, <2>2, FS_Subset
  <2>4. \A i \in closed : proc[i] = "dead"
    BY DEF ServerInv, InHand
  <2> QED BY <2>3, <2>4 DEF ServerInv, InHand
<1> QED BY <1>1, Inductive, PTL

-----------------------------------------------------------------------------
(* Plugins *)

\* A step of the services is one of the host, or leaves it alone.
LEMMA ServicesStepOfPlug ==
  ASSUME [ServicesNext]_services
  PROVE  [Plug!Next]_(Plug!vars)
BY DEF ServicesNext, OfLsp, OfSrc, OfPlug, OfModel, services, plug, Plug!vars, Plug!host,
   Plug!goroutine

\* Plug!TypeOK leaves out what only steps read.
PlugShape ==
  /\ plugPc \in [Plug!Actors -> {"boot", "idle", "write", "read", "runs", "quit", "reap", "gone"}]
  /\ plugDoing \in [Plug!Actors -> {"none", "manifest", "init", "execute", "shutdown"}]
  /\ plugAt \in [Plug!Actors -> Plugins \cup {NoOne}]
  /\ plugNextID \in Nat /\ plugId \in [Plug!Actors -> Nat]
  /\ \A a \in Plug!Actors : plugId[a] <= plugNextID
  /\ \A c \in Callers :
       /\ plugPc[c] \in {"idle", "write", "read"}
       /\ plugPc[c] # "idle" => plugDoing[c] = "execute"

\* App holds the host's mutex while it loads or shuts down, and is at nothing else.
AppHolds ==
  /\ plugPc[App] # "idle"
  /\ plugPc[App] \in {"write", "read"} <=>
       plugDoing[App] \in {"manifest", "init", "shutdown"} /\ plugPc[App] # "reap"
  /\ plugPc[App] = "reap" => plugDoing[App] = "shutdown"
  /\ plugDoing[App] # "execute"
  /\ plugMu = App <=> plugPc[App] \in {"write", "read", "reap", "quit"}

\* App is at the handshake of a plugin.
Loading == plugDoing[App] \in {"manifest", "init"}

\* A plugin that is alive is among those that will be shut down, or App is at its
\* handshake.
AliveIsHeld ==
  /\ \A p \in Plugins : Plug!Alive(p) => p \in plugins \/ (Loading /\ plugAt[App] = p)
  /\ Loading => plugProc[plugAt[App]] # "unused"
  /\ plugPc[App] = "gone" => plugins = {}

\* The inductive invariant of the host.
PlugInv == Plug!TypeOK /\ PlugShape /\ AppHolds /\ AliveIsHeld

\* It holds at first.
LEMMA InitPlugInv == Plug!Init => PlugInv
BY ServicesAssumption DEF PlugInv, Plug!Init, Plug!TypeOK, PlugShape, AppHolds, AliveIsHeld,
   Loading, Plug!Alive,
   Plug!Actors, Plug!NobodyAssumption

\* What follows an answer.
LEMMA ThenKeepsPlugInv ==
  ASSUME PlugInv, NEW a \in Plug!Actors, NEW answer \in {"own", "other", "error"},
         plugPc[a] \in {"write", "read"}, Plug!Then(a, answer), UNCHANGED toLoad
  PROVE  PlugInv'
<1> USE ServicesAssumption DEF PlugInv, Plug!TypeOK, PlugShape, AppHolds, AliveIsHeld, Loading,
      Plug!Alive,
      Plug!Actors, Plug!NobodyAssumption
<1>1. CASE a = App /\ Plug!Handshaken /\ UNCHANGED plugResult
  BY <1>1 DEF Plug!Handshaken, Plug!Request, Plug!Leaves, Plug!Go, Plug!Released
<1>2. CASE a = App /\ Plug!HandshakeFails /\ UNCHANGED plugResult
  BY <1>2 DEF Plug!HandshakeFails, Plug!Killed, Plug!Leaves, Plug!Go, Plug!Released
<1>3. CASE a \in Callers /\ Plug!Returns(a, answer)
  BY <1>3 DEF Plug!Returns, Plug!Leaves, Plug!Go, Plug!Released
<1>4. CASE /\ plugDoing[a] = "shutdown" /\ Plug!Go(a, "reap")
           /\ UNCHANGED <<plugMu, plugins, plugNextID, plugAt, plugDoing, plugId, plugResult, plugProc>>
  BY <1>4 DEF Plug!Go
<1> QED BY <1>1, <1>2, <1>3, <1>4 DEF Plug!Then

\* Every step of the host and its plugins keeps it.
LEMMA NextPlugInv ==
  ASSUME PlugInv, [Plug!Next]_(Plug!vars)
  PROVE  PlugInv'
<1> USE ServicesAssumption DEF PlugInv, Plug!TypeOK, PlugShape, AppHolds, AliveIsHeld, Loading,
      Plug!Alive,
      Plug!Actors, Plug!NobodyAssumption, Plug!host, Plug!goroutine
<1>1. CASE Plug!LoadNext
  BY <1>1 DEF Plug!LoadNext, Plug!Request, Plug!Go
<1>2. CASE Plug!CannotStart
  BY <1>2 DEF Plug!CannotStart
<1>3. CASE Plug!Booted
  BY <1>3 DEF Plug!Booted, Plug!Go
<1>4. CASE Plug!ShutdownNext
  BY <1>4 DEF Plug!ShutdownNext, Plug!Request, Plug!Go
<1>5. CASE Plug!Reap
  BY <1>5 DEF Plug!Reap, Plug!Leaves, Plug!Go, Plug!Released
<1>6. CASE Plug!ShutdownDone
  BY <1>6 DEF Plug!ShutdownDone, Plug!Go
<1>7. CASE Plug!Shutdown
  BY <1>7 DEF Plug!Shutdown, Plug!Go
<1>8. ASSUME NEW a \in Plug!Actors, Plug!Write(a) PROVE PlugInv'
  BY <1>8 DEF Plug!Write, Plug!Go
<1>9. ASSUME NEW a \in Plug!Actors, Plug!Read(a) PROVE PlugInv'
  <2>1. \E answer \in {"own", "other", "error"} : Plug!Then(a, answer)
    BY <1>9 DEF Plug!Read, Plug!Meaning
  <2> QED BY <1>9, <2>1, ThenKeepsPlugInv DEF Plug!Read
<1>10. ASSUME NEW a \in Plug!Actors, Plug!CallFails(a) PROVE PlugInv'
  BY <1>10, ThenKeepsPlugInv DEF Plug!CallFails
<1>11. ASSUME NEW c \in Callers, Plug!Execute(c) PROVE PlugInv'
  BY <1>11 DEF Plug!Execute, Plug!Request, Plug!Go
<1>12. ASSUME NEW p \in Plugins, Plug!Serve(p) \/ Plug!Ends(p) \/ Plug!Hangs(p) \/ Plug!Chats(p)
       PROVE  PlugInv'
  BY SMTT(20), <1>12 DEF Plug!Serve, Plug!Ends, Plug!Hangs, Plug!Chats, Plug!Faulty
<1>13. CASE UNCHANGED Plug!vars
  BY <1>13 DEF Plug!vars
<1> HIDE DEF PlugInv
<1> QED BY <1>1, <1>2, <1>3, <1>4, <1>5, <1>6, <1>7, <1>8, <1>9, <1>10, <1>11, <1>12, <1>13
     DEF Plug!Next, Plug!AppSteps, Plug!CallSteps

\* It holds in every state of the services.
LEMMA PlugInvariant == ServicesSpec => []PlugInv
<1>1. ServicesInit => PlugInv
  BY InitPlugInv DEF ServicesInit, ServicesBegin
<1>2. PlugInv /\ [ServicesNext]_services => PlugInv'
  BY NextPlugInv, ServicesStepOfPlug
<1> QED BY <1>1, <1>2, PTL DEF ServicesSpec

\* No plugin is alive once the host was shut down (host.go), for any plugins, calls and
\* faults of theirs.
THEOREM ShutdownLeavesNothing == ServicesSpec => []NothingIsLeft
<1>1. PlugInv => NothingIsLeft
  BY DEF PlugInv, AliveIsHeld, AppHolds, Loading, NothingIsLeft, Plug!NothingIsLeft
<1> QED BY <1>1, PlugInvariant, PTL

-----------------------------------------------------------------------------
(* Sources of tools *)

\* A step of the services is one of the sources, or leaves them alone.
LEMMA ServicesStepOfSrc ==
  ASSUME [ServicesNext]_services
  PROVE  [Src!Next]_(Src!vars)
BY DEF ServicesNext, OfLsp, OfSrc, OfPlug, OfModel, services, src, Src!vars, Src!manager,
   Src!world, Src!operator, Src!past

\* The steps of connect.
Connecting == {"mark", "spawn", "initialize", "list", "register", "put"}

\* Those at which its process is alive.
Taking == {"initialize", "list", "register", "put"}

\* Where operators can be and what they and the registry hold, however operations overlap;
\* of a source that was never added nothing is known.
SourceTypes ==
  /\ srcPc \in [Operators -> Connecting \cup
       {"idle", "look", "fail", "find", "unregister", "close", "clear", "delete"}]
  /\ op \in [Operators -> {"none", "connect", "disconnect", "remove"}]
  /\ on \in [Operators -> added \cup {NoOne}]
  /\ srcHand \in [Operators -> Processes \cup {NoOne}]
  /\ found \in [Operators -> SUBSET Tools] /\ names \in [Operators -> SUBSET Src!Names]
  /\ srcKey \in [Operators -> (Tools \cup {NoOne}) \X (Sources \cup {NoOne})]
  /\ registry \in [Src!Names -> [tool : Tools \cup {NoOne}, source : Sources \cup {"builtin", NoOne},
                                 client : Processes \cup {NoOne}]]
  /\ call \in [ToolCallers -> [tool : Tools \cup {NoOne}, source : Sources \cup {"builtin", NoOne},
                               client : Processes \cup {NoOne}]]
  /\ \A s \in Sources \ added : status[s] = "disconnected"

\* What an operator has in hand was started for its source; what is unused was started
\* for none; a name that is about to be registered is none of the program's own.
RunsOfItsSource ==
  /\ \A o \in Operators : srcHand[o] # NoOne => on[o] \in Sources /\ owner[srcHand[o]] = on[o]
  /\ \A c \in Processes : srcProc[c] = "unused" => owner[c] = NoOne
  /\ \A n \in Src!Names : registry[n].client # NoOne => registry[n].source \in Sources
  /\ \A k \in ToolCallers : call[k].client # NoOne => call[k].source \in Sources
  /\ \A o \in Operators : srcPc[o] = "put" =>
       srcKey[o] \in Src!Names /\ (srcKey[o][2] = NoOne => srcKey[o][1] \notin Builtin)

\* Until a connect has handed its process to the source nobody else has it, and only the
\* steps that register use it; who closes a process has withdrawn what ran in it.
HandsAreApart ==
  /\ \A o \in Operators :
       srcPc[o] \in {"idle", "look", "mark", "spawn", "fail", "find", "delete"} => srcHand[o] = NoOne
  /\ \A o \in Operators : srcHand[o] # NoOne => srcProc[srcHand[o]] # "unused"
  /\ \A s \in Sources : client[s] # NoOne => srcProc[client[s]] # "unused"
  /\ \A o \in Operators : srcPc[o] \in Taking /\ srcHand[o] # NoOne =>
       /\ srcProc[srcHand[o]] # "killed"
       /\ \A s \in Sources : client[s] # srcHand[o]
       /\ \A q \in Operators : srcHand[q] = srcHand[o] => q = o
  /\ \A o \in Operators : srcPc[o] \in {"initialize", "list", "close"} /\ srcHand[o] # NoOne =>
       \A n \in Src!Names : registry[n].client # srcHand[o]
  /\ \A n \in Src!Names : registry[n].client # NoOne =>
       srcProc[registry[n].client] \in {"running", "exited"}

\* What is inductive about the sources, however operations overlap.
NamesInv == Src!TypeOK /\ Src!BuiltinsStay /\ Src!ServedByOwn /\ SourceTypes /\ RunsOfItsSource
FreeInv == NamesInv /\ HandsAreApart

\* It holds at first.
LEMMA InitFreeInv == Src!Init => FreeInv
<1> SUFFICES ASSUME Src!Init PROVE FreeInv
  OBVIOUS
<1> USE ServicesAssumption DEF Src!Init, Src!NobodyAssumption, Src!PlainAssumption
<1>1. Src!TypeOK
  BY DEF Src!TypeOK, Src!BoundsAssumption
<1>2. SourceTypes
  BY DEF SourceTypes, Connecting, Src!Names, Src!NoEntry, Src!Entry
<1>3. Src!BuiltinsStay /\ Src!ServedByOwn /\ RunsOfItsSource
  BY DEF RunsOfItsSource, Src!Names, Src!NoEntry, Src!Entry, Src!BuiltinsStay, Src!ServedByOwn
<1>4. HandsAreApart
  BY DEF HandsAreApart, Taking, Src!Names, Src!NoEntry, Src!Entry
<1> QED BY <1>1, <1>2, <1>3, <1>4 DEF FreeInv, NamesInv

\* Every action keeps the names right.
LEMMA NamesKept ==
  ASSUME NamesInv, [Src!Next]_(Src!vars)
  PROVE  NamesInv'
<1> USE ServicesAssumption DEF NamesInv, Src!NobodyAssumption, Src!PlainAssumption, Src!TypeOK,
  SourceTypes, RunsOfItsSource, Connecting, Src!BoundsAssumption, Src!BuiltinsStay,
  Src!ServedByOwn, Src!Names, Src!manager, Src!world, Src!operator, Src!past
<1>1. ASSUME NEW s \in Sources, Src!Add(s) PROVE NamesInv'
  BY <1>1 DEF Src!Add
<1>2. ASSUME NEW o \in Operators, NEW what \in {"connect", "disconnect", "remove"},
             NEW s \in Sources, Src!Begin(o, what, s)
      PROVE  NamesInv'
  BY <1>2 DEF Src!Begin, Src!Go
<1>3. ASSUME NEW o \in Operators, Src!Look(o) PROVE NamesInv'
  <2>1. CASE on[o] \notin srcKnown /\ Src!Done(o)
    BY <1>3, <2>1 DEF Src!Look, Src!Go, Src!Done, Src!FreshNames
  <2>2. CASE /\ on[o] \in srcKnown /\ Src!Go(o, IF op[o] = "connect" THEN "mark" ELSE "find")
             /\ UNCHANGED <<op, on, srcHand, found, names, srcKey>>
    BY <1>3, <2>2 DEF Src!Look, Src!Go, Src!Done, Src!FreshNames
  <2> QED BY <1>3, <2>1, <2>2 DEF Src!Look
<1>4. ASSUME NEW o \in Operators, Src!Mark(o) PROVE NamesInv'
  BY <1>4 DEF Src!Mark, Src!Go, Src!Marked
<1>5. ASSUME NEW o \in Operators, Src!Spawn(o) PROVE NamesInv'
  BY <1>5 DEF Src!Spawn, Src!Go
<1>6. ASSUME NEW o \in Operators, Src!Fails(o) PROVE NamesInv'
  BY <1>6 DEF Src!Fails, Src!Go, Src!GivenUp, Src!Closed
<1>7. ASSUME NEW o \in Operators, Src!Initialize(o) PROVE NamesInv'
  BY <1>7 DEF Src!Initialize, Src!Go
<1>8. ASSUME NEW o \in Operators, Src!List(o) PROVE NamesInv'
  BY <1>8 DEF Src!List, Src!Go
<1>9. ASSUME NEW o \in Operators, Src!Resolve(o) PROVE NamesInv'
  BY <1>9 DEF Src!Resolve, Src!Go, Src!NameFor
<1>10. ASSUME NEW o \in Operators, Src!Put(o) PROVE NamesInv'
  BY <1>10 DEF Src!Put, Src!Go, Src!Entry
<1>11. ASSUME NEW o \in Operators, Src!Finish(o) PROVE NamesInv'
  BY <1>11 DEF Src!Finish, Src!KeptClient, Src!Done, Src!Go, Src!FreshNames
<1>12. ASSUME NEW o \in Operators, Src!Fail(o) PROVE NamesInv'
  BY <1>12 DEF Src!Fail, Src!Marked, Src!Done, Src!Go, Src!FreshNames
<1>13. ASSUME NEW o \in Operators, Src!Find(o) PROVE NamesInv'
  <2>1. CASE /\ on[o] \in srcKnown /\ srcHand' = [srcHand EXCEPT ![o] = client[on[o]]]
             /\ Src!Go(o, "unregister")
             /\ UNCHANGED <<op, on, found, names, srcKey>>
    BY <1>13, <2>1 DEF Src!Find, Src!Done, Src!Go, Src!FreshNames
  <2>2. CASE on[o] \notin srcKnown /\ op[o] = "disconnect" /\ Src!Done(o)
    BY <1>13, <2>2 DEF Src!Find, Src!Done, Src!Go, Src!FreshNames
  <2>3. CASE /\ on[o] \notin srcKnown /\ op[o] = "remove" /\ Src!Go(o, "delete")
             /\ UNCHANGED <<op, on, srcHand, found, names, srcKey>>
    BY <1>13, <2>3 DEF Src!Find, Src!Done, Src!Go, Src!FreshNames
  <2> QED BY <1>13, <2>1, <2>2, <2>3 DEF Src!Find
<1>14. ASSUME NEW o \in Operators, Src!Unregister(o) PROVE NamesInv'
  BY <1>14 DEF Src!Unregister, Src!Withdrawn, Src!Go, Src!NoEntry, Src!Entry
<1>15. ASSUME NEW o \in Operators, Src!Close(o) PROVE NamesInv'
  BY <1>15 DEF Src!Close, Src!Closed, Src!Go
<1>16. ASSUME NEW o \in Operators, Src!Clear(o) PROVE NamesInv'
  <2>1. CASE op[o] = "disconnect" /\ Src!Done(o)
    BY <1>16, <2>1 DEF Src!Clear, Src!Done, Src!Go, Src!FreshNames
  <2>2. CASE /\ op[o] = "remove" /\ Src!Go(o, "delete") /\ srcHand' = [srcHand EXCEPT ![o] = NoOne]
             /\ UNCHANGED <<op, on, found, names, srcKey>>
    BY <1>16, <2>2 DEF Src!Clear, Src!Done, Src!Go, Src!FreshNames
  <2> QED BY <1>16, <2>1, <2>2 DEF Src!Clear
<1>17. ASSUME NEW o \in Operators, Src!Delete(o) PROVE NamesInv'
  BY <1>17 DEF Src!Delete, Src!Done, Src!Go, Src!FreshNames
<1>18. ASSUME NEW c \in Processes, Src!ProcessEnds(c) PROVE NamesInv'
  BY <1>18 DEF Src!ProcessEnds
<1>19. ASSUME NEW k \in ToolCallers, Src!Fetch(k) \/ Src!Run(k) PROVE NamesInv'
  <2>1. CASE Src!Fetch(k)
    <3>1. PICK n \in Src!Names : call' = [call EXCEPT ![k] = registry[n]]
      BY <2>1 DEF Src!Fetch
    <3>2. UNCHANGED <<Src!manager, registry, Src!world, Src!operator, Src!past>>
      BY <2>1 DEF Src!Fetch
    <3> QED BY <3>1, <3>2
  <2>2. CASE Src!Run(k)
    <3>1. /\ call' = [call EXCEPT ![k] = Src!NoEntry] /\ Src!NoEntry.client = NoOne
          /\ Src!NoEntry \in [tool : Tools \cup {NoOne}, source : Sources \cup {"builtin", NoOne},
                              client : Processes \cup {NoOne}]
      BY <2>2 DEF Src!Run, Src!NoEntry, Src!Entry
    <3>2. UNCHANGED <<Src!manager, registry, Src!world, Src!operator, Src!past>>
      BY <2>2 DEF Src!Run
    <3> QED BY <3>1, <3>2
  <2> QED BY <1>19, <2>1, <2>2
<1>20. ASSUME UNCHANGED Src!vars PROVE NamesInv'
  BY <1>20 DEF Src!vars
<1> HIDE DEF NamesInv, Src!NobodyAssumption, Src!PlainAssumption, Src!TypeOK, SourceTypes,
  RunsOfItsSource, Connecting, Src!BoundsAssumption, Src!BuiltinsStay, Src!ServedByOwn, Src!Names,
  Src!manager, Src!world, Src!operator, Src!past
<1> QED BY <1>1, <1>2, <1>3, <1>4, <1>5, <1>6, <1>7, <1>8, <1>9, <1>10, <1>11, <1>12, <1>13,
  <1>14, <1>15, <1>16, <1>17, <1>18, <1>19, <1>20 DEF Src!Next, Src!ConnectSteps,
  Src!DisconnectSteps

\* Every action keeps the hands apart.
LEMMA HandsKept ==
  ASSUME NamesInv, HandsAreApart, [Src!Next]_(Src!vars)
  PROVE  HandsAreApart'
<1>a. /\ srcKnown \subseteq added /\ added \subseteq Sources
      /\ client \in [Sources -> Processes \cup {NoOne}]
      /\ srcProc \in [Processes -> {"unused", "running", "exited", "killed"}]
      /\ srcPc \in [Operators -> {"idle", "look", "mark", "spawn", "initialize", "list", "register",
           "put", "fail", "find", "unregister", "close", "clear", "delete"}]
      /\ srcHand \in [Operators -> Processes \cup {NoOne}]
      /\ srcKey \in [Operators -> (Tools \cup {NoOne}) \X (Sources \cup {NoOne})]
      /\ registry \in [Src!Names -> [tool : Tools \cup {NoOne},
                                     source : Sources \cup {"builtin", NoOne},
                                     client : Processes \cup {NoOne}]]
      /\ on \in [Operators -> Sources \cup {NoOne}]
      /\ \A o \in Operators : on[o] = NoOne <=> srcPc[o] = "idle"
      /\ \A o \in Operators : srcPc[o] = "put" => srcKey[o] \in Src!Names
  BY DEF NamesInv, Src!TypeOK, SourceTypes, Connecting, RunsOfItsSource
<1>b. /\ \A o \in Operators : srcHand[o] # NoOne => owner[srcHand[o]] = on[o]
      /\ \A n \in Src!Names : registry[n].client # NoOne =>
           owner[registry[n].client] = registry[n].source
      /\ \A s \in Sources : client[s] # NoOne => owner[client[s]] = s
  BY DEF NamesInv, RunsOfItsSource, Src!ServedByOwn
<1>c. NoOne \notin Processes /\ NoOne \notin Sources /\ "builtin" \notin Sources
  BY ServicesAssumption DEF Src!NobodyAssumption
<1> USE <1>a, <1>b, <1>c DEF HandsAreApart, Taking, Src!manager, Src!world, Src!operator, Src!past
<1>1. ASSUME NEW s \in Sources, Src!Add(s) PROVE HandsAreApart'
  BY <1>1 DEF Src!Add
<1>2. ASSUME NEW o \in Operators, NEW what \in {"connect", "disconnect", "remove"},
             NEW s \in Sources, Src!Begin(o, what, s)
      PROVE  HandsAreApart'
  BY <1>2 DEF Src!Begin, Src!Go
<1>3. ASSUME NEW o \in Operators, Src!Look(o) PROVE HandsAreApart'
  <2>1. CASE on[o] \notin srcKnown /\ Src!Done(o)
    BY <1>3, <2>1 DEF Src!Look, Src!Go, Src!Done, Src!FreshNames
  <2>2. CASE /\ on[o] \in srcKnown /\ Src!Go(o, IF op[o] = "connect" THEN "mark" ELSE "find")
             /\ UNCHANGED <<op, on, srcHand, found, names, srcKey>>
    BY <1>3, <2>2 DEF Src!Look, Src!Go, Src!Done, Src!FreshNames
  <2> QED BY <1>3, <2>1, <2>2 DEF Src!Look
<1>4. ASSUME NEW o \in Operators, Src!Mark(o) PROVE HandsAreApart'
  BY <1>4 DEF Src!Mark, Src!Go, Src!Marked
<1>5. ASSUME NEW o \in Operators, Src!Spawn(o) PROVE HandsAreApart'
  BY <1>5 DEF Src!Spawn, Src!Go
<1>6. ASSUME NEW o \in Operators, Src!Fails(o) PROVE HandsAreApart'
  BY <1>6 DEF Src!Fails, Src!Go, Src!GivenUp, Src!Closed
<1>7. ASSUME NEW o \in Operators, Src!Initialize(o) PROVE HandsAreApart'
  BY <1>7 DEF Src!Initialize, Src!Go
<1>8. ASSUME NEW o \in Operators, Src!List(o) PROVE HandsAreApart'
  BY <1>8 DEF Src!List, Src!Go
<1>9. ASSUME NEW o \in Operators, Src!Resolve(o) PROVE HandsAreApart'
  BY <1>9 DEF Src!Resolve, Src!Go, Src!NameFor
<1>10. ASSUME NEW o \in Operators, Src!Put(o) PROVE HandsAreApart'
  BY <1>10 DEF Src!Put, Src!Go, Src!Entry
<1>11. ASSUME NEW o \in Operators, Src!Finish(o) PROVE HandsAreApart'
  BY <1>11 DEF Src!Finish, Src!KeptClient, Src!Done, Src!Go, Src!FreshNames
<1>12. ASSUME NEW o \in Operators, Src!Fail(o) PROVE HandsAreApart'
  BY <1>12 DEF Src!Fail, Src!Marked, Src!Done, Src!Go, Src!FreshNames
<1>13. ASSUME NEW o \in Operators, Src!Find(o) PROVE HandsAreApart'
  <2>1. CASE /\ on[o] \in srcKnown /\ srcHand' = [srcHand EXCEPT ![o] = client[on[o]]]
             /\ Src!Go(o, "unregister")
             /\ UNCHANGED <<op, on, found, names, srcKey>>
    BY <1>13, <2>1 DEF Src!Find, Src!Done, Src!Go, Src!FreshNames
  <2>2. CASE on[o] \notin srcKnown /\ op[o] = "disconnect" /\ Src!Done(o)
    BY <1>13, <2>2 DEF Src!Find, Src!Done, Src!Go, Src!FreshNames
  <2>3. CASE /\ on[o] \notin srcKnown /\ op[o] = "remove" /\ Src!Go(o, "delete")
             /\ UNCHANGED <<op, on, srcHand, found, names, srcKey>>
    BY <1>13, <2>3 DEF Src!Find, Src!Done, Src!Go, Src!FreshNames
  <2> QED BY <1>13, <2>1, <2>2, <2>3 DEF Src!Find
<1>14. ASSUME NEW o \in Operators, Src!Unregister(o) PROVE HandsAreApart'
  BY <1>14 DEF Src!Unregister, Src!Withdrawn, Src!Go, Src!NoEntry, Src!Entry
<1>15. ASSUME NEW o \in Operators, Src!Close(o) PROVE HandsAreApart'
  BY <1>15 DEF Src!Close, Src!Closed, Src!Go
<1>16. ASSUME NEW o \in Operators, Src!Clear(o) PROVE HandsAreApart'
  <2>1. CASE op[o] = "disconnect" /\ Src!Done(o)
    BY <1>16, <2>1 DEF Src!Clear, Src!Done, Src!Go, Src!FreshNames
  <2>2. CASE /\ op[o] = "remove" /\ Src!Go(o, "delete") /\ srcHand' = [srcHand EXCEPT ![o] = NoOne]
             /\ UNCHANGED <<op, on, found, names, srcKey>>
    BY <1>16, <2>2 DEF Src!Clear, Src!Done, Src!Go, Src!FreshNames
  <2> QED BY <1>16, <2>1, <2>2 DEF Src!Clear
<1>17. ASSUME NEW o \in Operators, Src!Delete(o) PROVE HandsAreApart'
  BY <1>17 DEF Src!Delete, Src!Done, Src!Go, Src!FreshNames
<1>18. ASSUME NEW c \in Processes, Src!ProcessEnds(c) PROVE HandsAreApart'
  BY <1>18 DEF Src!ProcessEnds
<1>19. ASSUME NEW k \in ToolCallers, Src!Fetch(k) \/ Src!Run(k) PROVE HandsAreApart'
  <2>1. CASE Src!Fetch(k)
    <3>1. PICK n \in Src!Names : call' = [call EXCEPT ![k] = registry[n]]
      BY <2>1 DEF Src!Fetch
    <3>2. UNCHANGED <<Src!manager, registry, Src!world, Src!operator, Src!past>>
      BY <2>1 DEF Src!Fetch
    <3> QED BY <3>1, <3>2
  <2>2. CASE Src!Run(k)
    <3>1. /\ call' = [call EXCEPT ![k] = Src!NoEntry] /\ Src!NoEntry.client = NoOne
          /\ Src!NoEntry \in [tool : Tools \cup {NoOne}, source : Sources \cup {"builtin", NoOne},
                              client : Processes \cup {NoOne}]
      BY <2>2 DEF Src!Run, Src!NoEntry, Src!Entry
    <3>2. UNCHANGED <<Src!manager, registry, Src!world, Src!operator, Src!past>>
      BY <2>2 DEF Src!Run
    <3> QED BY <3>1, <3>2
  <2> QED BY <1>19, <2>1, <2>2
<1>20. ASSUME UNCHANGED Src!vars PROVE HandsAreApart'
  BY <1>20 DEF Src!vars
<1> HIDE <1>a, <1>b, <1>c DEF HandsAreApart, Taking, Src!manager, Src!world, Src!operator, Src!past
<1> QED BY <1>1, <1>2, <1>3, <1>4, <1>5, <1>6, <1>7, <1>8, <1>9, <1>10, <1>11, <1>12, <1>13,
  <1>14, <1>15, <1>16, <1>17, <1>18, <1>19, <1>20 DEF Src!Next, Src!ConnectSteps,
  Src!DisconnectSteps

\* Every action keeps all of it.
LEMMA NextFreeInv ==
  ASSUME FreeInv, [Src!Next]_(Src!vars)
  PROVE  FreeInv'
BY NamesKept, HandsKept DEF FreeInv

\* Whatever operations are under way on a source at once, and however often it is connected
\* again: no source takes the name of a tool of the program, no tool is ever served by the
\* process of another source, and what is registered has not been closed
\* (sources.go:170-262, registry.go:95).
THEOREM SourcesAreNotMixedUp ==
  ServicesSpec =>
    [](Src!TypeOK /\ Src!BuiltinsStay /\ Src!ServedByOwn /\ Src!RegisteredIsOpen)
<1>1. ServicesInit => FreeInv
  BY InitFreeInv DEF ServicesInit, ServicesBegin
<1>2. FreeInv /\ [ServicesNext]_services => FreeInv'
  BY NextFreeInv, ServicesStepOfSrc
<1>3. FreeInv => Src!TypeOK /\ Src!BuiltinsStay /\ Src!ServedByOwn /\ Src!RegisteredIsOpen
  BY DEF FreeInv, NamesInv, HandsAreApart, Src!RegisteredIsOpen
<1> QED BY <1>1, <1>2, <1>3, PTL DEF ServicesSpec

\* A source has no tool.
NoTool(s) == \A n \in Src!Names : registry[n].source # s

\* The tools of a source are served by one process, and no other of it runs.
Only(s, h) ==
  /\ \A n \in Src!Names : registry[n].source = s => registry[n].client = h
  /\ \A c \in Processes : owner[c] = s /\ srcProc[c] = "running" => c = h

\* A source no operator is at.
Rests(s) ==
  /\ Only(s, client[s])
  /\ s \notin srcKnown \/ status[s] \in {"disconnected", "error"} => Src!Clean(s)
  /\ s \in srcKnown => status[s] # "connecting"

\* What an operator that is alone at its source finds and leaves at each step.
StepsAt(o) == LET s == on[o] IN
  /\ srcPc[o] \in Connecting => s \in srcKnown
  /\ srcPc[o] \in {"look", "find"} => Rests(s)
  /\ srcPc[o] = "look" /\ op[o] = "connect" => s \notin srcKnown \/ status[s] # "connected"
  /\ srcPc[o] \in {"mark", "spawn", "fail", "clear", "delete"} => Src!Clean(s)
  /\ srcPc[o] \in {"initialize", "list", "close"} => NoTool(s)
  /\ srcPc[o] \in Taking \cup {"unregister", "close"} => Only(s, srcHand[o])

\* One operator at most is at a source, which rests when none is, and it finds what its step
\* needs.
Sound(s) ==
  /\ \A o, q \in Operators : on[o] = s /\ on[q] = s => o = q
  /\ ~Src!Busy(s) => Rests(s)
  /\ \A o \in Operators : on[o] = s => StepsAt(o)

\* So it is with every source that is not tangled.
SourcesAreSound == \A s \in Sources \ tangled : Sound(s)

\* The inductive invariant of the sources.
SrcInv == FreeInv /\ SourcesAreSound

\* It holds at first.
LEMMA InitSrcInv == Src!Init => SrcInv
<1> SUFFICES ASSUME Src!Init PROVE SrcInv
  OBVIOUS
<1>1. FreeInv
  BY InitFreeInv
<1>2. SourcesAreSound
  BY ServicesAssumption DEF SourcesAreSound, Sound, StepsAt, Rests, Only, Src!Clean, Src!NoEntry,
     Src!Entry, Src!Busy, Src!Names, Src!Init, Src!NobodyAssumption, Src!PlainAssumption
<1> QED BY <1>1, <1>2 DEF SrcInv

\* A step of an operator at source s: others stay where they are, and no other source
\* gains a tool or a process.
Elsewhere(o, s) ==
  /\ tangled' = tangled
  /\ \A q \in Operators \ {o} :
       srcPc'[q] = srcPc[q] /\ op'[q] = op[q] /\ on'[q] = on[q] /\ srcHand'[q] = srcHand[q]
  /\ on'[o] \in {s, NoOne}
  /\ \A t \in Sources \ {s} :
       status'[t] = status[t] /\ client'[t] = client[t] /\ (t \in srcKnown' <=> t \in srcKnown)
  /\ \A n \in Src!Names : registry'[n].source \in Sources \ {s} => registry'[n] = registry[n]
  /\ \A c \in Processes : srcProc'[c] = "running" /\ owner'[c] # s =>
       srcProc[c] = "running" /\ owner'[c] = owner[c]

\* It leaves the source at rest, or as its next step needs it.
LeavesSound(o, s) ==
  \/ on'[o] = NoOne /\ Rests(s)'
  \/ on'[o] = s /\ StepsAt(o)'

\* So a step of one operator leaves all sources sound.
LEMMA OneSourceMoves ==
  ASSUME SrcInv, NEW o \in Operators, NEW s \in Sources, s = on[o],
         Elsewhere(o, s), s \notin tangled => LeavesSound(o, s)
  PROVE  SourcesAreSound'
<1>0. NoOne \notin Sources
  BY ServicesAssumption DEF Src!NobodyAssumption
<1> SUFFICES ASSUME NEW t \in Sources \ tangled' PROVE Sound(t)'
  BY DEF SourcesAreSound
<1>1. t \notin tangled /\ Sound(t)
  BY DEF Elsewhere, SrcInv, SourcesAreSound
<1>2. CASE t = s
  <2>1. \A q \in Operators : on'[q] = t => q = o
    BY <1>0, <1>1, <1>2 DEF Elsewhere, Sound
  <2>2. LeavesSound(o, s)
    BY <1>1, <1>2
  <2>3. ~Src!Busy(t)' => Rests(t)'
    BY <1>2, <2>2 DEF LeavesSound, Src!Busy
  <2>4. on'[o] = t => StepsAt(o)'
    BY <1>0, <1>2, <2>2 DEF LeavesSound
  <2> QED BY <2>1, <2>3, <2>4 DEF Sound
<1>3. CASE t # s
  <2>1. /\ Src!Clean(t) => Src!Clean(t)'
        /\ NoTool(t) => NoTool(t)'
        /\ \A h : Only(t, h) => Only(t, h)'
    BY <1>3 DEF Elsewhere, Src!Clean, NoTool, Only
  <2>2. \A q \in Operators : on'[q] = t <=> on[q] = t
    BY <1>0, <1>3 DEF Elsewhere
  <2>3. Rests(t) => Rests(t)'
    BY <1>3, <2>1 DEF Rests, Elsewhere
  <2>4. ~Src!Busy(t)' => Rests(t)'
    BY <1>1, <2>2, <2>3 DEF Sound, Src!Busy
  <2>5. ASSUME NEW q \in Operators, on'[q] = t PROVE StepsAt(q)'
    <3>1. q # o /\ on[q] = t
      BY <1>0, <1>3, <2>2, <2>5 DEF Elsewhere
    <3>2. /\ srcPc'[q] = srcPc[q] /\ op'[q] = op[q] /\ srcHand'[q] = srcHand[q]
          /\ status'[t] = status[t] /\ (t \in srcKnown' <=> t \in srcKnown)
      BY <1>3, <3>1 DEF Elsewhere
    <3>3. StepsAt(q)
      BY <1>1, <3>1 DEF Sound
    <3>4. on'[q] = on[q] /\ on[q] = t
      BY <2>5, <3>1
    <3> QED BY <2>1, <2>3, <3>2, <3>3, <3>4 DEF StepsAt
  <2> QED BY <1>1, <2>2, <2>4, <2>5 DEF Sound
<1> QED BY <1>2, <1>3

\* Every action leaves a source at rest as the status says, and at each step as the next
\* one needs it.
LEMMA SourcesKept ==
  ASSUME SrcInv, [Src!Next]_(Src!vars)
  PROVE  SourcesAreSound'
<1>0. /\ Src!TypeOK /\ SourceTypes /\ RunsOfItsSource /\ HandsAreApart /\ SourcesAreSound
      /\ NoOne \notin Sources \cup Processes \cup {"builtin"}
  BY ServicesAssumption DEF SrcInv, FreeInv, NamesInv, Src!NobodyAssumption
<1> USE <1>0 DEF Src!TypeOK, SourceTypes, RunsOfItsSource, HandsAreApart, Connecting, Taking,
      Src!manager, Src!world, Src!operator, Src!past
<1>1. ASSUME NEW s \in Sources, Src!Add(s) PROVE SourcesAreSound'
  BY <1>1 DEF SourcesAreSound, Sound, StepsAt, Rests, Only, NoTool, Src!Clean, Src!Busy, Src!Add
<1>2. ASSUME NEW o \in Operators, NEW what \in {"connect", "disconnect", "remove"},
             NEW s \in Sources, Src!Begin(o, what, s)
      PROVE  SourcesAreSound'
  BY <1>2 DEF SourcesAreSound, Sound, StepsAt, Rests, Only, NoTool, Src!Clean, Src!Busy, Src!Begin,
     Src!Tangles, Src!Go
<1>3. ASSUME NEW c \in Processes, Src!ProcessEnds(c) PROVE SourcesAreSound'
  BY <1>3 DEF SourcesAreSound, Sound, StepsAt, Rests, Only, NoTool, Src!Clean, Src!Busy, Src!ProcessEnds
<1>4. ASSUME NEW k \in ToolCallers, Src!Fetch(k) \/ Src!Run(k) PROVE SourcesAreSound'
  BY <1>4 DEF SourcesAreSound, Sound, StepsAt, Rests, Only, NoTool, Src!Clean, Src!Busy, Src!Fetch,
     Src!Run
<1>5. CASE UNCHANGED Src!vars
  BY <1>5 DEF SourcesAreSound, Sound, StepsAt, Rests, Only, NoTool, Src!Clean, Src!Busy, Src!vars
<1>6. ASSUME NEW o \in Operators, srcPc[o] # "idle" PROVE on[o] \in Sources
  BY <1>6
<1>7. ASSUME NEW o \in Operators, NEW s \in Sources, s = on[o], Src!Look(o)
      PROVE  SourcesAreSound'
  <2>1. Elsewhere(o, s)
    BY <1>7 DEF Elsewhere, Src!Look, Src!Go, Src!Done, Src!FreshNames
  <2>2. s \notin tangled => LeavesSound(o, s)
    <3>1. CASE on[o] \notin srcKnown /\ Src!Done(o)
      BY <3>1, <1>7 DEF LeavesSound, SourcesAreSound, Sound, StepsAt, Rests, Only, NoTool, Src!Clean,
         Src!Look, Src!Go, Src!Done, Src!FreshNames
    <3>2. CASE /\ on[o] \in srcKnown /\ Src!Go(o, IF op[o] = "connect" THEN "mark" ELSE "find")
               /\ UNCHANGED <<op, on, srcHand, found, names, srcKey>>
      BY SMTT(20), <3>2, <1>7 DEF LeavesSound, SourcesAreSound, Sound, StepsAt, Rests, Only, NoTool,
         Src!Clean,
         Src!Look, Src!Go, Src!Done, Src!FreshNames
    <3> QED BY <1>7, <3>1, <3>2 DEF Src!Look
  <2> QED BY <1>7, <2>1, <2>2, OneSourceMoves
<1>8. ASSUME NEW o \in Operators, NEW s \in Sources, s = on[o], Src!Mark(o)
      PROVE  SourcesAreSound'
  <2>1. Elsewhere(o, s)
    BY <1>8 DEF Elsewhere, Src!Mark, Src!Go, Src!Marked
  <2>2. s \notin tangled => LeavesSound(o, s)
    BY <1>8 DEF LeavesSound, SourcesAreSound, Sound, StepsAt, Rests, Only, NoTool, Src!Clean, Src!Mark,
       Src!Go, Src!Marked
  <2> QED BY <1>8, <2>1, <2>2, OneSourceMoves
<1>9. ASSUME NEW o \in Operators, NEW s \in Sources, s = on[o], Src!Spawn(o)
      PROVE  SourcesAreSound'
  <2>1. Elsewhere(o, s)
    BY <1>9 DEF Elsewhere, Src!Spawn, Src!Go
  <2>2. s \notin tangled => LeavesSound(o, s)
    BY <1>9 DEF LeavesSound, SourcesAreSound, Sound, StepsAt, Rests, Only, NoTool, Src!Clean, Src!Spawn,
       Src!Go
  <2> QED BY <1>9, <2>1, <2>2, OneSourceMoves
<1>10. ASSUME NEW o \in Operators, NEW s \in Sources, s = on[o], Src!Fails(o)
      PROVE  SourcesAreSound'
  <2>1. Elsewhere(o, s)
    BY <1>10 DEF Elsewhere, Src!Fails, Src!Go, Src!GivenUp, Src!Closed
  <2>2. s \notin tangled => LeavesSound(o, s)
    BY <1>10 DEF LeavesSound, SourcesAreSound, Sound, StepsAt, Rests, Only, NoTool, Src!Clean, Src!Fails,
       Src!Go, Src!GivenUp, Src!Closed
  <2> QED BY <1>10, <2>1, <2>2, OneSourceMoves
<1>11. ASSUME NEW o \in Operators, NEW s \in Sources, s = on[o], Src!Initialize(o)
      PROVE  SourcesAreSound'
  <2>1. Elsewhere(o, s)
    BY <1>11 DEF Elsewhere, Src!Initialize, Src!Go
  <2>2. s \notin tangled => LeavesSound(o, s)
    BY <1>11 DEF LeavesSound, SourcesAreSound, Sound, StepsAt, Rests, Only, NoTool, Src!Clean,
       Src!Initialize, Src!Go
  <2> QED BY <1>11, <2>1, <2>2, OneSourceMoves
<1>12. ASSUME NEW o \in Operators, NEW s \in Sources, s = on[o], Src!List(o)
      PROVE  SourcesAreSound'
  <2>1. Elsewhere(o, s)
    BY <1>12 DEF Elsewhere, Src!List, Src!Go
  <2>2. s \notin tangled => LeavesSound(o, s)
    BY <1>12 DEF LeavesSound, SourcesAreSound, Sound, StepsAt, Rests, Only, NoTool, Src!Clean, Src!List,
       Src!Go
  <2> QED BY <1>12, <2>1, <2>2, OneSourceMoves
<1>13. ASSUME NEW o \in Operators, NEW s \in Sources, s = on[o], Src!Resolve(o)
      PROVE  SourcesAreSound'
  <2>1. Elsewhere(o, s)
    BY <1>13 DEF Elsewhere, Src!Resolve, Src!Go, Src!NameFor
  <2>2. s \notin tangled => LeavesSound(o, s)
    BY <1>13 DEF LeavesSound, SourcesAreSound, Sound, StepsAt, Rests, Only, NoTool, Src!Clean,
       Src!Resolve, Src!Go, Src!NameFor
  <2> QED BY <1>13, <2>1, <2>2, OneSourceMoves
<1>14. ASSUME NEW o \in Operators, NEW s \in Sources, s = on[o], Src!Put(o)
      PROVE  SourcesAreSound'
  <2>1. Elsewhere(o, s)
    BY <1>14 DEF Elsewhere, Src!Put, Src!Go, Src!Entry
  <2>2. s \notin tangled => LeavesSound(o, s)
    BY <1>14 DEF LeavesSound, SourcesAreSound, Sound, StepsAt, Rests, Only, NoTool, Src!Clean, Src!Put,
       Src!Go, Src!Entry
  <2> QED BY <1>14, <2>1, <2>2, OneSourceMoves
<1>15. ASSUME NEW o \in Operators, NEW s \in Sources, s = on[o], Src!Finish(o)
      PROVE  SourcesAreSound'
  <2>1. Elsewhere(o, s)
    BY <1>15 DEF Elsewhere, Src!Finish, Src!KeptClient, Src!Done, Src!Go, Src!FreshNames
  <2>2. s \notin tangled => LeavesSound(o, s)
    BY <1>15 DEF LeavesSound, SourcesAreSound, Sound, StepsAt, Rests, Only, NoTool, Src!Clean,
       Src!Finish, Src!KeptClient, Src!Done, Src!Go, Src!FreshNames
  <2> QED BY <1>15, <2>1, <2>2, OneSourceMoves
<1>16. ASSUME NEW o \in Operators, NEW s \in Sources, s = on[o], Src!Fail(o)
      PROVE  SourcesAreSound'
  <2>1. Elsewhere(o, s)
    BY <1>16 DEF Elsewhere, Src!Fail, Src!Marked, Src!Done, Src!Go, Src!FreshNames
  <2>2. s \notin tangled => LeavesSound(o, s)
    BY <1>16 DEF LeavesSound, SourcesAreSound, Sound, StepsAt, Rests, Only, NoTool, Src!Clean, Src!Fail,
       Src!Marked, Src!Done, Src!Go, Src!FreshNames
  <2> QED BY <1>16, <2>1, <2>2, OneSourceMoves
<1>17. ASSUME NEW o \in Operators, NEW s \in Sources, s = on[o], Src!Find(o)
      PROVE  SourcesAreSound'
  <2>1. Elsewhere(o, s)
    BY <1>17 DEF Elsewhere, Src!Find, Src!Done, Src!Go, Src!FreshNames
  <2>2. s \notin tangled => LeavesSound(o, s)
    <3>1. CASE /\ on[o] \in srcKnown /\ srcHand' = [srcHand EXCEPT ![o] = client[on[o]]]
               /\ Src!Go(o, "unregister") /\ UNCHANGED <<op, on, found, names, srcKey>>
      BY <3>1, <1>17 DEF LeavesSound, SourcesAreSound, Sound, StepsAt, Rests, Only, NoTool, Src!Clean,
         Src!Find, Src!Done, Src!Go, Src!FreshNames
    <3>2. CASE on[o] \notin srcKnown /\ op[o] = "disconnect" /\ Src!Done(o)
      BY <3>2, <1>17 DEF LeavesSound, SourcesAreSound, Sound, StepsAt, Rests, Only, NoTool, Src!Clean,
         Src!Find, Src!Done, Src!Go, Src!FreshNames
    <3>3. CASE /\ on[o] \notin srcKnown /\ op[o] = "remove" /\ Src!Go(o, "delete")
               /\ UNCHANGED <<op, on, srcHand, found, names, srcKey>>
      BY <3>3, <1>17 DEF LeavesSound, SourcesAreSound, Sound, StepsAt, Rests, Only, NoTool, Src!Clean,
         Src!Find, Src!Done, Src!Go, Src!FreshNames
    <3> QED BY <1>17, <3>1, <3>2, <3>3 DEF Src!Find
  <2> QED BY <1>17, <2>1, <2>2, OneSourceMoves
<1>18. ASSUME NEW o \in Operators, NEW s \in Sources, s = on[o], Src!Unregister(o)
      PROVE  SourcesAreSound'
  <2>1. Elsewhere(o, s)
    BY <1>18 DEF Elsewhere, Src!Unregister, Src!Withdrawn, Src!Go, Src!NoEntry, Src!Entry
  <2>2. s \notin tangled => LeavesSound(o, s)
    BY <1>18 DEF LeavesSound, SourcesAreSound, Sound, StepsAt, Rests, Only, NoTool, Src!Clean,
       Src!Unregister, Src!Withdrawn, Src!Go, Src!NoEntry, Src!Entry
  <2> QED BY <1>18, <2>1, <2>2, OneSourceMoves
<1>19. ASSUME NEW o \in Operators, NEW s \in Sources, s = on[o], Src!Close(o)
      PROVE  SourcesAreSound'
  <2>1. Elsewhere(o, s)
    BY <1>19 DEF Elsewhere, Src!Close, Src!Closed, Src!Go
  <2>2. s \notin tangled => LeavesSound(o, s)
    BY <1>19 DEF LeavesSound, SourcesAreSound, Sound, StepsAt, Rests, Only, NoTool, Src!Clean, Src!Close,
       Src!Closed, Src!Go
  <2> QED BY <1>19, <2>1, <2>2, OneSourceMoves
<1>20. ASSUME NEW o \in Operators, NEW s \in Sources, s = on[o], Src!Clear(o)
      PROVE  SourcesAreSound'
  <2>1. Elsewhere(o, s)
    BY <1>20 DEF Elsewhere, Src!Clear, Src!Done, Src!Go, Src!FreshNames
  <2>2. s \notin tangled => LeavesSound(o, s)
    <3>1. CASE op[o] = "disconnect" /\ Src!Done(o)
      BY <3>1, <1>20 DEF LeavesSound, SourcesAreSound, Sound, StepsAt, Rests, Only, NoTool, Src!Clean,
         Src!Clear, Src!Done, Src!Go, Src!FreshNames
    <3>2. CASE /\ op[o] = "remove" /\ Src!Go(o, "delete")
                 /\ srcHand' = [srcHand EXCEPT ![o] = NoOne]
               /\ UNCHANGED <<op, on, found, names, srcKey>>
      BY <3>2, <1>20 DEF LeavesSound, SourcesAreSound, Sound, StepsAt, Rests, Only, NoTool, Src!Clean,
         Src!Clear, Src!Done, Src!Go, Src!FreshNames
    <3> QED BY <1>20, <3>1, <3>2 DEF Src!Clear
  <2> QED BY <1>20, <2>1, <2>2, OneSourceMoves
<1>21. ASSUME NEW o \in Operators, NEW s \in Sources, s = on[o], Src!Delete(o)
      PROVE  SourcesAreSound'
  <2>1. Elsewhere(o, s)
    BY <1>21 DEF Elsewhere, Src!Delete, Src!Done, Src!Go, Src!FreshNames
  <2>2. s \notin tangled => LeavesSound(o, s)
    BY <1>21 DEF LeavesSound, SourcesAreSound, Sound, StepsAt, Rests, Only, NoTool, Src!Clean,
       Src!Delete, Src!Done, Src!Go, Src!FreshNames
  <2> QED BY <1>21, <2>1, <2>2, OneSourceMoves
<1>22. ASSUME NEW o \in Operators, Src!Look(o) \/ Src!ConnectSteps(o) \/ Src!DisconnectSteps(o)
      PROVE  SourcesAreSound'
  <2>1. srcPc[o] # "idle"
    BY <1>22 DEF Src!ConnectSteps, Src!DisconnectSteps, Src!Look, Src!Mark, Src!Spawn, Src!Fails,
       Src!Initialize, Src!List, Src!Resolve, Src!Put, Src!Finish, Src!Fail, Src!Find,
       Src!Unregister, Src!Close, Src!Clear, Src!Delete
  <2>2. on[o] \in Sources
    BY <1>6, <2>1
  <2> QED BY <1>22, <2>2, <1>7, <1>8, <1>9, <1>10, <1>11, <1>12, <1>13, <1>14, <1>15, <1>16,
    <1>17, <1>18, <1>19, <1>20, <1>21 DEF Src!ConnectSteps, Src!DisconnectSteps
<1> QED BY <1>1, <1>2, <1>3, <1>4, <1>5, <1>22 DEF Src!Next

\* Every action keeps all of it.
LEMMA NextSrcInv ==
  ASSUME SrcInv, [Src!Next]_(Src!vars)
  PROVE  SrcInv'
BY NextFreeInv, SourcesKept DEF SrcInv

\* It holds in every state of the services.
LEMMA SrcInvariant == ServicesSpec => []SrcInv
<1>1. ServicesInit => SrcInv
  BY InitSrcInv DEF ServicesInit, ServicesBegin
<1>2. SrcInv /\ [ServicesNext]_services => SrcInv'
  BY NextSrcInv, ServicesStepOfSrc
<1> QED BY <1>1, <1>2, PTL DEF ServicesSpec

\* However operations overlap, what is registered is open and of its source, and tools of
\* the program stay; a source that is off-line, or could not be connected, has moreover
\* neither a tool nor a process, unless two operations on it overlapped or it was connected
\* while it was connected (sources.go, registry.go).
THEOREM SourcesStayWhole == ServicesSpec => []SourcesAreWhole
<1>1. SrcInv => Src!OfflineIsClean
  BY DEF SrcInv, SourcesAreSound, Sound, Rests, Src!OfflineIsClean, Src!Disconnected
<1> QED BY <1>1, SrcInvariant, SourcesAreNotMixedUp, PTL DEF SourcesAreWhole

-----------------------------------------------------------------------------
(* Calls of a model *)

\* A step of the services is one of the calls, or leaves them alone.
LEMMA ServicesStepOfModel ==
  ASSUME [ServicesNext]_services
  PROVE  [Model!Next]_(Model!vars)
BY DEF ServicesNext, OfLsp, OfSrc, OfPlug, OfModel, services, model, Model!vars, Model!callVars,
   Model!limiter, Model!pool

\* A caller was shown what the present attempt has streamed, and nothing else; an attempt
\* that is followed by another has shown nothing.
ShownByOne ==
  \A c \in Calls :
    /\ shown[c] = IF streamed[c] THEN {attempt[c]} ELSE {}
    /\ modelPc[c] = "backoff" => ~streamed[c] /\ attempt[c] < MaxAttempts

\* A wait the provider asked for is no longer than the hold, until the hold is over.
HintIsHeld ==
  \A c \in Calls :
    /\ modelPc[c] = "observe" /\ err[c].kind = "limited" => modelAsked[c] <= err[c].hint
    /\ modelPc[c] \in {"backoff", "acquire"} /\ err[c].kind = "limited" => modelAsked[c] <= hold
    /\ modelPc[c] = "send" /\ err[c].kind = "limited" => modelAsked[c] = 0

\* A call that is no embedding ends with what was answered, and with a transient answer
\* only after all attempts or some output.
EndsWithAnswer ==
  \A c \in Calls \ Embedders :
    /\ modelPc[c] = "observe" => err[c].kind = modelAnswer[c]
    /\ modelPc[c] = "done" =>
         err[c] = Model!Stopped \/ (err[c].kind = modelAnswer[c] /\ ~Model!MayRetry(c))

\* What modelAnswer can hold: a class of Outcomes, none yet, or ctx.Err().
ErrorKinds == {"none", "stopped", "limited", "daily", "fault", "ok", "denied", "broken"}

\* What err can hold.
Errors == [kind : ErrorKinds, hint : Nat]
USE DEF ErrorKinds, Errors

\* The types of a call.
CallRecords ==
  /\ modelPc \in [Calls -> Model!CallStates] /\ attempt \in [Calls -> 1..MaxAttempts]
  /\ err \in [Calls -> Errors]
  /\ streamed \in [Calls -> BOOLEAN] /\ shown \in [Calls -> SUBSET (1..MaxAttempts)]
  /\ modelAnswer \in [Calls -> ErrorKinds] /\ modelAsked \in [Calls -> Nat]
  /\ hold \in Nat

\* The inductive invariant of the calls.
ModelInv == CallRecords /\ ShownByOne /\ HintIsHeld /\ EndsWithAnswer

\* What a provider answers is among the errors.
LEMMA OutcomesAreErrors ==
  /\ \A r \in Model!Outcomes :
       r \in Errors /\ (r.kind \notin {"limited", "daily", "fault"} => r.hint = 0)
  /\ Model!NoError \in Errors /\ Model!Stopped \in Errors
  /\ MaxAttempts \in Nat \ {0} /\ DefaultHold \in Nat
<1>1. MaxAttempts \in Nat \ {0} /\ DefaultHold \in Nat /\ Hints \subseteq Nat
  BY ServicesAssumption DEF Model!DelaysAssumption
<1>2. \A r \in [kind : {"limited", "daily", "fault"}, hint : Hints] :
        r \in Errors /\ r.kind \in {"limited", "daily", "fault"}
  BY <1>1
<1>3. \A r \in [kind : {"ok", "denied", "broken"}, hint : {0}] :
        r \in Errors /\ r.hint = 0
  OBVIOUS
<1>4. Model!NoError \in Errors /\ Model!Stopped \in Errors
  BY DEF Model!NoError, Model!Stopped
<1> QED BY <1>1, <1>2, <1>3, <1>4 DEF Model!Outcomes

\* It holds at first.
LEMMA InitModelInv == Model!Init => ModelInv
<1> SUFFICES ASSUME Model!Init PROVE ModelInv
  OBVIOUS
<1>1. CallRecords
  <2>1. err \in [Calls -> Errors]
    BY OutcomesAreErrors DEF Model!Init
  <2>2. /\ modelPc \in [Calls -> Model!CallStates] /\ attempt \in [Calls -> 1..MaxAttempts]
        /\ streamed \in [Calls -> BOOLEAN] /\ shown \in [Calls -> SUBSET (1..MaxAttempts)]
        /\ modelAnswer \in [Calls -> ErrorKinds] /\ modelAsked \in [Calls -> Nat] /\ hold \in Nat
    BY OutcomesAreErrors DEF Model!Init, Model!CallStates
  <2> QED BY <2>1, <2>2 DEF CallRecords
<1>2. ShownByOne /\ HintIsHeld /\ EndsWithAnswer
  BY DEF Model!Init, ShownByOne, HintIsHeld, EndsWithAnswer
<1> QED BY <1>1, <1>2 DEF ModelInv

\* Every action keeps the types of a call.
LEMMA CallsKept ==
  ASSUME ModelInv, [Model!Next]_(Model!vars)
  PROVE  CallRecords'
<1> USE OutcomesAreErrors DEF ModelInv, CallRecords, ShownByOne, Model!CallStates,
  Model!callVars, Model!limiter, Model!pool
<1>1. ASSUME Model!Tick PROVE CallRecords'
  BY <1>1 DEF Model!Tick, Model!Elapse
<1>2. ASSUME NEW c \in Calls, Model!Issue(c) PROVE CallRecords'
  BY <1>2 DEF Model!Issue, Model!NoError
<1>3. ASSUME NEW c \in Calls, Model!Acquire(c) PROVE CallRecords'
  BY <1>3 DEF Model!Acquire, Model!Sleeps, Model!Admits
<1>4. ASSUME NEW c \in Calls, Model!Send(c) PROVE CallRecords'
  BY <1>4 DEF Model!Send
<1>5. ASSUME NEW c \in Calls, Model!Stream(c) PROVE CallRecords'
  BY <1>5 DEF Model!Stream
<1>6. ASSUME NEW c \in Calls, Model!Respond(c) PROVE CallRecords'
  BY <1>6 DEF Model!Respond, Model!Reported
<1>7. ASSUME NEW c \in Calls, Model!Observe(c) PROVE CallRecords'
  <2>1. /\ modelPc[c] = "observe" /\ err[c] \in Errors /\ hold \in Nat
        /\ UNCHANGED <<attempt, err, streamed, shown, modelAnswer, modelAsked>>
        /\ \E where \in {"backoff", "done"} : modelPc' = [modelPc EXCEPT ![c] = where]
    BY <1>7 DEF Model!Observe
  <2>2. \/ /\ err[c].kind \in {"limited", "daily"}
           /\ hold' = Model!Most(hold, IF err[c].hint > 0 THEN err[c].hint ELSE DefaultHold)
        \/ err[c].kind \notin {"limited", "daily"} /\ hold' = hold
    BY <1>7 DEF Model!Observe, Model!LearnFrom429
  <2>3. hold' \in Nat /\ hold <= hold' /\ (err[c].kind = "limited" => err[c].hint <= hold')
    BY <2>1, <2>2 DEF Model!Most
  <2> QED BY <2>1, <2>3
<1>8. ASSUME NEW c \in Calls, Model!NextAttempt(c) PROVE CallRecords'
  BY <1>8 DEF Model!NextAttempt
<1>9. ASSUME NEW c \in Calls, Model!Cancel(c) PROVE CallRecords'
  BY <1>9 DEF Model!Cancel, Model!Stopped
<1>10. ASSUME UNCHANGED Model!vars PROVE CallRecords'
  BY <1>10 DEF Model!vars
<1> HIDE DEF ModelInv, CallRecords, ShownByOne, Model!CallStates, Model!callVars, Model!limiter,
  Model!pool
<1> QED BY <1>1, <1>2, <1>3, <1>4, <1>5, <1>6, <1>7, <1>8, <1>9, <1>10 DEF Model!Next, Model!Step

\* Every action keeps what the callers were shown to one attempt.
LEMMA ShownKept ==
  ASSUME ModelInv, [Model!Next]_(Model!vars)
  PROVE  ShownByOne'
<1> USE OutcomesAreErrors DEF ModelInv, CallRecords, ShownByOne, Model!MayRetry, Model!callVars,
  Model!limiter, Model!pool
<1>1. ASSUME Model!Tick PROVE ShownByOne'
  BY <1>1 DEF Model!Tick, Model!Elapse
<1>2. ASSUME NEW c \in Calls, Model!Issue(c) PROVE ShownByOne'
  BY <1>2 DEF Model!Issue, Model!NoError
<1>3. ASSUME NEW c \in Calls, Model!Acquire(c) PROVE ShownByOne'
  BY <1>3 DEF Model!Acquire, Model!Sleeps, Model!Admits
<1>4. ASSUME NEW c \in Calls, Model!Send(c) PROVE ShownByOne'
  BY <1>4 DEF Model!Send
<1>5. ASSUME NEW c \in Calls, Model!Stream(c) PROVE ShownByOne'
  BY <1>5 DEF Model!Stream
<1>6. ASSUME NEW c \in Calls, Model!Respond(c) PROVE ShownByOne'
  BY <1>6 DEF Model!Respond, Model!Reported
<1>7. ASSUME NEW c \in Calls, Model!Observe(c) PROVE ShownByOne'
  BY <1>7 DEF Model!Observe, Model!LearnFrom429, Model!Most
<1>8. ASSUME NEW c \in Calls, Model!NextAttempt(c) PROVE ShownByOne'
  BY <1>8 DEF Model!NextAttempt
<1>9. ASSUME NEW c \in Calls, Model!Cancel(c) PROVE ShownByOne'
  BY <1>9 DEF Model!Cancel, Model!Stopped
<1>10. ASSUME UNCHANGED Model!vars PROVE ShownByOne'
  BY <1>10 DEF Model!vars
<1> HIDE DEF ModelInv, CallRecords, ShownByOne, Model!MayRetry, Model!callVars, Model!limiter,
  Model!pool
<1> QED BY <1>1, <1>2, <1>3, <1>4, <1>5, <1>6, <1>7, <1>8, <1>9, <1>10 DEF Model!Next, Model!Step

\* Every action keeps the hold as long as the longest wait that was asked for.
LEMMA HintKept ==
  ASSUME ModelInv, [Model!Next]_(Model!vars)
  PROVE  HintIsHeld'
<1> USE OutcomesAreErrors DEF ModelInv, CallRecords, HintIsHeld, Model!callVars, Model!limiter,
  Model!pool
<1>1. ASSUME Model!Tick PROVE HintIsHeld'
  BY <1>1 DEF Model!Tick, Model!Elapse
<1>2. ASSUME NEW c \in Calls, Model!Issue(c) PROVE HintIsHeld'
  BY <1>2 DEF Model!Issue, Model!NoError
<1>3. ASSUME NEW c \in Calls, Model!Acquire(c) PROVE HintIsHeld'
  BY <1>3 DEF Model!Acquire, Model!Sleeps, Model!Admits
<1>4. ASSUME NEW c \in Calls, Model!Send(c) PROVE HintIsHeld'
  BY <1>4 DEF Model!Send
<1>5. ASSUME NEW c \in Calls, Model!Stream(c) PROVE HintIsHeld'
  BY <1>5 DEF Model!Stream
<1>6. ASSUME NEW c \in Calls, Model!Respond(c) PROVE HintIsHeld'
  BY <1>6 DEF Model!Respond, Model!Reported
<1>7. ASSUME NEW c \in Calls, Model!Observe(c) PROVE HintIsHeld'
  <2>1. /\ modelPc[c] = "observe" /\ err[c] \in Errors /\ hold \in Nat
        /\ UNCHANGED <<attempt, err, streamed, shown, modelAnswer, modelAsked>>
        /\ \E where \in {"backoff", "done"} : modelPc' = [modelPc EXCEPT ![c] = where]
    BY <1>7 DEF Model!Observe
  <2>2. \/ /\ err[c].kind \in {"limited", "daily"}
           /\ hold' = Model!Most(hold, IF err[c].hint > 0 THEN err[c].hint ELSE DefaultHold)
        \/ err[c].kind \notin {"limited", "daily"} /\ hold' = hold
    BY <1>7 DEF Model!Observe, Model!LearnFrom429
  <2>3. hold' \in Nat /\ hold <= hold' /\ (err[c].kind = "limited" => err[c].hint <= hold')
    BY <2>1, <2>2 DEF Model!Most
  <2> QED BY <2>1, <2>3
<1>8. ASSUME NEW c \in Calls, Model!NextAttempt(c) PROVE HintIsHeld'
  BY <1>8 DEF Model!NextAttempt
<1>9. ASSUME NEW c \in Calls, Model!Cancel(c) PROVE HintIsHeld'
  BY <1>9 DEF Model!Cancel, Model!Stopped
<1>10. ASSUME UNCHANGED Model!vars PROVE HintIsHeld'
  BY <1>10 DEF Model!vars
<1> HIDE DEF ModelInv, CallRecords, HintIsHeld, Model!callVars, Model!limiter, Model!pool
<1> QED BY <1>1, <1>2, <1>3, <1>4, <1>5, <1>6, <1>7, <1>8, <1>9, <1>10 DEF Model!Next, Model!Step

\* Every action keeps what a call comes to.
LEMMA AnswerKept ==
  ASSUME ModelInv, [Model!Next]_(Model!vars)
  PROVE  EndsWithAnswer'
<1> USE OutcomesAreErrors DEF ModelInv, CallRecords, EndsWithAnswer, Model!MayRetry,
  Model!callVars, Model!limiter, Model!pool
<1>1. ASSUME Model!Tick PROVE EndsWithAnswer'
  BY <1>1 DEF Model!Tick, Model!Elapse
<1>2. ASSUME NEW c \in Calls, Model!Issue(c) PROVE EndsWithAnswer'
  BY <1>2 DEF Model!Issue, Model!NoError
<1>3. ASSUME NEW c \in Calls, Model!Acquire(c) PROVE EndsWithAnswer'
  BY <1>3 DEF Model!Acquire, Model!Sleeps, Model!Admits
<1>4. ASSUME NEW c \in Calls, Model!Send(c) PROVE EndsWithAnswer'
  BY <1>4 DEF Model!Send
<1>5. ASSUME NEW c \in Calls, Model!Stream(c) PROVE EndsWithAnswer'
  BY <1>5 DEF Model!Stream
<1>6. ASSUME NEW c \in Calls, Model!Respond(c) PROVE EndsWithAnswer'
  BY <1>6 DEF Model!Respond, Model!Reported
<1>7. ASSUME NEW c \in Calls, Model!Observe(c) PROVE EndsWithAnswer'
  BY ZenonT(30), <1>7 DEF Model!Observe, Model!LearnFrom429, Model!Most
<1>8. ASSUME NEW c \in Calls, Model!NextAttempt(c) PROVE EndsWithAnswer'
  BY <1>8 DEF Model!NextAttempt
<1>9. ASSUME NEW c \in Calls, Model!Cancel(c) PROVE EndsWithAnswer'
  BY <1>9 DEF Model!Cancel, Model!Stopped
<1>10. ASSUME UNCHANGED Model!vars PROVE EndsWithAnswer'
  BY <1>10 DEF Model!vars
<1> HIDE DEF ModelInv, CallRecords, EndsWithAnswer, Model!MayRetry, Model!callVars, Model!limiter,
  Model!pool
<1> QED BY <1>1, <1>2, <1>3, <1>4, <1>5, <1>6, <1>7, <1>8, <1>9, <1>10 DEF Model!Next, Model!Step

\* Every step keeps all of it.
LEMMA NextModelInv ==
  ASSUME ModelInv, [Model!Next]_(Model!vars)
  PROVE  ModelInv'
BY CallsKept, ShownKept, HintKept, AnswerKept DEF ModelInv

\* It holds in every state of the services.
LEMMA ModelInvariant == ServicesSpec => []ModelInv
<1>1. ServicesInit => ModelInv
  BY InitModelInv DEF ServicesInit, ServicesBegin
<1>2. ModelInv /\ [ServicesNext]_services => ModelInv'
  BY NextModelInv, ServicesStepOfModel
<1> QED BY <1>1, <1>2, PTL DEF ServicesSpec

\* Whoever calls: a caller is shown one answer and waits as long as the provider asked, and
\* who does not ask for an embedding gives up on what may pass only after all attempts or
\* some output (retry.go, ratelimit.go).
THEOREM ProvidersAreHeeded == ServicesSpec => []ProviderIsHeeded
<1>1. ModelInv => ProviderIsHeeded
  <2> SUFFICES ASSUME ModelInv PROVE ProviderIsHeeded
    OBVIOUS
  <2>1. Model!ShownOnce
    <3>1. \A c \in Calls : shown[c] = {} \/ shown[c] = {attempt[c]}
      BY DEF ModelInv, ShownByOne
    <3> QED BY <3>1 DEF Model!ShownOnce
  <2>2. Model!ThrottleHintHonoured
    BY DEF ModelInv, HintIsHeld, Model!ThrottleHintHonoured
  <2>3. Model!ChatIsRetried
    <3> SUFFICES ASSUME NEW c \in Calls \ Embedders, modelPc[c] = "done", err[c] # Model!Stopped,
                        modelAnswer[c] \in Model!Transient, shown[c] = {}
                 PROVE  attempt[c] = MaxAttempts
      BY DEF Model!ChatIsRetried, Model!RetriesOf
    <3>1. err[c].kind \in Model!Transient /\ ~Model!MayRetry(c)
      BY DEF ModelInv, EndsWithAnswer
    <3>2. ~streamed[c]
      BY DEF ModelInv, ShownByOne
    <3>3. attempt[c] \in 1..MaxAttempts /\ MaxAttempts \in Nat
      BY OutcomesAreErrors DEF ModelInv, CallRecords
    <3> QED BY <3>1, <3>2, <3>3 DEF Model!MayRetry
  <2> QED BY <2>1, <2>2, <2>3 DEF ProviderIsHeeded
<1> QED BY <1>1, ModelInvariant, PTL

\* The limits are numbers, and of keys there is one at least.
LEMMA PaceNumbers ==
  /\ RPM \in Nat /\ Minute \in Nat \ {0} /\ KeyCount \in Nat \ {0} /\ Cooldown \in Nat \ {0}
  /\ BaseDelay \in Nat /\ MaxDelay \in Nat /\ MaxIssues \in Nat \ {0} /\ Hints \subseteq Nat
  /\ Model!KeySet = 0..(KeyCount - 1)
BY ServicesAssumption DEF Model!DelaysAssumption, Model!PaceAssumption, Model!PoolAssumption,
   Model!CallersAssumption, Model!KeySet

\* What a count loses in age it gains in credit.
LEMMA CreditPassesOn ==
  ASSUME NEW x \in Nat, NEW y \in Nat, NEW z \in Nat, NEW r \in Nat,
         NEW c \in Int, NEW d \in Int, x + c <= z + (y - r), d <= c + r
  PROVE  x + d <= z + y
OBVIOUS

\* More of something comes to more.
LEMMA TimesGrows ==
  ASSUME NEW n \in Nat, NEW a \in Nat, NEW b \in Nat, a <= b
  PROVE  n * a <= n * b /\ n * a \in Nat
OBVIOUS

\* Products of numbers.
LEMMA ProductsAreNumbers == \A m, n \in Nat : m * n \in Nat
OBVIOUS

\* Whole waits.
LEMMA WaitsAreWhole ==
  ASSUME NEW n \in Nat, NEW r \in Nat \ {0}
  PROVE  n \div r \in Nat
OBVIOUS

\* The types of the limiter.
LimiterTypes ==
  /\ hold \in Nat /\ learned \in Nat /\ since429 \in 0..(2 * Minute + 1)
  /\ tokens \in Nat \cup {Model!NoBucket} /\ idle \in 0..Minute
  /\ recent \in [0..Minute -> Nat]

\* What the bucket would hold if it were asked now, at the configured rate.
Credit ==
  IF tokens = Model!NoBucket THEN RPM * Minute
  ELSE Model!Least(tokens + idle * RPM, RPM * Minute)

\* What went out in a stretch of time and what the bucket holds after it come to no more
\* than a full bucket and what refills in the stretch.
PaceHeld ==
  RPM > 0 =>
    /\ tokens <= RPM * Minute
    /\ \A a \in 0..(Minute - 1) : recent[a] * Minute + Credit <= RPM * Minute + a * RPM

\* The rate in force is not above the configured one, and what a bucket is refilled to is
\* within the credit.
LEMMA RefillIsWithinCredit ==
  ASSUME LimiterTypes
  PROVE  /\ Model!EffectiveRPM \in Nat /\ Model!Refilled(Model!EffectiveRPM) \in Nat
         /\ RPM > 0 => Model!EffectiveRPM \in 1..RPM
         /\ RPM > 0 /\ PaceHeld => Model!Refilled(Model!EffectiveRPM) <= Credit
<1> DEFINE rate == Model!EffectiveRPM
<1>1. rate \in Nat /\ (RPM > 0 => rate \in 1..RPM)
  BY PaceNumbers DEF LimiterTypes, Model!EffectiveRPM
<1>2. /\ rate * Minute \in Nat /\ idle * rate \in Nat /\ RPM * Minute \in Nat
      /\ RPM > 0 => rate * Minute <= RPM * Minute /\ idle * rate <= idle * RPM
  <2>1. idle \in Nat
    BY PaceNumbers DEF LimiterTypes
  <2>2. /\ Minute * rate \in Nat /\ idle * rate \in Nat /\ Minute * RPM \in Nat
        /\ RPM > 0 => Minute * rate <= Minute * RPM /\ idle * rate <= idle * RPM
    BY <1>1, <2>1, PaceNumbers, TimesGrows
  <2> QED BY <1>1, <2>2, PaceNumbers
<1> HIDE DEF rate
<1>3. Model!Refilled(rate) \in Nat
  BY <1>1, <1>2 DEF LimiterTypes, Model!Refilled, Model!Least
<1>4. ASSUME RPM > 0, PaceHeld PROVE Model!Refilled(rate) <= Credit
  <2>1. CASE tokens = Model!NoBucket
    BY <1>2, <1>4, <2>1 DEF Model!Refilled, Credit
  <2>2. CASE tokens # Model!NoBucket /\ idle > 0
    BY <1>2, <1>4, <2>2, PaceNumbers, TimesGrows DEF LimiterTypes, Model!Refilled, Model!Least, Credit
  <2>3. CASE tokens # Model!NoBucket /\ ~(idle > 0)
    <3>1. idle = 0 /\ tokens <= RPM * Minute
      BY <1>4, <2>3, PaceNumbers DEF LimiterTypes, PaceHeld
    <3> QED BY <1>2, <2>3, <3>1, PaceNumbers DEF LimiterTypes, Model!Refilled, Model!Least, Credit
  <2> QED BY <2>1, <2>2, <2>3
<1> QED BY <1>1, <1>3, <1>4 DEF rate

\* A round of the limiter: its wait is a number, and what it lets through it pays for.
LEMMA AcquireKeepsPace ==
  ASSUME LimiterTypes, PaceHeld, wait \in [Calls -> Nat], NEW c \in Calls, Model!Acquire(c)
  PROVE  LimiterTypes' /\ PaceHeld' /\ wait' \in [Calls -> Nat]
<1> DEFINE rate == Model!EffectiveRPM
           have == Model!Refilled(rate)
<1>1. /\ rate \in Nat /\ have \in Nat
      /\ RPM > 0 => rate \in 1..RPM /\ have <= Credit
  BY RefillIsWithinCredit
<1>2. UNCHANGED <<hold, learned, since429>> /\ hold \in Nat
  BY DEF Model!Acquire, LimiterTypes
<1>3. \/ UNCHANGED <<tokens, idle, recent>> /\ wait' = [wait EXCEPT ![c] = hold]
      \/ /\ rate = 0 /\ recent' = Model!Dispatched
         /\ UNCHANGED <<tokens, idle, wait>>
      \/ /\ rate > 0 /\ have >= Minute /\ recent' = Model!Dispatched
         /\ tokens' = have - Minute /\ idle' = 0 /\ UNCHANGED wait
      \/ /\ rate > 0 /\ have < Minute /\ UNCHANGED recent
         /\ tokens' = have /\ idle' = 0
         /\ wait' = [wait EXCEPT ![c] = (Minute - have + rate - 1) \div rate]
  BY DEF Model!Acquire, Model!Sleeps, Model!Admits
<1> HIDE DEF rate, have
<1>4. Model!Dispatched \in [0..Minute -> Nat]
  BY PaceNumbers DEF Model!Dispatched, LimiterTypes
<1>5. \A a \in 0..(Minute - 1) : Model!Dispatched[a] = recent[a] + 1
  BY PaceNumbers DEF Model!Dispatched, LimiterTypes
<1>6. /\ RPM * Minute \in Nat /\ \A a \in 0..(Minute - 1) : recent[a] \in Nat
      /\ \A n \in Nat : (n + 1) * Minute = n * Minute + Minute /\ n * Minute \in Nat
      /\ \A a \in 0..(Minute - 1) : a * RPM \in Nat
  BY PaceNumbers DEF LimiterTypes
<1>7. ASSUME RPM > 0, tokens' \in Nat, idle' = 0, tokens' <= Credit
      PROVE  Credit' = tokens' /\ tokens' <= RPM * Minute
  <2>1. Credit <= RPM * Minute
    BY <1>6, PaceNumbers DEF Credit, Model!Least, LimiterTypes
  <2>2. idle' * RPM = 0
    BY <1>7, PaceNumbers
  <2>3. Credit \in Int
    BY <1>6, PaceNumbers DEF Credit, Model!Least, LimiterTypes
  <2>4. tokens' <= RPM * Minute
    BY <1>6, <1>7, <2>1, <2>3
  <2>5. tokens' # Model!NoBucket
    BY <1>7 DEF Model!NoBucket
  <2> QED BY <1>6, <1>7, <2>2, <2>4, <2>5 DEF Credit, Model!Least
<1>8. Credit \in Int
  BY <1>6, PaceNumbers DEF Credit, Model!Least, LimiterTypes
<1>9. CASE UNCHANGED <<tokens, idle, recent>> /\ wait' = [wait EXCEPT ![c] = hold]
  BY <1>2, <1>9 DEF LimiterTypes, PaceHeld, Credit
<1>10. CASE rate = 0 /\ recent' = Model!Dispatched /\ UNCHANGED <<tokens, idle, wait>>
  BY <1>1, <1>2, <1>4, <1>10, PaceNumbers DEF LimiterTypes, PaceHeld
<1>11. CASE /\ rate > 0 /\ have >= Minute /\ recent' = Model!Dispatched
            /\ tokens' = have - Minute /\ idle' = 0 /\ UNCHANGED wait
  <2>1. tokens' \in Nat
    BY <1>1, <1>11, PaceNumbers
  <2>2. LimiterTypes'
    BY <1>2, <1>4, <1>11, <2>1, PaceNumbers DEF LimiterTypes
  <2>3. ASSUME RPM > 0 PROVE tokens' = have - Minute /\ tokens' <= Credit /\ have <= Credit
    BY <1>1, <1>8, <1>11, <2>1, <2>3, PaceNumbers
  <2>4. ASSUME RPM > 0, NEW a \in 0..(Minute - 1)
        PROVE  recent'[a] * Minute + Credit' <= RPM * Minute + a * RPM
    <3>1. recent[a] * Minute + Credit <= RPM * Minute + a * RPM
      BY <2>4 DEF PaceHeld
    <3>2. recent'[a] * Minute = recent[a] * Minute + Minute
      BY <1>5, <1>6, <1>11, <2>4
    <3>3. Credit' = have - Minute
      BY <1>7, <1>11, <2>1, <2>3, <2>4
    <3>4. recent[a] * Minute \in Nat /\ a * RPM \in Nat /\ RPM * Minute \in Nat
      BY <1>6, <2>4
    <3> QED BY <1>1, <1>8, <2>4, <3>1, <3>2, <3>3, <3>4, PaceNumbers
  <2>5. PaceHeld'
    BY <1>7, <1>11, <2>1, <2>3, <2>4 DEF PaceHeld
  <2> QED BY <1>11, <2>2, <2>5
<1>12. CASE /\ rate > 0 /\ have < Minute /\ UNCHANGED recent
            /\ tokens' = have /\ idle' = 0
            /\ wait' = [wait EXCEPT ![c] = (Minute - have + rate - 1) \div rate]
  <2>1. (Minute - have + rate - 1) \div rate \in Nat
    BY <1>1, <1>12, PaceNumbers, WaitsAreWhole
  <2>2. LimiterTypes' /\ wait' \in [Calls -> Nat]
    BY <1>1, <1>2, <1>12, <2>1, PaceNumbers DEF LimiterTypes
  <2>3. ASSUME RPM > 0, NEW a \in 0..(Minute - 1)
        PROVE  recent'[a] * Minute + Credit' <= RPM * Minute + a * RPM
    <3>1. recent[a] * Minute + Credit <= RPM * Minute + a * RPM
      BY <2>3 DEF PaceHeld
    <3>2. Credit' = have /\ have <= Credit
      BY <1>1, <1>7, <1>12, <2>3
    <3>3. recent[a] * Minute \in Nat /\ a * RPM \in Nat /\ RPM * Minute \in Nat
      BY <1>6, <2>3
    <3> QED BY <1>1, <1>8, <1>12, <3>1, <3>2, <3>3
  <2>4. PaceHeld'
    BY <1>1, <1>7, <1>12, <2>3 DEF PaceHeld
  <2> QED BY <2>2, <2>4
<1> QED BY <1>3, <1>9, <1>10, <1>11, <1>12

\* Time: no stretch gains a request, and a bucket gains at most what a tick refills.
LEMMA TickKeepsPace ==
  ASSUME LimiterTypes, PaceHeld, wait \in [Calls -> Nat], Model!Tick
  PROVE  LimiterTypes' /\ PaceHeld' /\ wait' \in [Calls -> Nat]
<1>a. wait' = [c \in Calls |-> Model!Elapse(wait[c])] /\ hold' = Model!Elapse(hold)
  BY DEF Model!Tick
<1>b. /\ since429' = Model!Least(since429 + 1, 2 * Minute + 1)
      /\ idle' = IF tokens = Model!NoBucket THEN 0 ELSE Model!Least(idle + 1, Minute)
      /\ UNCHANGED <<learned, tokens>>
  BY DEF Model!Tick
<1>c. recent' = [a \in 0..Minute |-> CASE a = 0 -> 0
                                       [] a = Minute -> recent[Minute]
                                       [] OTHER -> recent[a - 1]]
  BY DEF Model!Tick
<1>n. Minute \in Nat \ {0} /\ RPM \in Nat
  BY PaceNumbers
<1>1. wait' \in [Calls -> Nat] /\ hold' \in Nat
  <2>1. \A n \in Nat : Model!Elapse(n) \in Nat
    BY DEF Model!Elapse
  <2>2. hold \in Nat
    BY DEF LimiterTypes
  <2> QED BY <1>a, <2>1, <2>2
<1>2. idle' \in 0..Minute /\ since429' \in 0..(2 * Minute + 1) /\ learned' = learned /\ tokens' = tokens
  <2>1. idle \in 0..Minute /\ since429 \in 0..(2 * Minute + 1)
    BY DEF LimiterTypes
  <2> QED BY <1>b, <1>n, <2>1 DEF Model!Least
<1>3. /\ recent' \in [0..Minute -> Nat] /\ recent'[0] = 0
      /\ \A a \in 1..(Minute - 1) : recent'[a] = recent[a - 1]
  <2>1. \A a \in 0..Minute : recent[a] \in Nat /\ (a # 0 => a - 1 \in 0..Minute)
    BY <1>n DEF LimiterTypes
  <2>2. \A a \in 0..Minute :
          recent'[a] = IF a = 0 THEN 0 ELSE IF a = Minute THEN recent[Minute] ELSE recent[a - 1]
    BY <1>c, <1>n
  <2>3. \A a \in 0..Minute : recent'[a] \in Nat
    BY <1>n, <2>1, <2>2
  <2>4. recent' \in [0..Minute -> Nat]
    BY <1>c, <2>3
  <2> QED BY <1>n, <2>2, <2>4
<1>4. LimiterTypes'
  BY <1>1, <1>2, <1>3 DEF LimiterTypes
<1>5. /\ RPM * Minute \in Nat /\ idle \in Nat /\ idle' \in Nat
      /\ idle * RPM \in Nat /\ idle' * RPM \in Nat
      /\ tokens # Model!NoBucket => idle' * RPM <= idle * RPM + RPM
  <2>1. idle \in 0..Minute /\ idle' \in 0..Minute /\ (tokens # Model!NoBucket => idle' <= idle + 1)
    <3>1. idle \in 0..Minute
      BY DEF LimiterTypes
    <3> QED BY <1>b, <1>2, <1>n, <3>1 DEF Model!Least
  <2>2. idle \in Nat /\ idle' \in Nat /\ idle + 1 \in Nat
    BY <1>n, <2>1
  <2>3. RPM * idle \in Nat /\ RPM * idle' \in Nat /\ RPM * Minute \in Nat
    <3>1. Minute \in Nat
      BY <1>n
    <3> QED BY <1>n, <2>2, <3>1, ProductsAreNumbers
  <2>4. ASSUME tokens # Model!NoBucket PROVE RPM * idle' <= RPM * (idle + 1)
    <3>1. idle' <= idle + 1
      BY <2>1, <2>4
    <3> QED BY <1>n, <2>2, <3>1, TimesGrows
  <2>5. RPM * (idle + 1) = idle * RPM + RPM /\ RPM * idle = idle * RPM /\ RPM * idle' = idle' * RPM
    BY <1>n, <2>2
  <2> QED BY <2>2, <2>3, <2>4, <2>5
<1>6. Credit \in Int /\ Credit' \in Int /\ Credit' <= Credit + RPM /\ Credit' <= RPM * Minute
  <2>1. tokens \in Nat \cup {Model!NoBucket} /\ tokens' = tokens
    BY <1>2 DEF LimiterTypes
  <2>2. CASE tokens = Model!NoBucket
    <3>1. Credit = RPM * Minute /\ Credit' = RPM * Minute
      BY <2>1, <2>2 DEF Credit
    <3> QED BY <1>5, <1>n, <3>1
  <2>3. CASE tokens # Model!NoBucket
    <3>1. /\ Credit = Model!Least(tokens + idle * RPM, RPM * Minute)
          /\ Credit' = Model!Least(tokens + idle' * RPM, RPM * Minute)
      BY <2>1, <2>3 DEF Credit
    <3>2. tokens \in Nat /\ idle' * RPM <= idle * RPM + RPM
      BY <1>5, <2>1, <2>3
    <3> DEFINE b == idle * RPM
               e == idle' * RPM
               f == RPM * Minute
    <3>3. b \in Nat /\ e \in Nat /\ f \in Nat /\ e <= b + RPM
      BY <1>5, <3>2
    <3>4. Credit = Model!Least(tokens + b, f) /\ Credit' = Model!Least(tokens + e, f)
      BY <3>1
    <3> HIDE DEF b, e, f
    <3>5. Credit \in Int /\ Credit' \in Int /\ Credit' <= Credit + RPM /\ Credit' <= f
      BY <1>n, <3>2, <3>3, <3>4 DEF Model!Least
    <3> QED BY <3>5 DEF f
  <2> QED BY <2>2, <2>3
<1> USE PaceNumbers
<1>7. ASSUME RPM > 0, PaceHeld, NEW a \in 0..(Minute - 1)
      PROVE  recent'[a] * Minute + Credit' <= RPM * Minute + a * RPM
  <2>1. CASE a = 0
    BY <1>3, <1>5, <1>6, <2>1
  <2>2. CASE a # 0
    <3>1. a - 1 \in 0..(Minute - 1) /\ recent'[a] = recent[a - 1]
      BY <1>3, <2>2
    <3>2. recent[a - 1] * Minute + Credit <= RPM * Minute + (a - 1) * RPM
      BY <1>7, <3>1 DEF PaceHeld
    <3>3. (a - 1) * RPM = a * RPM - RPM
      BY <1>7
    <3>4. recent[a - 1] * Minute \in Nat /\ a * RPM \in Nat
      BY <3>1 DEF LimiterTypes
    <3> DEFINE x == recent[a - 1] * Minute
               y == a * RPM
               z == RPM * Minute
    <3>5. /\ x \in Nat /\ y \in Nat /\ z \in Nat /\ recent'[a] * Minute = x
          /\ x + Credit <= z + (y - RPM) /\ Credit \in Int /\ Credit' \in Int
          /\ Credit' <= Credit + RPM
      BY <1>5, <1>6, <3>1, <3>2, <3>3, <3>4
    <3> HIDE DEF x, y, z
    <3>6. x + Credit' <= z + y
      BY <3>5, PaceNumbers, CreditPassesOn
    <3> QED BY <3>5, <3>6 DEF x, y, z
  <2> QED BY <2>1, <2>2
<1>8. PaceHeld'
  BY <1>2, <1>7 DEF PaceHeld
<1> QED BY <1>1, <1>4, <1>8

\* What the pool and the calls hold beside CallRecords.
PoolTypes ==
  /\ modelKey \in [Calls -> Model!KeySet] /\ issued \in [Calls -> 0..MaxIssues]
  /\ err \in [Calls -> Model!Outcomes \cup {Model!NoError, Model!Stopped}]
  /\ parked \in [Model!KeySet -> Nat] /\ next \in Model!KeySet
  /\ modelAnswer \in [Calls -> {"none"} \cup {r.kind : r \in Model!Outcomes}]
  /\ drawn \in [key : Model!KeySet, free : BOOLEAN]

\* The inductive invariant of the limiter and the pool.
PaceInv == LimiterTypes /\ PaceHeld /\ wait \in [Calls -> Nat] /\ PoolTypes

\* It holds at first.
LEMMA InitPaceInv == Model!Init => PaceInv
<1> SUFFICES ASSUME Model!Init PROVE PaceInv
  OBVIOUS
<1>1. LimiterTypes /\ wait \in [Calls -> Nat]
  BY PaceNumbers DEF Model!Init, LimiterTypes
<1>2. PaceHeld
  <2>1. \A a \in 0..(Minute - 1) : recent[a] = 0 /\ a * RPM \in Nat
    BY PaceNumbers DEF Model!Init
  <2>2. Credit = RPM * Minute /\ RPM * Minute \in Nat /\ tokens = -1
    BY PaceNumbers DEF Model!Init, Credit, Model!NoBucket
  <2> QED BY <2>1, <2>2, PaceNumbers DEF PaceHeld
<1>3. PoolTypes
  BY PaceNumbers DEF Model!Init, PoolTypes
<1> QED BY <1>1, <1>2, <1>3 DEF PaceInv

\* What becomes of a failed embedding is an outcome too.
LEMMA ReportedIsAnOutcome ==
  ASSUME NEW c \in Calls, NEW r \in Model!Outcomes
  PROVE  Model!Reported(c, r) \in Model!Outcomes
BY DEF Model!Reported, Model!Outcomes

\* Observing an answer changes the rate and the hold to numbers, and no count.
LEMMA ObserveKeepsPace ==
  ASSUME ModelInv, PaceInv, NEW c \in Calls, Model!Observe(c)
  PROVE  PaceInv'
<1> USE PaceNumbers
<1>1. UNCHANGED <<tokens, idle, recent, modelKey, issued, err, parked, next, modelAnswer, drawn>>
  BY DEF Model!Observe, Model!pool
<1>2. err[c] \in Errors /\ attempt[c] \in 1..MaxAttempts /\ MaxAttempts \in Nat /\ DefaultHold \in Nat
  BY OutcomesAreErrors DEF ModelInv, CallRecords
<1>3. learned' \in Nat /\ hold' \in Nat /\ since429' \in 0..(2 * Minute + 1)
  <2>1. CASE err[c].kind \in {"limited", "daily"}
    <3>1. Model!LearnFrom429(err[c].hint)
      BY <2>1 DEF Model!Observe
    <3>2. recent[Minute] \in Nat /\ learned \in Nat /\ hold \in Nat
      BY DEF PaceInv, LimiterTypes
    <3>3. Model!Most(recent[Minute], 2) \div 2 \in Nat
      BY <3>2 DEF Model!Most
    <3> QED BY <1>2, <3>1, <3>2, <3>3 DEF Model!LearnFrom429, Model!Most, Model!Least
  <2>2. CASE err[c].kind = "ok"
    <3>1. Model!Restore /\ UNCHANGED <<hold, since429>>
      BY <2>2 DEF Model!Observe
    <3>2. learned \in Nat /\ learned \div 10 \in Nat
      BY DEF PaceInv, LimiterTypes
    <3> QED BY <3>1, <3>2 DEF Model!Restore, Model!Most, PaceInv, LimiterTypes
  <2>3. CASE err[c].kind \notin {"limited", "daily", "ok"}
    <3>1. UNCHANGED <<hold, learned, since429>>
      BY <2>3 DEF Model!Observe
    <3> QED BY <3>1 DEF PaceInv, LimiterTypes
  <2> QED BY <2>1, <2>2, <2>3
<1>4. wait' \in [Calls -> Nat]
  <2>1. ASSUME NEW d \in Model!Backoffs(c) PROVE d \in Nat
    <3> DEFINE grown == Model!Least(BaseDelay * 2 ^ (attempt[c] - 1), MaxDelay)
               most == Model!Most(grown, err[c].hint)
    <3>1. attempt[c] - 1 \in Nat
      BY <1>2
    <3>2. BaseDelay * 2 ^ (attempt[c] - 1) \in Int
      BY <3>1
    <3>3. grown \in Int
      BY <3>2 DEF Model!Least
    <3> HIDE DEF grown
    <3>4. most \in Nat
      BY <1>2, <3>3 DEF Model!Most
    <3>5. d \in ((3 * most) \div 4)..((5 * most + 3) \div 4)
      BY DEF Model!Backoffs, grown
    <3> HIDE DEF most
    <3> QED BY <3>4, <3>5
  <2>2. \/ \E d \in Model!Backoffs(c) : wait' = [wait EXCEPT ![c] = d]
        \/ UNCHANGED wait
    BY DEF Model!Observe
  <2> QED BY <2>1, <2>2 DEF PaceInv
<1>5. LimiterTypes'
  BY <1>1, <1>3 DEF PaceInv, LimiterTypes
<1>6. PaceHeld' /\ PoolTypes'
  BY <1>1 DEF PaceInv, PaceHeld, Credit, PoolTypes
<1> QED BY <1>4, <1>5, <1>6 DEF PaceInv

\* Every action keeps it.
LEMMA NextPaceInv ==
  ASSUME ModelInv, PaceInv, [Model!Next]_(Model!vars)
  PROVE  PaceInv'
<1> DEFINE SameLimiter == UNCHANGED <<hold, learned, since429, tokens, idle, recent>>
<1>1. ASSUME SameLimiter PROVE LimiterTypes' /\ PaceHeld'
  BY <1>1 DEF PaceInv, LimiterTypes, PaceHeld, Credit
<1>2. ASSUME Model!Tick PROVE PaceInv'
  <2>1. PoolTypes'
    BY <1>2 DEF Model!Tick, Model!Elapse, PaceInv, PoolTypes
  <2> QED BY <1>2, <2>1, TickKeepsPace DEF PaceInv
<1>3. ASSUME NEW c \in Calls, Model!Issue(c) PROVE PaceInv'
  <2>1. SameLimiter /\ UNCHANGED wait
    BY <1>3 DEF Model!Issue, Model!limiter
  <2>2. PoolTypes'
    BY <1>3, PaceNumbers DEF Model!Issue, Model!pool, PaceInv, PoolTypes
  <2> QED BY <1>1, <2>1, <2>2 DEF PaceInv
<1>4. ASSUME NEW c \in Calls, Model!Acquire(c) PROVE PaceInv'
  <2>1. PoolTypes'
    BY <1>4 DEF Model!Acquire, Model!pool, PaceInv, PoolTypes
  <2> QED BY <1>4, <2>1, AcquireKeepsPace DEF PaceInv
<1>5. ASSUME NEW c \in Calls, Model!Send(c) PROVE PaceInv'
  <2>1. SameLimiter /\ UNCHANGED wait
    BY <1>5 DEF Model!Send, Model!limiter
  <2>2. UNCHANGED <<issued, err, parked, modelAnswer>>
    BY <1>5 DEF Model!Send
  <2>3. CASE c \in Embedders
    <3>1. modelKey' = [modelKey EXCEPT ![c] = 0] /\ UNCHANGED <<next, drawn>>
      BY <1>5, <2>3 DEF Model!Send
    <3>2. PoolTypes'
      BY <2>2, <3>1, PaceNumbers DEF PaceInv, PoolTypes
    <3> QED BY <1>1, <2>1, <3>2 DEF PaceInv
  <2>4. CASE c \notin Embedders
    <3>1. PICK k \in Model!KeySet :
            /\ Model!Draw(k) /\ modelKey' = [modelKey EXCEPT ![c] = k]
            /\ drawn' = [key |-> k, free |-> Model!Free(k)]
      BY <1>5, <2>4 DEF Model!Send
    <3>2. next' \in Model!KeySet
      <4>1. next \in 0..(KeyCount - 1)
        BY PaceNumbers DEF PaceInv, PoolTypes
      <4>2. CASE UNCHANGED next
        BY <4>1, <4>2, PaceNumbers
      <4>3. ASSUME NEW i \in Model!KeySet, next' = (next + i + 1) % KeyCount
            PROVE  next' \in Model!KeySet
        BY <4>1, <4>3, PaceNumbers
      <4> QED BY <3>1, <4>2, <4>3 DEF Model!Draw
    <3>3. drawn' \in [key : Model!KeySet, free : BOOLEAN]
      BY <3>1 DEF Model!Free
    <3>4. PoolTypes'
      BY <2>2, <3>1, <3>2, <3>3 DEF PaceInv, PoolTypes
    <3> QED BY <1>1, <2>1, <3>4 DEF PaceInv
  <2> QED BY <2>3, <2>4
<1>6. ASSUME NEW c \in Calls, Model!Stream(c) PROVE PaceInv'
  <2>1. SameLimiter /\ UNCHANGED wait
    BY <1>6 DEF Model!Stream, Model!limiter
  <2>2. PoolTypes'
    BY <1>6 DEF Model!Stream, Model!pool, PaceInv, PoolTypes
  <2> QED BY <1>1, <2>1, <2>2 DEF PaceInv
<1>7. ASSUME NEW c \in Calls, Model!Respond(c) PROVE PaceInv'
  <2>1. SameLimiter /\ UNCHANGED <<wait, modelKey, issued, next, drawn>>
    BY <1>7 DEF Model!Respond, Model!limiter
  <2>2. PICK r \in Model!Outcomes :
          /\ err' = [err EXCEPT ![c] = Model!Reported(c, r)]
          /\ modelAnswer' = [modelAnswer EXCEPT ![c] = r.kind]
          /\ Model!Penalize(c, r)
    BY <1>7 DEF Model!Respond
  <2>3. err' \in [Calls -> Model!Outcomes \cup {Model!NoError, Model!Stopped}]
    BY <2>2, ReportedIsAnOutcome DEF PaceInv, PoolTypes
  <2>4. parked' \in [Model!KeySet -> Nat]
    <3>1. r.hint \in Nat /\ Cooldown \in Nat
      BY OutcomesAreErrors, PaceNumbers
    <3> QED BY <2>2, <3>1 DEF Model!Penalize, PaceInv, PoolTypes
  <2>5. modelAnswer' \in [Calls -> {"none"} \cup {q.kind : q \in Model!Outcomes}]
    <3>1. r.kind \in {q.kind : q \in Model!Outcomes}
      OBVIOUS
    <3> QED BY <2>2, <3>1 DEF PaceInv, PoolTypes
  <2>6. PoolTypes'
    BY <2>1, <2>3, <2>4, <2>5 DEF PaceInv, PoolTypes
  <2> QED BY <1>1, <2>1, <2>6 DEF PaceInv
<1>8. ASSUME NEW c \in Calls, Model!Observe(c) PROVE PaceInv'
  BY <1>8, ObserveKeepsPace
<1>9. ASSUME NEW c \in Calls, Model!NextAttempt(c) PROVE PaceInv'
  <2>1. SameLimiter /\ UNCHANGED wait
    BY <1>9 DEF Model!NextAttempt, Model!limiter
  <2>2. PoolTypes'
    BY <1>9 DEF Model!NextAttempt, Model!pool, PaceInv, PoolTypes
  <2> QED BY <1>1, <2>1, <2>2 DEF PaceInv
<1>10. ASSUME NEW c \in Calls, Model!Cancel(c) PROVE PaceInv'
  <2>1. SameLimiter /\ wait' \in [Calls -> Nat]
    BY <1>10 DEF Model!Cancel, Model!limiter, PaceInv
  <2>2. PoolTypes'
    BY <1>10 DEF Model!Cancel, Model!pool, PaceInv, PoolTypes
  <2> QED BY <1>1, <2>1, <2>2 DEF PaceInv
<1>11. ASSUME UNCHANGED Model!vars PROVE PaceInv'
  <2>1. SameLimiter /\ UNCHANGED wait /\ PoolTypes'
    BY <1>11 DEF Model!vars, Model!callVars, Model!limiter, Model!pool, PaceInv, PoolTypes
  <2> QED BY <1>1, <2>1 DEF PaceInv
<1> QED
  BY <1>2, <1>3, <1>4, <1>5, <1>6, <1>7, <1>8, <1>9, <1>10, <1>11 DEF Model!Next, Model!Step

\* It holds in every state of the services.
LEMMA PaceInvariant == ServicesSpec => [](ModelInv /\ PaceInv)
<1>1. ServicesInit => ModelInv /\ PaceInv
  BY InitModelInv, InitPaceInv DEF ServicesInit, ServicesBegin
<1>2. ModelInv /\ PaceInv /\ [ServicesNext]_services => ModelInv' /\ PaceInv'
  BY NextModelInv, NextPaceInv, ServicesStepOfModel
<1> QED BY <1>1, <1>2, PTL DEF ServicesSpec

\* In no stretch of time up to a minute do more requests go out than a full bucket and what
\* refills in that stretch, however many calls share the limiter, whatever it learns from
\* answers with 429 and however it restores the rate (ratelimit.go:166-180, 265-290).
THEOREM PaceIsAlwaysKept == ServicesSpec => []PaceIsKept
<1>1. ModelInv /\ PaceInv => PaceIsKept
  <2> SUFFICES ASSUME ModelInv, PaceInv PROVE Model!TypeOK /\ Model!PaceIsKept
    BY DEF PaceIsKept
  <2>1. Model!TypeOK
    BY DEF ModelInv, PaceInv, CallRecords, LimiterTypes, PoolTypes, Model!TypeOK
  <2>2. ASSUME RPM > 0, NEW a \in 0..(Minute - 1)
        PROVE  recent[a] * Minute <= RPM * Minute + a * RPM
    <3>1. recent[a] * Minute + Credit <= RPM * Minute + a * RPM
      BY <2>2 DEF PaceInv, PaceHeld
    <3>2. recent[a] * Minute \in Nat /\ a * RPM \in Nat /\ RPM * Minute \in Nat
      BY <2>2, PaceNumbers DEF PaceInv, LimiterTypes
    <3>3. Credit \in Nat
      <4>1. idle * RPM \in Nat
        BY PaceNumbers, TimesGrows DEF PaceInv, LimiterTypes
      <4> QED BY <3>2, <4>1, PaceNumbers DEF PaceInv, LimiterTypes, Credit, Model!Least
    <3> QED BY <3>1, <3>2, <3>3
  <2>3. Model!PaceIsKept
    BY <2>2 DEF Model!PaceIsKept
  <2> QED BY <2>1, <2>3
<1> QED BY <1>1, PaceInvariant, PTL

\* Where the pool looks next after a draw of a free key.
TurnFollows == drawn.free => next = (drawn.key + 1) % KeyCount

\* A key plus a number of keys, once around.
LEMMA OnceAround ==
  ASSUME NEW n \in 0..(KeyCount - 1), NEW i \in 0..(KeyCount - 1)
  PROVE  (n + i) % KeyCount = IF n + i < KeyCount THEN n + i ELSE n + i - KeyCount
<1>1. KeyCount \in Nat \ {0}
  BY PaceNumbers
<1>2. CASE n + i < KeyCount
  BY <1>1, <1>2
<1>3. CASE n + i >= KeyCount
  <2>1. n + i - KeyCount \in 0..(KeyCount - 1)
    BY <1>1, <1>3
  <2>2. n + i = KeyCount * 1 + (n + i - KeyCount)
    BY <1>1
  <2> QED BY <1>1, <1>3, <2>1, <2>2
<1> QED BY <1>1, <1>2, <1>3

\* The draw after one of a free key comes back to that key only when it found none free
\* on the way, and the way passes all others.
LEMMA DrawTakesTurns ==
  ASSUME PaceInv, TurnFollows, drawn.free, NEW k \in Model!KeySet, k = drawn.key,
         Model!Draw(k), NEW j \in Model!KeySet, j # k
  PROVE  parked[j] > 0
<1>1. /\ KeyCount \in Nat \ {0} /\ k \in 0..(KeyCount - 1) /\ j \in 0..(KeyCount - 1)
      /\ next \in 0..(KeyCount - 1) /\ parked[j] \in Nat
  BY PaceNumbers DEF PaceInv, PoolTypes
<1>2. next = IF k + 1 < KeyCount THEN k + 1 ELSE 0
  <2>1. next = (k + 1) % KeyCount
    BY DEF TurnFollows
  <2>2. CASE KeyCount = 1
    BY <1>1, <2>1, <2>2
  <2>3. CASE KeyCount # 1
    <3>1. 1 \in 0..(KeyCount - 1)
      BY <1>1, <2>3
    <3>2. (k + 1) % KeyCount = IF k + 1 < KeyCount THEN k + 1 ELSE k + 1 - KeyCount
      BY <1>1, <3>1, OnceAround
    <3> QED BY <1>1, <2>1, <3>2
  <2> QED BY <2>2, <2>3
<1>3. CASE \A q \in Model!KeySet : ~Model!Free(q)
  BY <1>1, <1>3 DEF Model!Free
<1>4. ASSUME NEW i \in Model!KeySet, k = Model!FromNext(i),
             \A q \in 0..(i - 1) : ~Model!Free(Model!FromNext(q))
      PROVE  parked[j] > 0
  <2>1. i \in 0..(KeyCount - 1)
    BY PaceNumbers
  <2>2. i = KeyCount - 1
    <3>1. k = IF next + i < KeyCount THEN next + i ELSE next + i - KeyCount
      BY <1>1, <1>4, <2>1, OnceAround DEF Model!FromNext
    <3> QED BY <1>1, <1>2, <2>1, <3>1
  <2> DEFINE way == IF j >= next THEN j - next ELSE j - next + KeyCount
  <2>3. way \in 0..(i - 1) /\ way \in 0..(KeyCount - 1)
    BY <1>1, <1>2, <2>2
  <2>4. (next + way) % KeyCount = j
    <3>1. (next + way) % KeyCount =
            IF next + way < KeyCount THEN next + way ELSE next + way - KeyCount
      BY <1>1, <2>3, OnceAround
    <3> QED BY <1>1, <3>1
  <2>5. ~Model!Free(j)
    BY <1>4, <2>3, <2>4 DEF Model!FromNext
  <2> QED BY <1>1, <2>5 DEF Model!Free
<1> QED BY <1>3, <1>4 DEF Model!Draw

\* The place to look at moves with the draws alone.
LEMMA TurnKept ==
  ASSUME PaceInv, TurnFollows, [Model!Next]_(Model!vars)
  PROVE  TurnFollows'
<1>1. CASE UNCHANGED <<next, drawn>>
  BY <1>1 DEF TurnFollows
<1>2. ASSUME NEW c \in Calls, Model!Send(c) PROVE TurnFollows'
  <2>1. CASE c \in Embedders
    BY <1>1, <1>2, <2>1 DEF Model!Send
  <2>2. CASE c \notin Embedders
    <3>1. PICK k \in Model!KeySet :
            Model!Draw(k) /\ drawn' = [key |-> k, free |-> Model!Free(k)]
      BY <1>2, <2>2 DEF Model!Send
    <3>2. KeyCount \in Nat \ {0} /\ next \in 0..(KeyCount - 1)
      BY PaceNumbers DEF PaceInv, PoolTypes
    <3>3. CASE ~Model!Free(k)
      BY <3>1, <3>3 DEF TurnFollows
    <3>4. CASE Model!Free(k)
      <4>1. PICK i \in Model!KeySet : k = (next + i) % KeyCount /\ next' = (next + i + 1) % KeyCount
        BY <3>1, <3>4 DEF Model!Draw, Model!FromNext
      <4>2. i \in 0..(KeyCount - 1)
        BY PaceNumbers
      <4>3. (next + i + 1) % KeyCount = (((next + i) % KeyCount) + 1) % KeyCount
        <5>1. CASE next + i < KeyCount
          BY <3>2, <4>2, <5>1, OnceAround
        <5>2. CASE next + i >= KeyCount
          <6> DEFINE m == next + i - KeyCount
          <6>1. m \in 0..(KeyCount - 1) /\ (next + i) % KeyCount = m
            BY <3>2, <4>2, <5>2, OnceAround
          <6>2. m + 1 < KeyCount
            BY <3>2, <4>2, <5>2
          <6>3. next + i + 1 = KeyCount * 1 + (m + 1)
            BY <3>2, <4>2
          <6>4. (next + i + 1) % KeyCount = m + 1 /\ (m + 1) % KeyCount = m + 1
            BY <3>2, <6>1, <6>2, <6>3
          <6> QED BY <6>1, <6>4
        <5> QED BY <3>2, <4>2, <5>1, <5>2
      <4> QED BY <3>1, <4>1, <4>3 DEF TurnFollows
    <3> QED BY <3>3, <3>4
  <2> QED BY <2>1, <2>2
<1>3. CASE Model!Tick
  BY <1>1, <1>3 DEF Model!Tick
<1>4. ASSUME NEW c \in Calls,
             \/ Model!Issue(c) \/ Model!Acquire(c) \/ Model!Respond(c) \/ Model!Observe(c)
             \/ Model!NextAttempt(c) \/ Model!Stream(c) \/ Model!Cancel(c)
      PROVE  UNCHANGED <<next, drawn>>
  BY <1>4 DEF Model!Issue, Model!Acquire, Model!Respond, Model!Observe, Model!NextAttempt,
     Model!Stream, Model!Cancel, Model!pool
<1>5. CASE UNCHANGED Model!vars
  BY <1>1, <1>5 DEF Model!vars, Model!pool
<1> QED BY <1>1, <1>2, <1>3, <1>4, <1>5 DEF Model!Next, Model!Step

\* Two requests in a row that the pool serves with a free key take different keys, unless
\* all others are cooling down: the draws of all callers go round (keypool.go:13).
THEOREM DrawsTakeTurns == ServicesSpec => Model!KeysTakeTurns
<1>1. ServicesInit => TurnFollows
  BY DEF ServicesInit, ServicesBegin, Model!Init, TurnFollows
<1>2. PaceInv /\ TurnFollows /\ [ServicesNext]_services => TurnFollows'
  BY TurnKept, ServicesStepOfModel
<1>3. ASSUME PaceInv, TurnFollows, [ServicesNext]_services
      PROVE  [\A c \in Calls :
                Model!Send(c) /\ c \notin Embedders /\ drawn.free /\ modelKey'[c] = drawn.key
                  => \A k \in Model!KeySet \ {drawn.key} : parked[k] > 0]_(Model!vars)
  <2> SUFFICES ASSUME NEW c \in Calls, Model!Send(c), c \notin Embedders, drawn.free,
                      modelKey'[c] = drawn.key, NEW j \in Model!KeySet, j # drawn.key
               PROVE  parked[j] > 0
    OBVIOUS
  <2>1. PICK k \in Model!KeySet : Model!Draw(k) /\ modelKey' = [modelKey EXCEPT ![c] = k]
    BY DEF Model!Send
  <2>2. k = drawn.key
    BY <1>3, <2>1 DEF PaceInv, PoolTypes
  <2> QED BY <1>3, <2>1, <2>2, DrawTakesTurns
<1> QED BY <1>1, <1>2, <1>3, PaceInvariant, PTL DEF ServicesSpec, Model!KeysTakeTurns

-----------------------------------------------------------------------------
(* Language servers *)

\* A step of the services is one of the client, its servers or the file, or leaves them alone.
LEMMA ServicesStepOfLsp ==
  ASSUME [ServicesNext]_services
  PROVE  [Lsp!Next]_(Lsp!vars)
BY DEF ServicesNext, OfLsp, OfSrc, OfPlug, OfModel, services, lsp, Lsp!vars, Lsp!client,
   Lsp!server, Lsp!call, Lsp!process, Lsp!counts

\* The messages of some types.
Messages(types) == [type : types, id : Nat, who : Callers \cup {NoOne}, version : Nat]

\* What a server is sent.
Sent == Messages({"initialize", "query", "didOpen", "initialized", "shutdown", "response"})

\* What a server sends.
Replies == Messages({"answer", "error", "publish", "garbage", "request"})

\* What the loop of a server has in hand.
Handled ==
  Messages({"answer", "error", "publish", "garbage", "request", "none", "response", "ended"})

\* What the channel of a request holds.
Mails == Messages({"none", "answer", "error", "closed"})

\* What a call returns.
Results == Messages({"none", "answer", "error", "closed", "diagnostics"})

\* What is in a queue.
Elements(q) == {q[i] : i \in 1..Len(q)}

\* What callers hold, variable by variable.
CallerTypes ==
  /\ lspPc \in [Lsp!Actors -> Lsp!Places]
  /\ lspDoing \in [Lsp!Actors -> {"none", "initialize", "query", "didOpen", "initialized", "shutdown"}]
  /\ lspAt \in [Lsp!Actors -> Servers \cup {NoOne}] /\ lspServing \in Servers \cup {NoOne}
  /\ lspId \in [Callers -> Nat] /\ lspTold \in [Callers -> Nat]
  /\ lspMail \in [Callers -> Mails]
  /\ lspResult \in [Callers -> Results]
  /\ file \in Nat /\ clientMu \in Callers \cup {NoOne} /\ failed \in BOOLEAN
  /\ \A c \in Callers : lspPc[c] = "look" <=> clientMu = c

\* What there is of each server.
ServerTypes ==
  /\ lspMu \in [Servers -> Lsp!Actors \cup {NoOne, Lsp!Loop}]
  /\ lspPending \in [Servers -> SUBSET [id : Nat, who : Callers]]
  /\ lspNextID \in [Servers -> Nat] /\ stored \in [Servers -> Nat]
  /\ lspClosed \in [Servers -> BOOLEAN]
  /\ lspProc \in [Servers -> {"unused", "running", "hung", "dead"}]
  /\ ready \in [Servers -> BOOLEAN]

\* What is under way between them.
PipeTypes ==
  /\ lspStdin \in [Servers -> Seq(Sent)]
  /\ lspStdout \in [Servers -> Seq(Replies)]
  /\ owes \in [Servers -> SUBSET SUBSET Replies]
  /\ lspHand \in [Servers -> Handled]
  /\ \A s \in Servers : Len(lspStdin[s]) <= ServerPipe /\ Len(lspStdout[s]) <= ServerPipe

\* Where a call can be, and what it does there.
CallShape ==
  /\ lspPc[App] \in {"idle", "send", "write", "close", "down"}
  /\ lspPc[App] \in {"send", "write", "close"} => lspDoing[App] = "shutdown"
  /\ \A c \in Callers :
       /\ lspPc[c] \in {"idle", "find", "look", "start"} => lspDoing[c] = "none"
       /\ lspPc[c] = "giveUp" => lspDoing[c] \in {"none", "shutdown"}
       /\ lspPc[c] # "down"
       /\ lspPc[c] \in {"check", "register", "await", "drop"} => lspDoing[c] \in Lsp!Requests
       /\ lspPc[c] \in {"send", "write"} => lspDoing[c] # "none"
       /\ lspPc[c] = "poll" => lspDoing[c] = "didOpen"
       /\ lspPc[c] = "close" => lspDoing[c] = "shutdown"
       /\ lspPc[c] \in {"start", "install", "open"} => lspDoing[c] \in {"none", "initialized"}
  /\ \A c \in Lsp!Actors :
       lspPc[c] \in {"install", "open", "check", "register", "send", "write", "await", "drop",
                     "poll", "close"} => lspAt[c] \in Servers

\* Whoever writes holds the server's mutex, and nobody closes the server meanwhile.
WriterHolds ==
  /\ \A c \in Lsp!Actors : lspPc[c] = "write" => lspMu[lspAt[c]] = c
  /\ \A s \in Servers :
       /\ lspHand[s].type = "response" => lspMu[s] = Lsp!Loop
       /\ lspMu[s] # NoOne => ~lspClosed[s]
       /\ \/ lspMu[s] \in {NoOne, Lsp!Loop}
          \/ lspMu[s] \in Lsp!Actors /\ lspPc[lspMu[s]] = "write" /\ lspAt[lspMu[s]] = s
       /\ lspMu[s] = Lsp!Loop => lspHand[s].type = "response"

\* What is under way at a server: in its pipes, owed, and in the hand of its loop.
OnTheWay(s) ==
  Elements(lspStdin[s]) \cup (UNION owes[s]) \cup Elements(lspStdout[s]) \cup {lspHand[s]}

\* A caller has a request with an id of its own at a server.
Asking(c, s) ==
  /\ lspAt[c] = s /\ lspDoing[c] \in Lsp!Requests
  /\ lspPc[c] \in {"register", "send", "write", "await", "drop"}

\* A message is a request or answers one.
OfRequest(m) == m.type \in Lsp!Requests \cup {"answer", "error"}

\* Whose an id is: of an entry of pending, of a caller's request, of a message.
Tokens(s) ==
  lspPending[s] \cup {[id |-> lspId[c], who |-> c] : c \in {c \in Callers : Asking(c, s)}}
    \cup {[id |-> m.id, who |-> m.who] : m \in {m \in OnTheWay(s) : OfRequest(m)}}

\* An id is of one caller, however many messages carry it.
IdsAreOwn ==
  \A s \in Servers :
    /\ \A m \in OnTheWay(s) : OfRequest(m) => m.who \in Callers
    /\ \A t \in Tokens(s) : t.id \in 1..lspNextID[s]
    /\ \A t, u \in Tokens(s) : t.id = u.id => t = u

\* Versions are of the past.
VersionsAreOld ==
  /\ \A c \in Callers : lspTold[c] <= file
  /\ \A s \in Servers : stored[s] <= file /\ \A m \in OnTheWay(s) : m.version <= file

\* The channel of a request holds its own answer, and a result is kept until the next.
MailIsOwn ==
  \A c \in Callers :
    /\ lspMail[c].type = "answer" => lspMail[c].who = c /\ lspMail[c].id = lspId[c]
    /\ lspResult[c].type = "answer" => lspResult[c].who = c /\ lspResult[c].id = lspId[c]
    /\ lspPc[c] # "idle" => lspResult[c].type # "answer"

\* A request is registered, or has its answer; at a server that is closed it has one.
RequestsAreHeard ==
  \A c \in Callers :
    /\ lspPc[c] \in {"send", "write", "await"} /\ lspDoing[c] \in Lsp!Requests =>
         \/ [id |-> lspId[c], who |-> c] \in lspPending[lspAt[c]]
         \/ lspMail[c] # Lsp!Nothing
    /\ lspPc[c] \in {"write", "await"} /\ lspDoing[c] \in Lsp!Requests /\ lspClosed[lspAt[c]] =>
         lspMail[c] # Lsp!Nothing

\* A server that is used was told of the end of its handshake, or is no more.
Announced(s) ==
  \/ ready[s] \/ lspProc[s] = "dead" \/ lspClosed[s]
  \/ \E i \in 1..Len(lspStdin[s]) : lspStdin[s][i].type = "initialized"

\* What is asked of a server comes after that in its input.
ServersAreAnnounced ==
  /\ lspServing # NoOne => Announced(lspServing)
  /\ \A c \in Callers :
       lspPc[c] \in {"install", "open"} \/ lspDoing[c] \in {"didOpen", "query"} =>
         Announced(lspAt[c])
  /\ \A s \in Servers : \A j \in 1..Len(lspStdin[s]) :
       lspStdin[s][j].type \in {"didOpen", "query"} =>
         ready[s] \/ \E i \in 1..(j - 1) : lspStdin[s][i].type = "initialized"

\* Where everything is.
LspTypes == CallerTypes /\ ServerTypes /\ PipeTypes /\ CallShape

\* The inductive invariant of the language servers, in layers.
LspInv ==
  /\ LspTypes /\ WriterHolds /\ IdsAreOwn /\ VersionsAreOld /\ MailIsOwn /\ RequestsAreHeard
  /\ ServersAreAnnounced

\* Which messages are of which kind.
LEMMA MessageKinds ==
  /\ Lsp!Nothing \in Mails \cap Results \cap Handled /\ Lsp!Plain("closed") \in Mails
  /\ Mails \subseteq Results /\ Replies \subseteq Handled
  /\ \A m \in Handled : m.type \in {"answer", "error"} => m \in Mails
  /\ \A c \in Callers, v \in Nat : Lsp!Message("diagnostics", 0, c, v) \in Results
  /\ \A type \in {"none", "response", "ended", "garbage", "request"} : Lsp!Plain(type) \in Handled
  /\ \A type \in {"garbage", "request"} : Lsp!Plain(type) \in Replies
  /\ \A type \in {"initialized", "shutdown"} : Lsp!Plain(type) \in Sent
  /\ \A c \in Callers, v \in Nat : Lsp!Message("didOpen", 0, c, v) \in Sent
  /\ \A type \in Lsp!Requests, c \in Callers, n \in Nat : Lsp!Message(type, n, c, 0) \in Sent
  /\ \A m \in Handled : m.type = "response" => m \in Sent
<1> USE DEF Messages, Sent, Replies, Handled, Mails, Results, Lsp!Nothing, Lsp!Plain, Lsp!Message
<1>1. Lsp!Nothing \in Mails \cap Results \cap Handled /\ Lsp!Plain("closed") \in Mails
  OBVIOUS
<1>2. Mails \subseteq Results /\ Replies \subseteq Handled
  OBVIOUS
<1>3. \A m \in Handled : m.type \in {"answer", "error"} => m \in Mails
  OBVIOUS
<1>4. \A c \in Callers, v \in Nat : Lsp!Message("diagnostics", 0, c, v) \in Results
  OBVIOUS
<1>5. \A type \in {"none", "response", "ended", "garbage", "request"} : Lsp!Plain(type) \in Handled
  OBVIOUS
<1>6. \A type \in {"garbage", "request"} : Lsp!Plain(type) \in Replies
  OBVIOUS
<1>7. \A type \in {"initialized", "shutdown"} : Lsp!Plain(type) \in Sent
  OBVIOUS
<1>8. \A c \in Callers, v \in Nat : Lsp!Message("didOpen", 0, c, v) \in Sent
  OBVIOUS
<1>9. \A type \in Lsp!Requests, c \in Callers, n \in Nat : Lsp!Message(type, n, c, 0) \in Sent
  BY DEF Lsp!Requests
<1>10. \A m \in Handled : m.type = "response" => m \in Sent
  OBVIOUS
<1> HIDE DEF Messages, Sent, Replies, Handled, Mails, Results, Lsp!Nothing, Lsp!Plain, Lsp!Message
<1> QED BY <1>1, <1>2, <1>3, <1>4, <1>5, <1>6, <1>7, <1>8, <1>9, <1>10

\* What the fields of messages are.
LEMMA MessageFields ==
  /\ Lsp!Nothing.type = "none" /\ Lsp!Nothing.version = 0
  /\ \A type \in {"garbage", "request", "response", "ended", "closed", "shutdown", "initialized"} :
       Lsp!Plain(type).type = type /\ Lsp!Plain(type).version = 0
  /\ \A m \in Replies : m.type \in {"answer", "error", "publish", "garbage", "request"}
  /\ \A m \in Sent : m.type \in {"initialize", "query", "didOpen", "initialized", "shutdown", "response"}
  /\ \A m \in Sent \cup Handled :
       m.id \in Nat /\ m.version \in Nat /\ m.who \in Callers \cup {NoOne}
BY DEF Lsp!Nothing, Lsp!Plain, Lsp!Message, Replies, Sent, Handled, Messages

\* What appending and taking does to a queue.
LEMMA Queues ==
  ASSUME NEW S, NEW q \in Seq(S)
  PROVE  /\ Elements(q) \subseteq S /\ Len(q) \in Nat
         /\ \A e \in S : /\ Append(q, e) \in Seq(S) /\ Len(Append(q, e)) = Len(q) + 1
                        /\ Elements(Append(q, e)) = Elements(q) \cup {e}
         /\ q # <<>> => /\ Head(q) \in Elements(q) /\ Tail(q) \in Seq(S)
                       /\ Len(Tail(q)) = Len(q) - 1 /\ Elements(Tail(q)) \subseteq Elements(q)
<1>1. Elements(q) \subseteq S /\ Len(q) \in Nat
  BY DEF Elements
<1>2. ASSUME NEW e \in S
      PROVE  /\ Append(q, e) \in Seq(S) /\ Len(Append(q, e)) = Len(q) + 1
             /\ Elements(Append(q, e)) = Elements(q) \cup {e}
  <2>1. Append(q, e) \in Seq(S) /\ Len(Append(q, e)) = Len(q) + 1
    OBVIOUS
  <2>2. \A i \in 1..Len(q) : Append(q, e)[i] = q[i]
    OBVIOUS
  <2>3. Append(q, e)[Len(q) + 1] = e
    OBVIOUS
  <2> QED BY <1>1, <2>1, <2>2, <2>3 DEF Elements
<1>3. ASSUME q # <<>>
      PROVE  /\ Head(q) \in Elements(q) /\ Tail(q) \in Seq(S)
             /\ Len(Tail(q)) = Len(q) - 1 /\ Elements(Tail(q)) \subseteq Elements(q)
  <2>1. Head(q) = q[1] /\ 1 \in 1..Len(q)
    BY <1>3
  <2>2. Tail(q) \in Seq(S) /\ Len(Tail(q)) = Len(q) - 1
    BY <1>3
  <2>3. \A i \in 1..Len(Tail(q)) : Tail(q)[i] = q[i + 1] /\ i + 1 \in 1..Len(q)
    BY <1>1, <1>3, <2>2
  <2> QED BY <2>1, <2>2, <2>3 DEF Elements
<1> QED BY <1>1, <1>2, <1>3

\* The answers to a message of the client are messages of the server, and what they are of.
LEMMA AnswersAreReplies ==
  ASSUME NEW m \in Sent, NEW r \in Lsp!Answers(m)
  PROVE  /\ r \in Replies /\ r.id = m.id /\ r.who = m.who /\ r.version = m.version
         /\ r.type \in {"answer", "error"} => m.type \in Lsp!Requests
         /\ r.type \in {"answer", "error", "publish"}
<1>1. PICK type \in {"answer", "error", "publish"} :
        /\ r = [m EXCEPT !.type = type]
        /\ type \in {"answer", "error"} => m.type \in Lsp!Requests
  BY DEF Lsp!Answers
<1> QED BY <1>1 DEF Sent, Replies, Messages

\* What a caller sends is a message, to a server, and of whom it is.
LEMMA OutgoingIsSent ==
  ASSUME LspTypes, NEW a \in Lsp!Actors, lspPc[a] \in {"send", "write"}
  PROVE  /\ lspAt[a] \in Servers /\ lspStdin[lspAt[a]] \in Seq(Sent) /\ Lsp!Outgoing(a) \in Sent
         /\ Lsp!Outgoing(a).type = lspDoing[a]
         /\ lspDoing[a] \in Lsp!Requests =>
              a \in Callers /\ Lsp!Outgoing(a).id = lspId[a] /\ Lsp!Outgoing(a).who = a
         /\ Lsp!Outgoing(a).version \in {0} \cup {lspTold[c] : c \in Callers}
<1> USE ServicesAssumption DEF LspTypes, CallShape, PipeTypes, CallerTypes, Lsp!NobodyAssumption,
        Lsp!AppAssumption, Lsp!Actors
<1>1. lspAt[a] \in Servers /\ lspStdin[lspAt[a]] \in Seq(Sent)
  OBVIOUS
<1>2. CASE a = App
  <2>1. lspDoing[a] = "shutdown" /\ Lsp!Outgoing(a) = Lsp!Plain("shutdown")
    BY <1>2 DEF Lsp!Outgoing, Lsp!Requests
  <2> QED BY <1>1, <2>1, MessageKinds, MessageFields DEF Lsp!Requests
<1>3. CASE a \in Callers
  <2>1. CASE lspDoing[a] \in Lsp!Requests
    BY <1>1, <1>3, <2>1, MessageKinds DEF Lsp!Outgoing, Lsp!Message
  <2>2. CASE lspDoing[a] = "didOpen"
    BY <1>1, <1>3, <2>2, MessageKinds DEF Lsp!Outgoing, Lsp!Message, Lsp!Requests
  <2>3. CASE lspDoing[a] \in {"initialized", "shutdown"}
    <3>1. Lsp!Outgoing(a) = Lsp!Plain(lspDoing[a])
      BY <2>3 DEF Lsp!Outgoing, Lsp!Requests
    <3> QED BY <1>1, <2>3, <3>1, MessageKinds, MessageFields DEF Lsp!Requests
  <2> QED BY <1>3, <2>1, <2>2, <2>3 DEF Lsp!Requests
<1> QED BY <1>2, <1>3

\* Nothing is in an empty queue.
LEMMA NothingQueued == Elements(<<>>) = {}
BY DEF Elements

\* It holds at first.
LEMMA InitLspInv == Lsp!Init => LspInv
<1> SUFFICES ASSUME Lsp!Init PROVE LspInv
  OBVIOUS
<1>6. \A s \in Servers : OnTheWay(s) = {Lsp!Nothing}
  <2>1. lspStdin = [s \in Servers |-> <<>>] /\ lspStdout = [s \in Servers |-> <<>>]
        /\ owes = [s \in Servers |-> {}] /\ lspHand = [s \in Servers |-> Lsp!Nothing]
    BY DEF Lsp!Init
  <2>2. Elements(<<>>) = {}
    BY DEF Elements
  <2>3. ASSUME NEW s \in Servers PROVE OnTheWay(s) = {Lsp!Nothing}
    <3>1. OnTheWay(s) = Elements(<<>>) \cup (UNION {}) \cup Elements(<<>>) \cup {Lsp!Nothing}
      BY <2>1, <2>3 DEF OnTheWay
    <3>2. UNION {} = {}
      OBVIOUS
    <3> QED BY <2>2, <3>1, <3>2
  <2> QED BY <2>3
<1> USE ServicesAssumption DEF Lsp!Init, Lsp!NobodyAssumption,
        Lsp!AppAssumption, Lsp!BoundsAssumption, Lsp!Actors
<1>1. CallerTypes
  BY MessageKinds DEF CallerTypes, Lsp!Places
<1>2. ServerTypes
  BY DEF ServerTypes
<1>3. PipeTypes
  BY MessageKinds DEF PipeTypes
<1>4. CallShape
  BY DEF CallShape
<1>5. WriterHolds
  BY DEF WriterHolds, Lsp!Nothing, Lsp!Message
<1>7. IdsAreOwn
  BY <1>6 DEF IdsAreOwn, Tokens, Lsp!Nothing, Lsp!Message, Asking, OfRequest, Lsp!Requests
<1>8. VersionsAreOld
  BY <1>6 DEF VersionsAreOld, Lsp!Nothing, Lsp!Message
<1>9. MailIsOwn
  BY DEF MailIsOwn, Lsp!Nothing, Lsp!Message
<1>10. RequestsAreHeard
  BY DEF RequestsAreHeard
<1>11. ServersAreAnnounced
  BY DEF ServersAreAnnounced
<1> QED BY <1>1, <1>2, <1>3, <1>4, <1>5, <1>7, <1>8, <1>9, <1>10, <1>11 DEF LspInv, LspTypes

\* Every step keeps the types of what callers hold.
LEMMA NextCallerTypes ==
  ASSUME LspTypes, [Lsp!Next]_(Lsp!vars)
  PROVE  CallerTypes'
<1> USE ServicesAssumption DEF LspTypes, CallerTypes, Lsp!NobodyAssumption, Lsp!AppAssumption,
        Lsp!Actors, Lsp!Places, Lsp!client, Lsp!server, Lsp!call, Lsp!process, Lsp!counts
<1>1. ASSUME NEW c \in Callers, Lsp!Ask(c) PROVE CallerTypes'
  BY MessageKinds, <1>1 DEF Lsp!Ask, Lsp!Go
<1>2. ASSUME NEW c \in Callers, Lsp!LockClient(c) PROVE CallerTypes'
  BY <1>2 DEF Lsp!LockClient, Lsp!Go
<1>3. ASSUME NEW c \in Callers, Lsp!Look(c) PROVE CallerTypes'
  BY MessageKinds, <1>3 DEF Lsp!Look, Lsp!Go, Lsp!Do, Lsp!Returns
<1>4. ASSUME NEW c \in Callers, Lsp!Launch(c) PROVE CallerTypes'
  BY <1>4 DEF Lsp!Launch, Lsp!Go, Lsp!Do
<1>5. ASSUME NEW c \in Callers, Lsp!CannotLaunch(c) PROVE CallerTypes'
  BY <1>5 DEF Lsp!CannotLaunch, Lsp!Go
<1>6. ASSUME NEW c \in Callers, Lsp!GiveUp(c) PROVE CallerTypes'
  BY MessageKinds, <1>6 DEF Lsp!GiveUp, Lsp!Go, Lsp!Do, Lsp!Returns
<1>7. ASSUME NEW c \in Callers, Lsp!Install(c) PROVE CallerTypes'
  BY <1>7 DEF Lsp!Install, Lsp!Go
<1>8. ASSUME NEW c \in Callers, Lsp!Open(c) PROVE CallerTypes'
  BY <1>8 DEF Lsp!Open, Lsp!Go, Lsp!Do
<1>9. ASSUME NEW c \in Callers, Lsp!Check(c) PROVE CallerTypes'
  <2>1. CASE lspDoing[c] = "initialize" /\ Lsp!Do(c, "shutdown", "send")
               /\ UNCHANGED <<kind, lspAt, lspResult>>
    BY <1>9, <2>1 DEF Lsp!Check, Lsp!Do, Lsp!Go
  <2>2. CASE lspDoing[c] = "query" /\ Lsp!Returns(c, Lsp!Nothing)
    BY <1>9, <2>2, MessageKinds DEF Lsp!Check, Lsp!Returns, Lsp!Do, Lsp!Go
  <2>3. CASE Lsp!Go(c, "register") /\ lspMail' = [lspMail EXCEPT ![c] = Lsp!Nothing]
             /\ UNCHANGED <<kind, lspDoing, lspAt, lspResult>>
    BY <1>9, <2>3, MessageKinds DEF Lsp!Check, Lsp!FreshID, Lsp!Go, ServerTypes, CallShape
  <2> QED BY <1>9, <2>1, <2>2, <2>3 DEF Lsp!Check, Lsp!Fails
<1>10. ASSUME NEW c \in Callers, Lsp!Register(c) PROVE CallerTypes'
  BY <1>10 DEF Lsp!Register, Lsp!Go
<1>11. ASSUME NEW c \in Callers, Lsp!Receive(c) PROVE CallerTypes'
  BY MessageKinds, <1>11 DEF Lsp!Receive, Lsp!Fails, Lsp!Returns, Lsp!Initialized, Lsp!Do, Lsp!Go
<1>12. ASSUME NEW c \in Callers, Lsp!Timeout(c) PROVE CallerTypes'
  BY <1>12 DEF Lsp!Timeout, Lsp!Go
<1>13. ASSUME NEW c \in Callers, Lsp!Drop(c) PROVE CallerTypes'
  <2>1. CASE lspDoing[c] = "initialize" /\ Lsp!Do(c, "shutdown", "send")
               /\ UNCHANGED <<kind, lspAt, lspResult>>
    BY <1>13, <2>1 DEF Lsp!Drop, Lsp!Do, Lsp!Go
  <2>2. CASE lspDoing[c] = "query" /\ Lsp!Returns(c, Lsp!Nothing)
    BY <1>13, <2>2, MessageKinds DEF Lsp!Drop, Lsp!Returns, Lsp!Do, Lsp!Go
  <2> QED BY <1>13, <2>1, <2>2 DEF Lsp!Drop, Lsp!Fails
<1>14. ASSUME NEW c \in Callers, Lsp!Poll(c) PROVE CallerTypes'
  <2>1. PICK m \in Results : Lsp!Returns(c, m)
    BY <1>14, MessageKinds DEF Lsp!Poll, ServerTypes, CallShape
  <2> QED BY <1>14, <2>1 DEF Lsp!Poll, Lsp!Returns, Lsp!Do, Lsp!Go
<1>15. ASSUME NEW a \in Lsp!Actors, Lsp!Send(a) PROVE CallerTypes'
  BY <1>15 DEF Lsp!Send, Lsp!Unsent, Lsp!Notified, Lsp!Do, Lsp!Go
<1>16. ASSUME NEW a \in Lsp!Actors, Lsp!Write(a) PROVE CallerTypes'
  <2>1. PICK w \in {"await", "drop", "install", "check", "poll", "close"} : Lsp!Go(a, w)
    BY <1>16 DEF Lsp!Write, Lsp!Unsent, Lsp!Notified, Lsp!Do
  <2>2. lspDoing' = lspDoing \/ lspDoing' = [lspDoing EXCEPT ![a] = "query"]
    BY <1>16 DEF Lsp!Write, Lsp!Unsent, Lsp!Notified, Lsp!Do
  <2> QED BY <1>16, <2>1, <2>2 DEF Lsp!Write, Lsp!Go
<1>17. ASSUME NEW a \in Lsp!Actors, Lsp!Close(a) PROVE CallerTypes'
  BY MessageKinds, <1>17 DEF Lsp!Close, Lsp!MarkClosed, Lsp!Wake, Lsp!Dies, Lsp!Go
<1>18. CASE Lsp!Shutdown
  BY <1>18 DEF Lsp!Shutdown, Lsp!Do, Lsp!Go
<1>19. ASSUME NEW s \in Servers,
             Lsp!Read(s) \/ Lsp!StoreDiagnostics(s) \/ Lsp!Respond(s) \/ Lsp!Responded(s)
             \/ Lsp!ServerReads(s) \/ Lsp!ServerSends(s) \/ Lsp!ServerFaults(s)
      PROVE  CallerTypes'
  BY SMTT(20), <1>19 DEF Lsp!Read, Lsp!StoreDiagnostics, Lsp!Done, Lsp!Respond, Lsp!Responded, Lsp!Unlock,
     Lsp!ServerReads, Lsp!Answers, Lsp!ServerSends, Lsp!ServerFaults, Lsp!Dies
<1>20. ASSUME NEW s \in Servers, Lsp!Deliver(s) PROVE CallerTypes'
  <2>1. lspHand[s] \in Mails
    BY <1>20, MessageKinds DEF Lsp!Deliver, PipeTypes
  <2>2. lspMail' \in [Callers -> Mails]
    <3>1. CASE UNCHANGED lspMail
      BY <3>1
    <3>2. ASSUME NEW p, lspMail' = [lspMail EXCEPT ![p.who] =
                   IF lspId[p.who] = p.id /\ lspAt[p.who] = s THEN lspHand[s] ELSE @]
          PROVE  lspMail' \in [Callers -> Mails]
      BY <2>1, <3>2
    <3> QED BY <1>20, <3>1, <3>2 DEF Lsp!Deliver
  <2> QED BY <1>20, <2>2 DEF Lsp!Deliver
<1>21. ASSUME NEW s \in Servers, Lsp!LoopEnds(s) PROVE CallerTypes'
  BY MessageKinds, <1>21 DEF Lsp!LoopEnds, Lsp!MarkClosed, Lsp!Wake
<1>22. CASE Lsp!Edit
  BY <1>22 DEF Lsp!Edit
<1>23. CASE UNCHANGED Lsp!vars
  BY <1>23 DEF Lsp!vars
<1> QED BY <1>1, <1>2, <1>3, <1>4, <1>5, <1>6, <1>7, <1>8, <1>9, <1>10, <1>11, <1>12, <1>13,
        <1>14, <1>15, <1>16, <1>17, <1>18, <1>19, <1>20, <1>21, <1>22, <1>23
     DEF Lsp!Next, Lsp!CallStep, Lsp!StopStep, Lsp!LoopStep, Lsp!ServerStep, Lsp!Actors
\* Every step keeps the types of what there is of the servers.
LEMMA NextServerTypes ==
  ASSUME LspTypes, [Lsp!Next]_(Lsp!vars)
  PROVE  ServerTypes'
<1> USE ServicesAssumption DEF LspTypes, ServerTypes, Lsp!Actors, Lsp!client, Lsp!server,
        Lsp!call, Lsp!process, Lsp!counts
<1>1. ASSUME NEW c \in Callers,
             Lsp!Ask(c) \/ Lsp!LockClient(c) \/ Lsp!Look(c) \/ Lsp!CannotLaunch(c)
             \/ Lsp!GiveUp(c) \/ Lsp!Install(c) \/ Lsp!Open(c) \/ Lsp!Receive(c)
             \/ Lsp!Timeout(c) \/ Lsp!Poll(c)
      PROVE  ServerTypes'
  BY <1>1 DEF Lsp!Ask, Lsp!Go, Lsp!LockClient, Lsp!Look, Lsp!Do, Lsp!Returns, Lsp!CannotLaunch,
     Lsp!GiveUp, Lsp!Install, Lsp!Open, Lsp!Receive, Lsp!Fails, Lsp!Initialized, Lsp!Timeout,
     Lsp!Poll
<1>2. ASSUME NEW c \in Callers, Lsp!Launch(c) PROVE ServerTypes'
  BY <1>2 DEF Lsp!Launch, Lsp!Go, Lsp!Do
<1>3. ASSUME NEW c \in Callers, Lsp!Check(c) PROVE ServerTypes'
  BY <1>3 DEF Lsp!Check, Lsp!FreshID, Lsp!Fails, Lsp!Returns, Lsp!Do, Lsp!Go, CallShape
<1>4. ASSUME NEW c \in Callers, Lsp!Register(c) PROVE ServerTypes'
  BY <1>4 DEF Lsp!Register, Lsp!Go, CallerTypes, CallShape
<1>5. ASSUME NEW c \in Callers, Lsp!Drop(c) PROVE ServerTypes'
  BY <1>5 DEF Lsp!Drop, Lsp!Fails, Lsp!Returns, Lsp!Do, Lsp!Go
<1>6. ASSUME NEW a \in Lsp!Actors, Lsp!Send(a) PROVE ServerTypes'
  BY <1>6 DEF Lsp!Send, Lsp!Unsent, Lsp!Notified, Lsp!Do, Lsp!Go
<1>7. ASSUME NEW a \in Lsp!Actors, Lsp!Write(a) PROVE ServerTypes'
  BY <1>7 DEF Lsp!Write, Lsp!Unlock, Lsp!Outgoing, Lsp!Unsent, Lsp!Notified, Lsp!Do, Lsp!Go
<1>8. ASSUME NEW a \in Lsp!Actors, Lsp!Close(a) PROVE ServerTypes'
  BY <1>8 DEF Lsp!Close, Lsp!MarkClosed, Lsp!Wake, Lsp!Dies, Lsp!Go
<1>9. CASE Lsp!Shutdown
  BY <1>9 DEF Lsp!Shutdown, Lsp!Do, Lsp!Go
<1>10. ASSUME NEW s \in Servers, Lsp!Read(s) \/ Lsp!ServerSends(s) PROVE ServerTypes'
  BY <1>10 DEF Lsp!Read, Lsp!ServerSends
<1>11. ASSUME NEW s \in Servers, Lsp!Deliver(s) PROVE ServerTypes'
  BY <1>11 DEF Lsp!Deliver, Lsp!AnswerOf, Lsp!Done
<1>12. ASSUME NEW s \in Servers, Lsp!StoreDiagnostics(s) PROVE ServerTypes'
  BY MessageFields, <1>12 DEF Lsp!StoreDiagnostics, Lsp!Done, PipeTypes
<1>13. ASSUME NEW s \in Servers, Lsp!Respond(s) PROVE ServerTypes'
  BY <1>13 DEF Lsp!Respond, Lsp!Done
<1>14. ASSUME NEW s \in Servers, Lsp!Responded(s) PROVE ServerTypes'
  BY <1>14 DEF Lsp!Responded, Lsp!Unlock, Lsp!Done
<1>15. ASSUME NEW s \in Servers, Lsp!LoopEnds(s) PROVE ServerTypes'
  BY <1>15 DEF Lsp!LoopEnds, Lsp!MarkClosed, Lsp!Wake
<1>16. ASSUME NEW s \in Servers, Lsp!ServerReads(s) PROVE ServerTypes'
  BY <1>16 DEF Lsp!ServerReads, Lsp!Answers
<1>17. ASSUME NEW s \in Servers, Lsp!ServerFaults(s) PROVE ServerTypes'
  BY <1>17 DEF Lsp!ServerFaults, Lsp!Dies
<1>18. CASE Lsp!Edit
  BY <1>18 DEF Lsp!Edit
<1>19. CASE UNCHANGED Lsp!vars
  BY <1>19 DEF Lsp!vars
<1> QED BY <1>1, <1>2, <1>3, <1>4, <1>5, <1>6, <1>7, <1>8, <1>9, <1>10, <1>11, <1>12, <1>13,
        <1>14, <1>15, <1>16, <1>17, <1>18, <1>19
     DEF Lsp!Next, Lsp!CallStep, Lsp!StopStep, Lsp!LoopStep, Lsp!ServerStep, Lsp!Actors
\* Every step keeps the types of what is under way.
LEMMA NextPipeTypes ==
  ASSUME LspTypes, [Lsp!Next]_(Lsp!vars)
  PROVE  PipeTypes'
<1> USE ServicesAssumption DEF LspTypes, PipeTypes, Lsp!Actors, Lsp!BoundsAssumption,
        Lsp!client, Lsp!server, Lsp!call, Lsp!process, Lsp!counts
<1>0. /\ Lsp!Nothing \in Handled
      /\ Lsp!Plain("response") \in Handled /\ Lsp!Plain("ended") \in Handled
  BY MessageKinds
<1>1. ASSUME NEW c \in Callers,
             Lsp!Ask(c) \/ Lsp!LockClient(c) \/ Lsp!Look(c) \/ Lsp!Launch(c)
             \/ Lsp!CannotLaunch(c) \/ Lsp!GiveUp(c) \/ Lsp!Install(c) \/ Lsp!Open(c)
             \/ Lsp!Check(c) \/ Lsp!Register(c) \/ Lsp!Receive(c) \/ Lsp!Timeout(c)
             \/ Lsp!Drop(c) \/ Lsp!Poll(c)
      PROVE  PipeTypes'
  BY <1>1 DEF Lsp!Ask, Lsp!Go, Lsp!LockClient, Lsp!Look, Lsp!Do, Lsp!Returns, Lsp!Launch,
     Lsp!CannotLaunch, Lsp!GiveUp, Lsp!Install, Lsp!Open, Lsp!Check, Lsp!FreshID, Lsp!Fails,
     Lsp!Register, Lsp!Receive, Lsp!Initialized, Lsp!Timeout, Lsp!Drop, Lsp!Poll
<1>2. ASSUME NEW a \in Lsp!Actors, Lsp!Send(a) PROVE PipeTypes'
  BY <1>2 DEF Lsp!Send, Lsp!Unsent, Lsp!Notified, Lsp!Do, Lsp!Go
<1>3. ASSUME NEW a \in Lsp!Actors, Lsp!Write(a) PROVE PipeTypes'
  <2> DEFINE s == lspAt[a]
  <2>1. s \in Servers /\ lspStdin[s] \in Seq(Sent) /\ Lsp!Outgoing(a) \in Sent
    BY <1>3, OutgoingIsSent DEF Lsp!Write
  <2>2. CASE UNCHANGED lspStdin
    BY <1>3, <2>2 DEF Lsp!Write
  <2>3. CASE /\ Len(lspStdin[s]) < ServerPipe
             /\ lspStdin' = [lspStdin EXCEPT ![s] = Append(@, Lsp!Outgoing(a))]
    <3>1. /\ Append(lspStdin[s], Lsp!Outgoing(a)) \in Seq(Sent)
          /\ Len(Append(lspStdin[s], Lsp!Outgoing(a))) <= ServerPipe
      BY <2>1, <2>3, Queues
    <3> QED BY <1>3, <2>1, <2>3, <3>1 DEF Lsp!Write
  <2> QED BY <1>3, <2>2, <2>3 DEF Lsp!Write
<1>4. ASSUME NEW a \in Lsp!Actors, Lsp!Close(a) PROVE PipeTypes'
  BY <1>4 DEF Lsp!Close, Lsp!MarkClosed, Lsp!Wake, Lsp!Dies, Lsp!Go, CallShape
<1>5. CASE Lsp!Shutdown
  BY <1>5 DEF Lsp!Shutdown, Lsp!Do, Lsp!Go
<1>6. ASSUME NEW s \in Servers, Lsp!Read(s) PROVE PipeTypes'
  <2>1. CASE UNCHANGED lspStdout /\ lspHand' = [lspHand EXCEPT ![s] = Lsp!Plain("garbage")]
    BY <1>6, <2>1, MessageKinds DEF Lsp!Read
  <2>2. CASE /\ lspStdout[s] # <<>> /\ lspStdout' = [lspStdout EXCEPT ![s] = Tail(@)]
             /\ lspHand' = [lspHand EXCEPT ![s] = Head(lspStdout[s])]
    <3>1. /\ Tail(lspStdout[s]) \in Seq(Replies) /\ Len(Tail(lspStdout[s])) <= ServerPipe
          /\ Head(lspStdout[s]) \in Handled
      BY <2>2, Queues, MessageKinds
    <3> QED BY <1>6, <2>2, <3>1 DEF Lsp!Read
  <2> QED BY <1>6, <2>1, <2>2 DEF Lsp!Read
<1>7. ASSUME NEW s \in Servers, Lsp!Deliver(s) PROVE PipeTypes'
  BY <1>0, <1>7 DEF Lsp!Deliver, Lsp!AnswerOf, Lsp!Done
<1>8. ASSUME NEW s \in Servers, Lsp!StoreDiagnostics(s) PROVE PipeTypes'
  <2>1. /\ lspHand' = [lspHand EXCEPT ![s] = Lsp!Nothing]
        /\ UNCHANGED <<lspStdin, lspStdout, owes>>
    BY <1>8 DEF Lsp!StoreDiagnostics, Lsp!Done
  <2> QED BY <1>0, <2>1
<1>9. ASSUME NEW s \in Servers, Lsp!Respond(s) PROVE PipeTypes'
  BY <1>0, <1>9 DEF Lsp!Respond, Lsp!Done
<1>10. ASSUME NEW s \in Servers, Lsp!Responded(s) PROVE PipeTypes'
  <2>1. CASE UNCHANGED lspStdin
    BY <1>10, <2>1, MessageKinds DEF Lsp!Responded, Lsp!Done
  <2>2. CASE /\ Len(lspStdin[s]) < ServerPipe
             /\ lspStdin' = [lspStdin EXCEPT ![s] = Append(@, lspHand[s])]
    <3>1. lspHand[s] \in Sent
      BY <1>10, MessageKinds DEF Lsp!Responded
    <3>2. /\ Append(lspStdin[s], lspHand[s]) \in Seq(Sent)
          /\ Len(Append(lspStdin[s], lspHand[s])) <= ServerPipe
      BY <2>2, <3>1, Queues
    <3> QED BY <1>10, <2>2, <3>2, MessageKinds DEF Lsp!Responded, Lsp!Done
  <2> QED BY <1>10, <2>1, <2>2 DEF Lsp!Responded
<1>11. ASSUME NEW s \in Servers, Lsp!LoopEnds(s) PROVE PipeTypes'
  BY <1>0, <1>11 DEF Lsp!LoopEnds, Lsp!MarkClosed, Lsp!Wake
<1>12. ASSUME NEW s \in Servers, Lsp!ServerReads(s) PROVE PipeTypes'
  <2>1. /\ Tail(lspStdin[s]) \in Seq(Sent) /\ Len(Tail(lspStdin[s])) <= ServerPipe
        /\ Head(lspStdin[s]) \in Sent
    BY <1>12, Queues DEF Lsp!ServerReads
  <2>2. Lsp!Answers(Head(lspStdin[s])) \in SUBSET Replies
    BY <2>1, AnswersAreReplies
  <2> QED BY <1>12, <2>1, <2>2 DEF Lsp!ServerReads
<1>13. ASSUME NEW s \in Servers, Lsp!ServerSends(s) PROVE PipeTypes'
  <2>1. PICK m \in Replies : /\ Len(lspStdout[s]) < ServerPipe
                             /\ lspStdout' = [lspStdout EXCEPT ![s] = Append(@, m)]
    BY <1>13 DEF Lsp!ServerSends
  <2>2. /\ Append(lspStdout[s], m) \in Seq(Replies) /\ Len(Append(lspStdout[s], m)) <= ServerPipe
    BY <2>1, Queues
  <2> QED BY <1>13, <2>1, <2>2 DEF Lsp!ServerSends
<1>14. ASSUME NEW s \in Servers, Lsp!ServerFaults(s) PROVE PipeTypes'
  <2>1. CASE Lsp!Dies(s) /\ UNCHANGED lspStdout
    BY <1>14, <2>1 DEF Lsp!ServerFaults, Lsp!Dies
  <2>2. CASE UNCHANGED <<lspStdin, lspStdout, owes>>
    BY <1>14, <2>2 DEF Lsp!ServerFaults
  <2>3. ASSUME NEW type \in {"garbage", "request"}, Len(lspStdout[s]) < ServerPipe,
               lspStdout' = [lspStdout EXCEPT ![s] = Append(@, Lsp!Plain(type))],
               UNCHANGED <<lspStdin, owes>>
        PROVE  PipeTypes'
    <3>1. /\ Append(lspStdout[s], Lsp!Plain(type)) \in Seq(Replies)
          /\ Len(Append(lspStdout[s], Lsp!Plain(type))) <= ServerPipe
      BY <2>3, MessageKinds, Queues
    <3> QED BY <1>14, <2>3, <3>1 DEF Lsp!ServerFaults
  <2> QED BY <1>14, <2>1, <2>2, <2>3 DEF Lsp!ServerFaults
<1>15. CASE Lsp!Edit
  BY <1>15 DEF Lsp!Edit
<1>16. CASE UNCHANGED Lsp!vars
  BY <1>16 DEF Lsp!vars
<1> QED BY <1>1, <1>2, <1>3, <1>4, <1>5, <1>6, <1>7, <1>8, <1>9, <1>10, <1>11, <1>12, <1>13,
        <1>14, <1>15, <1>16
     DEF Lsp!Next, Lsp!CallStep, Lsp!StopStep, Lsp!LoopStep, Lsp!ServerStep, Lsp!Actors
\* Every step keeps the shape of calls.
LEMMA NextCallShape ==
  ASSUME LspTypes, [Lsp!Next]_(Lsp!vars)
  PROVE  CallShape'
<1> USE ServicesAssumption DEF LspTypes, CallShape, CallerTypes, Lsp!NobodyAssumption,
        Lsp!AppAssumption,
        Lsp!Actors, Lsp!Requests, Lsp!client, Lsp!server, Lsp!call, Lsp!process, Lsp!counts
<1>1. ASSUME NEW c \in Callers, Lsp!Ask(c) PROVE CallShape'
  BY <1>1 DEF Lsp!Ask, Lsp!Go
<1>2. ASSUME NEW c \in Callers, Lsp!LockClient(c) PROVE CallShape'
  BY <1>2 DEF Lsp!LockClient, Lsp!Go
<1>3. ASSUME NEW c \in Callers, Lsp!Look(c) PROVE CallShape'
  BY <1>3 DEF Lsp!Look, Lsp!Go, Lsp!Do, Lsp!Returns
<1>4. ASSUME NEW c \in Callers, Lsp!Launch(c) PROVE CallShape'
  BY <1>4 DEF Lsp!Launch, Lsp!Go, Lsp!Do
<1>5. ASSUME NEW c \in Callers, Lsp!CannotLaunch(c) PROVE CallShape'
  BY <1>5 DEF Lsp!CannotLaunch, Lsp!Go
<1>6. ASSUME NEW c \in Callers, Lsp!GiveUp(c) PROVE CallShape'
  BY <1>6 DEF Lsp!GiveUp, Lsp!Go, Lsp!Do, Lsp!Returns
<1>7. ASSUME NEW c \in Callers, Lsp!Install(c) PROVE CallShape'
  BY <1>7 DEF Lsp!Install, Lsp!Go
<1>8. ASSUME NEW c \in Callers, Lsp!Open(c) PROVE CallShape'
  BY <1>8 DEF Lsp!Open, Lsp!Go, Lsp!Do
<1>9. ASSUME NEW c \in Callers, Lsp!Check(c) PROVE CallShape'
  BY <1>9 DEF Lsp!Check, Lsp!FreshID, Lsp!Fails, Lsp!Returns, Lsp!Do, Lsp!Go
<1>10. ASSUME NEW c \in Callers, Lsp!Register(c) PROVE CallShape'
  BY <1>10 DEF Lsp!Register, Lsp!Go
<1>11. ASSUME NEW c \in Callers, Lsp!Receive(c) PROVE CallShape'
  BY <1>11 DEF Lsp!Receive, Lsp!Fails, Lsp!Returns, Lsp!Initialized, Lsp!Do, Lsp!Go
<1>12. ASSUME NEW c \in Callers, Lsp!Timeout(c) PROVE CallShape'
  BY <1>12 DEF Lsp!Timeout, Lsp!Go
<1>13. ASSUME NEW c \in Callers, Lsp!Drop(c) PROVE CallShape'
  BY <1>13 DEF Lsp!Drop, Lsp!Fails, Lsp!Returns, Lsp!Do, Lsp!Go
<1>14. ASSUME NEW c \in Callers, Lsp!Poll(c) PROVE CallShape'
  BY <1>14 DEF Lsp!Poll, Lsp!Returns, Lsp!Do, Lsp!Go
<1>15. ASSUME NEW a \in Lsp!Actors, Lsp!Send(a) PROVE CallShape'
  BY <1>15 DEF Lsp!Send, Lsp!Unsent, Lsp!Notified, Lsp!Do, Lsp!Go
<1>16. ASSUME NEW a \in Lsp!Actors, Lsp!Write(a) PROVE CallShape'
  BY <1>16 DEF Lsp!Write, Lsp!Unlock, Lsp!Outgoing, Lsp!Unsent, Lsp!Notified, Lsp!Do, Lsp!Go
<1>17. ASSUME NEW a \in Lsp!Actors, Lsp!Close(a) PROVE CallShape'
  BY <1>17 DEF Lsp!Close, Lsp!MarkClosed, Lsp!Wake, Lsp!Dies, Lsp!Go
<1>18. CASE Lsp!Shutdown
  BY <1>18 DEF Lsp!Shutdown, Lsp!Do, Lsp!Go
<1>19. ASSUME NEW s \in Servers,
             Lsp!Read(s) \/ Lsp!Deliver(s) \/ Lsp!StoreDiagnostics(s) \/ Lsp!Respond(s)
             \/ Lsp!Responded(s) \/ Lsp!LoopEnds(s) \/ Lsp!ServerReads(s) \/ Lsp!ServerSends(s)
             \/ Lsp!ServerFaults(s)
      PROVE  CallShape'
  BY <1>19 DEF Lsp!Read, Lsp!Deliver, Lsp!AnswerOf, Lsp!Done, Lsp!StoreDiagnostics, Lsp!Respond,
     Lsp!Responded, Lsp!Unlock, Lsp!LoopEnds, Lsp!MarkClosed, Lsp!Wake, Lsp!ServerReads,
     Lsp!Answers, Lsp!ServerSends, Lsp!ServerFaults, Lsp!Dies
<1>20. CASE Lsp!Edit
  BY <1>20 DEF Lsp!Edit
<1>21. CASE UNCHANGED Lsp!vars
  BY <1>21 DEF Lsp!vars
<1> QED BY <1>1, <1>2, <1>3, <1>4, <1>5, <1>6, <1>7, <1>8, <1>9, <1>10, <1>11, <1>12, <1>13,
        <1>14, <1>15, <1>16, <1>17, <1>18, <1>19, <1>20, <1>21
     DEF Lsp!Next, Lsp!CallStep, Lsp!StopStep, Lsp!LoopStep, Lsp!ServerStep, Lsp!Actors
\* Every step leaves the mutex of a server with the one who writes to it.
LEMMA NextWriterHolds ==
  ASSUME LspTypes, WriterHolds, [Lsp!Next]_(Lsp!vars)
  PROVE  WriterHolds'
<1> USE ServicesAssumption DEF LspTypes, CallerTypes, ServerTypes, CallShape, WriterHolds,
        Lsp!NobodyAssumption, Lsp!AppAssumption, Lsp!Actors, Lsp!client, Lsp!server, Lsp!call, Lsp!process, Lsp!counts
<1>1. ASSUME NEW c \in Callers, Lsp!Ask(c) PROVE WriterHolds'
  BY <1>1 DEF Lsp!Ask, Lsp!Go
<1>2. ASSUME NEW c \in Callers, Lsp!LockClient(c) PROVE WriterHolds'
  BY <1>2 DEF Lsp!LockClient, Lsp!Go
<1>3. ASSUME NEW c \in Callers, Lsp!Look(c) PROVE WriterHolds'
  BY <1>3 DEF Lsp!Look, Lsp!Go, Lsp!Do, Lsp!Returns
<1>4. ASSUME NEW c \in Callers, Lsp!Launch(c) PROVE WriterHolds'
  BY <1>4 DEF Lsp!Launch, Lsp!Go, Lsp!Do
<1>5. ASSUME NEW c \in Callers, Lsp!CannotLaunch(c) PROVE WriterHolds'
  BY <1>5 DEF Lsp!CannotLaunch, Lsp!Go
<1>6. ASSUME NEW c \in Callers, Lsp!GiveUp(c) PROVE WriterHolds'
  BY <1>6 DEF Lsp!GiveUp, Lsp!Go, Lsp!Do, Lsp!Returns
<1>7. ASSUME NEW c \in Callers, Lsp!Install(c) PROVE WriterHolds'
  BY <1>7 DEF Lsp!Install, Lsp!Go
<1>8. ASSUME NEW c \in Callers, Lsp!Open(c) PROVE WriterHolds'
  BY <1>8 DEF Lsp!Open, Lsp!Go, Lsp!Do
<1>9. ASSUME NEW c \in Callers, Lsp!Check(c) PROVE WriterHolds'
  BY SMTT(20), <1>9 DEF Lsp!Check, Lsp!FreshID, Lsp!Fails, Lsp!Returns, Lsp!Do, Lsp!Go
<1>10. ASSUME NEW c \in Callers, Lsp!Register(c) PROVE WriterHolds'
  BY <1>10 DEF Lsp!Register, Lsp!Go
<1>11. ASSUME NEW c \in Callers, Lsp!Receive(c) PROVE WriterHolds'
  BY <1>11 DEF Lsp!Receive, Lsp!Fails, Lsp!Returns, Lsp!Initialized, Lsp!Do, Lsp!Go
<1>12. ASSUME NEW c \in Callers, Lsp!Timeout(c) PROVE WriterHolds'
  BY <1>12 DEF Lsp!Timeout, Lsp!Go
<1>13. ASSUME NEW c \in Callers, Lsp!Drop(c) PROVE WriterHolds'
  BY <1>13 DEF Lsp!Drop, Lsp!Fails, Lsp!Returns, Lsp!Do, Lsp!Go
<1>14. ASSUME NEW c \in Callers, Lsp!Poll(c) PROVE WriterHolds'
  <2>1. lspPc[c] = "poll" /\ lspPc' = [lspPc EXCEPT ![c] = "idle"] /\ lspAt' = [lspAt EXCEPT ![c] = NoOne]
    BY <1>14 DEF Lsp!Poll, Lsp!Returns, Lsp!Do, Lsp!Go
  <2> QED BY <1>14, <2>1 DEF Lsp!Poll
<1>15. ASSUME NEW a \in Lsp!Actors, Lsp!Send(a) PROVE WriterHolds'
  BY <1>15 DEF Lsp!Send, Lsp!Unsent, Lsp!Notified, Lsp!Do, Lsp!Go
<1>16. ASSUME NEW a \in Lsp!Actors, Lsp!Write(a) PROVE WriterHolds'
  BY <1>16 DEF Lsp!Write, Lsp!Unlock, Lsp!Outgoing, Lsp!Unsent, Lsp!Notified, Lsp!Do, Lsp!Go
<1>17. ASSUME NEW a \in Lsp!Actors, Lsp!Close(a) PROVE WriterHolds'
  BY <1>17 DEF Lsp!Close, Lsp!MarkClosed, Lsp!Wake, Lsp!Dies, Lsp!Go
<1>18. CASE Lsp!Shutdown
  BY <1>18 DEF Lsp!Shutdown, Lsp!Do, Lsp!Go
<1>19. ASSUME NEW s \in Servers, Lsp!Read(s) PROVE WriterHolds'
  <2>1. PICK m \in Handled : m.type # "response" /\ lspHand' = [lspHand EXCEPT ![s] = m]
    <3>1. lspStdout[s] # <<>> => Head(lspStdout[s]) \in Replies
      BY Queues DEF PipeTypes
    <3> QED BY <1>19, <3>1, MessageFields, MessageKinds DEF Lsp!Read
  <2>2. lspHand[s] = Lsp!Nothing
    BY <1>19 DEF Lsp!Read
  <2> QED BY <1>19, <2>1, <2>2, MessageFields DEF Lsp!Read, PipeTypes
<1>20. ASSUME NEW s \in Servers, Lsp!Deliver(s) PROVE WriterHolds'
  <2>1. /\ lspHand[s].type # "response" /\ lspHand' = [lspHand EXCEPT ![s] = Lsp!Nothing]
        /\ UNCHANGED <<lspMu, lspClosed, lspPc, lspAt>>
    BY <1>20 DEF Lsp!Deliver, Lsp!Done
  <2> QED BY <2>1, MessageFields DEF PipeTypes
<1>21. ASSUME NEW s \in Servers, Lsp!StoreDiagnostics(s) PROVE WriterHolds'
  <2>1. /\ lspHand[s].type # "response" /\ lspHand' = [lspHand EXCEPT ![s] = Lsp!Nothing]
        /\ UNCHANGED <<lspMu, lspClosed, lspPc, lspAt>>
    BY <1>21 DEF Lsp!StoreDiagnostics, Lsp!Done
  <2> QED BY <2>1, MessageFields DEF PipeTypes
<1>22. ASSUME NEW s \in Servers, Lsp!Respond(s) PROVE WriterHolds'
  <2>1. CASE lspClosed[s] /\ Lsp!Done(s) /\ UNCHANGED lspMu
    BY <1>22, <2>1, MessageFields DEF Lsp!Respond, Lsp!Done, PipeTypes
  <2>2. CASE /\ ~lspClosed[s] /\ lspMu' = [lspMu EXCEPT ![s] = Lsp!Loop]
             /\ lspHand' = [lspHand EXCEPT ![s] = Lsp!Plain("response")]
    <3>1. Lsp!Plain("response").type = "response"
      BY MessageFields
    <3> QED BY <1>22, <2>2, <3>1 DEF Lsp!Respond, PipeTypes
  <2> QED BY <1>22, <2>1, <2>2 DEF Lsp!Respond
<1>23. ASSUME NEW s \in Servers, Lsp!Responded(s) PROVE WriterHolds'
  <2>1. /\ lspHand[s].type = "response" /\ lspHand' = [lspHand EXCEPT ![s] = Lsp!Nothing]
        /\ lspMu' = [lspMu EXCEPT ![s] = NoOne] /\ UNCHANGED <<lspClosed, lspPc, lspAt>>
    BY <1>23 DEF Lsp!Responded, Lsp!Unlock, Lsp!Done
  <2> QED BY <2>1, MessageFields DEF PipeTypes
<1>24. ASSUME NEW s \in Servers, Lsp!LoopEnds(s) PROVE WriterHolds'
  BY SMTT(20), MessageFields, <1>24 DEF Lsp!LoopEnds, Lsp!MarkClosed, Lsp!Wake, PipeTypes
<1>25. ASSUME NEW s \in Servers, Lsp!ServerReads(s) PROVE WriterHolds'
  BY MessageFields, <1>25 DEF Lsp!ServerReads, Lsp!Answers, PipeTypes
<1>26. ASSUME NEW s \in Servers, Lsp!ServerSends(s) PROVE WriterHolds'
  BY MessageFields, <1>26 DEF Lsp!ServerSends, PipeTypes
<1>27. ASSUME NEW s \in Servers, Lsp!ServerFaults(s) PROVE WriterHolds'
  BY MessageFields, <1>27 DEF Lsp!ServerFaults, Lsp!Dies, PipeTypes
<1>28. CASE Lsp!Edit
  BY <1>28 DEF Lsp!Edit
<1>29. CASE UNCHANGED Lsp!vars
  BY <1>29 DEF Lsp!vars
<1> QED BY <1>1, <1>2, <1>3, <1>4, <1>5, <1>6, <1>7, <1>8, <1>9, <1>10, <1>11, <1>12, <1>13,
        <1>14, <1>15, <1>16, <1>17, <1>18, <1>19, <1>20, <1>21, <1>22, <1>23, <1>24, <1>25, <1>26,
        <1>27, <1>28, <1>29
     DEF Lsp!Next, Lsp!CallStep, Lsp!StopStep, Lsp!LoopStep, Lsp!ServerStep, Lsp!Actors

\* What is under way after a step was under way before, is of no request and no version, was
\* just written, or is owed for something that was just read.
Grows(x) ==
  \A m \in OnTheWay(x)' :
    \/ m \in OnTheWay(x)
    \/ m.version = 0 /\ ~OfRequest(m)
    \/ \E a \in Lsp!Actors : lspPc[a] = "write" /\ lspAt[a] = x /\ m = Lsp!Outgoing(a)
    \/ \E r \in OnTheWay(x) \cap Sent : m \in Lsp!Answers(r)

\* So it is with every step.
LEMMA NextGrows ==
  ASSUME LspTypes, [Lsp!Next]_(Lsp!vars)
  PROVE  \A x \in Servers : Grows(x)
<1> USE ServicesAssumption DEF LspTypes, PipeTypes, Lsp!Actors, Lsp!client, Lsp!server, Lsp!call,
        Lsp!process, Lsp!counts
<1>1. ASSUME NEW c \in Callers,
             Lsp!Ask(c) \/ Lsp!LockClient(c) \/ Lsp!Look(c) \/ Lsp!Launch(c)
             \/ Lsp!CannotLaunch(c) \/ Lsp!GiveUp(c) \/ Lsp!Install(c) \/ Lsp!Open(c)
             \/ Lsp!Check(c) \/ Lsp!Register(c) \/ Lsp!Receive(c) \/ Lsp!Timeout(c)
             \/ Lsp!Drop(c) \/ Lsp!Poll(c)
      PROVE  \A x \in Servers : Grows(x)
  BY <1>1 DEF Lsp!Ask, Lsp!Go, Lsp!LockClient, Lsp!Look, Lsp!Do, Lsp!Returns, Lsp!Launch,
     Lsp!CannotLaunch, Lsp!GiveUp, Lsp!Install, Lsp!Open, Lsp!Check, Lsp!FreshID, Lsp!Fails,
     Lsp!Register, Lsp!Receive, Lsp!Initialized, Lsp!Timeout, Lsp!Drop, Lsp!Poll, Grows, OnTheWay
<1>2. ASSUME NEW a \in Lsp!Actors, Lsp!Send(a) PROVE \A x \in Servers : Grows(x)
  BY <1>2 DEF Lsp!Send, Lsp!Unsent, Lsp!Notified, Lsp!Do, Lsp!Go, Grows, OnTheWay
<1>3. ASSUME NEW a \in Lsp!Actors, Lsp!Write(a) PROVE \A x \in Servers : Grows(x)
  <2>1. \A x \in Servers :
          Elements(lspStdin'[x]) \subseteq Elements(lspStdin[x]) \cup
            (IF x = lspAt[a] THEN {Lsp!Outgoing(a)} ELSE {})
    <3>1. Elements(Append(lspStdin[lspAt[a]], Lsp!Outgoing(a))) =
            Elements(lspStdin[lspAt[a]]) \cup {Lsp!Outgoing(a)}
      BY <1>3, OutgoingIsSent, Queues DEF Lsp!Write
    <3>2. \/ UNCHANGED lspStdin
          \/ lspStdin' = [lspStdin EXCEPT ![lspAt[a]] = Append(@, Lsp!Outgoing(a))]
      BY <1>3 DEF Lsp!Write
    <3> QED BY <3>1, <3>2
  <2> QED BY <1>3, <2>1 DEF Lsp!Write, Lsp!Unsent, Grows, OnTheWay
<1>4. ASSUME NEW a \in Lsp!Actors, Lsp!Close(a) PROVE \A x \in Servers : Grows(x)
  <2>1. \A x \in Servers : Elements(lspStdin'[x]) \subseteq Elements(lspStdin[x]) /\ owes'[x] \subseteq owes[x]
    BY <1>4, NothingQueued DEF Lsp!Close, Lsp!MarkClosed, Lsp!Wake, Lsp!Dies
  <2> QED BY <1>4, <2>1 DEF Lsp!Close, Lsp!MarkClosed, Lsp!Wake, Lsp!Dies, Grows, OnTheWay
<1>5. CASE Lsp!Shutdown
  BY <1>5 DEF Lsp!Shutdown, Lsp!Do, Lsp!Go, Grows, OnTheWay
<1>6. ASSUME NEW s \in Servers, Lsp!Read(s) PROVE \A x \in Servers : Grows(x)
  <2>1. CASE /\ lspStdout[s] # <<>> /\ lspHand' = [lspHand EXCEPT ![s] = Head(lspStdout[s])]
             /\ lspStdout' = [lspStdout EXCEPT ![s] = Tail(@)]
    <3>1. /\ Head(lspStdout[s]) \in Elements(lspStdout[s])
          /\ Elements(Tail(lspStdout[s])) \subseteq Elements(lspStdout[s])
      BY <2>1, Queues
    <3> QED BY <1>6, <2>1, <3>1 DEF Lsp!Read, Grows, OnTheWay
  <2>2. CASE UNCHANGED lspStdout /\ lspHand' = [lspHand EXCEPT ![s] = Lsp!Plain("garbage")]
    BY <1>6, <2>2, MessageFields DEF Lsp!Read, Grows, OnTheWay, OfRequest, Lsp!Requests
  <2> QED BY <1>6, <2>1, <2>2 DEF Lsp!Read
<1>7. ASSUME NEW s \in Servers, Lsp!Deliver(s) PROVE \A x \in Servers : Grows(x)
  BY MessageFields, <1>7 DEF Lsp!Deliver, Lsp!AnswerOf, Lsp!Done, Grows, OnTheWay, OfRequest,
     Lsp!Requests
<1>8. ASSUME NEW s \in Servers, Lsp!StoreDiagnostics(s) PROVE \A x \in Servers : Grows(x)
  BY MessageFields, <1>8 DEF Lsp!StoreDiagnostics, Lsp!Done, Grows, OnTheWay, OfRequest,
     Lsp!Requests
<1>9. ASSUME NEW s \in Servers, Lsp!Respond(s) PROVE \A x \in Servers : Grows(x)
  BY MessageFields, <1>9 DEF Lsp!Respond, Lsp!Done, Grows, OnTheWay, OfRequest, Lsp!Requests
<1>10. ASSUME NEW s \in Servers, Lsp!Responded(s) PROVE \A x \in Servers : Grows(x)
  <2>1. \A x \in Servers :
          Elements(lspStdin'[x]) \subseteq Elements(lspStdin[x]) \cup
            (IF x = s THEN {lspHand[s]} ELSE {})
    <3>1. Elements(Append(lspStdin[s], lspHand[s])) = Elements(lspStdin[s]) \cup {lspHand[s]}
      BY <1>10, MessageKinds, Queues DEF Lsp!Responded
    <3>2. \/ UNCHANGED lspStdin
          \/ lspStdin' = [lspStdin EXCEPT ![s] = Append(@, lspHand[s])]
      BY <1>10 DEF Lsp!Responded
    <3> QED BY <3>1, <3>2
  <2> QED BY <1>10, <2>1, MessageFields DEF Lsp!Responded, Lsp!Done, Grows, OnTheWay, OfRequest,
             Lsp!Requests
<1>11. ASSUME NEW s \in Servers, Lsp!LoopEnds(s) PROVE \A x \in Servers : Grows(x)
  BY MessageFields, <1>11 DEF Lsp!LoopEnds, Lsp!MarkClosed, Lsp!Wake, Grows, OnTheWay, OfRequest,
     Lsp!Requests
<1>12. ASSUME NEW s \in Servers, Lsp!ServerReads(s) PROVE \A x \in Servers : Grows(x)
  <2>1. /\ Head(lspStdin[s]) \in Elements(lspStdin[s]) \cap Sent
        /\ Elements(Tail(lspStdin[s])) \subseteq Elements(lspStdin[s])
    BY <1>12, Queues DEF Lsp!ServerReads
  <2>2. \A x \in Servers :
          UNION owes'[x] \subseteq (UNION owes[x]) \cup
            (IF x = s THEN Lsp!Answers(Head(lspStdin[s])) ELSE {})
    BY <1>12 DEF Lsp!ServerReads
  <2>3. \A x \in Servers : Elements(lspStdin'[x]) \subseteq Elements(lspStdin[x])
    BY <1>12, <2>1 DEF Lsp!ServerReads
  <2> QED BY <1>12, <2>1, <2>2, <2>3 DEF Lsp!ServerReads, Grows, OnTheWay
<1>13. ASSUME NEW s \in Servers, Lsp!ServerSends(s) PROVE \A x \in Servers : Grows(x)
  <2>1. PICK debt \in owes[s] : \E m \in debt :
          /\ lspStdout' = [lspStdout EXCEPT ![s] = Append(@, m)]
          /\ owes' = [owes EXCEPT ![s] = @ \ {debt}]
    BY <1>13 DEF Lsp!ServerSends
  <2> PICK m \in debt :
        /\ lspStdout' = [lspStdout EXCEPT ![s] = Append(@, m)]
        /\ owes' = [owes EXCEPT ![s] = @ \ {debt}]
    BY <2>1
  <2>2. m \in Replies /\ m \in UNION owes[s]
    BY <2>1
  <2>3. \A x \in Servers : UNION owes'[x] \subseteq UNION owes[x]
    BY <2>1
  <2>4. \A x \in Servers :
          Elements(lspStdout'[x]) \subseteq Elements(lspStdout[x]) \cup (IF x = s THEN {m} ELSE {})
    BY <2>1, <2>2, Queues
  <2> QED BY <1>13, <2>2, <2>3, <2>4 DEF Lsp!ServerSends, Grows, OnTheWay
<1>14. ASSUME NEW s \in Servers, Lsp!ServerFaults(s) PROVE \A x \in Servers : Grows(x)
  <2>1. CASE Lsp!Dies(s) /\ UNCHANGED lspStdout
    <3>1. \A x \in Servers : Elements(lspStdin'[x]) \subseteq Elements(lspStdin[x]) /\ owes'[x] \subseteq owes[x]
      BY <2>1, NothingQueued DEF Lsp!Dies
    <3> QED BY <1>14, <2>1, <3>1 DEF Lsp!ServerFaults, Grows, OnTheWay
  <2>2. CASE UNCHANGED <<lspStdin, lspStdout, owes>>
    BY <1>14, <2>2 DEF Lsp!ServerFaults, Grows, OnTheWay
  <2>3. ASSUME NEW type \in {"garbage", "request"}, UNCHANGED <<lspStdin, owes>>,
               lspStdout' = [lspStdout EXCEPT ![s] = Append(@, Lsp!Plain(type))]
        PROVE  \A x \in Servers : Grows(x)
    <3>1. \A x \in Servers :
            Elements(lspStdout'[x]) \subseteq Elements(lspStdout[x]) \cup
              (IF x = s THEN {Lsp!Plain(type)} ELSE {})
      BY <2>3, MessageKinds, Queues
    <3> QED BY <1>14, <2>3, <3>1, MessageFields DEF Lsp!ServerFaults, Grows, OnTheWay, OfRequest,
               Lsp!Requests
  <2> QED BY <1>14, <2>1, <2>2, <2>3 DEF Lsp!ServerFaults
<1>15. CASE Lsp!Edit
  BY <1>15 DEF Lsp!Edit, Grows, OnTheWay
<1>16. CASE UNCHANGED Lsp!vars
  BY <1>16 DEF Lsp!vars, Grows, OnTheWay
<1> QED BY <1>1, <1>2, <1>3, <1>4, <1>5, <1>6, <1>7, <1>8, <1>9, <1>10, <1>11, <1>12, <1>13,
        <1>14, <1>15, <1>16
     DEF Lsp!Next, Lsp!CallStep, Lsp!StopStep, Lsp!LoopStep, Lsp!ServerStep, Lsp!Actors

\* No step but one of call gives an id out, and no other entry or request comes to be.
NoNewID ==
  \/ \E c \in Callers : Lsp!Check(c)
  \/ \A x \in Servers :
       /\ lspNextID'[x] = lspNextID[x]
       /\ \A t \in lspPending'[x] : t \in Tokens(x)
       /\ \A d \in Callers : Asking(d, x)' => Asking(d, x) /\ lspId'[d] = lspId[d]

\* So it is with every step.
LEMMA NextNoNewID ==
  ASSUME LspTypes, [Lsp!Next]_(Lsp!vars)
  PROVE  NoNewID
<1> USE ServicesAssumption DEF LspTypes, NoNewID, Tokens, Lsp!NobodyAssumption, Lsp!AppAssumption,
        Lsp!Actors, Lsp!Requests, Lsp!client, Lsp!server, Lsp!call, Lsp!process, Lsp!counts
<1>1. ASSUME NEW c \in Callers, Lsp!Ask(c) PROVE NoNewID
  BY <1>1 DEF Lsp!Ask, Lsp!Go, Asking, CallerTypes, ServerTypes, CallShape
<1>2. ASSUME NEW c \in Callers, Lsp!LockClient(c) PROVE NoNewID
  BY <1>2 DEF Lsp!LockClient, Lsp!Go, Asking, CallerTypes, ServerTypes, CallShape
<1>3. ASSUME NEW c \in Callers, Lsp!Look(c) PROVE NoNewID
  BY <1>3 DEF Lsp!Look, Lsp!Go, Lsp!Do, Lsp!Returns, Asking, CallerTypes, ServerTypes, CallShape
<1>4. ASSUME NEW c \in Callers, Lsp!Launch(c) PROVE NoNewID
  BY <1>4 DEF Lsp!Launch, Lsp!Go, Lsp!Do, Asking, CallerTypes, ServerTypes, CallShape
<1>5. ASSUME NEW c \in Callers, Lsp!CannotLaunch(c) PROVE NoNewID
  BY <1>5 DEF Lsp!CannotLaunch, Lsp!Go, Asking, CallerTypes, ServerTypes, CallShape
<1>6. ASSUME NEW c \in Callers, Lsp!GiveUp(c) PROVE NoNewID
  BY <1>6 DEF Lsp!GiveUp, Lsp!Go, Lsp!Do, Lsp!Returns, Asking, CallerTypes, ServerTypes, CallShape
<1>7. ASSUME NEW c \in Callers, Lsp!Install(c) PROVE NoNewID
  BY <1>7 DEF Lsp!Install, Lsp!Go, Asking, CallerTypes, ServerTypes, CallShape
<1>8. ASSUME NEW c \in Callers, Lsp!Open(c) PROVE NoNewID
  BY <1>8 DEF Lsp!Open, Lsp!Go, Lsp!Do, Asking, CallerTypes, ServerTypes, CallShape
<1>9. ASSUME NEW c \in Callers, Lsp!Check(c) PROVE NoNewID
  BY <1>9 DEF NoNewID
<1>10. ASSUME NEW c \in Callers, Lsp!Register(c) PROVE NoNewID
  BY <1>10 DEF Lsp!Register, Lsp!Go, Asking, CallerTypes, ServerTypes, CallShape
<1>11. ASSUME NEW c \in Callers, Lsp!Receive(c) PROVE NoNewID
  BY <1>11 DEF Lsp!Receive, Lsp!Fails, Lsp!Returns, Lsp!Initialized, Lsp!Do, Lsp!Go, Asking,
     CallerTypes, ServerTypes, CallShape
<1>12. ASSUME NEW c \in Callers, Lsp!Timeout(c) PROVE NoNewID
  BY <1>12 DEF Lsp!Timeout, Lsp!Go, Asking, CallerTypes, ServerTypes, CallShape
<1>13. ASSUME NEW c \in Callers, Lsp!Drop(c) PROVE NoNewID
  BY <1>13 DEF Lsp!Drop, Lsp!Fails, Lsp!Returns, Lsp!Do, Lsp!Go, Asking, CallerTypes, ServerTypes,
     CallShape
<1>14. ASSUME NEW c \in Callers, Lsp!Poll(c) PROVE NoNewID
  BY <1>14 DEF Lsp!Poll, Lsp!Returns, Lsp!Do, Lsp!Go, Asking, CallerTypes, ServerTypes, CallShape
<1>15. ASSUME NEW a \in Lsp!Actors, Lsp!Send(a) PROVE NoNewID
  BY <1>15 DEF Lsp!Send, Lsp!Unsent, Lsp!Notified, Lsp!Do, Lsp!Go, Asking, CallerTypes,
     ServerTypes, CallShape
<1>16. ASSUME NEW a \in Lsp!Actors, Lsp!Write(a) PROVE NoNewID
  BY <1>16 DEF Lsp!Write, Lsp!Unlock, Lsp!Outgoing, Lsp!Unsent, Lsp!Notified, Lsp!Do, Lsp!Go,
     Asking, CallerTypes, ServerTypes, CallShape
<1>17. ASSUME NEW a \in Lsp!Actors, Lsp!Close(a) PROVE NoNewID
  BY <1>17 DEF Lsp!Close, Lsp!MarkClosed, Lsp!Wake, Lsp!Dies, Lsp!Go, Asking, CallerTypes,
     ServerTypes, CallShape
<1>18. CASE Lsp!Shutdown
  BY <1>18 DEF Lsp!Shutdown, Lsp!Do, Lsp!Go, Asking, CallerTypes, ServerTypes, CallShape
<1>19. ASSUME NEW s \in Servers,
             Lsp!Read(s) \/ Lsp!StoreDiagnostics(s) \/ Lsp!Respond(s) \/ Lsp!Responded(s)
             \/ Lsp!ServerReads(s) \/ Lsp!ServerSends(s) \/ Lsp!ServerFaults(s)
      PROVE  NoNewID
  BY SMTT(20), <1>19 DEF Lsp!Read, Lsp!StoreDiagnostics, Lsp!Done, Lsp!Respond, Lsp!Responded, Lsp!Unlock,
     Lsp!ServerReads, Lsp!Answers, Lsp!ServerSends, Lsp!ServerFaults, Lsp!Dies, Asking
<1>20. ASSUME NEW s \in Servers, Lsp!Deliver(s) PROVE NoNewID
  BY <1>20 DEF Lsp!Deliver, Lsp!AnswerOf, Lsp!Done, Asking, CallerTypes, ServerTypes, CallShape
<1>21. ASSUME NEW s \in Servers, Lsp!LoopEnds(s) PROVE NoNewID
  BY <1>21 DEF Lsp!LoopEnds, Lsp!MarkClosed, Lsp!Wake, Asking, CallerTypes, ServerTypes, CallShape
<1>22. CASE Lsp!Edit
  BY <1>22 DEF Lsp!Edit, Asking
<1>23. CASE UNCHANGED Lsp!vars
  BY <1>23 DEF Lsp!vars, Asking
<1> QED BY <1>1, <1>2, <1>3, <1>4, <1>5, <1>6, <1>7, <1>8, <1>9, <1>10, <1>11, <1>12, <1>13,
        <1>14, <1>15, <1>16, <1>17, <1>18, <1>19, <1>20, <1>21, <1>22, <1>23
     DEF Lsp!Next, Lsp!CallStep, Lsp!StopStep, Lsp!LoopStep, Lsp!ServerStep, Lsp!Actors

\* Ids stay with their callers.
LEMMA NextIdsAreOwn ==
  ASSUME LspTypes, IdsAreOwn, [Lsp!Next]_(Lsp!vars)
  PROVE  IdsAreOwn'
<1>1. ASSUME NEW x \in Servers, NEW m \in OnTheWay(x)', OfRequest(m)
      PROVE  m.who \in Callers /\ [id |-> m.id, who |-> m.who] \in Tokens(x)
  <2>1. CASE m \in OnTheWay(x)
    BY <1>1, <2>1 DEF Tokens, IdsAreOwn
  <2>2. ASSUME NEW a \in Lsp!Actors, lspPc[a] = "write", lspAt[a] = x, m = Lsp!Outgoing(a)
        PROVE  m.who \in Callers /\ [id |-> m.id, who |-> m.who] \in Tokens(x)
    <3>1. lspDoing[a] \in Lsp!Requests
      BY <1>1, <2>2, OutgoingIsSent DEF OfRequest, Lsp!Requests, LspTypes, CallerTypes
    <3>2. a \in Callers /\ m.id = lspId[a] /\ m.who = a /\ Asking(a, x)
      BY <2>2, <3>1, OutgoingIsSent DEF Asking
    <3> QED BY <3>2 DEF Tokens
  <2>3. ASSUME NEW r \in OnTheWay(x) \cap Sent, m \in Lsp!Answers(r)
        PROVE  m.who \in Callers /\ [id |-> m.id, who |-> m.who] \in Tokens(x)
    <3>1. OfRequest(r) /\ r.id = m.id /\ r.who = m.who
      BY <1>1, <2>3, AnswersAreReplies DEF OfRequest, Lsp!Requests
    <3> QED BY <3>1 DEF Tokens, IdsAreOwn
  <2> QED BY <1>1, <2>1, <2>2, <2>3, NextGrows DEF Grows
<1>2. CASE \A x \in Servers :
             /\ lspNextID'[x] = lspNextID[x]
             /\ \A t \in lspPending'[x] : t \in Tokens(x)
             /\ \A d \in Callers : Asking(d, x)' => Asking(d, x) /\ lspId'[d] = lspId[d]
  <2>1. \A x \in Servers : Tokens(x)' \subseteq Tokens(x)
    BY <1>1, <1>2 DEF Tokens
  <2> QED BY <1>1, <1>2, <2>1 DEF IdsAreOwn
<1>3. ASSUME NEW c \in Callers, Lsp!Check(c) PROVE IdsAreOwn'
  <2> DEFINE fresh == [id |-> lspNextID[lspAt[c]] + 1, who |-> c]
  <2>1. lspAt[c] \in Servers /\ lspNextID \in [Servers -> Nat] /\ UNCHANGED lspPending
    BY <1>3 DEF Lsp!Check, LspTypes, CallShape, ServerTypes, Lsp!Actors
  <2>2. CASE lspClosed[lspAt[c]]
    <3>1. UNCHANGED <<lspNextID, lspId>>
      BY <1>3, <2>2 DEF Lsp!Check
    <3>2. \A x \in Servers, d \in Callers : Asking(d, x)' => Asking(d, x) /\ lspId'[d] = lspId[d]
      BY <1>3, <2>2, <3>1 DEF Lsp!Check, Lsp!Fails, Lsp!Returns, Lsp!Do, Lsp!Go, Asking, LspTypes,
         CallerTypes, Lsp!Actors, Lsp!Requests
    <3>3. \A x \in Servers : \A t \in lspPending'[x] : t \in Tokens(x)
      BY <2>1 DEF Tokens
    <3> QED BY <1>2, <3>1, <3>2, <3>3
  <2>3. CASE ~lspClosed[lspAt[c]]
    <3>1. /\ lspId' = [lspId EXCEPT ![c] = lspNextID[lspAt[c]] + 1]
          /\ lspNextID' = [lspNextID EXCEPT ![lspAt[c]] = lspNextID[lspAt[c]] + 1]
          /\ lspPc' = [lspPc EXCEPT ![c] = "register"] /\ UNCHANGED <<lspDoing, lspAt>>
      BY <1>3, <2>3 DEF Lsp!Check, Lsp!FreshID, Lsp!Go
    <3>2. ASSUME NEW x \in Servers, NEW d \in Callers, Asking(d, x)'
          PROVE  IF d = c THEN x = lspAt[c] /\ lspId'[d] = fresh.id
                          ELSE Asking(d, x) /\ lspId'[d] = lspId[d]
      BY <3>1, <3>2 DEF Asking, LspTypes, CallerTypes, Lsp!Actors
    <3>3. ASSUME NEW x \in Servers, NEW t \in Tokens(x)'
          PROVE  t \in Tokens(x) \/ (x = lspAt[c] /\ t = fresh)
      <4>1. CASE t \in lspPending'[x]
        BY <2>1, <4>1 DEF Tokens
      <4>2. CASE \E m \in OnTheWay(x)' : OfRequest(m) /\ t = [id |-> m.id, who |-> m.who]
        BY <1>1, <4>2
      <4>3. ASSUME NEW d \in Callers, Asking(d, x)', t = [id |-> lspId'[d], who |-> d]
            PROVE  t \in Tokens(x) \/ (x = lspAt[c] /\ t = fresh)
        BY <3>2, <4>3 DEF Tokens
      <4> QED BY <3>3, <4>1, <4>2, <4>3 DEF Tokens
    <3>4. ASSUME NEW x \in Servers
          PROVE  /\ lspNextID[x] \in Nat /\ lspNextID'[x] \in Nat /\ lspNextID'[x] >= lspNextID[x]
                 /\ x = lspAt[c] => lspNextID'[x] = fresh.id /\ fresh.id = lspNextID[x] + 1
      BY <2>1, <3>1
    <3> HIDE DEF fresh
    <3>5. ASSUME NEW x \in Servers, NEW t \in Tokens(x)' PROVE t.id \in 1..lspNextID'[x]
      <4>1. \A u \in Tokens(x) : u.id \in 1..lspNextID[x]
        BY DEF IdsAreOwn
      <4> QED BY <3>3, <3>4, <3>5, <4>1
    <3>6. ASSUME NEW x \in Servers, NEW t \in Tokens(x)', NEW u \in Tokens(x)', t.id = u.id
          PROVE  t = u
      <4>1. \A v, w \in Tokens(x) : v.id \in 1..lspNextID[x] /\ (v.id = w.id => v = w)
        BY DEF IdsAreOwn
      <4> QED BY <3>3, <3>4, <3>6, <4>1
    <3> QED BY <1>1, <3>5, <3>6 DEF IdsAreOwn
  <2> QED BY <2>2, <2>3
<1> QED BY <1>2, <1>3, NextNoNewID DEF NoNewID


\* What is told of the file, or stored of it, was under way or is of the file as it is.
VersionsMove ==
  /\ file' \in Nat /\ file' >= file
  /\ \A c \in Callers : lspTold'[c] \in {lspTold[c], file}
  /\ \A x \in Servers : stored'[x] = stored[x] \/ \E m \in OnTheWay(x) : stored'[x] = m.version

\* So it is with every step.
LEMMA NextVersionsMove ==
  ASSUME LspTypes, [Lsp!Next]_(Lsp!vars)
  PROVE  VersionsMove
<1> USE ServicesAssumption DEF LspTypes, VersionsMove, CallerTypes, ServerTypes, Lsp!Actors,
        Lsp!client, Lsp!server, Lsp!call, Lsp!process, Lsp!counts
<1>1. ASSUME NEW c \in Callers,
             Lsp!Ask(c) \/ Lsp!LockClient(c) \/ Lsp!Look(c) \/ Lsp!Launch(c)
             \/ Lsp!CannotLaunch(c) \/ Lsp!GiveUp(c) \/ Lsp!Install(c) \/ Lsp!Check(c)
             \/ Lsp!Register(c) \/ Lsp!Receive(c) \/ Lsp!Timeout(c) \/ Lsp!Drop(c)
             \/ Lsp!Poll(c)
      PROVE  VersionsMove
  BY <1>1 DEF Lsp!Ask, Lsp!Go, Lsp!LockClient, Lsp!Look, Lsp!Do, Lsp!Returns, Lsp!Launch,
     Lsp!CannotLaunch, Lsp!GiveUp, Lsp!Install, Lsp!Check, Lsp!FreshID, Lsp!Fails, Lsp!Register,
     Lsp!Receive, Lsp!Initialized, Lsp!Timeout, Lsp!Drop, Lsp!Poll
<1>2. ASSUME NEW c \in Callers, Lsp!Open(c) PROVE VersionsMove
  BY <1>2 DEF Lsp!Open, Lsp!Go, Lsp!Do
<1>3. ASSUME NEW a \in Lsp!Actors,
             Lsp!Send(a) \/ Lsp!Write(a) \/ Lsp!Close(a)
      PROVE  VersionsMove
  BY <1>3 DEF Lsp!Send, Lsp!Unsent, Lsp!Notified, Lsp!Do, Lsp!Go, Lsp!Write, Lsp!Unlock,
     Lsp!Outgoing, Lsp!Close, Lsp!MarkClosed, Lsp!Wake, Lsp!Dies
<1>4. CASE Lsp!Shutdown
  BY <1>4 DEF Lsp!Shutdown, Lsp!Do, Lsp!Go
<1>5. ASSUME NEW s \in Servers, Lsp!Read(s) \/ Lsp!Deliver(s) PROVE VersionsMove
  BY <1>5 DEF Lsp!Read, Lsp!Deliver, Lsp!AnswerOf, Lsp!Done
<1>6. ASSUME NEW s \in Servers, Lsp!StoreDiagnostics(s) PROVE VersionsMove
  BY <1>6 DEF Lsp!StoreDiagnostics, Lsp!Done, OnTheWay
<1>7. ASSUME NEW s \in Servers, Lsp!Respond(s) \/ Lsp!Responded(s) PROVE VersionsMove
  BY <1>7 DEF Lsp!Respond, Lsp!Done, Lsp!Responded, Lsp!Unlock
<1>8. ASSUME NEW s \in Servers, Lsp!LoopEnds(s) \/ Lsp!ServerFaults(s) PROVE VersionsMove
  BY <1>8 DEF Lsp!LoopEnds, Lsp!MarkClosed, Lsp!Wake, Lsp!ServerFaults, Lsp!Dies
<1>9. ASSUME NEW s \in Servers, Lsp!ServerReads(s) \/ Lsp!ServerSends(s) PROVE VersionsMove
  BY <1>9 DEF Lsp!ServerReads, Lsp!Answers, Lsp!ServerSends
<1>10. CASE Lsp!Edit
  BY <1>10 DEF Lsp!Edit
<1>11. CASE UNCHANGED Lsp!vars
  BY <1>11 DEF Lsp!vars
<1> QED BY <1>1, <1>2, <1>3, <1>4, <1>5, <1>6, <1>7, <1>8, <1>9, <1>10, <1>11
     DEF Lsp!Next, Lsp!CallStep, Lsp!StopStep, Lsp!LoopStep, Lsp!ServerStep, Lsp!Actors

\* Versions stay of the past.
LEMMA NextVersionsAreOld ==
  ASSUME LspTypes, VersionsAreOld, [Lsp!Next]_(Lsp!vars)
  PROVE  VersionsAreOld'
<1>1. VersionsMove
  BY NextVersionsMove
<1>2. /\ file \in Nat /\ \A c \in Callers : lspTold[c] \in Nat
      /\ \A x \in Servers : stored[x] \in Nat
  BY DEF LspTypes, CallerTypes, ServerTypes
<1>3. ASSUME NEW x \in Servers, NEW m \in OnTheWay(x) PROVE m.version \in Nat
  <2>1. m \in Sent \cup Handled
    BY Queues, MessageKinds, <1>3 DEF OnTheWay, LspTypes, PipeTypes
  <2> QED BY <2>1, MessageFields
<1>4. ASSUME NEW x \in Servers, NEW m \in OnTheWay(x)' PROVE m.version <= file'
  <2>1. CASE m \in OnTheWay(x)
    BY <1>1, <1>2, <1>3, <2>1 DEF VersionsMove, VersionsAreOld
  <2>2. CASE m.version = 0
    BY <1>1, <2>2 DEF VersionsMove
  <2>3. ASSUME NEW a \in Lsp!Actors, lspPc[a] = "write", m = Lsp!Outgoing(a)
        PROVE  m.version <= file'
    <3>1. m.version \in {0} \cup {lspTold[c] : c \in Callers}
      BY <2>3, OutgoingIsSent
    <3> QED BY <1>1, <1>2, <3>1 DEF VersionsMove, VersionsAreOld
  <2>4. ASSUME NEW r \in OnTheWay(x) \cap Sent, m \in Lsp!Answers(r)
        PROVE  m.version <= file'
    <3>1. m.version = r.version
      BY <2>4, AnswersAreReplies
    <3> QED BY <1>1, <1>2, <1>3, <3>1 DEF VersionsMove, VersionsAreOld
  <2> QED BY <1>4, <2>1, <2>2, <2>3, <2>4, NextGrows DEF Grows
<1>5. \A c \in Callers : lspTold'[c] <= file'
  BY <1>1, <1>2 DEF VersionsMove, VersionsAreOld
<1>6. ASSUME NEW x \in Servers PROVE stored'[x] <= file'
  <2>1. CASE stored'[x] = stored[x]
    BY <1>1, <1>2, <2>1 DEF VersionsMove, VersionsAreOld
  <2>2. ASSUME NEW m \in OnTheWay(x), stored'[x] = m.version PROVE stored'[x] <= file'
    BY <1>1, <1>2, <1>3, <2>2 DEF VersionsMove, VersionsAreOld
  <2> QED BY <1>1, <2>1, <2>2 DEF VersionsMove
<1> QED BY <1>4, <1>5, <1>6 DEF VersionsAreOld

\* Mails stay with their callers.
LEMMA NextMailIsOwn ==
  ASSUME LspTypes, IdsAreOwn, MailIsOwn, [Lsp!Next]_(Lsp!vars)
  PROVE  MailIsOwn'
<1> USE ServicesAssumption DEF LspTypes, CallerTypes, CallShape, MailIsOwn, Lsp!NobodyAssumption,
        Lsp!AppAssumption, Lsp!Actors, Lsp!Requests, Lsp!client, Lsp!server, Lsp!call, Lsp!process, Lsp!counts
<1>1. ASSUME NEW c \in Callers, Lsp!Ask(c) PROVE MailIsOwn'
  BY MessageFields, <1>1 DEF Lsp!Ask, Lsp!Go
<1>2. ASSUME NEW c \in Callers, Lsp!LockClient(c) PROVE MailIsOwn'
  BY <1>2 DEF Lsp!LockClient, Lsp!Go
<1>3. ASSUME NEW c \in Callers, Lsp!Look(c) PROVE MailIsOwn'
  BY MessageFields, <1>3 DEF Lsp!Look, Lsp!Go, Lsp!Do, Lsp!Returns
<1>4. ASSUME NEW c \in Callers, Lsp!Launch(c) PROVE MailIsOwn'
  BY <1>4 DEF Lsp!Launch, Lsp!Go, Lsp!Do
<1>5. ASSUME NEW c \in Callers, Lsp!CannotLaunch(c) PROVE MailIsOwn'
  BY <1>5 DEF Lsp!CannotLaunch, Lsp!Go
<1>6. ASSUME NEW c \in Callers, Lsp!GiveUp(c) PROVE MailIsOwn'
  BY MessageFields, <1>6 DEF Lsp!GiveUp, Lsp!Go, Lsp!Do, Lsp!Returns
<1>7. ASSUME NEW c \in Callers, Lsp!Install(c) PROVE MailIsOwn'
  BY <1>7 DEF Lsp!Install, Lsp!Go
<1>8. ASSUME NEW c \in Callers, Lsp!Open(c) PROVE MailIsOwn'
  BY <1>8 DEF Lsp!Open, Lsp!Go, Lsp!Do
<1>9. ASSUME NEW c \in Callers, Lsp!Check(c) PROVE MailIsOwn'
  BY MessageFields, <1>9 DEF Lsp!Check, Lsp!FreshID, Lsp!Fails, Lsp!Returns, Lsp!Do, Lsp!Go
<1>10. ASSUME NEW c \in Callers, Lsp!Register(c) PROVE MailIsOwn'
  BY <1>10 DEF Lsp!Register, Lsp!Go
<1>11. ASSUME NEW c \in Callers, Lsp!Receive(c) PROVE MailIsOwn'
  BY MessageFields, <1>11 DEF Lsp!Receive, Lsp!Fails, Lsp!Returns, Lsp!Initialized, Lsp!Do, Lsp!Go
<1>12. ASSUME NEW c \in Callers, Lsp!Timeout(c) PROVE MailIsOwn'
  BY <1>12 DEF Lsp!Timeout, Lsp!Go
<1>13. ASSUME NEW c \in Callers, Lsp!Drop(c) PROVE MailIsOwn'
  BY MessageFields, <1>13 DEF Lsp!Drop, Lsp!Fails, Lsp!Returns, Lsp!Do, Lsp!Go
<1>14. ASSUME NEW c \in Callers, Lsp!Poll(c) PROVE MailIsOwn'
  <2>1. PICK m : /\ m.type # "answer" /\ lspPc' = [lspPc EXCEPT ![c] = "idle"]
               /\ lspResult' = [lspResult EXCEPT ![c] = m]
    BY <1>14, MessageFields DEF Lsp!Poll, Lsp!Returns, Lsp!Do, Lsp!Go, Lsp!Message
  <2> QED BY <1>14, <2>1 DEF Lsp!Poll
<1>15. ASSUME NEW a \in Lsp!Actors, Lsp!Send(a) PROVE MailIsOwn'
  BY <1>15 DEF Lsp!Send, Lsp!Unsent, Lsp!Notified, Lsp!Do, Lsp!Go
<1>16. ASSUME NEW a \in Lsp!Actors, Lsp!Write(a) PROVE MailIsOwn'
  BY <1>16 DEF Lsp!Write, Lsp!Unlock, Lsp!Outgoing, Lsp!Unsent, Lsp!Notified, Lsp!Do, Lsp!Go
<1>17. ASSUME NEW a \in Lsp!Actors, Lsp!Close(a) PROVE MailIsOwn'
  BY MessageFields, <1>17 DEF Lsp!Close, Lsp!MarkClosed, Lsp!Wake, Lsp!Dies, Lsp!Go
<1>18. CASE Lsp!Shutdown
  BY <1>18 DEF Lsp!Shutdown, Lsp!Do, Lsp!Go
<1>19. ASSUME NEW s \in Servers,
             Lsp!Read(s) \/ Lsp!StoreDiagnostics(s) \/ Lsp!Respond(s) \/ Lsp!Responded(s)
             \/ Lsp!ServerReads(s) \/ Lsp!ServerSends(s) \/ Lsp!ServerFaults(s)
      PROVE  MailIsOwn'
  BY SMTT(20), <1>19 DEF Lsp!Read, Lsp!StoreDiagnostics, Lsp!Done, Lsp!Respond, Lsp!Responded, Lsp!Unlock,
     Lsp!ServerReads, Lsp!Answers, Lsp!ServerSends, Lsp!ServerFaults, Lsp!Dies
<1>20. ASSUME NEW s \in Servers, Lsp!Deliver(s) PROVE MailIsOwn'
  <2>1. CASE UNCHANGED lspMail
    BY <1>20, <2>1 DEF Lsp!Deliver
  <2>2. ASSUME NEW p \in Lsp!AnswerOf(s, lspHand[s]),
               lspMail' = [lspMail EXCEPT ![p.who] =
                 IF lspId[p.who] = p.id /\ lspAt[p.who] = s THEN lspHand[s] ELSE @]
        PROVE  MailIsOwn'
    <3>1. p \in Tokens(s) /\ p.id = lspHand[s].id /\ p.who \in Callers
      BY <2>2 DEF Lsp!AnswerOf, Tokens, ServerTypes
    <3>2. [id |-> lspHand[s].id, who |-> lspHand[s].who] \in Tokens(s)
      BY <1>20 DEF Lsp!Deliver, Tokens, OnTheWay, OfRequest
    <3>3. lspHand[s].who = p.who
      BY <3>1, <3>2 DEF IdsAreOwn
    <3> QED BY <1>20, <2>2, <3>1, <3>3 DEF Lsp!Deliver
  <2> QED BY <1>20, <2>1, <2>2 DEF Lsp!Deliver
<1>21. ASSUME NEW s \in Servers, Lsp!LoopEnds(s) PROVE MailIsOwn'
  BY MessageFields, <1>21 DEF Lsp!LoopEnds, Lsp!MarkClosed, Lsp!Wake
<1>22. CASE Lsp!Edit
  BY <1>22 DEF Lsp!Edit
<1>23. CASE UNCHANGED Lsp!vars
  BY <1>23 DEF Lsp!vars
<1> QED BY <1>1, <1>2, <1>3, <1>4, <1>5, <1>6, <1>7, <1>8, <1>9, <1>10, <1>11, <1>12, <1>13,
        <1>14, <1>15, <1>16, <1>17, <1>18, <1>19, <1>20, <1>21, <1>22, <1>23
     DEF Lsp!Next, Lsp!CallStep, Lsp!StopStep, Lsp!LoopStep, Lsp!ServerStep, Lsp!Actors
\* Requests stay registered until they have their answers.
LEMMA NextRequestsAreHeard ==
  ASSUME LspTypes, WriterHolds, IdsAreOwn, RequestsAreHeard, [Lsp!Next]_(Lsp!vars)
  PROVE  RequestsAreHeard'
<1> USE ServicesAssumption DEF LspTypes, CallerTypes, ServerTypes, CallShape, RequestsAreHeard,
        Lsp!NobodyAssumption, Lsp!AppAssumption, Lsp!Actors, Lsp!Requests, Lsp!client, Lsp!server, Lsp!call, Lsp!process, Lsp!counts
<1>1. ASSUME NEW c \in Callers, Lsp!Ask(c) PROVE RequestsAreHeard'
  BY <1>1 DEF Lsp!Ask, Lsp!Go
<1>2. ASSUME NEW c \in Callers, Lsp!LockClient(c) PROVE RequestsAreHeard'
  BY <1>2 DEF Lsp!LockClient, Lsp!Go
<1>3. ASSUME NEW c \in Callers, Lsp!Look(c) PROVE RequestsAreHeard'
  BY <1>3 DEF Lsp!Look, Lsp!Go, Lsp!Do, Lsp!Returns
<1>4. ASSUME NEW c \in Callers, Lsp!Launch(c) PROVE RequestsAreHeard'
  BY <1>4 DEF Lsp!Launch, Lsp!Go, Lsp!Do
<1>5. ASSUME NEW c \in Callers, Lsp!CannotLaunch(c) PROVE RequestsAreHeard'
  BY <1>5 DEF Lsp!CannotLaunch, Lsp!Go
<1>6. ASSUME NEW c \in Callers, Lsp!GiveUp(c) PROVE RequestsAreHeard'
  BY <1>6 DEF Lsp!GiveUp, Lsp!Go, Lsp!Do, Lsp!Returns
<1>7. ASSUME NEW c \in Callers, Lsp!Install(c) PROVE RequestsAreHeard'
  BY <1>7 DEF Lsp!Install, Lsp!Go
<1>8. ASSUME NEW c \in Callers, Lsp!Open(c) PROVE RequestsAreHeard'
  BY <1>8 DEF Lsp!Open, Lsp!Go, Lsp!Do
<1>9. ASSUME NEW c \in Callers, Lsp!Check(c) PROVE RequestsAreHeard'
  BY <1>9 DEF Lsp!Check, Lsp!FreshID, Lsp!Fails, Lsp!Returns, Lsp!Do, Lsp!Go
<1>10. ASSUME NEW c \in Callers, Lsp!Register(c) PROVE RequestsAreHeard'
  BY <1>10 DEF Lsp!Register, Lsp!Go
<1>11. ASSUME NEW c \in Callers, Lsp!Receive(c) PROVE RequestsAreHeard'
  BY <1>11 DEF Lsp!Receive, Lsp!Fails, Lsp!Returns, Lsp!Initialized, Lsp!Do, Lsp!Go
<1>12. ASSUME NEW c \in Callers, Lsp!Timeout(c) PROVE RequestsAreHeard'
  BY <1>12 DEF Lsp!Timeout, Lsp!Go
<1>13. ASSUME NEW c \in Callers, Lsp!Drop(c) PROVE RequestsAreHeard'
  <2>1. Asking(c, lspAt[c])
    BY <1>13 DEF Lsp!Drop, Asking
  <2>2. ASSUME NEW d \in Callers \ {c}, [id |-> lspId[d], who |-> d] \in lspPending[lspAt[d]]
        PROVE  [id |-> lspId[d], who |-> d] \in lspPending'[lspAt[d]]
    <3>1. lspAt[c] \in Servers
      BY <1>13 DEF Lsp!Drop
    <3>2. CASE lspAt[d] # lspAt[c]
      BY <1>13, <2>2, <3>2 DEF Lsp!Drop
    <3>3. CASE lspAt[d] = lspAt[c]
      <4>1. /\ [id |-> lspId[d], who |-> d] \in Tokens(lspAt[c])
            /\ [id |-> lspId[c], who |-> c] \in Tokens(lspAt[c])
        BY <2>1, <2>2, <3>3 DEF Tokens
      <4>2. lspId[d] # lspId[c]
        BY <2>2, <3>1, <4>1 DEF IdsAreOwn
      <4> QED BY <1>13, <2>2, <3>1, <3>3, <4>2 DEF Lsp!Drop
    <3> QED BY <3>2, <3>3
  <2>3. ~(lspPc'[c] \in {"send", "write", "await"} /\ lspDoing'[c] \in Lsp!Requests)
    BY <1>13 DEF Lsp!Drop, Lsp!Fails, Lsp!Returns, Lsp!Do, Lsp!Go
  <2>4. \A d \in Callers \ {c} :
          lspPc'[d] = lspPc[d] /\ lspDoing'[d] = lspDoing[d] /\ lspAt'[d] = lspAt[d]
    BY <1>13 DEF Lsp!Drop, Lsp!Fails, Lsp!Returns, Lsp!Do, Lsp!Go
  <2>5. UNCHANGED <<lspId, lspMail, lspClosed>>
    BY <1>13 DEF Lsp!Drop
  <2> QED BY <2>2, <2>3, <2>4, <2>5
<1>14. ASSUME NEW c \in Callers, Lsp!Poll(c) PROVE RequestsAreHeard'
  BY <1>14 DEF Lsp!Poll, Lsp!Returns, Lsp!Do, Lsp!Go
<1>15. ASSUME NEW a \in Lsp!Actors, Lsp!Send(a) PROVE RequestsAreHeard'
  BY <1>15 DEF Lsp!Send, Lsp!Unsent, Lsp!Notified, Lsp!Do, Lsp!Go
<1>16. ASSUME NEW a \in Lsp!Actors, Lsp!Write(a) PROVE RequestsAreHeard'
  BY <1>16 DEF Lsp!Write, Lsp!Unlock, Lsp!Outgoing, Lsp!Unsent, Lsp!Notified, Lsp!Do, Lsp!Go,
     WriterHolds
<1>17. ASSUME NEW a \in Lsp!Actors, Lsp!Close(a) PROVE RequestsAreHeard'
  <2>1. Lsp!Plain("closed") # Lsp!Nothing
    BY MessageFields
  <2>2. Lsp!Wake(lspAt[a]) /\ lspClosed' = [lspClosed EXCEPT ![lspAt[a]] = TRUE]
    BY <1>17 DEF Lsp!Close, Lsp!MarkClosed
  <2>3. ASSUME NEW d \in Callers
        PROVE  /\ lspMail[d] # Lsp!Nothing => lspMail'[d] # Lsp!Nothing
               /\ [id |-> lspId[d], who |-> d] \in lspPending[lspAt[d]] =>
                    IF lspAt[d] = lspAt[a] THEN lspMail'[d] # Lsp!Nothing
                      ELSE [id |-> lspId[d], who |-> d] \in lspPending'[lspAt[d]]
    <3>1. lspMail'[d] = IF \E p \in lspPending[lspAt[a]] : p.who = d /\ p.id = lspId[d] /\ lspAt[d] = lspAt[a]
                          THEN Lsp!Plain("closed") ELSE lspMail[d]
      BY <2>2 DEF Lsp!Wake
    <3>2. [id |-> lspId[d], who |-> d] \in lspPending[lspAt[d]] /\ lspAt[d] # lspAt[a] =>
            [id |-> lspId[d], who |-> d] \in lspPending'[lspAt[d]]
      BY <2>2 DEF Lsp!Wake
    <3> QED BY <2>1, <3>1, <3>2
  <2> QED BY <1>17, <2>2, <2>3 DEF Lsp!Close, Lsp!Go
<1>18. CASE Lsp!Shutdown
  BY <1>18 DEF Lsp!Shutdown, Lsp!Do, Lsp!Go
<1>19. ASSUME NEW s \in Servers,
             Lsp!Read(s) \/ Lsp!StoreDiagnostics(s) \/ Lsp!Respond(s) \/ Lsp!Responded(s)
             \/ Lsp!ServerReads(s) \/ Lsp!ServerSends(s) \/ Lsp!ServerFaults(s)
      PROVE  RequestsAreHeard'
  <2>1. UNCHANGED <<lspPc, lspDoing, lspAt, lspId, lspMail, lspPending, lspClosed>>
    BY <1>19 DEF Lsp!Read, Lsp!StoreDiagnostics, Lsp!Respond, Lsp!Responded, Lsp!ServerReads,
       Lsp!ServerSends, Lsp!ServerFaults
  <2> QED BY <2>1
<1>20. ASSUME NEW s \in Servers, Lsp!Deliver(s) PROVE RequestsAreHeard'
  <2>1. CASE UNCHANGED <<lspPending, lspMail>>
    BY <1>20, <2>1 DEF Lsp!Deliver
  <2>2. ASSUME NEW p \in Lsp!AnswerOf(s, lspHand[s]),
               lspPending' = [lspPending EXCEPT ![s] = @ \ {p}],
               lspMail' = [lspMail EXCEPT ![p.who] =
                 IF lspId[p.who] = p.id /\ lspAt[p.who] = s THEN lspHand[s] ELSE @]
        PROVE  RequestsAreHeard'
    <3>1. p.who \in Callers /\ lspHand[s] # Lsp!Nothing
      BY <1>20, <2>2, MessageFields DEF Lsp!Deliver, Lsp!AnswerOf
    <3>2. ASSUME NEW d \in Callers
          PROVE  /\ lspMail[d] # Lsp!Nothing => lspMail'[d] # Lsp!Nothing
                 /\ [id |-> lspId[d], who |-> d] \in lspPending[lspAt[d]] =>
                      \/ [id |-> lspId[d], who |-> d] \in lspPending'[lspAt[d]]
                      \/ lspMail'[d] # Lsp!Nothing
      BY <2>2, <3>1
    <3> QED BY <1>20, <3>2 DEF Lsp!Deliver
  <2> QED BY <1>20, <2>1, <2>2 DEF Lsp!Deliver
<1>21. ASSUME NEW s \in Servers, Lsp!LoopEnds(s) PROVE RequestsAreHeard'
  <2>1. Lsp!Plain("closed") # Lsp!Nothing
    BY MessageFields
  <2>2. Lsp!Wake(s) /\ lspClosed' = [lspClosed EXCEPT ![s] = TRUE]
    BY <1>21 DEF Lsp!LoopEnds, Lsp!MarkClosed
  <2>3. ASSUME NEW d \in Callers
        PROVE  /\ lspMail[d] # Lsp!Nothing => lspMail'[d] # Lsp!Nothing
               /\ [id |-> lspId[d], who |-> d] \in lspPending[lspAt[d]] =>
                    IF lspAt[d] = s THEN lspMail'[d] # Lsp!Nothing
                      ELSE [id |-> lspId[d], who |-> d] \in lspPending'[lspAt[d]]
    <3>1. lspMail'[d] = IF \E p \in lspPending[s] : p.who = d /\ p.id = lspId[d] /\ lspAt[d] = s
                          THEN Lsp!Plain("closed") ELSE lspMail[d]
      BY <2>2 DEF Lsp!Wake
    <3>2. [id |-> lspId[d], who |-> d] \in lspPending[lspAt[d]] /\ lspAt[d] # s =>
            [id |-> lspId[d], who |-> d] \in lspPending'[lspAt[d]]
      BY <2>2 DEF Lsp!Wake
    <3> QED BY <2>1, <3>1, <3>2
  <2> QED BY <1>21, <2>2, <2>3 DEF Lsp!LoopEnds
<1>22. CASE Lsp!Edit
  BY <1>22 DEF Lsp!Edit
<1>23. CASE UNCHANGED Lsp!vars
  BY <1>23 DEF Lsp!vars
<1> QED BY <1>1, <1>2, <1>3, <1>4, <1>5, <1>6, <1>7, <1>8, <1>9, <1>10, <1>11, <1>12, <1>13,
        <1>14, <1>15, <1>16, <1>17, <1>18, <1>19, <1>20, <1>21, <1>22, <1>23
     DEF Lsp!Next, Lsp!CallStep, Lsp!StopStep, Lsp!LoopStep, Lsp!ServerStep, Lsp!Actors

\* What happens to the input of a server, and to what is known of it.
InputMoves(x) ==
  /\ ready[x] => ready'[x]
  /\ lspProc[x] = "dead" => lspProc'[x] = "dead"
  /\ lspClosed[x] => lspClosed'[x]
  /\ \/ lspStdin'[x] = lspStdin[x]
     \/ \E e \in Sent :
          /\ lspStdin'[x] = Append(lspStdin[x], e)
          /\ e.type \in {"didOpen", "query"} =>
               \E c \in Callers : /\ lspPc[c] = "write" /\ lspAt[c] = x /\ lspDoing[c] = e.type
                                 /\ lspProc[x] # "dead"
     \/ /\ lspStdin[x] # <<>> /\ lspStdin'[x] = Tail(lspStdin[x])
        /\ Head(lspStdin[x]).type = "initialized" => ready'[x]
     \/ lspStdin'[x] = <<>> /\ lspProc'[x] = "dead"

\* So it is with every step.
LEMMA NextInputMoves ==
  ASSUME LspTypes, [Lsp!Next]_(Lsp!vars)
  PROVE  \A x \in Servers : InputMoves(x)
<1> USE ServicesAssumption DEF LspTypes, ServerTypes, PipeTypes, CallShape, InputMoves,
        Lsp!NobodyAssumption,
        Lsp!AppAssumption, Lsp!Actors, Lsp!client, Lsp!server, Lsp!call, Lsp!process, Lsp!counts
<1>1. ASSUME NEW c \in Callers,
             Lsp!Ask(c) \/ Lsp!LockClient(c) \/ Lsp!Look(c) \/ Lsp!CannotLaunch(c)
             \/ Lsp!GiveUp(c) \/ Lsp!Install(c) \/ Lsp!Open(c) \/ Lsp!Check(c)
             \/ Lsp!Register(c) \/ Lsp!Receive(c) \/ Lsp!Timeout(c) \/ Lsp!Drop(c)
             \/ Lsp!Poll(c)
      PROVE  \A x \in Servers : InputMoves(x)
  BY <1>1 DEF Lsp!Ask, Lsp!Go, Lsp!LockClient, Lsp!Look, Lsp!Do, Lsp!Returns, Lsp!CannotLaunch,
     Lsp!GiveUp, Lsp!Install, Lsp!Open, Lsp!Check, Lsp!FreshID, Lsp!Fails, Lsp!Register,
     Lsp!Receive, Lsp!Initialized, Lsp!Timeout, Lsp!Drop, Lsp!Poll
<1>2. ASSUME NEW c \in Callers, Lsp!Launch(c) PROVE \A x \in Servers : InputMoves(x)
  <2>1. PICK s \in Servers : lspProc[s] = "unused" /\ lspProc' = [lspProc EXCEPT ![s] = "running"]
    BY <1>2 DEF Lsp!Launch
  <2> QED BY <1>2, <2>1 DEF Lsp!Launch
<1>3. ASSUME NEW a \in Lsp!Actors, Lsp!Send(a) PROVE \A x \in Servers : InputMoves(x)
  BY <1>3 DEF Lsp!Send, Lsp!Unsent, Lsp!Notified, Lsp!Do, Lsp!Go
<1>4. ASSUME NEW a \in Lsp!Actors, Lsp!Write(a) PROVE \A x \in Servers : InputMoves(x)
  <2>1. /\ Lsp!Outgoing(a) \in Sent /\ Lsp!Outgoing(a).type = lspDoing[a] /\ lspAt[a] \in Servers
        /\ lspDoing[a] \in {"didOpen", "query"} => a \in Callers
    BY <1>4, OutgoingIsSent DEF Lsp!Write
  <2>2. CASE UNCHANGED lspStdin
    BY <1>4, <2>2 DEF Lsp!Write
  <2>3. CASE /\ lspProc[lspAt[a]] # "dead"
             /\ lspStdin' = [lspStdin EXCEPT ![lspAt[a]] = Append(@, Lsp!Outgoing(a))]
    <3>1. lspPc[a] = "write" /\ UNCHANGED <<ready, lspProc, lspClosed>>
      BY <1>4 DEF Lsp!Write
    <3>2. ASSUME NEW x \in Servers, x # lspAt[a] PROVE InputMoves(x)
      BY <2>1, <2>3, <3>1, <3>2
    <3>3. lspStdin'[lspAt[a]] = Append(lspStdin[lspAt[a]], Lsp!Outgoing(a))
      BY <2>1, <2>3
    <3>4. InputMoves(lspAt[a])
      BY <2>1, <2>3, <3>1, <3>3
    <3> HIDE DEF InputMoves
    <3> QED BY <3>2, <3>4
  <2> QED BY <1>4, <2>2, <2>3 DEF Lsp!Write
<1>5. ASSUME NEW a \in Lsp!Actors, Lsp!Close(a) PROVE \A x \in Servers : InputMoves(x)
  BY <1>5 DEF Lsp!Close, Lsp!MarkClosed, Lsp!Wake, Lsp!Dies, Lsp!Go
<1>6. CASE Lsp!Shutdown
  BY <1>6 DEF Lsp!Shutdown, Lsp!Do, Lsp!Go
<1>7. ASSUME NEW s \in Servers,
             Lsp!Read(s) \/ Lsp!StoreDiagnostics(s) \/ Lsp!Respond(s)
      PROVE  \A x \in Servers : InputMoves(x)
  BY <1>7 DEF Lsp!Read, Lsp!StoreDiagnostics, Lsp!Done, Lsp!Respond
<1>8. ASSUME NEW s \in Servers,
             Lsp!Deliver(s) \/ Lsp!LoopEnds(s)
      PROVE  \A x \in Servers : InputMoves(x)
  BY <1>8 DEF Lsp!Deliver, Lsp!AnswerOf, Lsp!Done, Lsp!LoopEnds, Lsp!MarkClosed, Lsp!Wake
<1>9. ASSUME NEW s \in Servers, Lsp!Responded(s) PROVE \A x \in Servers : InputMoves(x)
  <2>1. lspHand[s] \in Sent /\ lspHand[s].type = "response"
    BY <1>9, MessageKinds DEF Lsp!Responded
  <2>2. CASE UNCHANGED lspStdin
    BY <1>9, <2>2 DEF Lsp!Responded
  <2>3. CASE lspStdin' = [lspStdin EXCEPT ![s] = Append(@, lspHand[s])]
    BY <1>9, <2>1, <2>3 DEF Lsp!Responded
  <2> QED BY <1>9, <2>2, <2>3 DEF Lsp!Responded
<1>10. ASSUME NEW s \in Servers, Lsp!ServerReads(s) PROVE \A x \in Servers : InputMoves(x)
  BY <1>10 DEF Lsp!ServerReads, Lsp!Answers
<1>11. ASSUME NEW s \in Servers, Lsp!ServerSends(s) PROVE \A x \in Servers : InputMoves(x)
  BY <1>11 DEF Lsp!ServerSends
<1>12. ASSUME NEW s \in Servers, Lsp!ServerFaults(s) PROVE \A x \in Servers : InputMoves(x)
  <2>1. CASE Lsp!Dies(s)
    BY <1>12, <2>1 DEF Lsp!ServerFaults, Lsp!Dies
  <2>2. CASE UNCHANGED lspStdin
    BY <1>12, <2>2 DEF Lsp!ServerFaults, Lsp!Dies
  <2> QED BY <1>12, <2>1, <2>2 DEF Lsp!ServerFaults, Lsp!Dies
<1>13. CASE Lsp!Edit
  BY <1>13 DEF Lsp!Edit
<1>14. CASE UNCHANGED Lsp!vars
  BY <1>14 DEF Lsp!vars
<1> QED BY <1>1, <1>2, <1>3, <1>4, <1>5, <1>6, <1>7, <1>8, <1>9, <1>10, <1>11, <1>12, <1>13, <1>14
     DEF Lsp!Next, Lsp!CallStep, Lsp!StopStep, Lsp!LoopStep, Lsp!ServerStep, Lsp!Actors

\* What was announced stays announced.
LEMMA StaysAnnounced ==
  ASSUME LspTypes, NEW x \in Servers, InputMoves(x), Announced(x)
  PROVE  Announced(x)'
<1> USE DEF LspTypes, PipeTypes
<1>1. CASE ready[x] \/ lspProc[x] = "dead" \/ lspClosed[x]
  BY <1>1 DEF InputMoves, Announced
<1>2. ASSUME NEW i \in 1..Len(lspStdin[x]), lspStdin[x][i].type = "initialized"
      PROVE  Announced(x)'
  <2>1. lspStdin[x] \in Seq(Sent) /\ Len(lspStdin[x]) \in Nat
    OBVIOUS
  <2>2. CASE lspStdin'[x] = lspStdin[x]
    BY <1>2, <2>2 DEF Announced
  <2>3. ASSUME NEW e \in Sent, lspStdin'[x] = Append(lspStdin[x], e) PROVE Announced(x)'
    <3>1. i \in 1..Len(lspStdin'[x]) /\ lspStdin'[x][i] = lspStdin[x][i]
      BY <1>2, <2>1, <2>3
    <3> QED BY <1>2, <3>1 DEF Announced
  <2>4. CASE /\ lspStdin[x] # <<>> /\ lspStdin'[x] = Tail(lspStdin[x])
             /\ Head(lspStdin[x]).type = "initialized" => ready'[x]
    <3>1. CASE i = 1
      BY <1>2, <2>1, <2>4, <3>1 DEF Announced
    <3>2. CASE i # 1
      <4>1. i - 1 \in 1..Len(lspStdin'[x]) /\ lspStdin'[x][i - 1] = lspStdin[x][i]
        BY <1>2, <2>1, <2>4, <3>2
      <4> QED BY <1>2, <4>1 DEF Announced
    <3> QED BY <3>1, <3>2
  <2>5. CASE lspStdin'[x] = <<>> /\ lspProc'[x] = "dead"
    BY <2>5 DEF Announced
  <2> QED BY <2>2, <2>3, <2>4, <2>5 DEF InputMoves
<1> QED BY <1>1, <1>2 DEF Announced

\* A caller is at a server it uses.
Uses(c) == lspPc[c] \in {"install", "open"} \/ lspDoing[c] \in {"didOpen", "query"}

\* Who uses a server after a step used it before, found it in the map, or has announced it.
UsesFollow ==
  /\ \/ lspServing' \in {lspServing, NoOne}
     \/ \E c \in Callers : Uses(c) /\ lspAt[c] \in Servers /\ lspServing' = lspAt[c]
  /\ \A c \in Callers : Uses(c)' =>
       \/ lspAt'[c] = lspServing /\ lspServing # NoOne
       \/ /\ lspAt'[c] = lspAt[c] /\ lspAt[c] \in Servers
          /\ \/ Uses(c) \/ lspClosed[lspAt[c]] \/ lspProc'[lspAt[c]] = "dead"
             \/ lspStdin'[lspAt[c]] = Append(lspStdin[lspAt[c]], Lsp!Plain("initialized"))

\* So it is with every step.
LEMMA NextUsesFollow ==
  ASSUME LspTypes, [Lsp!Next]_(Lsp!vars)
  PROVE  UsesFollow
<1> USE ServicesAssumption DEF LspTypes, CallerTypes, CallShape, UsesFollow, Uses,
        Lsp!NobodyAssumption,
        Lsp!AppAssumption, Lsp!Actors, Lsp!Places, Lsp!Requests, Lsp!client, Lsp!server, Lsp!call, Lsp!process, Lsp!counts
<1>1. ASSUME NEW c \in Callers, Lsp!Ask(c) PROVE UsesFollow
  BY <1>1 DEF Lsp!Ask, Lsp!Go
<1>2. ASSUME NEW c \in Callers, Lsp!LockClient(c) PROVE UsesFollow
  BY <1>2 DEF Lsp!LockClient, Lsp!Go
<1>3. ASSUME NEW c \in Callers, Lsp!Look(c) PROVE UsesFollow
  BY SMTT(20), <1>3 DEF Lsp!Look, Lsp!Go, Lsp!Do, Lsp!Returns
<1>4. ASSUME NEW c \in Callers, Lsp!Launch(c) PROVE UsesFollow
  BY <1>4 DEF Lsp!Launch, Lsp!Go, Lsp!Do
<1>5. ASSUME NEW c \in Callers, Lsp!CannotLaunch(c) PROVE UsesFollow
  BY <1>5 DEF Lsp!CannotLaunch, Lsp!Go
<1>6. ASSUME NEW c \in Callers, Lsp!GiveUp(c) PROVE UsesFollow
  BY <1>6 DEF Lsp!GiveUp, Lsp!Go, Lsp!Do, Lsp!Returns
<1>7. ASSUME NEW c \in Callers, Lsp!Install(c) PROVE UsesFollow
  BY <1>7 DEF Lsp!Install, Lsp!Go
<1>8. ASSUME NEW c \in Callers, Lsp!Open(c) PROVE UsesFollow
  <2>1. PICK w \in {"check", "send"}, d \in {"query", "didOpen"} :
          lspPc' = [lspPc EXCEPT ![c] = w] /\ lspDoing' = [lspDoing EXCEPT ![c] = d]
    BY <1>8 DEF Lsp!Open, Lsp!Go, Lsp!Do
  <2>2. lspPc[c] = "open" /\ UNCHANGED <<lspAt, lspServing>>
    BY <1>8 DEF Lsp!Open
  <2> QED BY <2>1, <2>2
<1>9. ASSUME NEW c \in Callers, Lsp!Check(c) PROVE UsesFollow
  BY <1>9 DEF Lsp!Check, Lsp!FreshID, Lsp!Fails, Lsp!Returns, Lsp!Do, Lsp!Go
<1>10. ASSUME NEW c \in Callers, Lsp!Register(c) PROVE UsesFollow
  BY <1>10 DEF Lsp!Register, Lsp!Go
<1>11. ASSUME NEW c \in Callers, Lsp!Receive(c) PROVE UsesFollow
  <2>1. CASE lspDoing[c] = "initialize" /\ Lsp!Do(c, "shutdown", "send")
               /\ UNCHANGED <<kind, lspAt, lspResult>>
    BY <1>11, <2>1 DEF Lsp!Receive, Lsp!Do, Lsp!Go
  <2>2. CASE Lsp!Returns(c, Lsp!Nothing)
    BY <1>11, <2>2 DEF Lsp!Receive, Lsp!Returns, Lsp!Do, Lsp!Go
  <2>3. CASE Lsp!Initialized(c) /\ UNCHANGED lspAt
    BY <1>11, <2>3 DEF Lsp!Receive, Lsp!Initialized, Lsp!Do, Lsp!Go
  <2>4. CASE Lsp!Returns(c, lspMail[c])
    BY <1>11, <2>4 DEF Lsp!Receive, Lsp!Returns, Lsp!Do, Lsp!Go
  <2> QED BY <1>11, <2>1, <2>2, <2>3, <2>4 DEF Lsp!Receive, Lsp!Fails
<1>12. ASSUME NEW c \in Callers, Lsp!Timeout(c) PROVE UsesFollow
  BY <1>12 DEF Lsp!Timeout, Lsp!Go
<1>13. ASSUME NEW c \in Callers, Lsp!Drop(c) PROVE UsesFollow
  <2>1. CASE lspDoing[c] = "initialize" /\ Lsp!Do(c, "shutdown", "send")
               /\ UNCHANGED <<kind, lspAt, lspResult>>
    BY <1>13, <2>1 DEF Lsp!Drop, Lsp!Do, Lsp!Go
  <2>2. CASE Lsp!Returns(c, Lsp!Nothing)
    BY <1>13, <2>2 DEF Lsp!Drop, Lsp!Returns, Lsp!Do, Lsp!Go
  <2> QED BY <1>13, <2>1, <2>2 DEF Lsp!Drop, Lsp!Fails
<1>14. ASSUME NEW c \in Callers, Lsp!Poll(c) PROVE UsesFollow
  <2>1. /\ lspPc' = [lspPc EXCEPT ![c] = "idle"] /\ lspDoing' = [lspDoing EXCEPT ![c] = "none"]
        /\ lspAt' = [lspAt EXCEPT ![c] = NoOne] /\ UNCHANGED lspServing
    BY <1>14 DEF Lsp!Poll, Lsp!Returns, Lsp!Do, Lsp!Go
  <2> QED BY <2>1
<1>15. ASSUME NEW a \in Lsp!Actors, Lsp!Send(a) PROVE UsesFollow
  BY <1>15 DEF Lsp!Send, Lsp!Unsent, Lsp!Notified, Lsp!Do, Lsp!Go
<1>16. ASSUME NEW a \in Lsp!Actors, Lsp!Write(a) PROVE UsesFollow
  <2>1. CASE lspProc[lspAt[a]] = "dead" /\ Lsp!Unsent(a)
    BY <1>16, <2>1 DEF Lsp!Write, Lsp!Unsent, Lsp!Notified, Lsp!Do, Lsp!Go
  <2>2. CASE /\ lspStdin' = [lspStdin EXCEPT ![lspAt[a]] = Append(@, Lsp!Outgoing(a))]
             /\ lspDoing[a] \in Lsp!Requests /\ Lsp!Go(a, "await") /\ UNCHANGED lspDoing
    BY <1>16, <2>2 DEF Lsp!Write, Lsp!Go
  <2>3. CASE /\ lspStdin' = [lspStdin EXCEPT ![lspAt[a]] = Append(@, Lsp!Outgoing(a))]
             /\ lspDoing[a] \notin Lsp!Requests /\ Lsp!Notified(a)
    <3>1. lspDoing[a] = "initialized" => Lsp!Outgoing(a) = Lsp!Plain("initialized")
      BY DEF Lsp!Outgoing
    <3>2. lspAt[a] \in Servers /\ lspPc[a] = "write" /\ UNCHANGED <<lspAt, lspServing>>
      BY <1>16 DEF Lsp!Write
    <3>3. lspStdin'[lspAt[a]] = Append(lspStdin[lspAt[a]], Lsp!Outgoing(a))
      BY <2>3, <3>2 DEF PipeTypes
    <3> QED BY <2>3, <3>1, <3>2, <3>3 DEF Lsp!Notified, Lsp!Do, Lsp!Go
  <2> QED BY <1>16, <2>1, <2>2, <2>3 DEF Lsp!Write
<1>17. ASSUME NEW a \in Lsp!Actors, Lsp!Close(a) PROVE UsesFollow
  BY <1>17 DEF Lsp!Close, Lsp!MarkClosed, Lsp!Wake, Lsp!Dies, Lsp!Go
<1>18. CASE Lsp!Shutdown
  BY <1>18 DEF Lsp!Shutdown, Lsp!Do, Lsp!Go
<1>19. ASSUME NEW s \in Servers,
             Lsp!Read(s) \/ Lsp!Deliver(s) \/ Lsp!StoreDiagnostics(s) \/ Lsp!Respond(s)
             \/ Lsp!Responded(s) \/ Lsp!LoopEnds(s) \/ Lsp!ServerReads(s) \/ Lsp!ServerSends(s)
             \/ Lsp!ServerFaults(s)
      PROVE  UsesFollow
  BY <1>19 DEF Lsp!Read, Lsp!Deliver, Lsp!AnswerOf, Lsp!Done, Lsp!StoreDiagnostics, Lsp!Respond,
     Lsp!Responded, Lsp!Unlock, Lsp!LoopEnds, Lsp!MarkClosed, Lsp!Wake, Lsp!ServerReads,
     Lsp!Answers, Lsp!ServerSends, Lsp!ServerFaults, Lsp!Dies
<1>20. CASE Lsp!Edit
  BY <1>20 DEF Lsp!Edit
<1>21. CASE UNCHANGED Lsp!vars
  BY <1>21 DEF Lsp!vars, Uses
<1> QED BY <1>1, <1>2, <1>3, <1>4, <1>5, <1>6, <1>7, <1>8, <1>9, <1>10, <1>11, <1>12, <1>13,
        <1>14, <1>15, <1>16, <1>17, <1>18, <1>19, <1>20, <1>21
     DEF Lsp!Next, Lsp!CallStep, Lsp!StopStep, Lsp!LoopStep, Lsp!ServerStep, Lsp!Actors

\* Servers stay announced before they are used.
LEMMA NextServersAreAnnounced ==
  ASSUME LspTypes, WriterHolds, ServersAreAnnounced, [Lsp!Next]_(Lsp!vars)
  PROVE  ServersAreAnnounced'
<1> USE ServicesAssumption DEF Lsp!NobodyAssumption, LspTypes, PipeTypes
<1>1. \A x \in Servers : InputMoves(x)
  BY NextInputMoves
<1>2. \A x \in Servers : Announced(x) => Announced(x)'
  BY <1>1, StaysAnnounced
<1>3. UsesFollow
  BY NextUsesFollow
<1>4. lspServing \in Servers \cup {NoOne}
  BY DEF CallerTypes
<1>5. lspServing' # NoOne => Announced(lspServing)'
  BY <1>2, <1>3, <1>4 DEF UsesFollow, Uses, ServersAreAnnounced
<1>6. ASSUME NEW c \in Callers, Uses(c)' PROVE Announced(lspAt[c])'
  <2>1. CASE lspAt'[c] = lspServing /\ lspServing # NoOne
    BY <1>2, <1>4, <2>1 DEF ServersAreAnnounced
  <2>2. CASE lspAt'[c] = lspAt[c] /\ lspAt[c] \in Servers /\ Uses(c)
    BY <1>2, <2>2 DEF ServersAreAnnounced, Uses
  <2>3. CASE /\ lspAt'[c] = lspAt[c] /\ lspAt[c] \in Servers
             /\ lspClosed[lspAt[c]] \/ lspProc'[lspAt[c]] = "dead"
    BY <1>1, <2>3 DEF InputMoves, Announced
  <2>4. CASE /\ lspAt'[c] = lspAt[c] /\ lspAt[c] \in Servers
             /\ lspStdin'[lspAt[c]] = Append(lspStdin[lspAt[c]], Lsp!Plain("initialized"))
    <3>1. LET q == lspStdin'[lspAt[c]] IN Len(q) \in 1..Len(q) /\ q[Len(q)].type = "initialized"
      BY <2>4, MessageKinds, MessageFields
    <3> QED BY <2>4, <3>1 DEF Announced
  <2> QED BY <1>3, <1>6, <2>1, <2>2, <2>3, <2>4 DEF UsesFollow
<1>7. ASSUME NEW x \in Servers, NEW j \in 1..Len(lspStdin'[x]),
             lspStdin'[x][j].type \in {"didOpen", "query"}, ~ready'[x]
      PROVE  \E i \in 1..(j - 1) : lspStdin'[x][i].type = "initialized"
  <2>1. lspStdin[x] \in Seq(Sent) /\ Len(lspStdin[x]) \in Nat /\ ~ready[x]
    BY <1>1, <1>7 DEF InputMoves
  <2>2. \A k \in 1..Len(lspStdin[x]) : lspStdin[x][k].type \in {"didOpen", "query"} =>
          \E i \in 1..(k - 1) : lspStdin[x][i].type = "initialized"
    BY <2>1 DEF ServersAreAnnounced
  <2>3. CASE lspStdin'[x] = lspStdin[x]
    BY <1>7, <2>2, <2>3
  <2>4. ASSUME NEW e \in Sent, lspStdin'[x] = Append(lspStdin[x], e),
               e.type \in {"didOpen", "query"} =>
                 \E c \in Callers : /\ lspPc[c] = "write" /\ lspAt[c] = x /\ lspDoing[c] = e.type
                                   /\ lspProc[x] # "dead"
        PROVE  \E i \in 1..(j - 1) : lspStdin'[x][i].type = "initialized"
    <3>1. \A i \in 1..Len(lspStdin[x]) : lspStdin'[x][i] = lspStdin[x][i]
      BY <2>1, <2>4
    <3>2. j \in 1..(Len(lspStdin[x]) + 1)
      BY <1>7, <2>1, <2>4
    <3>3. CASE j \in 1..Len(lspStdin[x])
      <4>1. PICK i \in 1..(j - 1) : lspStdin[x][i].type = "initialized"
        BY <1>7, <2>2, <3>1, <3>3
      <4>2. i \in 1..Len(lspStdin[x])
        BY <2>1, <3>3
      <4> QED BY <3>1, <4>1, <4>2
    <3>4. CASE j = Len(lspStdin[x]) + 1
      <4>1. lspStdin'[x][j] = e
        BY <2>1, <2>4, <3>4
      <4>2. PICK c \in Callers : /\ lspPc[c] = "write" /\ lspAt[c] = x
                                 /\ lspDoing[c] \in {"didOpen", "query"} /\ lspProc[x] # "dead"
        BY <1>7, <2>4, <4>1
      <4>3. ~lspClosed[x]
        <5>1. lspMu[x] = c
          BY <4>2 DEF WriterHolds, Lsp!Actors
        <5>2. lspMu[x] # NoOne
          BY <4>2, <5>1
        <5> QED BY <5>2 DEF WriterHolds
      <4>4. Announced(x)
        BY <4>2 DEF ServersAreAnnounced
      <4>5. PICK i \in 1..Len(lspStdin[x]) : lspStdin[x][i].type = "initialized"
        BY <2>1, <4>2, <4>3, <4>4 DEF Announced
      <4>6. i \in 1..(j - 1)
        BY <2>1, <3>4
      <4> QED BY <3>1, <4>5, <4>6
    <3> QED BY <2>1, <3>2, <3>3, <3>4
  <2>5. CASE /\ lspStdin[x] # <<>> /\ lspStdin'[x] = Tail(lspStdin[x])
             /\ Head(lspStdin[x]).type = "initialized" => ready'[x]
    <3>1. \A i \in 1..Len(lspStdin'[x]) : /\ lspStdin'[x][i] = lspStdin[x][i + 1]
                                         /\ i + 1 \in 1..Len(lspStdin[x])
      BY <2>1, <2>5
    <3>2. PICK i \in 1..j : lspStdin[x][i].type = "initialized"
      BY <1>7, <2>1, <2>2, <2>5, <3>1
    <3>3. i # 1
      BY <1>7, <2>1, <2>5, <3>2
    <3>4. i - 1 \in 1..(j - 1) /\ i - 1 \in 1..Len(lspStdin'[x])
      BY <1>7, <2>1, <2>5, <3>3
    <3>5. lspStdin'[x][i - 1] = lspStdin[x][i]
      BY <3>1, <3>4
    <3> QED BY <3>2, <3>4, <3>5
  <2>6. CASE lspStdin'[x] = <<>>
    BY <1>7, <2>6
  <2> QED BY <1>1, <2>3, <2>4, <2>5, <2>6 DEF InputMoves
<1> QED BY <1>5, <1>6, <1>7 DEF ServersAreAnnounced, Uses

\* The invariant of the language servers.
LEMMA LspInvariant == ServicesSpec => []LspInv
<1>1. ServicesInit => LspInv
  BY InitLspInv DEF ServicesInit, ServicesBegin
<1>2. LspInv /\ [ServicesNext]_services => LspInv'
  BY ServicesStepOfLsp, NextCallerTypes, NextServerTypes, NextPipeTypes, NextCallShape,
     NextWriterHolds, NextIdsAreOwn, NextVersionsAreOld, NextMailIsOwn, NextRequestsAreHeard,
     NextServersAreAnnounced DEF LspInv, LspTypes
<1> QED BY <1>1, <1>2, PTL DEF ServicesSpec

\* A caller of the language server is given the answer to its own request, and nobody waits at
\* a server that is closed (call, readLoop and markClosed of lsp.go).
THEOREM AnswersAlwaysReachTheirCaller == ServicesSpec => []AnswersReachTheirCaller
<1>1. LspInv => Lsp!TypeOK
  <2> SUFFICES ASSUME LspInv PROVE Lsp!TypeOK
    OBVIOUS
  <2>1. /\ clientMu \in Callers \cup {NoOne} /\ lspServing \in Servers \cup {NoOne}
        /\ failed \in BOOLEAN
        /\ lspPc \in [Lsp!Actors -> Lsp!Places] /\ lspAt \in [Lsp!Actors -> Servers \cup {NoOne}]
        /\ \A c \in Callers : lspPc[c] = "look" <=> clientMu = c
    BY DEF LspInv, LspTypes, CallerTypes
  <2>2. ASSUME NEW s \in Servers
        PROVE  /\ \/ lspMu[s] = NoOne
                  \/ lspMu[s] \in Lsp!Actors /\ lspPc[lspMu[s]] = "write" /\ lspAt[lspMu[s]] = s
                  \/ lspMu[s] = Lsp!Loop /\ lspHand[s].type = "response"
               /\ \A p \in lspPending[s] : p.id \in 1..lspNextID[s]
               /\ stored[s] \in 0..file
               /\ Len(lspStdin[s]) <= ServerPipe /\ Len(lspStdout[s]) <= ServerPipe
    <3>1. \/ lspMu[s] = NoOne
          \/ lspMu[s] \in Lsp!Actors /\ lspPc[lspMu[s]] = "write" /\ lspAt[lspMu[s]] = s
          \/ lspMu[s] = Lsp!Loop /\ lspHand[s].type = "response"
      BY DEF LspInv, WriterHolds
    <3>2. \A p \in lspPending[s] : p.id \in 1..lspNextID[s]
      BY DEF LspInv, IdsAreOwn, Tokens
    <3>3. stored[s] \in 0..file
      BY DEF LspInv, VersionsAreOld, LspTypes, CallerTypes, ServerTypes
    <3>4. Len(lspStdin[s]) <= ServerPipe /\ Len(lspStdout[s]) <= ServerPipe
      BY DEF LspInv, LspTypes, PipeTypes
    <3> QED BY <3>1, <3>2, <3>3, <3>4
  <2> QED BY <2>1, <2>2 DEF Lsp!TypeOK
<1>2. LspInv => Lsp!AnswersAreOwn
  BY DEF LspInv, MailIsOwn, Lsp!AnswersAreOwn
<1>3. LspInv => Lsp!NobodyWaitsOnClosed
  BY DEF LspInv, LspTypes, CallShape, RequestsAreHeard, Lsp!NobodyWaitsOnClosed
<1>4. LspInv => AnswersReachTheirCaller
  BY <1>1, <1>2, <1>3 DEF AnswersReachTheirCaller
<1> QED BY <1>4, LspInvariant, PTL

\* A language server is asked nothing before it was told of the end of its handshake
\* (startServer and serverFor of lsp.go).
THEOREM HandshakeIsAlwaysFirst == ServicesSpec => HandshakeFirst
<1>1. ASSUME LspInv, [ServicesNext]_services
      PROVE  [\A s \in Servers :
                Lsp!ServerReads(s) /\ Head(lspStdin[s]).type \in {"didOpen", "query"} => ready[s]]_(Lsp!vars)
  <2>1. ASSUME NEW s \in Servers, Lsp!ServerReads(s), Head(lspStdin[s]).type \in {"didOpen", "query"}
        PROVE  ready[s]
    <3>1. lspStdin[s] \in Seq(Sent) /\ lspStdin[s] # <<>>
      BY <1>1, <2>1 DEF Lsp!ServerReads, LspInv, LspTypes, PipeTypes
    <3>2. 1 \in 1..Len(lspStdin[s]) /\ lspStdin[s][1] = Head(lspStdin[s])
      BY <3>1
    <3>3. ready[s] \/ \E i \in 1..(1 - 1) : lspStdin[s][i].type = "initialized"
      BY <1>1, <2>1, <3>2 DEF LspInv, ServersAreAnnounced
    <3> QED BY <3>3
  <2> QED BY <2>1
<1> QED BY <1>1, LspInvariant, PTL DEF ServicesSpec, HandshakeFirst, Lsp!HandshakeFirst
=============================================================================
