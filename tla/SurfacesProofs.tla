--------------------------- MODULE SurfacesProofs ---------------------------
(***************************************************************************)
(* Proofs about the memory stores and their debounced writer (StoreWriter, *)
(* MemoryStore), and about the surfaces and the ingestion (MCSurfaces):    *)
(* the requests of the browser, the agent behind an editor, the terminal   *)
(* and the browser, and the index that follows the files - for any jobs,   *)
(* requests, prompts, tabs, files, contents and bounds.                    *)
(***************************************************************************)
EXTENDS MemoryStore, MCSurfaces, Sequences, TLAPS

-----------------------------------------------------------------------------
(* The memory stores and their writer *)

\* Marked is a number: a change that is not marked yet has been made.
Changed == mutator = "changed" => version > 0

\* The one job of Shutdown: where it can be, and that nobody else is there.
ShutdownShape ==
  /\ process = "up" => \A f \in Jobs : caller[f] # "shutdown"
  /\ process = "exited" => \E f \in Jobs : job[f] = "returned"
  /\ \A f, g \in Jobs : caller[f] = "shutdown" /\ caller[g] = "shutdown" => f = g
  /\ \A f \in Jobs : caller[f] = "shutdown" => job[f] \in {"final", "returned"} \cup AtWork
  /\ \A f \in Jobs : job[f] \in {"final", "returned"} => caller[f] = "shutdown"

\* Where the process, its jobs and its contents are.
Shape == TypeOK /\ Changed /\ ShutdownShape

\* While flushes ran one at a time the marked contents are on disk, on their way,
\* or still dirty, and the file only grows.
Kept ==
  /\ \A f, g \in Working : f = g
  /\ ~dirty => \/ \E f \in Jobs : job[f] = "serialize"
               \/ \E f \in Jobs : job[f] = "write" /\ data[f] >= Marked
               \/ file >= Marked
  /\ \A f \in Jobs : job[f] = "write" => data[f] >= file

\* What Shutdown owes is on its way from its call to its return.
Owing ==
  \A f \in Jobs : caller[f] = "shutdown" =>
    /\ owed[f] <= Marked
    /\ job[f] \in {"flush", "take"} => dirty
    /\ job[f] = "write" => data[f] >= owed[f]
    /\ job[f] = "returned" => file >= owed[f] \/ failures > 0

\* What holds until two flushes overlap.
LoneInv == ~overlapped => Kept /\ Owing

\* It holds at first.
LEMMA InitShape == Init => Shape
<1> SUFFICES ASSUME Init PROVE Shape
  OBVIOUS
<1>1. 0 \in 0..version /\ 0 \in 0..MaxChanges /\ 0 \in 0..MaxCalls /\ 0 \in 0..MaxFailures
  BY BoundsAssumption DEF Init
<1>2. TypeOK
  BY <1>1, Zenon DEF Init, TypeOK, JobStates
<1>3. Changed /\ ShutdownShape
  BY DEF Init, Changed, ShutdownShape
<1> QED BY <1>2, <1>3 DEF Shape

\* Every step of a job, of the mutator or of a caller keeps the shape.
LEMMA NextShape ==
  ASSUME Shape, [Next]_vars
  PROVE  Shape'
<1> USE BoundsAssumption, JobsAssumption DEF Shape, TypeOK, Changed, ShutdownShape, JobStates, AtWork
<1>1. CASE UNCHANGED vars
  BY <1>1 DEF vars, writer, jobs, history
<1>2. CASE Change
  BY <1>2 DEF Change, writer, jobs, history
<1>3. CASE SetDirty
  BY <1>3 DEF SetDirty, jobs, history
<1>4. CASE Arm
  <2>1. CASE timer # NoJob
    BY <1>4, <2>1 DEF Arm, jobs
  <2>2. ASSUME NEW f \in Jobs, job[f] = "free", timer = NoJob, timer' = f,
               job' = [job EXCEPT ![f] = "armed"], caller' = [caller EXCEPT ![f] = "timer"],
               unretried' = FALSE, UNCHANGED <<data, owed>>
        PROVE  Shape'
    <3>1. TypeOK'
      BY <1>4, <2>2 DEF Arm
    <3>2. Changed' /\ ShutdownShape'
      BY <1>4, <2>2 DEF Arm
    <3> QED BY <3>1, <3>2
  <2> QED BY <1>4, <2>1, <2>2 DEF Arm
<1>5. ASSUME NEW f \in Jobs, Fire(f) PROVE Shape'
  BY <1>5 DEF Fire, Starts, Working, writer
<1>6. ASSUME NEW f \in Jobs, Flush(f) PROVE Shape'
  BY <1>6 DEF Flush, ClearTimer, history
<1>7. ASSUME NEW f \in Jobs, Take(f) PROVE Shape'
  <2>1. CASE dirty
    <3>1. job' = [job EXCEPT ![f] = "serialize"] /\ job[f] = "take"
      BY <1>7, <2>1 DEF Take
    <3>2. TypeOK'
      BY <1>7, <2>1, <3>1 DEF Take, history
    <3>3. Changed' /\ ShutdownShape'
      BY <1>7, <2>1, <3>1 DEF Take, history
    <3> QED BY <3>2, <3>3
  <2>2. CASE ~dirty
    BY <1>7, <2>2 DEF Take, Return, history
  <2> QED BY <2>1, <2>2
<1>8. ASSUME NEW f \in Jobs, Serialize(f) PROVE Shape'
  BY <1>8 DEF Serialize, writer, history
<1>9. ASSUME NEW f \in Jobs, Write(f) PROVE Shape'
  BY <1>9 DEF Write, KeepFlag, Return, history
<1>10. ASSUME NEW f \in Jobs, WriteFails(f) PROVE Shape'
  BY <1>10 DEF WriteFails, Return
<1>11. ASSUME NEW f \in Jobs, FlushNow(f) PROVE Shape'
  BY <1>11 DEF FlushNow, Stopped, Marked, Starts, Working
<1>12. ASSUME NEW f \in Jobs, Shutdown(f) PROVE Shape'
  BY <1>12 DEF Shutdown, Stopped, Marked, history
<1>13. ASSUME NEW f \in Jobs, Final(f) PROVE Shape'
  <2>1. overlapped' \in BOOLEAN
    BY <1>13 DEF Final, FinalFlush, Starts
  <2>2. PICK s \in {"flush", "returned"} : job' = [job EXCEPT ![f] = s]
    BY <1>13 DEF Final, FinalFlush
  <2>3. TypeOK'
    BY <1>13, <2>1, <2>2 DEF Final, writer
  <2>4. Changed' /\ ShutdownShape'
    BY <1>13, <2>2 DEF Final, writer
  <2> QED BY <2>3, <2>4
<1>14. CASE Exit
  BY <1>14 DEF Exit, writer, jobs, history
<1> QED BY <1>1, <1>2, <1>3, <1>4, <1>5, <1>6, <1>7, <1>8, <1>9, <1>10, <1>11, <1>12, <1>13, <1>14
        DEF Next, WriterStep, JobStep

\* StoreWriter keeps its types for any jobs (memory/memory/writer.go).
THEOREM WriterTypeCorrect == Spec => []TypeOK
<1>1. Shape => TypeOK
  BY DEF Shape
<1> QED BY InitShape, NextShape, <1>1, PTL DEF Spec

-----------------------------------------------------------------------------

\* Every step keeps the wake-up of a change that is not saved.
LEMMA NextWakeUp ==
  ASSUME Shape, NoWakeUpLost, [Next]_vars
  PROVE  NoWakeUpLost'
<1> USE DEF Shape, TypeOK, NoWakeUpLost, WakeUpPending
<1>1. CASE UNCHANGED vars
  BY <1>1 DEF vars, writer, jobs, history
<1>2. CASE Change
  BY <1>2 DEF Change, writer, jobs, history
<1>3. CASE SetDirty
  BY <1>3 DEF SetDirty, jobs, history
<1>4. CASE Arm
  BY <1>4 DEF Arm, jobs
<1>5. ASSUME NEW f \in Jobs, Fire(f) PROVE NoWakeUpLost'
  BY <1>5 DEF Fire, writer
<1>6. ASSUME NEW f \in Jobs, Flush(f) PROVE NoWakeUpLost'
  BY <1>6 DEF Flush, history
<1>7. ASSUME NEW f \in Jobs, Take(f) PROVE NoWakeUpLost'
  BY <1>7 DEF Take, history
<1>8. ASSUME NEW f \in Jobs, Serialize(f) PROVE NoWakeUpLost'
  BY <1>8 DEF Serialize, writer, history
<1>9. ASSUME NEW f \in Jobs, Write(f) PROVE NoWakeUpLost'
  BY <1>9 DEF Write, KeepFlag, Return, history
<1>10. ASSUME NEW f \in Jobs, WriteFails(f) PROVE NoWakeUpLost'
  BY <1>10 DEF WriteFails
<1>11. ASSUME NEW f \in Jobs, FlushNow(f) PROVE NoWakeUpLost'
  BY <1>11 DEF FlushNow, Stopped
<1>12. ASSUME NEW f \in Jobs, Shutdown(f) PROVE NoWakeUpLost'
  BY <1>12 DEF Shutdown, Stopped, history
<1>13. ASSUME NEW f \in Jobs, Final(f) PROVE NoWakeUpLost'
  BY <1>13 DEF Final, FinalFlush, writer
<1>14. CASE Exit
  BY <1>14 DEF Exit
<1> QED BY <1>1, <1>2, <1>3, <1>4, <1>5, <1>6, <1>7, <1>8, <1>9, <1>10, <1>11, <1>12, <1>13, <1>14
        DEF Next, WriterStep, JobStep

\* MarkDirty, FlushNow and Shutdown lose no wake-up between the timers they set,
\* stop and forget: a dirty store has a job that will take the flag, except after a
\* write that failed.
THEOREM WakeUpsAreKept == Spec => []NoWakeUpLost
<1>1. Init => NoWakeUpLost
  BY DEF Init, NoWakeUpLost, WakeUpPending
<1>2. Shape /\ NoWakeUpLost /\ [Next]_vars => Shape' /\ NoWakeUpLost'
  BY NextShape, NextWakeUp
<1> QED BY InitShape, <1>1, <1>2, PTL DEF Spec

-----------------------------------------------------------------------------

\* Every step keeps what a lone flush promises.
LEMMA NextLone ==
  ASSUME Shape, LoneInv, [Next]_vars
  PROVE  LoneInv'
<1> USE DEF Shape, TypeOK, Changed, LoneInv, Kept, Owing, Marked, Working, AtWork
<1>1. CASE UNCHANGED vars
  BY <1>1 DEF vars, writer, jobs, history
<1>2. CASE Change
  BY <1>2 DEF Change, writer, jobs, history
<1>3. CASE SetDirty
  BY <1>3 DEF SetDirty, jobs, history
<1>4. CASE Arm
  BY <1>4 DEF Arm, jobs, ShutdownShape
<1>5. ASSUME NEW f \in Jobs, Fire(f) PROVE LoneInv'
  <2>1. job[f] = "armed" /\ job' = [job EXCEPT ![f] = "flush"] /\ caller[f] # "shutdown"
    BY <1>5 DEF Fire, ShutdownShape
  <2>2. CASE ~overlapped'
    <3>1. ~overlapped /\ Working \ {f} = {}
      BY <1>5, <2>2 DEF Fire, Starts
    <3> QED BY <1>5, <2>1, <3>1 DEF Fire, writer
  <2> QED BY <2>2
<1>6. ASSUME NEW f \in Jobs, Flush(f) PROVE LoneInv'
  BY <1>6 DEF Flush, history
<1>7. ASSUME NEW f \in Jobs, Take(f) PROVE LoneInv'
  BY <1>7 DEF Take, Return, history, ShutdownShape
<1>8. ASSUME NEW f \in Jobs, Serialize(f) PROVE LoneInv'
  BY <1>8 DEF Serialize, writer, history
<1>9. ASSUME NEW f \in Jobs, Write(f) PROVE LoneInv'
  BY <1>9 DEF Write, KeepFlag, Return, history, ShutdownShape
<1>10. ASSUME NEW f \in Jobs, WriteFails(f) PROVE LoneInv'
  BY <1>10 DEF WriteFails, Return, ShutdownShape
<1>11. ASSUME NEW f \in Jobs, FlushNow(f) PROVE LoneInv'
  <2>1. /\ job[f] = "free" /\ job' = Stopped(f, "flush") /\ dirty'
        /\ owed' = [owed EXCEPT ![f] = Marked] /\ caller' = [caller EXCEPT ![f] = "now"]
    BY <1>11 DEF FlushNow
  <2>2. CASE ~overlapped'
    <3>1. ~overlapped /\ Working \ {f} = {}
      BY <1>11, <2>2 DEF FlushNow, Starts
    <3> QED BY <1>11, <2>1, <3>1 DEF FlushNow, Stopped, ShutdownShape
  <2> QED BY <2>2
<1>12. ASSUME NEW f \in Jobs, Shutdown(f) PROVE LoneInv'
  BY <1>12 DEF Shutdown, Stopped, history, ShutdownShape
<1>13. ASSUME NEW f \in Jobs, Final(f) PROVE LoneInv'
  <2>1. CASE dirty
    <3>1. job[f] = "final" /\ job' = [job EXCEPT ![f] = "flush"] /\ dirty'
      BY <1>13, <2>1 DEF Final, FinalFlush, writer
    <3>2. CASE ~overlapped'
      <4>1. ~overlapped /\ Working = {}
        BY <1>13, <2>1, <3>1, <3>2 DEF Final, FinalFlush, Starts
      <4> QED BY <1>13, <2>1, <3>1, <4>1 DEF Final, writer, ShutdownShape
    <3> QED BY <3>2
  <2>2. CASE ~dirty /\ ~overlapped'
    <3>1. ~overlapped /\ Working = {} /\ job' = [job EXCEPT ![f] = "returned"]
      BY <1>13, <2>2 DEF Final, FinalFlush
    <3>2. file >= Marked
      BY <2>2, <3>1
    <3> QED BY <1>13, <2>2, <3>1, <3>2 DEF Final, writer, ShutdownShape
  <2> QED BY <2>1, <2>2
<1>14. CASE Exit
  BY <1>14 DEF Exit, writer, jobs, history
<1> QED BY <1>1, <1>2, <1>3, <1>4, <1>5, <1>6, <1>7, <1>8, <1>9, <1>10, <1>11, <1>12, <1>13, <1>14
        DEF Next, WriterStep, JobStep

\* Both hold in every state of the writer.
LEMMA LoneInvariant == Spec => [](Shape /\ LoneInv)
<1>1. Init => LoneInv
  BY DEF Init, LoneInv, Kept, Owing, Marked, Working, AtWork
<1>2. Shape /\ LoneInv /\ [Next]_vars => Shape' /\ LoneInv'
  BY NextShape, NextLone
<1> QED BY InitShape, <1>1, <1>2, PTL DEF Spec

\* While flushes run one at a time, a clean store with nothing at work is saved.
THEOREM QuietIsSaved == Spec => []SavedWhenQuiet
<1>1. Shape /\ LoneInv => SavedWhenQuiet
  BY DEF Shape, TypeOK, LoneInv, Kept, Marked, Working, AtWork, SavedWhenQuiet
<1> QED BY LoneInvariant, <1>1, PTL

\* While flushes run one at a time, Shutdown leaves everything on disk that was
\* marked when it was called, unless a write failed.
THEOREM LoneShutdownSaves == Spec => []LoneShutdownSavesAll
<1>1. Shape /\ LoneInv => LoneShutdownSavesAll
  BY DEF Shape, ShutdownShape, LoneInv, Owing, LoneShutdownSavesAll, ShutdownSavesAll
<1> QED BY LoneInvariant, <1>1, PTL

-----------------------------------------------------------------------------
(* Semantic memory: a step of it is a step of its writer or none *)

\* A step of the stores is one of their writer, or leaves the writer alone.
LEMMA MemoryStepIsWriterStep ==
  ASSUME [MemoryNext]_<<vars, memory>>
  PROVE  [Next]_vars
<1>1. ASSUME NEW k \in Keys, SemanticRemove(k) \/ \E t \in Texts : SemanticAdd(k, t)
      PROVE  Change
  BY <1>1 DEF SemanticRemove, SemanticAdd
<1>2. ASSUME NEW b \in backfills, Embedded(b) PROVE Change
  BY <1>2 DEF Embedded
<1>3. ASSUME NEW b \in backfills, BackfillEnds(b) PROVE UNCHANGED vars
  BY <1>3 DEF BackfillEnds
<1>4. CallShutdown \/ WaitReturns => UNCHANGED vars
  BY DEF CallShutdown, WaitReturns
<1>5. ASSUME NEW f \in Jobs, WriterShutdown(f) PROVE Shutdown(f)
  BY <1>5 DEF WriterShutdown
<1>6. UNCHANGED <<vars, memory>> => UNCHANGED vars
  OBVIOUS
<1> QED BY <1>1, <1>2, <1>3, <1>4, <1>5, <1>6 DEF MemoryNext, Next

\* The vectors Shutdown waits for: all of them are in before the writer is shut
\* down, and the last of them is marked or its goroutine still there.
WaitShape ==
  /\ ~closing => awaited = {} /\ landed = 0 /\ process = "up"
  /\ process # "up" => waited
  /\ waited => closing /\ awaited \cap backfills = {}
  /\ landed > Marked => awaited \cap filled # {}
  /\ \A f \in Jobs : caller[f] = "shutdown" => landed <= owed[f]

\* The shape of the writer and that of who waits for it.
MemoryShape == Shape /\ MemoryTypeOK /\ WaitShape

\* It holds at first.
LEMMA InitMemoryShape == MemoryInit => MemoryShape
<1> SUFFICES ASSUME MemoryInit PROVE MemoryShape
  OBVIOUS
<1>1. Shape
  BY InitShape DEF MemoryInit
<1>2. MemoryTypeOK
  BY <1>1 DEF MemoryInit, MemoryTypeOK, Init, Shape, TypeOK
<1>3. WaitShape
  BY DEF MemoryInit, WaitShape, Init, Marked
<1> QED BY <1>1, <1>2, <1>3 DEF MemoryShape

\* A step of the writer moves neither the marks backwards nor what Shutdown owes.
LEMMA WriterStepKeepsMarks ==
  ASSUME Shape, WriterStep
  PROVE  /\ version' = version /\ Marked' >= Marked
         /\ process' = process \/ process = "stopping"
         /\ \A f \in Jobs : caller'[f] = "shutdown" => caller[f] = "shutdown" /\ owed'[f] = owed[f]
<1> USE DEF Shape, TypeOK, Changed, Marked
<1>1. CASE SetDirty
  BY <1>1 DEF SetDirty, jobs
<1>2. CASE Arm
  BY <1>2 DEF Arm, jobs
<1>3. CASE Exit
  BY <1>3 DEF Exit, jobs
<1>4. ASSUME NEW f \in Jobs, Fire(f) \/ Flush(f) \/ Serialize(f) \/ Final(f)
      PROVE  UNCHANGED <<version, caller, owed, process, mutator>>
  BY <1>4 DEF Fire, Flush, Serialize, Final, history
<1>5. ASSUME NEW f \in Jobs, Take(f) \/ Write(f) \/ WriteFails(f)
      PROVE  /\ UNCHANGED <<version, process, mutator>>
             /\ \A g \in Jobs : caller'[g] = "shutdown" => caller[g] = "shutdown" /\ owed'[g] = owed[g]
  BY <1>5 DEF Take, Write, WriteFails, Return
<1>6. ASSUME NEW f \in Jobs, FlushNow(f)
      PROVE  /\ UNCHANGED <<version, process, mutator>>
             /\ \A g \in Jobs : caller'[g] = "shutdown" => caller[g] = "shutdown" /\ owed'[g] = owed[g]
  BY <1>6 DEF FlushNow
<1> QED BY <1>1, <1>2, <1>3, <1>4, <1>5, <1>6 DEF WriterStep, JobStep

\* What is marked was counted.
LEMMA MarkedIsCounted ==
  ASSUME Shape, Shape'
  PROVE  Marked \in Nat /\ Marked' \in Nat
<1>1. version \in Nat /\ version' \in Nat
  BY BoundsAssumption DEF Shape, TypeOK
<1>2. (mutator = "changed" => version > 0) /\ (mutator' = "changed" => version' > 0)
  BY DEF Changed, Shape
<1> HIDE DEF Shape
<1>3. \A v \in Nat : v > 0 => v - 1 \in Nat
  OBVIOUS
<1> QED BY <1>1, <1>2, <1>3 DEF Marked

\* Every step keeps it.
LEMMA NextMemoryShape ==
  ASSUME MemoryShape, [MemoryNext]_<<vars, memory>>
  PROVE  MemoryShape'
<1>1. Shape'
  BY NextShape, MemoryStepIsWriterStep DEF MemoryShape
<1> USE TextsAssumption DEF MemoryShape, MemoryTypeOK, WaitShape
<1>2. CASE UNCHANGED <<vars, memory>>
  BY <1>1, <1>2 DEF vars, memory, jobs, Marked, Shape
<1>3. ASSUME NEW k \in Keys, SemanticRemove(k) PROVE MemoryShape'
  BY <1>1, <1>3 DEF SemanticRemove, Change, jobs, Marked, Shape, TypeOK
<1>4. ASSUME NEW k \in Keys, NEW t \in Texts, SemanticAdd(k, t) PROVE MemoryShape'
  <2>1. MemoryTypeOK'
    BY <1>1, <1>4 DEF SemanticAdd, Change, Shape, TypeOK
  <2>2. [key |-> k, text |-> t, change |-> version'] \notin awaited
    BY <1>4 DEF SemanticAdd, Change, Shape, TypeOK
  <2>3. WaitShape'
    BY <1>4, <2>2 DEF SemanticAdd, Change, jobs, Marked, Shape, TypeOK
  <2> QED BY <1>1, <2>1, <2>3
<1>5. ASSUME NEW b \in backfills, Embedded(b) PROVE MemoryShape'
  <2>1. MemoryTypeOK'
    BY <1>1, <1>5 DEF Embedded, Change, Shape, TypeOK
  <2>2. b \in awaited => process = "up"
    OBVIOUS
  <2>3. process = "up" => \A f \in Jobs : caller[f] # "shutdown"
    BY DEF Shape, ShutdownShape
  <2>4. WaitShape'
    BY <1>5, <2>2, <2>3 DEF Embedded, Change, jobs, Marked, Shape, TypeOK
  <2> QED BY <1>1, <2>1, <2>4
<1>6. ASSUME NEW b \in backfills, BackfillEnds(b) PROVE MemoryShape'
  BY <1>1, <1>6 DEF BackfillEnds, vars, jobs, Marked, Shape, TypeOK
<1>7. CASE CallShutdown
  BY <1>1, <1>7 DEF CallShutdown, vars, jobs, Marked, Shape, TypeOK
<1>10. CASE WaitReturns
  BY <1>1, <1>10 DEF WaitReturns, NoneUnderWay, vars, jobs, Marked, Shape, TypeOK
<1>8. ASSUME NEW f \in Jobs, WriterShutdown(f) PROVE MemoryShape'
  BY <1>1, <1>8 DEF WriterShutdown, Shutdown, memory, jobs, Marked, Shape, TypeOK,
              ShutdownShape
<1>9. CASE WriterStep /\ UNCHANGED memory
  <2>1. MemoryTypeOK'
    BY <1>1, <1>9, WriterStepKeepsMarks DEF memory, Shape
  <2>2. Marked \in Nat /\ Marked' \in Nat
    BY <1>1, MarkedIsCounted
  <2>3. WaitShape'
    BY <1>9, <2>2, WriterStepKeepsMarks DEF memory
  <2> QED BY <1>1, <2>1, <2>3
<1> QED BY <1>2, <1>3, <1>4, <1>5, <1>6, <1>7, <1>8, <1>9, <1>10 DEF MemoryNext

\* The invariants of the writer hold in every state of the stores.
LEMMA MemoryInvariant == MemorySpec => [](MemoryShape /\ LoneInv /\ NoWakeUpLost)
<1>1. MemoryInit => LoneInv /\ NoWakeUpLost
  BY DEF MemoryInit, Init, LoneInv, Kept, Owing, Marked, Working, AtWork, NoWakeUpLost,
     WakeUpPending
<1>2. ASSUME MemoryShape, LoneInv, NoWakeUpLost, [MemoryNext]_<<vars, memory>>
      PROVE  MemoryShape' /\ LoneInv' /\ NoWakeUpLost'
  BY <1>2, MemoryStepIsWriterStep, NextMemoryShape, NextLone, NextWakeUp DEF MemoryShape
<1> QED BY InitMemoryShape, <1>1, <1>2, PTL DEF MemorySpec

\* The memory keeps its types for any keys, texts and jobs (memory/memory/system.go).
THEOREM MemoryTypeCorrect == MemorySpec => []MemoryTypeOK
<1>1. MemoryShape => MemoryTypeOK
  BY DEF MemoryShape
<1> QED BY MemoryInvariant, <1>1, PTL

\* Entries that come and go and vectors that are filled in late lose no wake-up of
\* the writer, except after a write that failed.
THEOREM MemoryWakeUpsAreKept == MemorySpec => []NoWakeUpLost
BY MemoryInvariant, PTL

\* System.Shutdown leaves on disk what was marked when it shut the writer down, if
\* flushes ran one at a time and no write failed.
THEOREM MemoryShutdownSaves == MemorySpec => []LoneShutdownSavesAll
<1>1. MemoryShape /\ LoneInv => LoneShutdownSavesAll
  BY DEF MemoryShape, Shape, ShutdownShape, LoneInv, Owing, LoneShutdownSavesAll, ShutdownSavesAll
<1> QED BY MemoryInvariant, <1>1, PTL

\* Every vector that was on its way when Shutdown was called is on disk when the
\* process ends, under the same conditions.
THEOREM AwaitedVectorsLand == MemorySpec => []AwaitedVectorsAreSaved
<1>1. ASSUME MemoryShape, LoneInv, process = "exited", failures = 0, ~overlapped
      PROVE  landed <= file
  <2>1. PICK f \in Jobs : job[f] = "returned" /\ caller[f] = "shutdown"
    BY <1>1 DEF MemoryShape, Shape, ShutdownShape
  <2>2. landed <= owed[f] /\ owed[f] <= file
    BY <1>1, <2>1 DEF MemoryShape, WaitShape, LoneInv, Owing, Shape, TypeOK
  <2>3. landed \in Nat /\ owed[f] \in Nat /\ file \in Nat
    BY <1>1 DEF MemoryShape, MemoryTypeOK, TypeOK
  <2> QED BY <2>2, <2>3
<1>2. MemoryShape /\ LoneInv => AwaitedVectorsAreSaved
  BY <1>1 DEF AwaitedVectorsAreSaved
<1> QED BY MemoryInvariant, <1>2, PTL

-----------------------------------------------------------------------------
(* The terminal and the browser *)

\* A step of the surfaces is one of the GUI, or leaves it alone.
LEMMA SurfacesStepOfGui ==
  ASSUME [SurfacesNext]_surfaces
  PROVE  [Gui!Next]_(Gui!vars)
BY DEF SurfacesNext, OfChat, OfAcp, OfGui, OfIngest, surfaces, gui, Gui!vars, Gui!gui, Gui!history

\* A timer that runs is the one in guiGrace or was lost, and only a lost one runs on
\* when a tab comes back. Timers run in the browser's turns alone, and what is on the
\* channel when the main loop waits was sent in this turn.
GuiTimers ==
  /\ \A t \in Timers :
       /\ guiTimer[t] = "armed" /\ t \notin lost => grace = t /\ resume
       /\ guiTimer[t] # "unused" /\ t \in back => t \in lost
  /\ resume => main \in {"draining", "waits", "disarming"}
  /\ main = "waits" /\ switch # <<>> => sentIn = session

\* The inductive invariant of the GUI.
GuiInv == Gui!TypeOK /\ GuiTimers

\* It holds at first.
LEMMA InitGuiInv == Gui!Init => GuiInv
BY SurfacesAssumption DEF Gui!Init, GuiInv, GuiTimers, Gui!TypeOK, Gui!BoundsAssumption

\* Every step of the GUI keeps it.
LEMMA NextGuiInv ==
  ASSUME GuiInv, [Gui!Next]_(Gui!vars)
  PROVE  GuiInv'
<1> USE SurfacesAssumption DEF GuiInv, GuiTimers, Gui!TypeOK,
      Gui!NobodyAssumption, Gui!BoundsAssumption, Gui!gui, Gui!history
<1>1. CASE Gui!SwitchToGUI
  BY <1>1 DEF Gui!SwitchToGUI
<1>2. CASE Gui!Arm
  BY <1>2 DEF Gui!Arm, Gui!Stopped
<1>3. CASE Gui!Drain
  BY <1>3 DEF Gui!Drain, Gui!Drained
<1>4. CASE Gui!Receive
  BY <1>4 DEF Gui!Receive
<1>5. CASE Gui!Disarm
  BY <1>5 DEF Gui!Disarm, Gui!Stopped
<1>6. CASE Gui!Button
  BY <1>6 DEF Gui!Button, Gui!Signalled
<1>7. ASSUME NEW x \in Streams, Gui!Opens(x) PROVE GuiInv'
  <2>1. stream' = [stream EXCEPT ![x] = "opening"] /\ subs' = subs \cup {x}
    BY <1>7 DEF Gui!Opens
  <2>2. subs' = {y \in Streams : stream'[y] \in {"opening", "open"}}
    BY <2>1
  <2>3. Gui!TypeOK'
    BY <1>7, <2>2 DEF Gui!Opens
  <2>4. GuiTimers'
    BY <1>7 DEF Gui!Opens
  <2> QED BY <2>3, <2>4
<1>8. ASSUME NEW x \in Streams, Gui!Closes(x) PROVE GuiInv'
  <2>1. subs' = {y \in Streams : stream'[y] \in {"opening", "open"}}
    BY <1>8 DEF Gui!Closes, Gui!Unsubscribed
  <2>2. Gui!TypeOK'
    BY <1>8, <2>1 DEF Gui!Closes
  <2>3. GuiTimers'
    BY <1>8 DEF Gui!Closes
  <2> QED BY <2>2, <2>3
<1>9. ASSUME NEW x \in Streams, Gui!Connects(x) PROVE GuiInv'
  BY <1>9 DEF Gui!Connects, Gui!Stopped
<1>10. ASSUME NEW x \in Streams, Gui!Disconnects(x) PROVE GuiInv'
  BY <1>10 DEF Gui!Disconnects, Gui!Resumable, Gui!Stopped
<1>11. ASSUME NEW t \in Timers, Gui!Expires(t) PROVE GuiInv'
  BY <1>11 DEF Gui!Expires
<1>12. ASSUME NEW t \in Timers, Gui!Decides(t) PROVE GuiInv'
  BY <1>12 DEF Gui!Decides
<1>13. ASSUME NEW t \in Timers, Gui!Signals(t) PROVE GuiInv'
  BY <1>13 DEF Gui!Signals, Gui!Signalled
<1>14. CASE UNCHANGED Gui!vars
  BY <1>14 DEF Gui!vars
<1> QED BY <1>1, <1>2, <1>3, <1>4, <1>5, <1>6, <1>7, <1>8, <1>9, <1>10, <1>11, <1>12, <1>13, <1>14
        DEF Gui!Next, Gui!MainSteps, Gui!StreamSteps, Gui!TimerSteps

\* It holds in every state of the surfaces.
LEMMA GuiInvariant == SurfacesSpec => []GuiInv
<1>1. SurfacesInit => GuiInv
  BY InitGuiInv DEF SurfacesInit, SurfacesBegin
<1>2. GuiInv /\ [SurfacesNext]_surfaces => GuiInv'
  BY NextGuiInv, SurfacesStepOfGui
<1> QED BY <1>1, <1>2, PTL DEF SurfacesSpec

\* A reload of the page ends nothing and the terminal is left alone (session.go),
\* whenever timers run out and however long their callbacks wait for guiMu while tabs
\* come and go: but for timers that such a callback has cleared guiGrace of.
THEOREM GuiWaits == SurfacesSpec => []GuiIsPatient
<1>1. GuiInv => GuiIsPatient
  BY DEF GuiInv, GuiTimers, GuiIsPatient, Gui!ReloadIsNoEnd, Gui!CliIsLeftAlone
<1> QED BY <1>1, GuiInvariant, PTL

\* A turn of the GUI is over only by a signal of its own session (app_wireup.go).
LEMMA GuiEndsByItsOwn == SurfacesSpec => Gui!EndsByItsOwn
<1>1. ASSUME GuiInv, [SurfacesNext]_surfaces
      PROVE  [main = "waits" /\ main' = "disarming" => endedBy' = session]_(Gui!vars)
  <2> SUFFICES ASSUME Gui!Next, main = "waits", main' = "disarming" PROVE endedBy' = session
    BY <1>1, SurfacesStepOfGui
  <2>1. Gui!Receive
    BY DEF Gui!Next, Gui!MainSteps, Gui!StreamSteps, Gui!TimerSteps, Gui!SwitchToGUI, Gui!Arm,
       Gui!Drain, Gui!Disarm, Gui!Button, Gui!Opens, Gui!Closes, Gui!Connects, Gui!Disconnects,
       Gui!Expires, Gui!Decides, Gui!Signals
  <2> QED BY <1>1, <2>1 DEF Gui!Receive, GuiInv, GuiTimers
<1> QED BY <1>1, GuiInvariant, PTL DEF SurfacesSpec, Gui!EndsByItsOwn

-----------------------------------------------------------------------------
(* The agent behind an editor *)

\* A step of the surfaces is one of the agent, or leaves it alone.
LEMMA SurfacesStepOfAcp ==
  ASSUME [SurfacesNext]_surfaces
  PROVE  [Acp!Next]_(Acp!vars)
BY DEF SurfacesNext, OfChat, OfAcp, OfGui, OfIngest, surfaces, acp, Acp!vars, Acp!agent,
   Acp!prompt, Acp!editor

\* A line that is on its way: a prompt that was sent once, an answer of the editor.
LineIsSound(line) ==
  /\ line.type \in {"load", "cancel", "prompt"} => line.session \in Sessions
  /\ line.type = "prompt" => line.prompt \in Prompts /\ acpPc[line.prompt] = "sent"
  /\ line.type = "reply" =>
       line.ask \in Asks /\ line.choice # "none" /\ answer[line.ask] = line.choice

\* What waits in the input is sound, and no prompt waits twice.
InputIsSound ==
  /\ \A i \in 1..Len(input) : LineIsSound(input[i])
  /\ \A i, j \in 1..Len(input) :
       /\ input[i].type = "prompt" /\ input[j].type = "prompt"
       /\ input[i].prompt = input[j].prompt
       => i = j

\* Until a turn has its result the mark of its session is one that it was told of.
CancelIsTold ==
  \A p \in Prompts :
    /\ acpPc[p] \notin {"ending", "done"} => stop[p] = "none"
    /\ acpPc[p] \notin {"new", "sent", "started", "ending", "done"} =>
         (acpSession[p] \in cancelled => p \in told)

\* What the editor has decided is what the agent goes by.
AcpSafe ==
  /\ InputIsSound /\ CancelIsTold
  /\ \A a \in Asks : mail[a] # "none" => answer[a] = mail[a]
  /\ Acp!OnlyApprovedIsAllowed /\ Acp!CancelIsOwn
  /\ Acp!SlotsAreFreed /\ Acp!NoTurnOutlivesServe

\* The inductive invariant of the agent.
AcpInv == Acp!TypeOK /\ AcpSafe

\* It holds at first.
LEMMA InitAcpInv == Acp!Init => AcpInv
<1> SUFFICES ASSUME Acp!Init PROVE AcpInv
  OBVIOUS
<1> USE SurfacesAssumption DEF Acp!Init, Acp!BoundsAssumption
<1>1. input \in Seq(Acp!Lines) /\ Len(input) = 0
  OBVIOUS
<1>2. Acp!TypeOK
  <2>1. input \in Seq(Acp!Lines) /\ Len(input) <= Pipe
    BY <1>1
  <2>2. lines \in 0..MaxLines
    OBVIOUS
  <2>3. verdict \in [Asks -> {"none", "allow", "deny"}] /\ mail \in [Asks -> Acp!Choices \cup {"none"}]
    OBVIOUS
  <2> QED BY <2>1, <2>2, <2>3 DEF Acp!TypeOK, Acp!Places
<1>3. AcpSafe
  BY DEF AcpSafe, InputIsSound, CancelIsTold, Acp!OnlyApprovedIsAllowed, Acp!CancelIsOwn,
     Acp!SlotsAreFreed, Acp!NoTurnOutlivesServe, Acp!InFlight
<1> QED BY <1>2, <1>3 DEF AcpInv

\* A line the editor writes joins those that are on their way.
LEMMA WriteKeepsSound ==
  ASSUME Acp!TypeOK, InputIsSound, NEW line \in Acp!Lines, Acp!Write(line),
         LineIsSound(line)',
         \A l \in Acp!Lines : LineIsSound(l) => LineIsSound(l)',
         \A i \in 1..Len(input) : input[i].type = "prompt" /\ line.type = "prompt"
                                  => input[i].prompt # line.prompt
  PROVE  InputIsSound' /\ input' \in Seq(Acp!Lines) /\ Len(input') <= Pipe
<1>1. input' = Append(input, line) /\ Len(input) < Pipe /\ input \in Seq(Acp!Lines) /\ Pipe \in Nat
  BY SurfacesAssumption DEF Acp!TypeOK, Acp!Write, Acp!BoundsAssumption
<1> DEFINE n == Len(input) + 1
<1>2. /\ input' \in Seq(Acp!Lines) /\ Len(input') <= Pipe /\ Len(input') = n
      /\ input'[n] = line
      /\ \A i \in 1..n :
           \/ i \in 1..Len(input) /\ input'[i] = input[i] /\ input[i] \in Acp!Lines
           \/ i = n
  BY <1>1
<1>3. \A i \in 1..n : LineIsSound(input[i])'
  <2> TAKE i \in 1..n
  <2>1. CASE i = n
    BY <1>2, <2>1
  <2>2. ASSUME i \in 1..Len(input) PROVE LineIsSound(input[i])'
    BY <1>2, <2>2 DEF InputIsSound
  <2> QED BY <1>2, <2>1, <2>2
<1>4. InputIsSound'
  BY <1>2, <1>3 DEF InputIsSound
<1> QED BY <1>2, <1>4

\* Lines of the editor keep it.
LEMMA EditorKeepsAcpInv ==
  ASSUME AcpInv
  PROVE  /\ \A type \in {"new", "load", "cancel"}, s \in Sessions : Acp!EditorSends(type, s) => AcpInv'
         /\ \A p \in Prompts, s \in Sessions : Acp!EditorPrompts(p, s) => AcpInv'
         /\ \A a \in Asks, c \in Acp!Choices : Acp!EditorAnswers(a, c) => AcpInv'
<1> USE DEF Acp!agent, Acp!prompt, Acp!editor
<1>0. Acp!TypeOK /\ InputIsSound /\ AcpSafe
  BY DEF AcpInv, AcpSafe
<1>1. ASSUME NEW type \in {"new", "load", "cancel"}, NEW s \in Sessions, Acp!EditorSends(type, s)
      PROVE  AcpInv'
  <2> DEFINE line == Acp!Line(type, s, Nobody, Nobody, "none")
  <2>1. line \in Acp!Lines /\ line.type = type /\ line.session = s
    BY DEF Acp!Line, Acp!Lines
  <2>2. /\ Acp!Write(line) /\ lines < MaxLines /\ lines' = lines + 1
        /\ UNCHANGED <<eof, serving, acpKnown, cancelled, active, pending, mail, acpPc, acpSession, ask,
                       to, stop, asked, answer, verdict, asker, told>>
    BY <1>1 DEF Acp!EditorSends
  <2> HIDE DEF line
  <2>3. InputIsSound' /\ input' \in Seq(Acp!Lines) /\ Len(input') <= Pipe
    BY <1>0, <2>1, <2>2, WriteKeepsSound DEF LineIsSound
  <2>4. Acp!TypeOK'
    BY <1>0, <2>2, <2>3, SurfacesAssumption DEF Acp!TypeOK, Acp!BoundsAssumption
  <2>5. AcpSafe'
    BY <1>0, <2>2, <2>3 DEF AcpSafe, CancelIsTold, Acp!OnlyApprovedIsAllowed, Acp!CancelIsOwn,
       Acp!SlotsAreFreed, Acp!NoTurnOutlivesServe, Acp!InFlight
  <2> QED BY <2>4, <2>5 DEF AcpInv
<1>2. ASSUME NEW p \in Prompts, NEW s \in Sessions, Acp!EditorPrompts(p, s) PROVE AcpInv'
  <2> DEFINE line == Acp!Line("prompt", s, p, Nobody, "none")
  <2>1. line \in Acp!Lines /\ line.type = "prompt" /\ line.session = s /\ line.prompt = p
    BY DEF Acp!Line, Acp!Lines
  <2>2. /\ Acp!Write(line) /\ acpPc[p] = "new" /\ acpPc' = [acpPc EXCEPT ![p] = "sent"]
        /\ UNCHANGED <<eof, serving, acpKnown, cancelled, active, pending, mail, acpSession, ask,
                       to, stop, asked, answer, verdict, asker, lines, told>>
    BY <1>2 DEF Acp!EditorPrompts
  <2>3. acpPc \in [Prompts -> Acp!Places]
    BY <1>0 DEF Acp!TypeOK
  <2> HIDE DEF line
  <2>4. InputIsSound' /\ input' \in Seq(Acp!Lines) /\ Len(input') <= Pipe
    <3>1. \A l \in Acp!Lines : LineIsSound(l) => LineIsSound(l)'
      BY <2>2, <2>3 DEF LineIsSound
    <3>2. LineIsSound(line)'
      BY <2>1, <2>2, <2>3 DEF LineIsSound
    <3>3. \A i \in 1..Len(input) : input[i].type = "prompt" => input[i].prompt # p
      BY <1>0, <2>2 DEF InputIsSound, LineIsSound
    <3> QED BY <1>0, <2>1, <2>2, <3>1, <3>2, <3>3, WriteKeepsSound
  <2>5. Acp!TypeOK'
    BY <1>0, <2>2, <2>4 DEF Acp!TypeOK, Acp!Places
  <2>6. AcpSafe'
    BY <1>0, <2>2, <2>3, <2>4 DEF AcpSafe, CancelIsTold, Acp!OnlyApprovedIsAllowed,
       Acp!CancelIsOwn,
       Acp!SlotsAreFreed, Acp!NoTurnOutlivesServe, Acp!InFlight
  <2> QED BY <2>5, <2>6 DEF AcpInv
<1>3. ASSUME NEW a \in Asks, NEW c \in Acp!Choices, Acp!EditorAnswers(a, c) PROVE AcpInv'
  <2> DEFINE line == Acp!Line("reply", Nobody, Nobody, a, c)
  <2>1. line \in Acp!Lines /\ line.type = "reply" /\ line.ask = a /\ line.choice = c
    BY DEF Acp!Line, Acp!Lines
  <2>2. /\ Acp!Write(line) /\ answer[a] = "none" /\ answer' = [answer EXCEPT ![a] = c]
        /\ UNCHANGED <<eof, serving, acpKnown, cancelled, active, pending, mail, acpPc, acpSession, ask,
                       to, stop, asked, verdict, asker, lines, told>>
    BY <1>3 DEF Acp!EditorAnswers
  <2>3. answer \in [Asks -> Acp!Choices \cup {"none"}] /\ c # "none"
    BY <1>0 DEF Acp!TypeOK, Acp!Choices
  <2> HIDE DEF line
  <2>4. InputIsSound' /\ input' \in Seq(Acp!Lines) /\ Len(input') <= Pipe
    <3>1. \A l \in Acp!Lines : LineIsSound(l) => LineIsSound(l)'
      BY <2>2, <2>3 DEF LineIsSound
    <3>2. LineIsSound(line)'
      BY <2>1, <2>2, <2>3 DEF LineIsSound
    <3> QED BY <1>0, <2>1, <2>2, <3>1, <3>2, WriteKeepsSound
  <2>5. Acp!TypeOK'
    BY <1>0, <2>2, <2>4 DEF Acp!TypeOK
  <2>6. AcpSafe'
    BY <1>0, <2>2, <2>3, <2>4 DEF AcpSafe, CancelIsTold, Acp!OnlyApprovedIsAllowed,
       Acp!CancelIsOwn,
       Acp!SlotsAreFreed, Acp!NoTurnOutlivesServe, Acp!InFlight
  <2> QED BY <2>5, <2>6 DEF AcpInv
<1> QED BY <1>1, <1>2, <1>3

\* A prompt that gets its session keeps it.
LEMMA AddressKeepsAcpInv ==
  ASSUME AcpInv, NEW p \in Prompts, Acp!Address(p)
  PROVE  AcpInv'
<1> USE DEF Acp!agent
<1>1. Acp!TypeOK /\ AcpSafe
  BY DEF AcpInv
<1>2. /\ acpPc[p] = "running" /\ ask[p] = Nobody /\ Nobody \notin Asks
      /\ UNCHANGED <<input, eof, serving, acpKnown, cancelled, active, pending, mail, acpSession, stop,
                     asked, answer, lines, told>>
  BY <1>1, SurfacesAssumption DEF Acp!Address, Acp!TypeOK, Acp!NamesAssumption
<1>3. PICK a \in Asks :
        /\ asker' = [asker EXCEPT ![a] = p]
        /\ \/ verdict' = [verdict EXCEPT ![a] = "deny"] /\ UNCHANGED <<acpPc, ask, to>>
           \/ /\ acpPc' = [acpPc EXCEPT ![p] = "addressed"] /\ ask' = [ask EXCEPT ![p] = a]
              /\ to' = [to EXCEPT ![p] = active] /\ UNCHANGED verdict
  BY DEF Acp!Address
<1>4. Acp!TypeOK'
  BY <1>1, <1>2, <1>3 DEF Acp!TypeOK, Acp!Places
<1>5. InputIsSound' /\ CancelIsTold'
  BY <1>1, <1>2, <1>3 DEF Acp!TypeOK, AcpSafe, InputIsSound, LineIsSound, CancelIsTold
<1>6. Acp!SlotsAreFreed'
  BY <1>1, <1>2, <1>3 DEF Acp!TypeOK, AcpSafe, Acp!SlotsAreFreed
<1>7. AcpSafe'
  BY <1>1, <1>2, <1>3, <1>5, <1>6 DEF Acp!TypeOK, AcpSafe, Acp!OnlyApprovedIsAllowed,
     Acp!CancelIsOwn, Acp!NoTurnOutlivesServe, Acp!InFlight
<1> QED BY <1>4, <1>7 DEF AcpInv

\* Every step of the agent and its editor keeps it.
LEMMA NextAcpInv ==
  ASSUME AcpInv, [Acp!Next]_(Acp!vars)
  PROVE  AcpInv'
<1> USE SurfacesAssumption DEF AcpInv, AcpSafe, Acp!TypeOK, Acp!Places,
      InputIsSound, LineIsSound, CancelIsTold, Acp!OnlyApprovedIsAllowed, Acp!CancelIsOwn,
      Acp!SlotsAreFreed, Acp!NoTurnOutlivesServe, Acp!InFlight,
      Acp!NamesAssumption, Acp!BoundsAssumption, Acp!agent, Acp!prompt, Acp!editor
<1>4. CASE Acp!EditorLeaves
  BY <1>4 DEF Acp!EditorLeaves
<1>5. CASE Acp!Serve
  <2> DEFINE line == Head(input)
  <2>1. /\ input # <<>> /\ input' = Tail(input) /\ serving = "reads" /\ line = input[1]
        /\ line \in Acp!Lines /\ 1 \in 1..Len(input)
        /\ Len(input') = Len(input) - 1 /\ input' \in Seq(Acp!Lines) /\ Len(input') <= Pipe
        /\ \A i \in 1..Len(input') : input'[i] = input[i + 1] /\ i + 1 \in 1..Len(input) /\ i + 1 # 1
    BY <1>5 DEF Acp!Serve
  <2>2. UNCHANGED <<eof, serving, ask, to, stop, asked, answer, verdict, asker, lines>>
    BY <1>5 DEF Acp!Serve
  <2>3. CASE Acp!NewSession(line)
    BY <2>1, <2>2, <2>3 DEF Acp!NewSession
  <2>4. CASE Acp!LoadSession(line)
    BY <2>1, <2>2, <2>4 DEF Acp!LoadSession
  <2>5. CASE Acp!CancelSession(line)
    BY <2>1, <2>2, <2>5 DEF Acp!CancelSession
  <2>6. CASE Acp!StartPrompt(line)
    BY SMTT(20), <2>1, <2>2, <2>6 DEF Acp!StartPrompt
  <2>7. CASE Acp!Deliver(line)
    BY <2>1, <2>2, <2>7 DEF Acp!Deliver, Acp!RequestOf
  <2> QED BY <1>5, <2>3, <2>4, <2>5, <2>6, <2>7 DEF Acp!Serve
<1>6. CASE Acp!StreamEnds
  BY <1>6 DEF Acp!StreamEnds
<1>7. CASE Acp!ServeReturns
  BY <1>7 DEF Acp!ServeReturns, Acp!AllDone
<1>8. ASSUME NEW p \in Prompts, Acp!Enter(p) PROVE AcpInv'
  BY <1>8 DEF Acp!Enter, Acp!CancelCleared
<1>9. ASSUME NEW p \in Prompts, Acp!Activate(p) PROVE AcpInv'
  BY <1>9 DEF Acp!Activate
<1>11. ASSUME NEW p \in Prompts, Acp!Register(p) PROVE AcpInv'
  BY <1>11 DEF Acp!Register
<1>12. ASSUME NEW p \in Prompts, Acp!SendAsk(p) PROVE AcpInv'
  BY <1>12 DEF Acp!SendAsk
<1>13. ASSUME NEW p \in Prompts, Acp!Answered(p) PROVE AcpInv'
  BY <1>13 DEF Acp!Answered, Acp!Settled
<1>14. ASSUME NEW p \in Prompts, Acp!TimesOut(p) PROVE AcpInv'
  BY <1>14 DEF Acp!TimesOut, Acp!Settled
<1>15. ASSUME NEW p \in Prompts, Acp!Resume(p) PROVE AcpInv'
  BY <1>15 DEF Acp!Resume, Acp!SlotFreed
<1>16. ASSUME NEW p \in Prompts, Acp!Executed(p) PROVE AcpInv'
  BY <1>16 DEF Acp!Executed
<1>17. ASSUME NEW p \in Prompts, Acp!Conclude(p) PROVE AcpInv'
  BY <1>17 DEF Acp!Conclude
<1>18. ASSUME NEW p \in Prompts, Acp!Leave(p) PROVE AcpInv'
  BY <1>18 DEF Acp!Leave
<1>19. CASE UNCHANGED Acp!vars
  BY <1>19 DEF Acp!vars
<1> HIDE DEF AcpInv
<1> QED BY EditorKeepsAcpInv, AddressKeepsAcpInv, <1>4, <1>5, <1>6, <1>7, <1>8, <1>9, <1>11,
           <1>12, <1>13, <1>14, <1>15, <1>16, <1>17, <1>18, <1>19 DEF Acp!Next, Acp!AgentSteps

\* It holds in every state of the surfaces.
LEMMA AcpInvariant == SurfacesSpec => []AcpInv
<1>1. SurfacesInit => AcpInv
  BY InitAcpInv DEF SurfacesInit, SurfacesBegin
<1>2. AcpInv /\ [SurfacesNext]_surfaces => AcpInv'
  BY NextAcpInv, SurfacesStepOfAcp
<1> QED BY <1>1, <1>2, PTL DEF SurfacesSpec

\* No action goes on without the approval of the editor, no cancel reaches another turn,
\* and neither a slot nor a turn outlives its end (acp.go, permission.go), for any prompts
\* and questions and any order of lines and answers.
THEOREM TheEditorDecides == SurfacesSpec => []EditorDecides
<1>1. AcpInv => EditorDecides
  BY DEF AcpInv, AcpSafe, EditorDecides
<1> QED BY <1>1, AcpInvariant, PTL

-----------------------------------------------------------------------------
(* The requests of the browser *)

\* A step of the surfaces is one of the requests, or leaves them alone.
LEMMA SurfacesStepOfChat ==
  ASSUME [SurfacesNext]_surfaces
  PROVE  [Chat!Next]_(Chat!vars)
BY DEF SurfacesNext, OfChat, OfAcp, OfGui, OfIngest, surfaces, chat, Chat!vars, Chat!slots,
   Chat!request, Chat!watchdog, Chat!history

\* A key whose requests are young has at most one that runs, and its entry is as
\* old as that one.
YoungKeysRunOnce ==
  \A k \in RequestKeys :
    (\A r \in Posts : key[r] = k => age[r] <= TTL) =>
      \A r \in Chat!RunOf(k) :
        /\ chatEntry[k].state = "inflight" /\ chatEntry[k].at = age[r]
        /\ \A q \in Chat!RunOf(k) : q = r

\* A reply that is young is in the store.
RepliesAreKept ==
  \A r \in Posts :
    /\ chatPc[r] = "new" => key[r] = NoKey
    /\ chatPc[r] \in {"new", "entered", "opened"} => age[r] = 0
    /\ chatPc[r] # "over" => since[r] = 0
    /\ chatPc[r] = "over" /\ outcome[r] = "answer" /\ key[r] # NoKey /\ since[r] <= TTL =>
         chatEntry[key[r]].state = "done" /\ chatEntry[key[r]].at <= since[r]

\* The two halves of what the store of keys owes.
KeysAreKept == YoungKeysRunOnce /\ RepliesAreKept

\* The latest turn is heard while its context is live, and what its timer has left is
\* no less than what its silence lacks.
LatestIsHeard ==
  \A r \in Posts :
    /\ ctx[r] = "live" => chatPc[r] \in Chat!Turning /\ watch[r]
    /\ ctx[r] = "live" /\ latest = r =>
         /\ progressCh = r /\ idleTimer[r] + quiet[r] >= Silence
         /\ spoke[r] => beat[r] \/ idleTimer[r] = Silence

\* The inductive invariant of the requests.
ChatInv == Chat!TypeOK /\ KeysAreKept /\ LatestIsHeard /\ Chat!NoWedgedKey

\* It holds at first.
LEMMA InitChatInv == Chat!Init => ChatInv
<1> SUFFICES ASSUME Chat!Init PROVE ChatInv
  OBVIOUS
<1> USE SurfacesAssumption DEF Chat!Init, Chat!TimesAssumption, Chat!NamesAssumption,
      Chat!HeadersAssumption, Chat!Absent, Chat!Old, Chat!Turning, Chat!Active, Chat!RunOf
<1>1. Chat!TypeOK
  <2>1. chatEntry \in [RequestKeys -> [state : {"absent", "inflight", "done"}, at : 0..Chat!Old]]
    OBVIOUS
  <2>2. /\ idleTimer \in [Posts -> 0..Silence] /\ hardTimer \in [Posts -> 0..Hard]
        /\ age \in [Posts -> 0..Chat!Old] /\ since \in [Posts -> 0..Chat!Old]
        /\ quiet \in [Posts -> 0..Silence]
    OBVIOUS
  <2>3. /\ watch \in [Posts -> BOOLEAN] /\ beat \in [Posts -> BOOLEAN]
        /\ spoke \in [Posts -> BOOLEAN]
    OBVIOUS
  <2> QED BY <2>1, <2>2, <2>3 DEF Chat!TypeOK
<1>2. KeysAreKept /\ LatestIsHeard
  BY DEF KeysAreKept, YoungKeysRunOnce, RepliesAreKept, LatestIsHeard
<1>3. Chat!NoWedgedKey
  BY DEF Chat!NoWedgedKey
<1> QED BY <1>1, <1>2, <1>3 DEF ChatInv

\* A request that arrives keeps it.
LEMMA PostKeepsChatInv ==
  ASSUME ChatInv, NEW r \in Posts, Chat!Post(r)
  PROVE  ChatInv'
<1>0. Chat!TypeOK /\ KeysAreKept /\ LatestIsHeard /\ Chat!NoWedgedKey
  BY DEF ChatInv
<1>1. PICK k \in Headers :
        /\ chatPc[r] = "new" /\ key' = [key EXCEPT ![r] = k]
        /\ Chat!LetIn(r, k) \/ Chat!TurnAway(r, k)
  BY DEF Chat!Post
<1>2. /\ k \in RequestKeys \cup {NoKey} /\ NoKey \notin RequestKeys /\ TTL \in Nat
      /\ key[r] = NoKey /\ age[r] = 0 /\ since[r] = 0 /\ ctx[r] # "live"
      /\ \A q \in Posts : key[q] \in RequestKeys \cup {NoKey}
  BY <1>0, <1>1, SurfacesAssumption DEF Chat!HeadersAssumption, Chat!NamesAssumption,
     Chat!TimesAssumption, KeysAreKept, RepliesAreKept, LatestIsHeard, Chat!Turning, Chat!TypeOK
<1>3. UNCHANGED <<progressCh, activeChatCancel, outcome, ctx, watch, beat, idleTimer, hardTimer,
                  age, since, quiet, spoke, latest>>
  BY DEF Chat!Post, Chat!watchdog
<1>4. /\ Chat!Evicted \in [RequestKeys -> [state : {"absent", "inflight", "done"}, at : 0..Chat!Old]]
      /\ \A l \in RequestKeys :
           \/ chatEntry[l].at > TTL /\ Chat!Evicted[l] = Chat!Absent
           \/ chatEntry[l].at <= TTL /\ Chat!Evicted[l] = chatEntry[l]
  BY <1>0, <1>2 DEF Chat!Evicted, Chat!TypeOK, Chat!Absent, Chat!Old
<1>5. CASE Chat!LetIn(r, k)
  <2>1. chatPc' = [chatPc EXCEPT ![r] = "entered"]
    BY <1>5 DEF Chat!LetIn
  <2>2. /\ chatEntry' \in [RequestKeys -> [state : {"absent", "inflight", "done"}, at : 0..Chat!Old]]
        /\ k \in RequestKeys => chatEntry'[k] = [state |-> "inflight", at |-> 0]
        /\ \A l \in RequestKeys \ {k} : chatEntry'[l] = chatEntry[l] \/ chatEntry'[l] = Chat!Evicted[l]
    BY <1>0, <1>2, <1>4, <1>5 DEF Chat!LetIn, Chat!Begun, Chat!TypeOK, Chat!Old
  <2>3. k \in RequestKeys => chatEntry[k].at > TTL \/ chatEntry[k].state = "absent"
    BY <1>4, <1>5 DEF Chat!LetIn, Chat!Absent
  <2>4. Chat!TypeOK'
    BY <1>0, <1>1, <1>3, <2>1, <2>2 DEF Chat!TypeOK, Chat!Turning, Chat!Old
  <2>5. KeysAreKept'
    <3>1. ASSUME NEW l \in RequestKeys, \A q \in Posts : key'[q] = l => age'[q] <= TTL
          PROVE  \A q \in Posts : key[q] = l => age[q] <= TTL
      BY <1>0, <1>1, <1>2, <1>3, <3>1 DEF Chat!TypeOK
    <3>2. ASSUME NEW l \in RequestKeys, l = k, \A q \in Posts : key'[q] = l => age'[q] <= TTL
          PROVE  Chat!RunOf(l)' = {r}
      <4>1. Chat!RunOf(l) = {}
        BY <1>0, <1>2, <2>3, <3>1, <3>2 DEF KeysAreKept, YoungKeysRunOnce, Chat!TypeOK,
           Chat!RunOf, Chat!Active
      <4> QED BY <1>0, <1>1, <2>1, <3>2, <4>1 DEF Chat!RunOf, Chat!Active, Chat!TypeOK
    <3>3. ASSUME NEW l \in RequestKeys, l # k PROVE Chat!RunOf(l)' = Chat!RunOf(l)
      BY <1>0, <1>1, <1>2, <2>1, <3>3 DEF Chat!RunOf, Chat!Active, Chat!TypeOK
    <3>4. YoungKeysRunOnce'
      <4> SUFFICES ASSUME NEW l \in RequestKeys, \A q \in Posts : key'[q] = l => age'[q] <= TTL,
                          NEW q \in Chat!RunOf(l)'
                   PROVE  /\ chatEntry'[l].state = "inflight" /\ chatEntry'[l].at = age'[q]
                          /\ \A o \in Chat!RunOf(l)' : o = q
        BY DEF YoungKeysRunOnce
      <4>1. CASE l = k
        BY <1>2, <1>3, <2>2, <3>2, <4>1
      <4>2. CASE l # k
        <5>1. /\ chatEntry[l].state = "inflight" /\ chatEntry[l].at = age[q] /\ age[q] <= TTL
              /\ \A o \in Chat!RunOf(l) : o = q
          BY <1>0, <3>1, <3>3, <4>2 DEF KeysAreKept, YoungKeysRunOnce, Chat!RunOf, Chat!Active
        <5>2. chatEntry'[l] = chatEntry[l]
          BY <1>0, <1>2, <1>4, <2>2, <4>2, <5>1 DEF Chat!TypeOK, Chat!RunOf, Chat!Active
        <5> QED BY <1>3, <3>3, <4>2, <5>1, <5>2
      <4> QED BY <4>1, <4>2
    <3>5. RepliesAreKept'
      <4> SUFFICES ASSUME NEW q \in Posts, q # r, chatPc[q] = "over", outcome[q] = "answer",
                          key[q] # NoKey, since[q] <= TTL
                   PROVE  chatEntry'[key[q]].state = "done" /\ chatEntry'[key[q]].at <= since[q]
        BY <1>0, <1>1, <1>2, <1>3, <2>1 DEF KeysAreKept, RepliesAreKept, Chat!TypeOK
      <4>1. /\ chatEntry[key[q]].state = "done" /\ chatEntry[key[q]].at <= since[q]
            /\ key[q] \in RequestKeys /\ chatEntry[key[q]].at \in Nat /\ since[q] \in Nat
        BY <1>0, <1>2 DEF KeysAreKept, RepliesAreKept, Chat!TypeOK, Chat!Old
      <4>2. chatEntry'[key[q]] = chatEntry[key[q]]
        BY <1>2, <1>4, <2>1, <2>2, <2>3, <4>1
      <4> QED BY <4>1, <4>2
    <3> QED BY <3>4, <3>5 DEF KeysAreKept
  <2>6. LatestIsHeard'
    BY <1>0, <1>1, <1>2, <1>3, <2>1 DEF LatestIsHeard, Chat!TypeOK, Chat!Turning
  <2>7. Chat!NoWedgedKey'
    BY <1>0, <1>1, <1>2, <1>4, <2>1, <2>2
    DEF Chat!NoWedgedKey, Chat!TypeOK, Chat!RunOf, Chat!Active, Chat!Absent
  <2> QED BY <2>4, <2>5, <2>6, <2>7 DEF ChatInv
<1>6. CASE Chat!TurnAway(r, k)
  <2>1. \E end \in {"replayed", "conflict"} : chatPc' = [chatPc EXCEPT ![r] = end]
    BY <1>6 DEF Chat!TurnAway
  <2>2. chatEntry' = Chat!Evicted
    BY <1>6 DEF Chat!TurnAway
  <2>4. Chat!TypeOK'
    BY <1>0, <1>1, <1>3, <1>4, <2>1, <2>2 DEF Chat!TypeOK, Chat!Turning, Chat!Old
  <2>5. KeysAreKept'
    <3>1. ASSUME NEW l \in RequestKeys PROVE Chat!RunOf(l)' = Chat!RunOf(l)
      BY <1>0, <1>1, <1>2, <2>1 DEF Chat!RunOf, Chat!Active, Chat!Turning, Chat!TypeOK
    <3>2. YoungKeysRunOnce'
      <4> SUFFICES ASSUME NEW l \in RequestKeys, \A q \in Posts : key'[q] = l => age'[q] <= TTL,
                          NEW q \in Chat!RunOf(l)
                   PROVE  /\ chatEntry'[l].state = "inflight" /\ chatEntry'[l].at = age'[q]
                          /\ \A o \in Chat!RunOf(l) : o = q
        BY <3>1 DEF YoungKeysRunOnce
      <4>1. \A o \in Posts : key[o] = l => age[o] <= TTL
        BY <1>0, <1>1, <1>2, <1>3 DEF Chat!TypeOK
      <4>2. /\ chatEntry[l].state = "inflight" /\ chatEntry[l].at = age[q] /\ age[q] <= TTL
            /\ \A o \in Chat!RunOf(l) : o = q
        BY <1>0, <4>1 DEF KeysAreKept, YoungKeysRunOnce, Chat!RunOf, Chat!Active
      <4>3. chatEntry'[l] = chatEntry[l]
        BY <1>0, <1>2, <1>4, <2>2, <4>2 DEF Chat!TypeOK, Chat!RunOf, Chat!Active
      <4> QED BY <1>3, <4>2, <4>3
    <3>3. RepliesAreKept'
      <4> SUFFICES ASSUME NEW q \in Posts, q # r, chatPc[q] = "over", outcome[q] = "answer",
                          key[q] # NoKey, since[q] <= TTL
                   PROVE  chatEntry'[key[q]].state = "done" /\ chatEntry'[key[q]].at <= since[q]
        BY <1>0, <1>1, <1>2, <1>3, <2>1 DEF KeysAreKept, RepliesAreKept, Chat!TypeOK
      <4>1. /\ chatEntry[key[q]].state = "done" /\ chatEntry[key[q]].at <= since[q]
            /\ key[q] \in RequestKeys /\ chatEntry[key[q]].at \in Nat /\ since[q] \in Nat
        BY <1>0, <1>2 DEF KeysAreKept, RepliesAreKept, Chat!TypeOK, Chat!Old
      <4>2. chatEntry'[key[q]] = chatEntry[key[q]]
        BY <1>2, <1>4, <2>1, <2>2, <4>1
      <4> QED BY <4>1, <4>2
    <3> QED BY <3>2, <3>3 DEF KeysAreKept
  <2>6. LatestIsHeard'
    BY <1>0, <1>1, <1>2, <1>3, <2>1 DEF LatestIsHeard, Chat!TypeOK, Chat!Turning
  <2>7. Chat!NoWedgedKey'
    BY <1>0, <1>1, <1>2, <1>4, <2>1, <2>2
    DEF Chat!NoWedgedKey, Chat!TypeOK, Chat!RunOf, Chat!Active, Chat!Absent
  <2> QED BY <2>4, <2>5, <2>6, <2>7 DEF ChatInv
<1> QED BY <1>1, <1>5, <1>6

\* Every step of the requests keeps it.
LEMMA NextChatInv ==
  ASSUME ChatInv, [Chat!Next]_(Chat!vars)
  PROVE  ChatInv'
<1> USE SurfacesAssumption DEF ChatInv, Chat!TimesAssumption, Chat!NamesAssumption,
      Chat!HeadersAssumption, Chat!Absent, Chat!Old, Chat!Turning, Chat!Active, Chat!RunOf,
      Chat!TypeOK, KeysAreKept, YoungKeysRunOnce, RepliesAreKept, LatestIsHeard, Chat!NoWedgedKey,
      Chat!slots, Chat!request, Chat!watchdog, Chat!history
<1>2. ASSUME NEW r \in Posts, Chat!Settle(r) PROVE ChatInv'
  <2>1. /\ chatPc[r] = "handled" /\ chatPc' = [chatPc EXCEPT ![r] = "over"]
        /\ UNCHANGED <<progressCh, activeChatCancel, key, outcome, ctx, watch, beat, idleTimer,
                       hardTimer, age, since, quiet, spoke, latest>>
    BY <1>2 DEF Chat!Settle
  <2>2. /\ chatEntry' \in [RequestKeys -> [state : {"absent", "inflight", "done"}, at : 0..(TTL + 1)]]
        /\ \A l \in RequestKeys : chatEntry'[l] =
             IF l # key[r] THEN chatEntry[l]
             ELSE IF outcome[r] # "panic" THEN [state |-> "done", at |-> 0]
             ELSE IF chatEntry[l].state = "inflight" THEN Chat!Absent ELSE chatEntry[l]
    BY <1>2 DEF Chat!Settle, Chat!Aborted, Chat!Completed
  <2>3. Chat!TypeOK'
    BY <2>1, <2>2
  <2>4. KeysAreKept'
    BY SMTT(20), <2>1, <2>2
  <2>5. LatestIsHeard'
    BY <2>1
  <2>6. Chat!NoWedgedKey'
    BY SMTT(20), <2>1, <2>2
  <2> QED BY <2>3, <2>4, <2>5, <2>6
<1>3. ASSUME NEW r \in Posts, Chat!Refuse(r) PROVE ChatInv'
  <2>1. PICK how \in {"answer", "panic"} :
          /\ chatPc[r] = "entered" /\ chatPc' = [chatPc EXCEPT ![r] = "handled"]
          /\ outcome' = [outcome EXCEPT ![r] = how]
          /\ UNCHANGED <<chatEntry, progressCh, activeChatCancel, key, ctx, watch, beat, idleTimer,
                         hardTimer, age, since, quiet, spoke, latest>>
    BY <1>3 DEF Chat!Refuse
  <2>2. Chat!TypeOK'
    BY <2>1
  <2>3. KeysAreKept'
    BY <2>1
  <2>4. LatestIsHeard' /\ Chat!NoWedgedKey'
    BY <2>1
  <2> QED BY <2>2, <2>3, <2>4
<1>4. ASSUME NEW r \in Posts, Chat!Open(r) PROVE ChatInv'
  <2>1. Chat!TypeOK'
    BY <1>4 DEF Chat!Open
  <2>2. KeysAreKept'
    BY <1>4 DEF Chat!Open
  <2>3. LatestIsHeard'
    BY <1>4 DEF Chat!Open
  <2>4. Chat!NoWedgedKey'
    BY <1>4 DEF Chat!Open
  <2> QED BY <2>1, <2>2, <2>3, <2>4
<1>5. ASSUME NEW r \in Posts, Chat!Publish(r) PROVE ChatInv'
  BY <1>5 DEF Chat!Publish
<1>6. ASSUME NEW r \in Posts, Chat!Emit(r) PROVE ChatInv'
  BY <1>6 DEF Chat!Emit, Chat!Heard
<1>7. ASSUME NEW r \in Posts, Chat!Return(r) PROVE ChatInv'
  BY <1>7 DEF Chat!Return
<1>8. ASSUME NEW r \in Posts, Chat!ClearCancel(r) PROVE ChatInv'
  BY <1>8 DEF Chat!ClearCancel
<1>9. ASSUME NEW r \in Posts, Chat!Close(r) PROVE ChatInv'
  BY <1>9 DEF Chat!Close, Chat!Detached
<1>10. CASE Chat!Stop
  BY <1>10 DEF Chat!Stop, Chat!Detached, Chat!Cancelled
<1>11. ASSUME NEW r \in Posts, Chat!Watch(r) PROVE ChatInv'
  <2>1. UNCHANGED <<chatEntry, progressCh, activeChatCancel, chatPc, key, outcome, age, since, quiet,
                    spoke, latest>>
    BY <1>11 DEF Chat!Watch
  <2>2. CASE Chat!Leave(r)
    BY <2>1, <2>2 DEF Chat!Leave, Chat!Gone
  <2>3. CASE Chat!OutOfTime(r) \/ Chat!Stuck(r)
    <3>0. /\ ctx' \in [Posts -> {"none", "live", "over", "stopped", "hard", "stuck"}]
          /\ ctx'[r] # "live" /\ \A q \in Posts \ {r} : ctx'[q] = ctx[q]
          /\ watch' = [watch EXCEPT ![r] = FALSE] /\ beat' = [beat EXCEPT ![r] = FALSE]
          /\ idleTimer' = [idleTimer EXCEPT ![r] = 0] /\ hardTimer' = [hardTimer EXCEPT ![r] = 0]
      BY <2>3 DEF Chat!OutOfTime, Chat!Stuck, Chat!Expire, Chat!Gone, Chat!Cancelled
    <3>1. Chat!TypeOK'
      BY <2>1, <3>0
    <3>2. LatestIsHeard'
      BY <2>1, <3>0
    <3>3. KeysAreKept' /\ Chat!NoWedgedKey'
      BY <2>1
    <3> QED BY <3>1, <3>2, <3>3
  <2>4. CASE Chat!Reset(r)
    BY <2>1, <2>4 DEF Chat!Reset
  <2> QED BY <1>11, <2>2, <2>3, <2>4 DEF Chat!Watch
<1>12. CASE Chat!Tick
  <2>1. /\ UNCHANGED <<progressCh, activeChatCancel, chatPc, key, outcome, ctx, watch, beat, latest>>
        /\ \A r \in Posts : chatPc[r] \notin {"entered", "opened", "returned", "cleared", "handled"}
    BY <1>12 DEF Chat!Tick, Chat!Passing
  <2>2. /\ chatEntry' \in [RequestKeys -> [state : {"absent", "inflight", "done"}, at : 0..(TTL + 1)]]
        /\ \A k \in RequestKeys :
             /\ chatEntry'[k].state = chatEntry[k].state
             /\ chatEntry[k].state # "absent" =>
                  chatEntry'[k].at = IF chatEntry[k].at < TTL + 1 THEN chatEntry[k].at + 1 ELSE TTL + 1
    BY <1>12 DEF Chat!Tick, Chat!Later
  <2>3. /\ age' \in [Posts -> 0..(TTL + 1)] /\ since' \in [Posts -> 0..(TTL + 1)]
        /\ \A r \in Posts :
             /\ age'[r] = IF chatPc[r] = "running"
                          THEN IF age[r] < TTL + 1 THEN age[r] + 1 ELSE TTL + 1 ELSE age[r]
             /\ since'[r] = IF chatPc[r] = "over"
                            THEN IF since[r] < TTL + 1 THEN since[r] + 1 ELSE TTL + 1 ELSE since[r]
    BY <1>12 DEF Chat!Tick, Chat!Later
  <2>4. /\ idleTimer' \in [Posts -> 0..Silence] /\ hardTimer' \in [Posts -> 0..Hard]
        /\ quiet' \in [Posts -> 0..Silence] /\ spoke' \in [Posts -> BOOLEAN]
    BY <1>12 DEF Chat!Tick, Chat!Later, Chat!Sooner, Chat!Elapse
  <2>5. Chat!TypeOK'
    BY <2>1, <2>2, <2>3, <2>4
  <2>6. KeysAreKept'
    <3>1. YoungKeysRunOnce'
      <4> SUFFICES ASSUME NEW k \in RequestKeys, \A q \in Posts : key[q] = k => age'[q] <= TTL,
                          NEW r \in Chat!RunOf(k)
                   PROVE  /\ chatEntry'[k].state = "inflight" /\ chatEntry'[k].at = age'[r]
                          /\ \A q \in Chat!RunOf(k) : q = r
        BY <2>1
      <4>1. \A q \in Posts : key[q] = k => age[q] <= TTL
        BY <2>3
      <4>2. /\ chatEntry[k].state = "inflight" /\ chatEntry[k].at = age[r]
            /\ \A q \in Chat!RunOf(k) : q = r
        BY <4>1
      <4>3. chatPc[r] = "running" /\ r \in Posts
        BY <2>1
      <4> QED BY SMTT(20), <2>2, <2>3, <4>2, <4>3
    <3>2. RepliesAreKept'
      BY SMTT(20), <2>1, <2>2, <2>3
    <3> QED BY <3>1, <3>2
  <2>7. LatestIsHeard'
    <3> SUFFICES ASSUME NEW r \in Posts, ctx[r] = "live", latest = r
                 PROVE  idleTimer'[r] + quiet'[r] >= Silence
      BY <1>12, <2>1 DEF Chat!Tick
    <3>1. chatPc[r] = "running" /\ watch[r] /\ ~beat[r] /\ idleTimer[r] > 0
      BY <1>12, <2>1 DEF Chat!Tick, Chat!HasWork
    <3>2. /\ idleTimer'[r] = idleTimer[r] - 1
          /\ quiet'[r] = IF spoke[r] THEN 1 ELSE IF quiet[r] < Silence THEN quiet[r] + 1 ELSE Silence
      BY <1>12, <3>1 DEF Chat!Tick, Chat!Later, Chat!Sooner, Chat!Elapse
    <3> QED BY <3>1, <3>2
  <2>8. Chat!NoWedgedKey'
    BY <2>1, <2>2
  <2> QED BY <2>5, <2>6, <2>7, <2>8
<1>13. CASE UNCHANGED Chat!vars
  BY <1>13 DEF Chat!vars
<1> HIDE DEF ChatInv
<1> QED BY PostKeepsChatInv, <1>2, <1>3, <1>4, <1>5, <1>6, <1>7, <1>8, <1>9, <1>10, <1>11, <1>12,
           <1>13 DEF Chat!Next

\* It holds in every state of the surfaces.
LEMMA ChatInvariant == SurfacesSpec => []ChatInv
<1>1. SurfacesInit => ChatInv
  BY InitChatInv DEF SurfacesInit, SurfacesBegin
<1>2. ChatInv /\ [SurfacesNext]_surfaces => ChatInv'
  BY NextChatInv, SurfacesStepOfChat
<1> QED BY <1>1, <1>2, PTL DEF SurfacesSpec

\* Requests of one key run once, and none leaves its key wedged (idempotency.go), for any
\* requests, keys and time to live.
THEOREM RequestsSettle == SurfacesSpec => []RequestsAreSettled
<1>1. ChatInv => Chat!RunsOnce
  BY DEF ChatInv, KeysAreKept, YoungKeysRunOnce, Chat!RunsOnce
<1>2. ChatInv => RequestsAreSettled
  BY <1>1 DEF ChatInv, RequestsAreSettled
<1> QED BY <1>2, ChatInvariant, PTL

\* A request that was answered is replayed to its retry until the answer is too old
\* (idempotency.go), for any requests, keys and time to live.
THEOREM ChatReplays == SurfacesSpec => RetriesAreReplayed
<1>1. ASSUME ChatInv, [SurfacesNext]_surfaces
      PROVE  [\A r, q \in Posts :
                chatPc[q] = "new" /\ chatPc'[q] = "entered" /\ key'[q] # NoKey /\ key[r] = key'[q]
                /\ chatPc[r] = "over" /\ outcome[r] = "answer" => since[r] > TTL]_(Chat!vars)
  <2> SUFFICES ASSUME Chat!Next, NEW r \in Posts, NEW q \in Posts,
                      chatPc[q] = "new", chatPc'[q] = "entered", key'[q] # NoKey,
                      key[r] = key'[q], chatPc[r] = "over", outcome[r] = "answer"
               PROVE  since[r] > TTL
    BY <1>1, SurfacesStepOfChat
  <2>1. Chat!Post(q)
    <3>1. chatPc \in [Posts -> Chat!Turning \cup
            {"new", "entered", "handled", "over", "replayed", "conflict"}]
      BY <1>1 DEF ChatInv, Chat!TypeOK
    <3>2. ASSUME NEW o \in Posts, Chat!Refuse(o) \/ Chat!Open(o) \/ Chat!Publish(o) \/ Chat!Return(o)
                                  \/ Chat!ClearCancel(o) \/ Chat!Close(o) \/ Chat!Settle(o)
          PROVE  FALSE
      BY <3>1, <3>2 DEF Chat!Refuse, Chat!Open, Chat!Publish, Chat!Return, Chat!ClearCancel,
         Chat!Close, Chat!Settle
    <3>3. ASSUME NEW o \in Posts, Chat!Emit(o) \/ Chat!Watch(o) PROVE FALSE
      BY <3>3 DEF Chat!Emit, Chat!Watch, Chat!request
    <3>4. ~Chat!Stop /\ ~Chat!Tick
      BY DEF Chat!Stop, Chat!Tick, Chat!request
    <3>5. ASSUME NEW o \in Posts, Chat!Post(o), o # q PROVE FALSE
      <4>1. \E at : chatPc' = [chatPc EXCEPT ![o] = at]
        BY <3>5 DEF Chat!Post, Chat!LetIn, Chat!TurnAway
      <4> QED BY <3>1, <3>5, <4>1
    <3> QED BY <3>2, <3>3, <3>4, <3>5 DEF Chat!Next
  <2> USE SurfacesAssumption DEF Chat!TimesAssumption, Chat!HeadersAssumption
  <2>2. key'[q] \in RequestKeys /\ Chat!Evicted[key'[q]] = Chat!Absent
    BY <1>1, <2>1 DEF Chat!Post, Chat!LetIn, Chat!TurnAway, ChatInv, Chat!TypeOK
  <2>3. ~(since[r] <= TTL)
    BY <1>1, <2>2 DEF ChatInv, Chat!TypeOK, KeysAreKept, RepliesAreKept, Chat!Evicted, Chat!Absent
  <2> QED BY <1>1, <2>3 DEF ChatInv, Chat!TypeOK, Chat!Old
<1> QED BY <1>1, ChatInvariant, PTL DEF SurfacesSpec, RetriesAreReplayed, Chat!RetryReplays

\* The latest turn is called stuck only after all of the silence it was allowed.
LEMMA ChatStuckIsSilent == SurfacesSpec => Chat!StuckMeansSilent
<1>1. ASSUME ChatInv, [SurfacesNext]_surfaces
      PROVE  [\A r \in Posts : ctx[r] = "live" /\ ctx'[r] = "stuck" /\ latest = r
                => quiet[r] >= Silence]_(Chat!vars)
  <2> SUFFICES ASSUME Chat!Next, NEW r \in Posts, ctx[r] = "live", ctx'[r] = "stuck", latest = r
               PROVE  quiet[r] >= Silence
    BY <1>1, SurfacesStepOfChat
  <2>0. ctx \in [Posts -> {"none", "live", "over", "stopped", "hard", "stuck"}] /\ ctx # ctx'
    BY <1>1 DEF ChatInv, Chat!TypeOK
  <2>1. PICK q \in Posts : Chat!Watch(q)
    <3>1. ASSUME NEW q \in Posts, Chat!Open(q) PROVE FALSE
      BY <2>0, <3>1 DEF Chat!Open
    <3>2. ASSUME NEW q \in Posts, Chat!Close(q) PROVE FALSE
      BY <2>0, <3>2 DEF Chat!Close
    <3>3. ~Chat!Stop
      BY <2>0 DEF Chat!Stop, Chat!Cancelled
    <3>4. ASSUME NEW q \in Posts, Chat!Post(q) \/ Chat!Refuse(q) \/ Chat!Publish(q) \/ Chat!Emit(q)
                                  \/ Chat!Return(q) \/ Chat!ClearCancel(q) \/ Chat!Settle(q)
          PROVE  FALSE
      BY <2>0, <3>4 DEF Chat!Post, Chat!Refuse, Chat!Publish, Chat!Emit, Chat!Return,
         Chat!ClearCancel, Chat!Settle, Chat!request
    <3>5. ~Chat!Tick
      BY <2>0 DEF Chat!Tick, Chat!request
    <3> QED BY <3>1, <3>2, <3>3, <3>4, <3>5 DEF Chat!Next
  <2>2. idleTimer[r] = 0
    BY <1>1, <2>1 DEF Chat!Watch, Chat!Leave, Chat!OutOfTime, Chat!Stuck, Chat!Reset, Chat!Expire,
       Chat!Cancelled, ChatInv, Chat!TypeOK
  <2> QED BY <1>1, <2>2, SurfacesAssumption DEF ChatInv, LatestIsHeard, Chat!TypeOK,
          Chat!TimesAssumption
<1> QED BY <1>1, ChatInvariant, PTL DEF SurfacesSpec, Chat!StuckMeansSilent

-----------------------------------------------------------------------------
(* The index that follows the files *)

\* A step of the surfaces is one of the ingestion, or leaves it alone.
LEMMA SurfacesStepOfIngest ==
  ASSUME [SurfacesNext]_surfaces
  PROVE  [Ingest!Next]_(Ingest!vars)
BY DEF SurfacesNext, OfChat, OfAcp, OfGui, surfaces, ingest, Ingest!vars, Ingest!process,
   Ingest!counts, Ingest!history

\* What the type says of the record of one pass, and what it holds at its step.
PassHolds(r, ws) ==
  IF r.step = "idle" THEN r = Ingest!Idle
  ELSE /\ r.of \in ws /\ r.todo \cup r.seen \subseteq Ingest!In(r.of)
       /\ r.step # "next" => r.file \in Ingest!Files /\ r.read \in Contents
       /\ r.done \in 0..Ingest!Parts(r.read)

\* The file it has in hand is there for the steps that need one, and stored to its end
\* before it is recorded.
PassSound(r) ==
  /\ r.step \in {"idle", "next"} => r.file = None
  /\ r.step \in {"store", "record"} => r.file \in Ingest!In(r.of)
  /\ r.step = "record" => r.done = Ingest!Parts(r.read)

\* So it is with every pass.
PassesAreSound == \A p \in Passes : PassSound(pass[p])

\* What is remembered of a file counts its chunks.
Counted(m) == \A f \in Ingest!Files : m[f].chunks = Ingest!Parts(m[f].hash)

\* It does so in the manifest and in each workspace's memory.
KnownIsSound == Counted(manifest) /\ \A w \in Workspaces : Counted(known[w])

\* What a file's own workspace remembers of it.
Own(f) == known[f[1]][f].hash

\* A pass replaces the chunks of the content that is remembered, one by one; so may others
\* at the same time.
Replaces(p, f) ==
  /\ pass[p].prev = Ingest!Parts(Own(f))
  /\ \A i \in Ingest!Slots :
       \/ index[f][i] = Ingest!Whole(pass[p].read)[i]
       \/ i > pass[p].done /\ index[f][i] = Ingest!Whole(Own(f))[i]

\* The index holds what is remembered of a file, or passes that have one content of it in
\* hand are replacing that.
FileIsIndexed(f) ==
  /\ f[1] \notin attached => index[f] = Ingest!Whole(manifest[f].hash)
  /\ f[1] \in attached /\ Ingest!Holders(f) = {} => index[f] = Ingest!Whole(Own(f))
  /\ \A p \in Ingest!Holders(f) :
       /\ \A q \in Ingest!Holders(f) : pass[p].read = pass[q].read
       /\ IF Own(f) = pass[p].read \/ pass[p].step = "record"
          THEN index[f] = Ingest!Whole(pass[p].read)
          ELSE Replaces(p, f)

\* The content of a file is remembered, or in hand, or somebody will look at it.
FileIsAhead(f) ==
  f[1] \in attached /\ disk[f] # None =>
    \/ f \in unseen
    \/ \E p \in Passes : f \in pass[p].todo
    \/ /\ \A p \in Ingest!Holders(f) : pass[p].read = disk[f]
       /\ Own(f) = disk[f] \/ Ingest!Holders(f) # {}

\* A file that was gone before its Auto came is forgotten, or the first pass has yet to
\* do that.
FileIsGone(f) ==
  f[1] \in attached /\ disk[f] = None /\ f \notin dropped =>
    /\ Ingest!Holders(f) = {}
    /\ \/ Own(f) = None
       \/ \E p \in Passes : pass[p].of = f[1] /\ pass[p].kind = "sync"
                            /\ f \notin pass[p].todo \cup pass[p].seen

\* What the invariant says of one file.
FileFollows(f) == FileIsIndexed(f) /\ FileIsAhead(f) /\ FileIsGone(f)

\* The inductive invariant of the ingestion.
IngestInv ==
  /\ Ingest!TypeOK /\ PassesAreSound /\ KnownIsSound
  /\ \A f \in Ingest!Files \ crossed : FileFollows(f)

\* Of how many chunks a content is, and what they hold.
LEMMA PartsOfContent ==
  /\ Ingest!Parts(None) = 0 /\ \A c \in Contents : Ingest!Parts(c) \in 1..2
  /\ \A c \in Contents \cup {None} : Ingest!Parts(c) \in 0..2
  /\ \A c \in Contents \cup {None} : Ingest!Whole(c) \in [Ingest!Slots -> Contents \cup {None}]
  /\ \A c \in Contents \cup {None}, i \in Ingest!Slots :
       Ingest!Whole(c)[i] = IF i <= Ingest!Parts(c) THEN c ELSE None
  /\ None \notin Contents /\ None \notin Workspaces /\ None \notin Ingest!Files
BY SurfacesAssumption DEF Ingest!Parts, Ingest!Whole, Ingest!Slots, Ingest!ContentsAssumption,
   Ingest!NamesAssumption, Ingest!Files

\* The empty index holds nothing of a file.
LEMMA WholeOfNone ==
  /\ Ingest!Whole(None) = [i \in Ingest!Slots |-> None]
  /\ \A f \in Ingest!Files : Ingest!Blank[f] = Ingest!Whole(None)
BY PartsOfContent DEF Ingest!Whole, Ingest!Blank, Ingest!Slots

\* It holds at first.
LEMMA InitIngestInv == Ingest!Init => IngestInv
<1> SUFFICES ASSUME Ingest!Init PROVE IngestInv
  OBVIOUS
<1> USE DEF Ingest!Init, Ingest!Idle
<1>1. Ingest!TypeOK
  <2>1. disk \in [Ingest!Files -> Contents \cup {None}]
    OBVIOUS
  <2>2. manifest \in Ingest!KnownFiles /\ known \in [Workspaces -> Ingest!KnownFiles]
    BY DEF Ingest!Nothing, Ingest!Unknown, Ingest!KnownFiles
  <2>3. /\ index \in [Ingest!Files -> [Ingest!Slots -> Contents \cup {None}]]
        /\ saved \in [Ingest!Files -> [Ingest!Slots -> Contents \cup {None}]]
    BY DEF Ingest!Blank
  <2>4. edits \in 0..MaxEdits /\ ends \in 0..MaxEnds
    BY SurfacesAssumption DEF Ingest!BoundsAssumption
  <2>5. Ingest!Idle \in Ingest!PassRecords
    BY DEF Ingest!PassRecords
  <2>6. pass \in [Passes -> Ingest!PassRecords] /\ \A p \in Passes : pass[p] = Ingest!Idle
    BY <2>5
  <2> QED BY <2>1, <2>2, <2>3, <2>4, <2>6 DEF Ingest!TypeOK
<1>2. PassesAreSound
  BY DEF PassesAreSound, PassSound
<1>3. KnownIsSound
  BY PartsOfContent DEF KnownIsSound, Counted, Ingest!Nothing, Ingest!Unknown
<1>4. ASSUME NEW f \in Ingest!Files PROVE FileFollows(f)
  <2>1. Ingest!Holders(f) = {} /\ attached = {}
    BY PartsOfContent DEF Ingest!Holders
  <2>2. index[f] = Ingest!Whole(manifest[f].hash)
    BY WholeOfNone DEF Ingest!Nothing, Ingest!Unknown
  <2> QED BY <2>1, <2>2 DEF FileFollows, FileIsIndexed, FileIsAhead, FileIsGone
<1> QED BY <1>1, <1>2, <1>3, <1>4 DEF IngestInv

\* A record that is well-formed may take the place of another.
LEMMA PassKeepsType ==
  ASSUME Ingest!TypeOK, PassesAreSound, NEW p \in Passes, NEW r \in Ingest!PassRecords, NEW ws,
         attached \subseteq ws, PassHolds(r, ws), PassSound(r),
         pass' = [pass EXCEPT ![p] = r]
  PROVE  /\ pass' \in [Passes -> Ingest!PassRecords]
         /\ \A q \in Passes : PassHolds(pass'[q], ws)
         /\ PassesAreSound'
BY DEF Ingest!TypeOK, PassHolds, PassesAreSound

\* The types of all but the passes.
DataTyped ==
  /\ disk \in [Ingest!Files -> Contents \cup {None}]
  /\ manifest \in Ingest!KnownFiles /\ known \in [Workspaces -> Ingest!KnownFiles]
  /\ index \in [Ingest!Files -> [Ingest!Slots -> Contents \cup {None}]]
  /\ saved \in [Ingest!Files -> [Ingest!Slots -> Contents \cup {None}]]
  /\ attached \subseteq Workspaces /\ unseen \subseteq Ingest!Files
  /\ edits \in 0..MaxEdits /\ ends \in 0..MaxEnds
  /\ crossed \subseteq Ingest!Files /\ dropped \subseteq Ingest!Files

\* What an action has to show when it changes one pass.
LEMMA OnePassKeeps ==
  ASSUME IngestInv, NEW p \in Passes, NEW r \in Ingest!PassRecords,
         pass' = [pass EXCEPT ![p] = r], attached \subseteq attached',
         PassHolds(r, attached'), PassSound(r), DataTyped', KnownIsSound',
         \A f \in Ingest!Files \ crossed' : FileFollows(f)'
  PROVE  IngestInv'
<1>1. /\ pass' \in [Passes -> Ingest!PassRecords]
      /\ \A q \in Passes : PassHolds(pass'[q], attached')
      /\ PassesAreSound'
  BY PassKeepsType DEF IngestInv
<1>2. Ingest!TypeOK'
  BY <1>1 DEF Ingest!TypeOK, PassHolds, DataTyped
<1> QED BY <1>1, <1>2 DEF IngestInv

\* A file that a step leaves alone goes on as it did.
LEMMA FileUntouched ==
  ASSUME NEW f \in Ingest!Files, FileFollows(f),
         index'[f] = index[f], Own(f)' = Own(f), disk'[f] = disk[f],
         f[1] \in attached' <=> f[1] \in attached,
         f[1] \notin attached => manifest'[f] = manifest[f],
         f \in unseen => f \in unseen' \/ \E q \in Passes : f \in pass'[q].todo,
         f \in dropped => f \in dropped',
         \A q \in Passes :
           /\ pass'[q].file = f <=> pass[q].file = f
           /\ pass[q].file = f => /\ pass'[q].read = pass[q].read /\ pass'[q].prev = pass[q].prev
                                  /\ pass'[q].done = pass[q].done /\ pass'[q].step = pass[q].step
           /\ f \in pass[q].todo => f \in pass'[q].todo
           /\ /\ pass[q].of = f[1] /\ pass[q].kind = "sync" /\ Own(f) # None
              /\ f \notin pass[q].todo \cup pass[q].seen
              => /\ pass'[q].of = pass[q].of /\ pass'[q].kind = pass[q].kind
                 /\ f \notin pass'[q].todo \cup pass'[q].seen
  PROVE  FileFollows(f)'
<1>1. Ingest!Holders(f)' = Ingest!Holders(f)
  BY DEF Ingest!Holders
<1>2. FileIsIndexed(f)'
  <2>1. ASSUME NEW p \in Ingest!Holders(f)
        PROVE  /\ pass'[p].read = pass[p].read /\ pass'[p].prev = pass[p].prev
               /\ pass'[p].done = pass[p].done /\ pass'[p].step = pass[p].step
    BY DEF Ingest!Holders
  <2> QED BY <1>1, <2>1 DEF FileFollows, FileIsIndexed, Replaces
<1>3. FileIsAhead(f)'
  BY <1>1 DEF FileFollows, FileIsAhead, Ingest!Holders
<1>4. FileIsGone(f)'
  BY <1>1 DEF FileFollows, FileIsGone
<1> QED BY <1>2, <1>3, <1>4 DEF FileFollows

\* A pass when it starts, with its files before it.
Begun(kind, w, todo) ==
  [Ingest!Idle EXCEPT !.step = "next", !.kind = kind, !.of = w, !.todo = todo]

\* A pass that starts is well-formed, and has no file in hand.
LEMMA BeginsPass ==
  ASSUME NEW w \in Workspaces, NEW todo \in SUBSET Ingest!In(w), NEW kind \in {"sync", "files"},
         NEW ws, w \in ws
  PROVE  /\ Begun(kind, w, todo) \in Ingest!PassRecords
         /\ PassHolds(Begun(kind, w, todo), ws) /\ PassSound(Begun(kind, w, todo))
         /\ Begun(kind, w, todo).file = None /\ Begun(kind, w, todo).todo = todo
         /\ Begun(kind, w, todo).seen = {} /\ Begun(kind, w, todo).of = w
         /\ Begun(kind, w, todo).kind = kind
<1>1. Ingest!Idle \in Ingest!PassRecords
  BY DEF Ingest!Idle, Ingest!PassRecords
<1> DEFINE begun == [Ingest!Idle EXCEPT !.step = "next", !.kind = kind]
<1>2. begun \in Ingest!PassRecords
  BY <1>1 DEF Ingest!PassRecords
<1>3. /\ begun.step = "next" /\ begun.kind = kind /\ begun.done = 0 /\ begun.read = None
      /\ begun.file = None /\ begun.seen = {}
  BY DEF Ingest!Idle
<1> HIDE DEF begun
<1>4. todo \subseteq Ingest!Files
  BY DEF Ingest!In, Ingest!Files
<1>5. [begun EXCEPT !.of = w, !.todo = todo] \in Ingest!PassRecords
  BY <1>2, <1>4 DEF Ingest!PassRecords
<1>6. Begun(kind, w, todo) = [begun EXCEPT !.of = w, !.todo = todo]
  BY DEF begun, Begun
<1> DEFINE b == Begun(kind, w, todo)
<1>7. /\ b.step = "next" /\ b.kind = kind /\ b.done = 0 /\ b.read = None
      /\ b.file = None /\ b.seen = {} /\ b.of = w /\ b.todo = todo
  BY <1>2, <1>3, <1>6 DEF Ingest!PassRecords
<1> HIDE DEF b
<1>8. PassHolds(b, ws) /\ PassSound(b)
  BY <1>7, PartsOfContent DEF PassHolds, PassSound
<1> QED BY <1>5, <1>6, <1>7, <1>8 DEF b

\* A workspace is first used.
LEMMA AttachKeepsIngestInv ==
  ASSUME IngestInv, NEW w \in Workspaces, Ingest!Attach(w)
  PROVE  IngestInv'
<1> PICK p \in Passes : Ingest!Begin(p, "sync", w, Ingest!Existing(w))
  BY DEF Ingest!Attach
<1> DEFINE r == Begun("sync", w, Ingest!Existing(w))
<1>1. /\ pass[p] = Ingest!Idle /\ pass' = [pass EXCEPT ![p] = r] /\ w \notin attached
      /\ attached' = attached \cup {w} /\ known' = [known EXCEPT ![w] = manifest]
      /\ unseen' = unseen \cup Ingest!In(w)
      /\ UNCHANGED <<disk, manifest, saved, index, edits, ends, crossed, dropped>>
  BY DEF Begun, Ingest!Attach, Ingest!Begin, Ingest!counts, Ingest!history
<1>2. Ingest!Existing(w) \in SUBSET Ingest!In(w) /\ Ingest!In(w) \subseteq Ingest!Files
  BY DEF Ingest!Existing, Ingest!In, Ingest!Files
<1>3. /\ r \in Ingest!PassRecords /\ PassHolds(r, attached') /\ PassSound(r)
      /\ r.file = None /\ r.todo = Ingest!Existing(w) /\ r.seen = {} /\ r.of = w
      /\ r.kind = "sync"
  BY <1>1, <1>2, BeginsPass
<1> HIDE DEF r
<1>4. DataTyped'
  BY <1>1, <1>2 DEF IngestInv, Ingest!TypeOK, DataTyped
<1>5. KnownIsSound'
  BY <1>1 DEF IngestInv, Ingest!TypeOK, KnownIsSound, Counted
<1>6. /\ \A q \in Passes : q # p => pass'[q] = pass[q]
      /\ pass'[p] = r /\ pass[p].file = None /\ pass[p].todo = {} /\ pass[p].of = None
  BY <1>1 DEF IngestInv, Ingest!TypeOK, Ingest!Idle
<1>7. ASSUME NEW f \in Ingest!Files \ crossed' PROVE FileFollows(f)'
  <2>0. FileFollows(f) /\ f[1] \in Workspaces /\ f = <<f[1], f[2]>>
    BY <1>1 DEF IngestInv, Ingest!Files
  <2>1. CASE f[1] = w
    <3>1. f \in Ingest!In(w)
      BY <2>0, <2>1 DEF Ingest!In, Ingest!Files
    <3>2. Ingest!Holders(f) = {}
      <4>1. ASSUME NEW q \in Passes, pass[q].file = f PROVE FALSE
        <5>1. pass[q].step # "idle" /\ f \in Ingest!In(pass[q].of) /\ pass[q].of \in attached
          BY <4>1, PartsOfContent DEF IngestInv, Ingest!TypeOK, PassesAreSound, PassSound,
             Ingest!Idle, Ingest!PassRecords
        <5> QED BY <1>1, <2>1, <5>1 DEF Ingest!In
      <4> QED BY <4>1 DEF Ingest!Holders
    <3>3. Ingest!Holders(f)' = {}
      BY <1>3, <1>6, <3>2, PartsOfContent DEF Ingest!Holders
    <3>4. Own(f)' = manifest[f].hash
      BY <1>1, <2>1 DEF Own, IngestInv, Ingest!TypeOK
    <3>5. FileIsIndexed(f)'
      BY <1>1, <2>0, <2>1, <3>3, <3>4 DEF FileFollows, FileIsIndexed
    <3>6. FileIsAhead(f)'
      BY <1>1, <3>1 DEF FileIsAhead
    <3>7. FileIsGone(f)'
      BY <1>1, <1>3, <1>6, <2>1, <3>3 DEF FileIsGone, Ingest!Existing
    <3> QED BY <3>5, <3>6, <3>7 DEF FileFollows
  <2>2. CASE f[1] # w
    <3>1. Own(f)' = Own(f)
      BY <1>1, <2>0, <2>2 DEF Own, IngestInv, Ingest!TypeOK
    <3>2. f \notin Ingest!Existing(w)
      BY <1>2, <2>2 DEF Ingest!In
    <3> QED BY <1>1, <1>3, <1>6, <2>0, <2>2, <3>1, <3>2, PartsOfContent, FileUntouched
  <2> QED BY <2>1, <2>2
<1> QED BY <1>1, <1>3, <1>4, <1>5, <1>7, OnePassKeeps

\* The watcher reports changed files.
LEMMA ScanKeepsIngestInv ==
  ASSUME IngestInv, NEW w \in Workspaces, Ingest!Scan(w)
  PROVE  IngestInv'
<1> PICK p \in Passes : Ingest!Begin(p, "files", w, Ingest!Changed(w))
  BY DEF Ingest!Scan
<1> DEFINE r == Begun("files", w, Ingest!Changed(w))
<1>1. /\ pass[p] = Ingest!Idle /\ pass' = [pass EXCEPT ![p] = r] /\ w \in attached
      /\ unseen' = unseen \ Ingest!Changed(w)
      /\ UNCHANGED <<disk, manifest, saved, index, known, attached, edits, ends, crossed, dropped>>
  BY DEF Begun, Ingest!Scan, Ingest!Begin, Ingest!counts, Ingest!history
<1>2. Ingest!Changed(w) \in SUBSET Ingest!In(w) /\ Ingest!In(w) \subseteq Ingest!Files
  BY DEF Ingest!Changed, Ingest!Existing, Ingest!In, Ingest!Files
<1>3. /\ r \in Ingest!PassRecords /\ PassHolds(r, attached') /\ PassSound(r)
      /\ r.file = None /\ r.todo = Ingest!Changed(w) /\ r.seen = {} /\ r.of = w
      /\ r.kind = "files"
  BY <1>1, <1>2, BeginsPass
<1> HIDE DEF r
<1>4. DataTyped'
  BY <1>1, <1>2 DEF IngestInv, Ingest!TypeOK, DataTyped
<1>5. KnownIsSound'
  BY <1>1 DEF IngestInv, Ingest!TypeOK, KnownIsSound, Counted
<1>6. /\ \A q \in Passes : q # p => pass'[q] = pass[q]
      /\ pass'[p] = r /\ pass[p].file = None /\ pass[p].todo = {} /\ pass[p].of = None
  BY <1>1 DEF IngestInv, Ingest!TypeOK, Ingest!Idle
<1>7. ASSUME NEW f \in Ingest!Files \ crossed' PROVE FileFollows(f)'
  <2>1. FileFollows(f) /\ f[1] \in Workspaces
    BY <1>1 DEF IngestInv, Ingest!Files
  <2>2. Own(f)' = Own(f)
    BY <1>1 DEF Own
  <2>3. f \in unseen => f \in unseen' \/ \E q \in Passes : f \in pass'[q].todo
    BY <1>1, <1>3, <1>6
  <2> QED BY <1>1, <1>3, <1>6, <2>1, <2>2, <2>3, PartsOfContent, FileUntouched
<1> QED BY <1>1, <1>3, <1>4, <1>5, <1>7, OnePassKeeps

\* What a pass has in hand, while it stores or records it.
LEMMA HolderHolds ==
  ASSUME IngestInv, NEW p \in Passes, pass[p].step \in {"store", "record"}
  PROVE  /\ pass[p] \in Ingest!PassRecords /\ pass[p].of \in attached /\ pass[p].of \in Workspaces
         /\ pass[p].file \in Ingest!Files /\ pass[p].file[1] = pass[p].of
         /\ pass[p].read \in Contents /\ pass[p].done \in 0..Ingest!Parts(pass[p].read)
         /\ Own(pass[p].file) = known[pass[p].of][pass[p].file].hash
         /\ Own(pass[p].file) \in Contents \cup {None}
<1>1. /\ pass[p] \in Ingest!PassRecords /\ pass[p].of \in attached /\ pass[p].of \in Workspaces
      /\ pass[p].file \in Ingest!Files /\ pass[p].file \in Ingest!In(pass[p].of)
      /\ pass[p].read \in Contents /\ pass[p].done \in 0..Ingest!Parts(pass[p].read)
  BY DEF IngestInv, Ingest!TypeOK, PassesAreSound, PassSound
<1>2. pass[p].file[1] = pass[p].of
  BY <1>1 DEF Ingest!In
<1>3. known[pass[p].of][pass[p].file].hash \in Contents \cup {None}
  BY <1>1 DEF IngestInv, Ingest!TypeOK, Ingest!KnownFiles
<1> QED BY <1>1, <1>2, <1>3 DEF Own

\* What a step of one pass about the file f leaves as it was of the other files.
LEMMA OthersUntouched ==
  ASSUME IngestInv, NEW p \in Passes, NEW r, pass' = [pass EXCEPT ![p] = r], NEW f,
         NEW g \in Ingest!Files, g # f, g \notin crossed, g[1] \in attached' <=> g[1] \in attached,
         index'[g] = index[g], Own(g)' = Own(g), manifest'[g] = manifest[g], disk'[g] = disk[g],
         unseen' = unseen, g \in dropped => g \in dropped',
         r.of = pass[p].of, r.kind = pass[p].kind,
         r.todo \cup {f} = pass[p].todo \cup {f}, r.seen \cup {f} = pass[p].seen \cup {f},
         pass[p].file \in {f, None}, r.file \in {f, None}
  PROVE  FileFollows(g)'
<1>1. FileFollows(g)
  BY DEF IngestInv
<1>2. /\ \A q \in Passes : q # p => pass'[q] = pass[q]
      /\ pass'[p] = r
  BY DEF IngestInv, Ingest!TypeOK
<1> QED BY <1>1, <1>2, PartsOfContent, FileUntouched

\* A chunk is stored.
LEMMA StoreKeepsIngestInv ==
  ASSUME IngestInv, NEW p \in Passes, Ingest!Store(p)
  PROVE  IngestInv'
<1>0. PICK f : f = pass[p].file
  OBVIOUS
<1> DEFINE i == pass[p].done + 1
           r == [pass[p] EXCEPT !.done = i, !.stored = TRUE]
<1>1. /\ pass[p].step = "store" /\ i <= Ingest!Parts(pass[p].read)
      /\ index' = [index EXCEPT ![f][i] = pass[p].read] /\ pass' = [pass EXCEPT ![p] = r]
      /\ UNCHANGED <<disk, manifest, saved, known, attached, unseen, edits, ends, crossed, dropped>>
  BY <1>0 DEF Ingest!Store, Ingest!counts, Ingest!history, IngestInv, Ingest!TypeOK
<1>2. /\ pass[p] \in Ingest!PassRecords /\ pass[p].of \in attached /\ pass[p].of \in Workspaces
      /\ f \in Ingest!Files /\ f[1] = pass[p].of
      /\ pass[p].read \in Contents /\ pass[p].done \in 0..Ingest!Parts(pass[p].read)
      /\ Own(f) \in Contents \cup {None}
  BY <1>0, <1>1, HolderHolds
<1>3. i \in Ingest!Slots /\ i \in 0..2
  BY <1>1, <1>2, PartsOfContent DEF Ingest!Slots
<1>4. /\ r \in Ingest!PassRecords /\ r.step = "store" /\ r.done = i /\ r.file = f
      /\ r.read = pass[p].read /\ r.prev = pass[p].prev /\ r.of = pass[p].of
      /\ r.kind = pass[p].kind /\ r.todo = pass[p].todo /\ r.seen = pass[p].seen
  BY <1>0, <1>1, <1>2, <1>3 DEF Ingest!PassRecords
<1> HIDE DEF r
<1>5. PassHolds(r, attached') /\ PassSound(r)
  BY <1>0, <1>1, <1>2, <1>3, <1>4 DEF PassHolds, PassSound, IngestInv, Ingest!TypeOK, PassesAreSound
<1>6. DataTyped'
  BY <1>1, <1>2, <1>3 DEF IngestInv, Ingest!TypeOK, DataTyped
<1>7. KnownIsSound'
  BY <1>1 DEF IngestInv, KnownIsSound
<1>8. /\ \A q \in Passes : q # p => pass'[q] = pass[q]
      /\ pass'[p] = r
      /\ \A g \in Ingest!Files : Own(g)' = Own(g) /\ (g # f => index'[g] = index[g])
      /\ \A j \in Ingest!Slots : index'[f][j] = IF j = i THEN pass[p].read ELSE index[f][j]
      /\ index'[f] \in [Ingest!Slots -> Contents \cup {None}]
      /\ index[f] \in [Ingest!Slots -> Contents \cup {None}]
  BY <1>1, <1>2, <1>3, <1>6 DEF IngestInv, Ingest!TypeOK, Own, DataTyped
<1> HIDE DEF i
<1>9. ASSUME f \notin crossed PROVE FileFollows(f)'
  <2>1. FileFollows(f)
    BY <1>2, <1>9 DEF IngestInv
  <2>2. Ingest!Holders(f)' = Ingest!Holders(f) /\ p \in Ingest!Holders(f)
    BY <1>0, <1>4, <1>8 DEF Ingest!Holders
  <2>3. \A q \in Ingest!Holders(f) : pass[q].read = pass[p].read /\ pass'[q].read = pass[p].read
    BY <1>4, <1>8, <2>1, <2>2 DEF FileFollows, FileIsIndexed, Ingest!Holders
  <2>4. Ingest!Whole(pass[p].read)[i] = pass[p].read
    BY <1>1, <1>2, <1>3, PartsOfContent DEF i
  <2>5. index[f] = Ingest!Whole(pass[p].read) => index'[f] = Ingest!Whole(pass[p].read)
    BY <1>8, <2>4
  <2>6. ASSUME NEW q \in Ingest!Holders(f), Own(f) # pass[p].read, pass'[q].step # "record"
        PROVE  Replaces(q, f)'
    <3>1. q \in Passes /\ pass[q].step # "record" /\ pass[q].read = pass[p].read
          /\ pass'[q].prev = pass[q].prev
      BY <1>1, <1>4, <1>8, <2>3, <2>6 DEF Ingest!Holders
    <3>2. Replaces(q, f) /\ Replaces(p, f)
      BY <1>1, <2>1, <2>2, <2>3, <2>6, <3>1 DEF FileFollows, FileIsIndexed
    <3>3. ASSUME NEW j \in Ingest!Slots
          PROVE  \/ index'[f][j] = Ingest!Whole(pass[p].read)[j]
                 \/ j > pass'[q].done /\ index'[f][j] = Ingest!Whole(Own(f))[j]
      <4>1. CASE j = i
        BY <1>8, <2>4, <4>1
      <4>2. CASE j # i
        <5>1. index'[f][j] = index[f][j]
          BY <1>8, <4>2
        <5>2. CASE q # p
          BY <1>8, <3>1, <3>2, <5>1, <5>2 DEF Replaces
        <5>3. CASE q = p
          BY <1>2, <1>3, <1>4, <1>8, <3>2, <4>2, <5>1, <5>3 DEF Replaces, i, Ingest!Slots
        <5> QED BY <5>2, <5>3
      <4> QED BY <4>1, <4>2
    <3> QED BY <1>2, <1>8, <2>2, <2>3, <3>1, <3>2, <3>3 DEF Replaces
  <2>7. FileIsIndexed(f)'
    BY <1>1, <1>2, <1>4, <1>8, <2>1, <2>2, <2>3, <2>5, <2>6 DEF FileFollows, FileIsIndexed
  <2>8. FileIsAhead(f)'
    BY <1>1, <1>2, <1>4, <1>8, <2>1, <2>2, <2>3 DEF FileFollows, FileIsAhead
  <2>9. FileIsGone(f)'
    BY <1>1, <1>2, <1>4, <1>8, <2>1, <2>2 DEF FileFollows, FileIsGone
  <2> QED BY <2>7, <2>8, <2>9 DEF FileFollows
<1>10. ASSUME NEW g \in Ingest!Files \ crossed' PROVE FileFollows(g)'
  <2>1. CASE g = f
    BY <1>1, <1>9, <1>10, <2>1
  <2>2. CASE g # f
    <3>1. Own(g)' = Own(g) /\ index'[g] = index[g]
      BY <1>1, <1>8, <1>10, <2>2 DEF Own
    <3> QED BY <1>0, <1>1, <1>4, <1>10, <2>2, <3>1, OthersUntouched
  <2> QED BY <2>1, <2>2
<1> QED BY <1>1, <1>4, <1>5, <1>6, <1>7, <1>10, OnePassKeeps

\* The chunks of a longer version go.
LEMMA PruneKeepsIngestInv ==
  ASSUME IngestInv, NEW p \in Passes, Ingest!Prune(p)
  PROVE  IngestInv'
<1>0. PICK f : f = pass[p].file
  OBVIOUS
<1> DEFINE r == [pass[p] EXCEPT !.step = "record"]
<1>1. /\ pass[p].step = "store" /\ pass[p].done = Ingest!Parts(pass[p].read)
      /\ index' = Ingest!Pruned(f, pass[p].done, pass[p].prev) /\ pass' = [pass EXCEPT ![p] = r]
      /\ UNCHANGED <<disk, manifest, saved, known, attached, unseen, edits, ends, crossed, dropped>>
  BY <1>0 DEF Ingest!Prune, Ingest!counts, Ingest!history
<1>2. /\ pass[p] \in Ingest!PassRecords /\ pass[p].of \in attached /\ pass[p].of \in Workspaces
      /\ f \in Ingest!Files /\ f[1] = pass[p].of
      /\ pass[p].read \in Contents /\ pass[p].done \in 0..Ingest!Parts(pass[p].read)
      /\ Own(f) \in Contents \cup {None}
  BY <1>0, <1>1, HolderHolds
<1>3. pass[p].done \in 0..2 /\ pass[p].prev \in 0..2
  BY <1>2 DEF Ingest!PassRecords
<1>4. /\ r \in Ingest!PassRecords /\ r.step = "record" /\ r.done = pass[p].done /\ r.file = f
      /\ r.read = pass[p].read /\ r.prev = pass[p].prev /\ r.of = pass[p].of
      /\ r.kind = pass[p].kind /\ r.todo = pass[p].todo /\ r.seen = pass[p].seen
  BY <1>0, <1>1, <1>2 DEF Ingest!PassRecords
<1> HIDE DEF r
<1>5. PassHolds(r, attached') /\ PassSound(r)
  BY <1>0, <1>1, <1>2, <1>4 DEF PassHolds, PassSound, IngestInv, Ingest!TypeOK, PassesAreSound
<1>6. DataTyped'
  BY <1>1, <1>2 DEF IngestInv, Ingest!TypeOK, DataTyped, Ingest!Pruned
<1>7. KnownIsSound'
  BY <1>1 DEF IngestInv, KnownIsSound
<1>8. /\ \A q \in Passes : q # p => pass'[q] = pass[q]
      /\ pass'[p] = r
      /\ \A g \in Ingest!Files : Own(g)' = Own(g) /\ (g # f => index'[g] = index[g])
      /\ \A j \in Ingest!Slots : index'[f][j] =
           IF j > pass[p].done /\ j <= pass[p].prev THEN None ELSE index[f][j]
      /\ index'[f] \in [Ingest!Slots -> Contents \cup {None}]
  BY <1>1, <1>2, <1>6 DEF IngestInv, Ingest!TypeOK, Own, DataTyped, Ingest!Pruned
<1>9. ASSUME f \notin crossed PROVE FileFollows(f)'
  <2>1. FileFollows(f)
    BY <1>2, <1>9 DEF IngestInv
  <2>2. Ingest!Holders(f)' = Ingest!Holders(f) /\ p \in Ingest!Holders(f)
    BY <1>0, <1>4, <1>8 DEF Ingest!Holders
  <2>3. \A q \in Ingest!Holders(f) : pass[q].read = pass[p].read /\ pass'[q].read = pass[p].read
    BY <1>4, <1>8, <2>1, <2>2 DEF FileFollows, FileIsIndexed, Ingest!Holders
  <2>4. \A j \in Ingest!Slots :
          Ingest!Whole(pass[p].read)[j] = IF j <= pass[p].done THEN pass[p].read ELSE None
    BY <1>1, <1>2, PartsOfContent
  <2>5. index'[f] = Ingest!Whole(pass[p].read)
    <3>1. CASE Own(f) = pass[p].read
      <4>1. index[f] = Ingest!Whole(pass[p].read)
        BY <2>1, <2>2, <3>1 DEF FileFollows, FileIsIndexed
      <4>2. \A j \in Ingest!Slots : index'[f][j] = Ingest!Whole(pass[p].read)[j]
        BY <1>3, <1>8, <2>4, <4>1 DEF Ingest!Slots
      <4> QED BY <1>2, <1>8, <4>2, PartsOfContent
    <3>2. CASE Own(f) # pass[p].read
      <4>1. Replaces(p, f)
        BY <1>1, <2>1, <2>2, <3>2 DEF FileFollows, FileIsIndexed
      <4>2. \A j \in Ingest!Slots :
              Ingest!Whole(Own(f))[j] = IF j <= pass[p].prev THEN Own(f) ELSE None
        BY <1>2, <4>1, PartsOfContent DEF Replaces
      <4>3. \A j \in Ingest!Slots : index'[f][j] = Ingest!Whole(pass[p].read)[j]
        BY <1>3, <1>8, <2>4, <4>1, <4>2 DEF Replaces, Ingest!Slots
      <4> QED BY <1>2, <1>8, <4>3, PartsOfContent
    <3> QED BY <3>1, <3>2
  <2>6. ASSUME NEW q \in Ingest!Holders(f), Own(f) # pass[p].read, pass'[q].step # "record"
        PROVE  Replaces(q, f)'
    <3>1. q \in Passes /\ q # p
      BY <1>4, <1>8, <2>6 DEF Ingest!Holders
    <3>2. Replaces(q, f)
      BY <1>8, <2>1, <2>2, <2>3, <2>6, <3>1 DEF FileFollows, FileIsIndexed
    <3> QED BY <1>2, <1>8, <2>3, <2>5, <3>1, <3>2 DEF Replaces
  <2>7. FileIsIndexed(f)'
    BY <1>1, <1>2, <1>4, <1>8, <2>2, <2>3, <2>5, <2>6 DEF FileIsIndexed
  <2>8. FileIsAhead(f)'
    BY <1>1, <1>2, <1>4, <1>8, <2>1, <2>2, <2>3 DEF FileFollows, FileIsAhead
  <2>9. FileIsGone(f)'
    BY <1>1, <1>2, <1>4, <1>8, <2>1, <2>2 DEF FileFollows, FileIsGone
  <2> QED BY <2>7, <2>8, <2>9 DEF FileFollows
<1>10. ASSUME NEW g \in Ingest!Files \ crossed' PROVE FileFollows(g)'
  <2>1. CASE g = f
    BY <1>1, <1>9, <1>10, <2>1
  <2>2. CASE g # f
    <3>1. Own(g)' = Own(g) /\ index'[g] = index[g]
      BY <1>1, <1>8, <1>10, <2>2 DEF Own
    <3> QED BY <1>0, <1>1, <1>4, <1>10, <2>2, <3>1, OthersUntouched
  <2> QED BY <2>1, <2>2
<1> QED BY <1>1, <1>4, <1>5, <1>6, <1>7, <1>10, OnePassKeeps

\* The hash of a content is recorded.
LEMMA RecordKeepsIngestInv ==
  ASSUME IngestInv, NEW p \in Passes, Ingest!Record(p)
  PROVE  IngestInv'
<1>0. PICK f : f = pass[p].file
  OBVIOUS
<1> DEFINE r == [pass[p] EXCEPT !.step = "next", !.file = None, !.read = None, !.prev = 0,
                                !.done = 0]
           now == [hash |-> pass[p].read, chunks |-> pass[p].done]
<1>1. /\ pass[p].step = "record" /\ known' = [known EXCEPT ![pass[p].of][f] = now]
      /\ pass' = [pass EXCEPT ![p] = r]
      /\ UNCHANGED <<disk, manifest, saved, index, attached, unseen, edits, ends, crossed, dropped>>
  BY <1>0 DEF Ingest!Record, Ingest!counts, Ingest!history
<1>2. /\ pass[p] \in Ingest!PassRecords /\ pass[p].of \in attached /\ pass[p].of \in Workspaces
      /\ f \in Ingest!Files /\ f[1] = pass[p].of
      /\ pass[p].read \in Contents /\ pass[p].done = Ingest!Parts(pass[p].read)
  BY <1>0, <1>1, HolderHolds DEF IngestInv, PassesAreSound, PassSound
<1>3. now.hash = pass[p].read /\ now.chunks = pass[p].done
      /\ now \in [hash : Contents \cup {None}, chunks : 0..2]
  BY <1>2 DEF Ingest!PassRecords
<1>4. /\ r \in Ingest!PassRecords /\ r.step = "next" /\ r.done = 0 /\ r.file = None
      /\ r.read = None /\ r.of = pass[p].of
      /\ r.kind = pass[p].kind /\ r.todo = pass[p].todo /\ r.seen = pass[p].seen
  <2> DEFINE s == [pass[p] EXCEPT !.step = "next", !.file = None]
  <2>1. /\ s \in Ingest!PassRecords /\ s.step = "next" /\ s.file = None /\ s.of = pass[p].of
        /\ s.kind = pass[p].kind /\ s.todo = pass[p].todo /\ s.seen = pass[p].seen
    BY <1>2 DEF Ingest!PassRecords
  <2>2. r = [s EXCEPT !.read = None, !.prev = 0, !.done = 0]
    BY <1>2 DEF Ingest!PassRecords
  <2> HIDE DEF s, r
  <2>3. r \in Ingest!PassRecords
    <3>1. [s EXCEPT !.read = None] \in Ingest!PassRecords
      BY <2>1 DEF Ingest!PassRecords
    <3>2. \A t \in Ingest!PassRecords : [t EXCEPT !.prev = 0] \in Ingest!PassRecords
      BY DEF Ingest!PassRecords
    <3>3. \A t \in Ingest!PassRecords : [t EXCEPT !.done = 0] \in Ingest!PassRecords
      BY DEF Ingest!PassRecords
    <3>4. r = [[[s EXCEPT !.read = None] EXCEPT !.prev = 0] EXCEPT !.done = 0]
      BY <2>2
    <3> QED BY <3>1, <3>2, <3>3, <3>4
  <2>4. /\ r.step = s.step /\ r.file = s.file /\ r.of = s.of /\ r.kind = s.kind
        /\ r.todo = s.todo /\ r.seen = s.seen /\ r.done = 0 /\ r.read = None
    BY <2>1, <2>2 DEF Ingest!PassRecords
  <2> QED BY <2>1, <2>3, <2>4
<1> HIDE DEF r, now
<1>5. PassHolds(r, attached') /\ PassSound(r)
  BY <1>1, <1>2, <1>4, PartsOfContent DEF PassHolds, PassSound, IngestInv, Ingest!TypeOK
<1>6. DataTyped'
  BY <1>1, <1>2, <1>3 DEF IngestInv, Ingest!TypeOK, DataTyped, Ingest!KnownFiles
<1>7. KnownIsSound'
  BY <1>1, <1>2, <1>3 DEF IngestInv, Ingest!TypeOK, Ingest!KnownFiles, KnownIsSound, Counted
<1>8. /\ \A q \in Passes : q # p => pass'[q] = pass[q]
      /\ pass'[p] = r
      /\ known'[f[1]][f] = now
      /\ \A w \in Workspaces, g \in Ingest!Files : g # f => known'[w][g] = known[w][g]
  BY <1>1, <1>2 DEF IngestInv, Ingest!TypeOK, Ingest!KnownFiles
<1>9. ASSUME f \notin crossed PROVE FileFollows(f)'
  <2>1. FileFollows(f)
    BY <1>2, <1>9 DEF IngestInv
  <2>2. Ingest!Holders(f)' = Ingest!Holders(f) \ {p} /\ p \in Ingest!Holders(f)
    BY <1>0, <1>2, <1>4, <1>8, PartsOfContent DEF Ingest!Holders
  <2>3. \A q \in Ingest!Holders(f) : pass[q].read = pass[p].read
    BY <2>1, <2>2 DEF FileFollows, FileIsIndexed
  <2>4. \A q \in Ingest!Holders(f)' : pass'[q] = pass[q] /\ pass'[q].read = pass[p].read
    BY <1>8, <2>2, <2>3 DEF Ingest!Holders
  <2>5. Own(f)' = pass[p].read
    BY <1>3, <1>8 DEF Own
  <2>6. index[f] = Ingest!Whole(pass[p].read)
    BY <1>1, <2>1, <2>2 DEF FileFollows, FileIsIndexed
  <2>7. FileIsIndexed(f)'
    BY <1>1, <1>2, <2>2, <2>4, <2>5, <2>6 DEF FileIsIndexed
  <2>8. FileIsAhead(f)'
    <3>1. ASSUME \E q \in Passes : f \in pass[q].todo PROVE \E q \in Passes : f \in pass'[q].todo
      BY <1>4, <1>8, <3>1
    <3> QED BY <1>1, <1>2, <2>1, <2>2, <2>4, <2>5, <3>1 DEF FileFollows, FileIsAhead
  <2>9. FileIsGone(f)'
    BY <1>1, <1>2, <2>1, <2>2 DEF FileFollows, FileIsGone
  <2> QED BY <2>7, <2>8, <2>9 DEF FileFollows
<1>10. ASSUME NEW g \in Ingest!Files \ crossed' PROVE FileFollows(g)'
  <2>1. CASE g = f
    BY <1>1, <1>9, <1>10, <2>1
  <2>2. CASE g # f
    <3>1. Own(g)' = Own(g) /\ index'[g] = index[g]
      BY <1>1, <1>8, <1>10, <2>2 DEF Own, Ingest!Files
    <3> QED BY <1>0, <1>1, <1>4, <1>10, <2>2, <3>1, OthersUntouched
  <2> QED BY <2>1, <2>2
<1> QED BY <1>1, <1>4, <1>5, <1>6, <1>7, <1>10, OnePassKeeps

\* A pass between two files, and what it knows.
LEMMA BetweenFiles ==
  ASSUME IngestInv, NEW p \in Passes, pass[p].step = "next"
  PROVE  /\ pass[p] \in Ingest!PassRecords /\ pass[p].of \in attached /\ pass[p].of \in Workspaces
         /\ pass[p].file = None /\ pass[p].todo \cup pass[p].seen \subseteq Ingest!In(pass[p].of)
         /\ Ingest!In(pass[p].of) \subseteq Ingest!Files
         /\ pass[p].done \in 0..Ingest!Parts(pass[p].read)
         /\ \A f \in Ingest!In(pass[p].of) : f[1] = pass[p].of
<1>1. pass[p] \in Ingest!PassRecords /\ pass[p].of \in attached /\ attached \subseteq Workspaces
  BY DEF IngestInv, Ingest!TypeOK
<1>2. Ingest!In(pass[p].of) \subseteq Ingest!Files
      /\ \A f \in Ingest!In(pass[p].of) : f[1] = pass[p].of
  BY <1>1 DEF Ingest!In, Ingest!Files
<1>3. /\ pass[p].todo \cup pass[p].seen \subseteq Ingest!In(pass[p].of)
      /\ pass[p].done \in 0..Ingest!Parts(pass[p].read)
  BY DEF IngestInv, Ingest!TypeOK
<1>4. pass[p].file = None
  BY DEF IngestInv, PassesAreSound, PassSound
<1> QED BY <1>1, <1>2, <1>3, <1>4

\* A file is forgotten by a pass that goes on as r.
LEMMA ForgetFollows ==
  ASSUME IngestInv, NEW p \in Passes, pass[p].step = "next", NEW r, pass' = [pass EXCEPT ![p] = r],
         NEW f \in Ingest!Files, Ingest!Forget(pass[p].of, f),
         UNCHANGED <<disk, manifest, saved, attached, unseen, edits, ends>>,
         disk[f] = None \/ f \notin pass[p].todo,
         r.file = None, r.of = pass[p].of, r.kind = pass[p].kind,
         r.todo \cup {f} = pass[p].todo \cup {f}, r.seen \cup {f} = pass[p].seen \cup {f}
  PROVE  /\ DataTyped' /\ KnownIsSound'
         /\ \A g \in Ingest!Files \ crossed' : FileFollows(g)'
<1>0. PICK w : w = pass[p].of
  OBVIOUS
<1>1. /\ w \in attached /\ w \in Workspaces /\ pass[p].file = None
      /\ \A g \in Ingest!In(w) : g[1] = w
  BY <1>0, BetweenFiles
<1>2. /\ known' = [known EXCEPT ![w][f] = Ingest!Unknown]
      /\ index' = Ingest!WithoutChunks(f, known[w][f].chunks)
      /\ crossed \subseteq crossed' /\ crossed' \subseteq crossed \cup {f}
      /\ f \notin crossed' => /\ Ingest!Holders(f) = {} /\ known[w][f].hash # disk[f]
                              /\ f \in Ingest!In(w)
      /\ dropped' = dropped \ {f}
  BY <1>0 DEF Ingest!Forget
<1>3. known[w][f] \in [hash : Contents \cup {None}, chunks : 0..2]
      /\ known[w][f].chunks = Ingest!Parts(known[w][f].hash)
      /\ known[w][f].hash \in Contents \cup {None}
  BY <1>1 DEF IngestInv, Ingest!TypeOK, Ingest!KnownFiles, KnownIsSound, Counted
<1>4. /\ \A j \in Ingest!Slots : index'[f][j] =
           IF j <= known[w][f].chunks THEN None ELSE index[f][j]
      /\ index'[f] \in [Ingest!Slots -> Contents \cup {None}]
      /\ index' \in [Ingest!Files -> [Ingest!Slots -> Contents \cup {None}]]
      /\ \A g \in Ingest!Files : g # f => index'[g] = index[g]
  BY <1>2 DEF Ingest!WithoutChunks, IngestInv, Ingest!TypeOK
<1>5. /\ \A v \in Workspaces, g \in Ingest!Files : g # f => known'[v][g] = known[v][g]
      /\ known'[w][f] = Ingest!Unknown /\ known' \in [Workspaces -> Ingest!KnownFiles]
      /\ \A v \in Workspaces : v # w => known'[v] = known[v]
  BY <1>1, <1>2 DEF IngestInv, Ingest!TypeOK, Ingest!KnownFiles, Ingest!Unknown
<1>6. DataTyped'
  BY <1>2, <1>4, <1>5 DEF IngestInv, Ingest!TypeOK, DataTyped
<1>7. KnownIsSound'
  BY <1>5, PartsOfContent DEF IngestInv, KnownIsSound, Counted, Ingest!Unknown
<1>8. /\ \A q \in Passes : q # p => pass'[q] = pass[q]
      /\ pass'[p] = r
  BY DEF IngestInv, Ingest!TypeOK
<1>9. ASSUME f \notin crossed' PROVE FileFollows(f)'
  <2>1. FileFollows(f) /\ f[1] = w
    BY <1>1, <1>2, <1>9 DEF IngestInv
  <2>2. Ingest!Holders(f) = {} /\ Ingest!Holders(f)' = {} /\ Own(f) # disk[f]
    BY <1>1, <1>2, <1>8, <1>9, <2>1, PartsOfContent DEF Ingest!Holders, Own
  <2>3. Own(f)' = None
    BY <1>5, <2>1 DEF Own, Ingest!Unknown
  <2>4. index'[f] = Ingest!Whole(None)
    <3>1. index[f] = Ingest!Whole(known[w][f].hash)
      BY <1>1, <2>1, <2>2 DEF FileFollows, FileIsIndexed, Own
    <3>2. \A j \in Ingest!Slots : index'[f][j] = None
      BY <1>3, <1>4, <3>1, PartsOfContent
    <3> QED BY <1>4, <3>2, WholeOfNone
  <2>5. FileIsIndexed(f)'
    BY <1>1, <2>1, <2>2, <2>3, <2>4 DEF FileIsIndexed
  <2>6. FileIsAhead(f)'
    <3>1. ASSUME f \notin pass[p].todo, \E q \in Passes : f \in pass[q].todo
          PROVE  \E q \in Passes : f \in pass'[q].todo
      BY <1>8, <3>1
    <3> QED BY <2>1, <2>2, <3>1 DEF FileFollows, FileIsAhead
  <2>7. FileIsGone(f)'
    BY <2>2, <2>3 DEF FileIsGone
  <2> QED BY <2>5, <2>6, <2>7 DEF FileFollows
<1>10. ASSUME NEW g \in Ingest!Files \ crossed' PROVE FileFollows(g)'
  <2>1. CASE g = f
    BY <1>9, <1>10, <2>1
  <2>2. CASE g # f
    <3>1. Own(g)' = Own(g) /\ index'[g] = index[g] /\ g \notin crossed
          /\ (g \in dropped => g \in dropped')
      BY <1>2, <1>4, <1>5, <1>10, <2>2 DEF Own, Ingest!Files
    <3> QED BY <1>1, <1>10, <2>2, <3>1, OthersUntouched
  <2> QED BY <2>1, <2>2
<1> QED BY <1>6, <1>7, <1>10

\* A pass looks at its next file.
LEMMA TakeKeepsIngestInv ==
  ASSUME IngestInv, NEW p \in Passes, Ingest!Take(p)
  PROVE  IngestInv'
<1>a. PICK w : w = pass[p].of
  OBVIOUS
<1>0. PICK f \in pass[p].todo :
        /\ w = pass[p].of /\ pass[p].step = "next"
        /\ UNCHANGED <<disk, manifest, saved, attached, unseen, edits, ends>>
        /\ LET rest == [pass[p] EXCEPT !.todo = @ \ {f}, !.seen = @ \cup {f}] IN
           \/ /\ disk[f] = None /\ pass[p].kind = "files"
              /\ Ingest!Forget(w, f) /\ pass' = [pass EXCEPT ![p] = rest]
           \/ /\ IF disk[f] = None THEN pass[p].kind = "sync" ELSE known[w][f].hash = disk[f]
              /\ pass' = [pass EXCEPT ![p] = rest]
              /\ crossed' = IF Ingest!OtherInHand(f) THEN crossed \cup {f} ELSE crossed
              /\ UNCHANGED <<known, index, dropped>>
           \/ /\ disk[f] # None /\ known[w][f].hash # disk[f]
              /\ pass' = [pass EXCEPT ![p] = [rest EXCEPT !.step = "store", !.file = f,
                            !.read = disk[f], !.prev = known[w][f].chunks, !.done = 0]]
              /\ crossed' = IF Ingest!OtherInHand(f) THEN crossed \cup {f} ELSE crossed
              /\ UNCHANGED <<known, index, dropped>>
  BY <1>a DEF Ingest!Take, Ingest!Known, Ingest!counts
<1>1. /\ pass[p] \in Ingest!PassRecords /\ w \in attached /\ w \in Workspaces
      /\ pass[p].file = None /\ pass[p].todo \cup pass[p].seen \subseteq Ingest!In(w)
      /\ pass[p].done \in 0..Ingest!Parts(pass[p].read)
      /\ f \in Ingest!Files /\ f \in Ingest!In(w) /\ f[1] = w
  BY <1>0, BetweenFiles
<1>2. known[w][f] \in [hash : Contents \cup {None}, chunks : 0..2]
      /\ known[w][f].chunks = Ingest!Parts(known[w][f].hash)
      /\ known[w][f].hash \in Contents \cup {None} /\ Own(f) = known[w][f].hash
      /\ disk[f] \in Contents \cup {None}
  BY <1>1 DEF IngestInv, Ingest!TypeOK, Ingest!KnownFiles, KnownIsSound, Counted, Own
<1> DEFINE rest == [pass[p] EXCEPT !.todo = @ \ {f}, !.seen = @ \cup {f}]
<1>3. /\ rest \in Ingest!PassRecords /\ rest.step = "next" /\ rest.file = None
      /\ rest.of = w /\ rest.kind = pass[p].kind /\ rest.done \in 0..Ingest!Parts(rest.read)
      /\ rest.todo = pass[p].todo \ {f} /\ rest.seen = pass[p].seen \cup {f}
  BY <1>0, <1>1 DEF Ingest!PassRecords
<1>4. PassHolds(rest, attached') /\ PassSound(rest)
  BY <1>0, <1>1, <1>3 DEF PassHolds, PassSound
<1> HIDE DEF rest
<1>5. CASE disk[f] = None /\ Ingest!Forget(w, f) /\ pass' = [pass EXCEPT ![p] = rest]
  <2>1. /\ DataTyped' /\ KnownIsSound'
        /\ \A g \in Ingest!Files \ crossed' : FileFollows(g)'
    <3>1. /\ rest.todo \cup {f} = pass[p].todo \cup {f}
          /\ rest.seen \cup {f} = pass[p].seen \cup {f}
      BY <1>3
    <3>2. Ingest!Forget(pass[p].of, f)
      BY <1>0, <1>5, Zenon
    <3> QED BY <1>0, <1>1, <1>3, <1>5, <3>1, <3>2, ForgetFollows
  <2> QED BY <1>0, <1>3, <1>4, <1>5, <2>1, OnePassKeeps
<1>6. ASSUME NEW r \in Ingest!PassRecords, pass' = [pass EXCEPT ![p] = r], UNCHANGED <<known, index>>,
             r.todo = pass[p].todo \ {f}, r.seen = pass[p].seen \cup {f}, r.of = w,
             r.kind = pass[p].kind, r.file \in {f, None},
             PassHolds(r, attached'), PassSound(r), UNCHANGED dropped,
             crossed' = IF Ingest!OtherInHand(f) THEN crossed \cup {f} ELSE crossed,
             f \notin crossed' => FileFollows(f)'
      PROVE  IngestInv'
  <2>1. DataTyped'
    BY <1>0, <1>1, <1>6 DEF IngestInv, Ingest!TypeOK, DataTyped
  <2>2. KnownIsSound'
    BY <1>0, <1>6 DEF IngestInv, KnownIsSound
  <2>3. ASSUME NEW g \in Ingest!Files \ crossed' PROVE FileFollows(g)'
    <3>1. CASE g = f
      BY <1>6, <2>3, <3>1
    <3>2. CASE g # f
      <4>1. Own(g)' = Own(g) /\ g \notin crossed
        BY <1>6, <2>3 DEF Own
      <4>2. /\ r.todo \cup {f} = pass[p].todo \cup {f}
            /\ r.seen \cup {f} = pass[p].seen \cup {f}
        BY <1>6
      <4> QED BY <1>0, <1>1, <1>6, <2>3, <3>2, <4>1, <4>2, OthersUntouched
    <3> QED BY <3>1, <3>2
  <2> QED BY <1>0, <1>6, <2>1, <2>2, <2>3, OnePassKeeps
<1>7. CASE /\ IF disk[f] = None THEN pass[p].kind = "sync" ELSE known[w][f].hash = disk[f]
           /\ pass' = [pass EXCEPT ![p] = rest] /\ UNCHANGED <<known, index, dropped>>
           /\ crossed' = IF Ingest!OtherInHand(f) THEN crossed \cup {f} ELSE crossed
  <2>1. ASSUME f \notin crossed' PROVE FileFollows(f)'
    <3>1. FileFollows(f) /\ ~Ingest!OtherInHand(f)
      BY <1>1, <1>7, <2>1 DEF IngestInv
    <3>2. /\ \A q \in Passes : q # p => pass'[q] = pass[q]
          /\ pass'[p] = rest
      BY <1>7 DEF IngestInv, Ingest!TypeOK
    <3>3. /\ Ingest!Holders(f)' = Ingest!Holders(f)
          /\ \A q \in Ingest!Holders(f) : pass'[q] = pass[q]
      BY <1>1, <1>3, <3>2, PartsOfContent DEF Ingest!Holders
    <3>4. Own(f)' = Own(f)
      BY <1>7 DEF Own
    <3>5. FileIsIndexed(f)'
      BY <1>0, <1>7, <3>1, <3>3, <3>4 DEF FileFollows, FileIsIndexed, Replaces
    <3>6. FileIsAhead(f)'
      BY <1>0, <1>2, <1>7, <3>1, <3>3, <3>4 DEF FileIsAhead, Ingest!OtherInHand
    <3>7. FileIsGone(f)'
      BY <1>0, <1>3, <1>7, <3>1, <3>2, <3>3, <3>4 DEF FileFollows, FileIsGone
    <3> QED BY <3>5, <3>6, <3>7 DEF FileFollows
  <2> QED BY <1>3, <1>4, <1>6, <1>7, <2>1
<1>8. CASE /\ disk[f] # None /\ known[w][f].hash # disk[f] /\ UNCHANGED <<known, index, dropped>>
           /\ pass' = [pass EXCEPT ![p] = [rest EXCEPT !.step = "store", !.file = f,
                         !.read = disk[f], !.prev = known[w][f].chunks, !.done = 0]]
           /\ crossed' = IF Ingest!OtherInHand(f) THEN crossed \cup {f} ELSE crossed
  <2> DEFINE r == [rest EXCEPT !.step = "store", !.file = f,
                     !.read = disk[f], !.prev = known[w][f].chunks, !.done = 0]
  <2>1. /\ r \in Ingest!PassRecords /\ r.step = "store" /\ r.file = f /\ r.read = disk[f]
        /\ r.prev = known[w][f].chunks /\ r.done = 0 /\ r.of = w /\ r.kind = pass[p].kind
        /\ r.todo = pass[p].todo \ {f} /\ r.seen = pass[p].seen \cup {f}
    <3> DEFINE s == [rest EXCEPT !.step = "store", !.file = f]
    <3>1. /\ s \in Ingest!PassRecords /\ s.step = "store" /\ s.file = f /\ s.of = rest.of
          /\ s.kind = rest.kind /\ s.todo = rest.todo /\ s.seen = rest.seen
      BY <1>1, <1>3 DEF Ingest!PassRecords
    <3>2. r = [[[s EXCEPT !.read = disk[f]] EXCEPT !.prev = known[w][f].chunks] EXCEPT !.done = 0]
      BY <1>3 DEF Ingest!PassRecords
    <3> HIDE DEF s, r
    <3>3. [s EXCEPT !.read = disk[f]] \in Ingest!PassRecords
      BY <1>2, <3>1 DEF Ingest!PassRecords
    <3>4. \A t \in Ingest!PassRecords : [t EXCEPT !.prev = known[w][f].chunks] \in Ingest!PassRecords
      BY <1>2 DEF Ingest!PassRecords
    <3>5. \A t \in Ingest!PassRecords : [t EXCEPT !.done = 0] \in Ingest!PassRecords
      BY DEF Ingest!PassRecords
    <3>6. r \in Ingest!PassRecords
      BY <3>2, <3>3, <3>4, <3>5
    <3>7. /\ r.step = s.step /\ r.file = s.file /\ r.of = s.of /\ r.kind = s.kind
          /\ r.todo = s.todo /\ r.seen = s.seen /\ r.done = 0 /\ r.read = disk[f]
          /\ r.prev = known[w][f].chunks
      BY <3>1, <3>2 DEF Ingest!PassRecords
    <3> QED BY <1>3, <3>1, <3>6, <3>7
  <2>2. pass' = [pass EXCEPT ![p] = r]
    BY <1>8
  <2> HIDE DEF r
  <2>3. PassHolds(r, attached') /\ PassSound(r)
    BY <1>0, <1>1, <1>2, <1>8, <2>1, PartsOfContent DEF PassHolds, PassSound
  <2>4. ASSUME f \notin crossed' PROVE FileFollows(f)'
    <3>1. FileFollows(f) /\ ~Ingest!OtherInHand(f) /\ f \notin crossed
      BY <1>1, <1>8, <2>4 DEF IngestInv
    <3>2. /\ \A q \in Passes : q # p => pass'[q] = pass[q]
          /\ pass'[p] = r
      BY <2>2 DEF IngestInv, Ingest!TypeOK
    <3>3. /\ Ingest!Holders(f)' = Ingest!Holders(f) \cup {p}
          /\ p \notin Ingest!Holders(f)
          /\ \A q \in Ingest!Holders(f) : pass'[q] = pass[q] /\ pass[q].read = disk[f]
      BY <1>1, <1>8, <2>1, <3>1, <3>2, PartsOfContent DEF Ingest!Holders, Ingest!OtherInHand
    <3>4. Own(f)' = Own(f) /\ Own(f) # disk[f]
      BY <1>2, <1>8 DEF Own
    <3>5. Replaces(p, f)'
      <4>1. CASE Ingest!Holders(f) = {}
        <5>1. index[f] = Ingest!Whole(Own(f))
          BY <1>1, <3>1, <4>1 DEF FileFollows, FileIsIndexed
        <5> QED BY <1>2, <1>8, <2>1, <3>2, <3>4, <5>1 DEF Replaces, Ingest!Slots
      <4>2. ASSUME NEW q \in Ingest!Holders(f) PROVE Replaces(p, f)'
        <5>1. \/ index[f] = Ingest!Whole(disk[f])
              \/ Replaces(q, f)
          BY <3>1, <3>3, <3>4, <4>2 DEF FileFollows, FileIsIndexed
        <5>2. \A i \in Ingest!Slots : \/ index[f][i] = Ingest!Whole(disk[f])[i]
                                      \/ index[f][i] = Ingest!Whole(Own(f))[i]
          BY <3>3, <5>1, <4>2 DEF Replaces
        <5> QED BY <1>2, <1>8, <2>1, <3>2, <3>4, <5>2 DEF Replaces, Ingest!Slots
      <4> QED BY <4>1, <4>2
    <3>6. ASSUME NEW q \in Ingest!Holders(f), pass[q].step # "record" PROVE Replaces(q, f)'
      <4>1. Replaces(q, f)
        BY <3>1, <3>3, <3>4, <3>6 DEF FileFollows, FileIsIndexed
      <4> QED BY <1>8, <3>3, <3>4, <3>6, <4>1 DEF Replaces
    <3>7. ASSUME NEW q \in Ingest!Holders(f), pass[q].step = "record"
          PROVE  index'[f] = Ingest!Whole(disk[f])
      BY <1>8, <3>1, <3>3, <3>7 DEF FileFollows, FileIsIndexed
    <3>8. FileIsIndexed(f)'
      BY <1>0, <1>1, <2>1, <3>2, <3>3, <3>4, <3>5, <3>6, <3>7 DEF FileIsIndexed
    <3>9. FileIsAhead(f)'
      BY <1>0, <2>1, <3>2, <3>3 DEF FileIsAhead
    <3>10. FileIsGone(f)'
      BY <1>0, <1>8 DEF FileIsGone
    <3> QED BY <3>8, <3>9, <3>10 DEF FileFollows
  <2> QED BY <1>6, <1>8, <2>1, <2>2, <2>3, <2>4
<1> QED BY <1>0, <1>5, <1>7, <1>8 DEF rest

\* What the walk did not see is forgotten.
LEMMA ForgetMissingKeepsIngestInv ==
  ASSUME IngestInv, NEW p \in Passes, Ingest!ForgetMissing(p)
  PROVE  IngestInv'
<1>1. PICK f \in Ingest!Files :
        /\ Ingest!Forget(pass[p].of, f) /\ pass[p].step = "next" /\ pass[p].todo = {}
        /\ UNCHANGED <<disk, manifest, saved, attached, unseen, pass, edits, ends>>
  BY DEF Ingest!ForgetMissing, Ingest!Missing, Ingest!counts
<1>2. pass' = [pass EXCEPT ![p] = pass[p]] /\ pass[p].file = None /\ pass[p] \in Ingest!PassRecords
  BY <1>1, BetweenFiles DEF IngestInv, Ingest!TypeOK
<1>3. PassHolds(pass[p], attached') /\ PassSound(pass[p])
  BY <1>1 DEF PassHolds, IngestInv, Ingest!TypeOK, PassesAreSound
<1>4. /\ DataTyped' /\ KnownIsSound'
      /\ \A g \in Ingest!Files \ crossed' : FileFollows(g)'
  BY <1>1, <1>2, ForgetFollows
<1> QED BY <1>1, <1>2, <1>3, <1>4, OnePassKeeps

\* A pass is over, and the manifest is saved.
LEMMA FinishKeepsIngestInv ==
  ASSUME IngestInv, NEW p \in Passes, Ingest!Finish(p)
  PROVE  IngestInv'
<1>0. PICK w : w = pass[p].of
  OBVIOUS
<1>1. /\ pass[p].step = "next" /\ pass[p].todo = {}
      /\ pass[p].kind = "sync" => Ingest!Missing(p) = {}
      /\ manifest' \in {known[w], manifest}
      /\ pass' = [pass EXCEPT ![p] = Ingest!Idle]
      /\ crossed' = crossed \cup {f \in Ingest!Files \ Ingest!In(w) : manifest'[f] # manifest[f]}
      /\ UNCHANGED <<disk, saved, index, known, attached, unseen, edits, ends, dropped>>
  BY <1>0 DEF Ingest!Finish, Ingest!Saved, Ingest!counts
<1>2. /\ pass[p] \in Ingest!PassRecords /\ w \in attached /\ w \in Workspaces
      /\ pass[p].file = None
  BY <1>0, <1>1, BetweenFiles
<1>3. Ingest!Idle \in Ingest!PassRecords /\ PassHolds(Ingest!Idle, attached') /\ PassSound(Ingest!Idle)
      /\ Ingest!Idle.file = None
  BY DEF Ingest!Idle, Ingest!PassRecords, PassHolds, PassSound
<1>4. DataTyped'
  BY <1>1, <1>2 DEF IngestInv, Ingest!TypeOK, DataTyped
<1>5. KnownIsSound'
  BY <1>1, <1>2 DEF IngestInv, KnownIsSound
<1>6. /\ \A q \in Passes : q # p => pass'[q] = pass[q]
      /\ pass'[p] = Ingest!Idle
  BY <1>1 DEF IngestInv, Ingest!TypeOK
<1>7. ASSUME NEW f \in Ingest!Files \ crossed' PROVE FileFollows(f)'
  <2>1. FileFollows(f) /\ Own(f)' = Own(f)
    BY <1>1, <1>7 DEF IngestInv, Own
  <2>2. f[1] \notin attached => manifest'[f] = manifest[f]
    <3>1. f[1] \notin attached => f \notin Ingest!In(w)
      BY <1>2 DEF Ingest!In
    <3> QED BY <1>1, <1>7, <3>1
  <2>3. pass[p].of = f[1] /\ pass[p].kind = "sync" /\ Own(f) # None => f \in pass[p].seen
    BY <1>0, <1>1, <1>7 DEF Ingest!Missing, Ingest!Known, Own
  <2> QED BY <1>1, <1>2, <1>3, <1>6, <1>7, <2>1, <2>2, <2>3, PartsOfContent, FileUntouched
<1> QED BY <1>1, <1>3, <1>4, <1>5, <1>7, OnePassKeeps

\* A file is written, deleted or created.
LEMMA EditKeepsIngestInv ==
  ASSUME IngestInv, NEW f \in Ingest!Files, NEW c \in Contents \cup {None}, Ingest!Edit(f, c)
  PROVE  IngestInv'
<1>1. /\ disk' = [disk EXCEPT ![f] = c] /\ edits < MaxEdits /\ edits' = edits + 1
      /\ unseen' = IF f[1] \in attached THEN unseen \cup {f} ELSE unseen
      /\ dropped' = IF c = None /\ f[1] \in attached THEN dropped \cup {f} ELSE dropped \ {f}
      /\ UNCHANGED <<manifest, saved, index, known, attached, pass, ends, crossed>>
  BY DEF Ingest!Edit
<1>2. Ingest!TypeOK'
  BY <1>1, SurfacesAssumption DEF IngestInv, Ingest!TypeOK, Ingest!BoundsAssumption
<1>3. PassesAreSound' /\ KnownIsSound'
  BY <1>1 DEF IngestInv, PassesAreSound, KnownIsSound
<1>4. ASSUME NEW g \in Ingest!Files \ crossed' PROVE FileFollows(g)'
  <2>1. FileFollows(g) /\ Own(g)' = Own(g) /\ Ingest!Holders(g)' = Ingest!Holders(g)
    BY <1>1, <1>4 DEF IngestInv, Own, Ingest!Holders
  <2>2. CASE g = f
    <3>1. FileIsIndexed(g)'
      BY <1>1, <2>1 DEF FileFollows, FileIsIndexed, Replaces
    <3>2. FileIsAhead(g)'
      BY <1>1, <2>2 DEF FileIsAhead
    <3>3. FileIsGone(g)'
      BY <1>1, <2>2 DEF FileIsGone, IngestInv, Ingest!TypeOK
    <3> QED BY <3>1, <3>2, <3>3 DEF FileFollows
  <2>3. CASE g # f
    <3>1. /\ disk'[g] = disk[g] /\ (g \in unseen => g \in unseen')
          /\ g \in dropped => g \in dropped'
      BY <1>1, <1>4, <2>3 DEF IngestInv, Ingest!TypeOK
    <3> QED BY <1>1, <1>4, <2>1, <3>1, FileUntouched
  <2> QED BY <2>2, <2>3
<1> QED BY <1>2, <1>3, <1>4 DEF IngestInv

\* The process ends and is started again.
LEMMA EndKeepsIngestInv ==
  ASSUME IngestInv, NEW how, Ingest!End(how)
  PROVE  IngestInv'
<1>1. /\ ends < MaxEnds /\ ends' = ends + 1
      /\ saved' \in {saved, index} /\ index' = saved'
      /\ known' = [w \in Workspaces |-> Ingest!Nothing]
      /\ attached' = {} /\ unseen' = {} /\ dropped' = {}
      /\ pass' = [q \in Passes |-> Ingest!Idle]
      /\ crossed' = crossed \cup
           {f \in Ingest!Files : index'[f] # Ingest!Whole(manifest[f].hash)}
      /\ UNCHANGED <<disk, manifest, edits>>
  BY DEF Ingest!End
<1>2. Ingest!Nothing \in Ingest!KnownFiles /\ Counted(Ingest!Nothing)
  BY PartsOfContent DEF Ingest!Nothing, Ingest!Unknown, Ingest!KnownFiles, Counted
<1>3. Ingest!Idle \in Ingest!PassRecords /\ PassSound(Ingest!Idle) /\ Ingest!Idle.file = None
      /\ Ingest!Idle.step = "idle"
  BY DEF Ingest!Idle, Ingest!PassRecords, PassSound
<1>4. DataTyped'
  BY <1>1, <1>2, SurfacesAssumption DEF IngestInv, Ingest!TypeOK, DataTyped,
     Ingest!BoundsAssumption
<1>5. pass' \in [Passes -> Ingest!PassRecords] /\ \A q \in Passes : pass'[q] = Ingest!Idle
  BY <1>1, <1>3
<1>6. Ingest!TypeOK'
  BY <1>3, <1>4, <1>5 DEF Ingest!TypeOK, DataTyped
<1>7. PassesAreSound' /\ KnownIsSound'
  BY <1>1, <1>2, <1>3, <1>5 DEF IngestInv, PassesAreSound, KnownIsSound
<1>8. ASSUME NEW f \in Ingest!Files \ crossed' PROVE FileFollows(f)'
  <2>1. Ingest!Holders(f)' = {}
    BY <1>3, <1>5, PartsOfContent DEF Ingest!Holders
  <2> QED BY <1>1, <1>8, <2>1 DEF FileFollows, FileIsIndexed, FileIsAhead, FileIsGone
<1> QED BY <1>6, <1>7, <1>8 DEF IngestInv

\* Nothing the invariant speaks of changes.
LEMMA FlushKeepsIngestInv ==
  ASSUME IngestInv, Ingest!Flush \/ UNCHANGED Ingest!vars
  PROVE  IngestInv'
<1>1. UNCHANGED <<disk, manifest, index, known, attached, unseen, pass, edits, ends, crossed, dropped>>
      /\ saved' \in {saved, index}
  BY DEF Ingest!Flush, Ingest!vars, Ingest!process, Ingest!counts, Ingest!history
<1>2. Ingest!TypeOK'
  BY <1>1 DEF IngestInv, Ingest!TypeOK
<1>3. PassesAreSound' /\ KnownIsSound'
  BY <1>1 DEF IngestInv, PassesAreSound, KnownIsSound
<1>4. ASSUME NEW f \in Ingest!Files \ crossed' PROVE FileFollows(f)'
  <2>1. FileFollows(f) /\ Own(f)' = Own(f)
    BY <1>1, <1>4 DEF IngestInv, Own
  <2> QED BY <1>1, <1>4, <2>1, FileUntouched
<1> QED BY <1>2, <1>3, <1>4 DEF IngestInv

\* Every step of the ingestion keeps it.
LEMMA NextIngestInv ==
  ASSUME IngestInv, [Ingest!Next]_(Ingest!vars)
  PROVE  IngestInv'
<1>1. ASSUME NEW p \in Passes,
             \/ Ingest!Take(p) \/ Ingest!Store(p) \/ Ingest!Prune(p) \/ Ingest!Record(p)
             \/ Ingest!ForgetMissing(p) \/ Ingest!Finish(p)
      PROVE  IngestInv'
  BY <1>1, TakeKeepsIngestInv, StoreKeepsIngestInv, PruneKeepsIngestInv, RecordKeepsIngestInv,
     ForgetMissingKeepsIngestInv, FinishKeepsIngestInv
<1>2. ASSUME NEW w \in Workspaces, Ingest!Attach(w) \/ Ingest!Scan(w) PROVE IngestInv'
  BY <1>2, AttachKeepsIngestInv, ScanKeepsIngestInv
<1>3. ASSUME NEW f \in Ingest!Files, NEW c \in Contents \cup {None}, Ingest!Edit(f, c)
      PROVE  IngestInv'
  BY <1>3, EditKeepsIngestInv
<1>4. ASSUME NEW how \in {"exit", "crash"}, Ingest!End(how) PROVE IngestInv'
  BY <1>4, EndKeepsIngestInv
<1> QED BY <1>1, <1>2, <1>3, <1>4, FlushKeepsIngestInv DEF Ingest!Next

\* It holds in every state of the surfaces.
LEMMA IngestInvariant == SurfacesSpec => []IngestInv
<1>1. SurfacesInit => IngestInv
  BY InitIngestInv DEF SurfacesInit, SurfacesBegin
<1>2. IngestInv /\ [SurfacesNext]_surfaces => IngestInv'
  BY NextIngestInv, SurfacesStepOfIngest
<1> QED BY <1>1, <1>2, PTL DEF SurfacesSpec

\* The index keeps up with the files that passes and ends of the process did not cross
\* (auto.go), for any workspaces that share the store and the manifest, any files and
\* contents, any number of passes at once, and wherever the process ends.
THEOREM IndexFollows == SurfacesSpec => []IndexIsCurrent
<1>1. ASSUME IngestInv PROVE Ingest!KeepsCurrent /\ Ingest!DeletedIsForgotten
  <2>1. ASSUME NEW w \in Workspaces, NEW f \in Ingest!In(w) \ crossed, Ingest!Quiet(w)
        PROVE  /\ f \in Ingest!Files /\ f[1] = w /\ w \in attached /\ FileFollows(f)
               /\ Ingest!Holders(f) = {} /\ \A p \in Passes : f \notin pass[p].todo
               /\ \A p \in Passes : pass[p].of # w
               /\ index[f] = Ingest!Whole(Own(f))
    <3>1. f \in Ingest!Files /\ f[1] = w /\ w \in attached /\ \A p \in Passes : pass[p].of # w
      BY <2>1 DEF Ingest!In, Ingest!Files, Ingest!Quiet, Ingest!Busy
    <3>2. FileFollows(f)
      BY <1>1, <2>1, <3>1 DEF IngestInv
    <3>3. ASSUME NEW p \in Passes PROVE f \notin pass[p].todo /\ pass[p].file # f
      <4>1. CASE pass[p].step = "idle"
        BY <1>1, <3>1, <4>1, PartsOfContent DEF IngestInv, Ingest!TypeOK, Ingest!Idle
      <4>2. CASE pass[p].step # "idle"
        <5>1. /\ pass[p].todo \subseteq Ingest!In(pass[p].of)
              /\ pass[p].file \in Ingest!In(pass[p].of) \cup {None}
          BY <1>1, <4>2 DEF IngestInv, Ingest!TypeOK, Ingest!PassRecords, PassesAreSound, PassSound
        <5> QED BY <3>1, <5>1, PartsOfContent DEF Ingest!In
      <4> QED BY <4>1, <4>2
    <3> QED BY <3>1, <3>2, <3>3 DEF FileFollows, FileIsIndexed, Ingest!Holders
  <2>2. Ingest!KeepsCurrent
    <3> SUFFICES ASSUME NEW w \in Workspaces, NEW f \in Ingest!Existing(w) \ crossed,
                        Ingest!Quiet(w), f[2] \in Watched
                 PROVE  index[f] = Ingest!Whole(disk[f])
      BY DEF Ingest!KeepsCurrent
    <3>1. f \in Ingest!In(w) \ crossed /\ disk[f] # None /\ f \notin unseen
      BY DEF Ingest!Existing, Ingest!Quiet, Ingest!Changed
    <3> QED BY <2>1, <3>1 DEF FileFollows, FileIsAhead
  <2>3. Ingest!DeletedIsForgotten
    <3> SUFFICES ASSUME NEW w \in Workspaces, NEW f \in Ingest!In(w) \ (crossed \cup dropped),
                        Ingest!Quiet(w), disk[f] = None
                 PROVE  index[f] = Ingest!Whole(None)
      BY DEF Ingest!DeletedIsForgotten
    <3> QED BY <2>1 DEF FileFollows, FileIsGone
  <2> QED BY <2>2, <2>3
<1>2. IngestInv => IndexIsCurrent
  BY <1>1 DEF IngestInv, IndexIsCurrent
<1> QED BY <1>2, IngestInvariant, PTL

-----------------------------------------------------------------------------
(* Across the surfaces *)

\* A turn ends for a reason of its own: the latest chat turn is stuck only after silence
\* (progress_deadline.go), a turn of the GUI is over only by its own signal (server.go).
THEOREM TurnsEndForTheirCause == SurfacesSpec => TurnsEndForCause
BY ChatStuckIsSilent, GuiEndsByItsOwn DEF TurnsEndForCause
=============================================================================
