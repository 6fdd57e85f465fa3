----------------------------- MODULE StoreWriter -----------------------------
(***************************************************************************)
(* The debounced writer every memory store persists itself with            *)
(* (memory/memory/writer.go).                                              *)
(*                                                                         *)
(* The contents of the store are a number that grows with every change.    *)
(* A job is one run of flush: of the timer, of FlushNow or of Shutdown;    *)
(* it renames a file of its own over the store's, so several may be at     *)
(* work at once.                                                           *)
(***************************************************************************)
EXTENDS Naturals, FiniteSets

CONSTANTS
  Jobs,         \* bound of the model: jobs at one time
  NoJob,
  MaxChanges,   \* bound of the model: changes of the store
  MaxCalls,     \* bound of the model: calls of FlushNow
  MaxFailures   \* bound of the model: writes that fail

ASSUME JobsAssumption == NoJob \notin Jobs
ASSUME BoundsAssumption == MaxChanges \in Nat /\ MaxCalls \in Nat /\ MaxFailures \in Nat

VARIABLES
  version,    \* the contents in memory
  mutator,    \* where the one that holds the store's lock is in MarkDirty
  dirty,      \* DebouncedWriter.dirty
  timer,      \* DebouncedWriter.timer: the job it will start
  job,        \* where each job is
  caller,     \* who runs it
  data,       \* what it serialized
  file,       \* the contents on disk
  calls,      \* calls of FlushNow so far
  process,    \* "up", "stopping" from the start of Shutdown, "exited"
  \* history
  owed,       \* the contents that were marked when the job's caller called
  failures,   \* writes that failed
  unretried,  \* a write failed and no timer was armed since
  overlapped  \* two flushes were at work at once

writer == <<dirty, timer>>
jobs == <<job, caller, data, owed>>
history == <<failures, unretried, overlapped>>
vars == <<version, mutator, writer, jobs, file, calls, process, history>>

AtWork == {"flush", "take", "serialize", "write"}
Working == {f \in Jobs : job[f] \in AtWork}

Init ==
  /\ version = 0 /\ mutator = "none" /\ file = 0 /\ calls = 0 /\ process = "up"
  /\ dirty = FALSE /\ timer = NoJob
  /\ job = [f \in Jobs |-> "free"] /\ caller = [f \in Jobs |-> "timer"]
  /\ data = [f \in Jobs |-> 0] /\ owed = [f \in Jobs |-> 0]
  /\ failures = 0 /\ unretried = FALSE /\ overlapped = FALSE

-----------------------------------------------------------------------------
(* The store changes under its lock and marks itself before the unlock *)

Change ==
  /\ process # "exited" /\ mutator = "none" /\ version < MaxChanges
  /\ version' = version + 1
  /\ mutator' = "changed"
  /\ UNCHANGED <<writer, jobs, file, calls, process, history>>

SetDirty ==
  /\ process # "exited" /\ mutator = "changed"
  /\ mutator' = "marked" /\ dirty' = TRUE
  /\ UNCHANGED <<version, timer, jobs, file, calls, process, history>>

\* A timer that is set is left to fire.
Arm ==
  /\ process # "exited" /\ mutator = "marked"
  /\ mutator' = "none"
  /\ \/ timer # NoJob /\ UNCHANGED <<timer, jobs, unretried>>
     \/ /\ timer = NoJob
        /\ \E f \in Jobs :
             /\ job[f] = "free"
             /\ timer' = f
             /\ job' = [job EXCEPT ![f] = "armed"]
             /\ caller' = [caller EXCEPT ![f] = "timer"]
        /\ unretried' = FALSE
        /\ UNCHANGED <<data, owed>>
  /\ UNCHANGED <<version, dirty, file, calls, process, failures, overlapped>>

-----------------------------------------------------------------------------
(* flush *)

\* A job starts to flush.
Starts(f) == overlapped' = (overlapped \/ Working \ {f} # {})

Fire(f) ==
  /\ process # "exited" /\ job[f] = "armed"
  /\ job' = [job EXCEPT ![f] = "flush"]
  /\ Starts(f)
  /\ UNCHANGED <<version, mutator, writer, caller, data, owed, file, calls, process, failures, unretried>>

\* Seeded fault: the reference to the timer is kept.
KeepTimer == timer

\* The reference goes, whichever timer it is of by now.
ClearTimer == NoJob

Flush(f) ==
  /\ process # "exited" /\ job[f] = "flush"
  /\ timer' = ClearTimer
  /\ job' = [job EXCEPT ![f] = "take"]
  /\ UNCHANGED <<version, mutator, dirty, caller, data, owed, file, calls, process, history>>

\* The caller of the job has its return.
Return(f) ==
  /\ data' = [data EXCEPT ![f] = 0]
  /\ \/ /\ caller[f] = "shutdown"
        /\ job' = [job EXCEPT ![f] = "returned"]
        /\ UNCHANGED <<caller, owed>>
     \/ /\ caller[f] # "shutdown"
        /\ job' = [job EXCEPT ![f] = "free"]
        /\ caller' = [caller EXCEPT ![f] = "timer"]
        /\ owed' = [owed EXCEPT ![f] = 0]

\* CompareAndSwap of dirty.
Take(f) ==
  /\ process # "exited" /\ job[f] = "take"
  /\ \/ /\ dirty
        /\ dirty' = FALSE
        /\ job' = [job EXCEPT ![f] = "serialize"]
        /\ UNCHANGED <<caller, data, owed>>
     \/ /\ ~dirty
        /\ Return(f)
        /\ UNCHANGED dirty
  /\ UNCHANGED <<version, mutator, timer, file, calls, process, history>>

\* The store's lock is taken for reading.
Serialize(f) ==
  /\ process # "exited" /\ job[f] = "serialize" /\ mutator = "none"
  /\ data' = [data EXCEPT ![f] = version]
  /\ job' = [job EXCEPT ![f] = "write"]
  /\ UNCHANGED <<version, mutator, writer, caller, owed, file, calls, process, history>>

KeepFlag == UNCHANGED dirty

\* The rename of atomicWriteFile, the one step of it a reader of the file sees.
Write(f) ==
  /\ process # "exited" /\ job[f] = "write"
  /\ file' = data[f]
  /\ KeepFlag
  /\ Return(f)
  /\ UNCHANGED <<version, mutator, timer, calls, process, history>>

\* The file cannot be written: the store is dirty again.
WriteFails(f) ==
  /\ process # "exited" /\ job[f] = "write" /\ failures < MaxFailures
  /\ failures' = failures + 1
  /\ dirty' = TRUE /\ unretried' = TRUE
  /\ Return(f)
  /\ UNCHANGED <<version, mutator, timer, file, calls, process, overlapped>>

-----------------------------------------------------------------------------
(* FlushNow and Shutdown *)

\* The timer is stopped and forgotten; one that has fired runs on.
Stopped(f, then) ==
  [g \in Jobs |-> IF g = f THEN then
                  ELSE IF g = timer /\ job[g] = "armed" THEN "free" ELSE job[g]]

\* The changes that are marked; the mutator of another has not returned.
Marked == IF mutator = "changed" THEN version - 1 ELSE version

\* FlushNow sets dirty after the lock; no other step sees the difference.
FlushNow(f) ==
  /\ process = "up" /\ job[f] = "free" /\ calls < MaxCalls
  /\ calls' = calls + 1
  /\ job' = Stopped(f, "flush") /\ timer' = NoJob /\ dirty' = TRUE
  /\ caller' = [caller EXCEPT ![f] = "now"]
  /\ owed' = [owed EXCEPT ![f] = Marked]
  /\ Starts(f)
  /\ UNCHANGED <<version, mutator, data, file, process, failures, unretried>>

Shutdown(f) ==
  /\ process = "up" /\ job[f] = "free"
  /\ process' = "stopping"
  /\ job' = Stopped(f, "final") /\ timer' = NoJob
  /\ caller' = [caller EXCEPT ![f] = "shutdown"]
  /\ owed' = [owed EXCEPT ![f] = Marked]
  /\ UNCHANGED <<version, mutator, dirty, data, file, calls, history>>

\* Seeded fault: the last flush is left to the timer.
NoFinalFlush(f) == job' = [job EXCEPT ![f] = "returned"] /\ UNCHANGED overlapped

FinalFlush(f) ==
  \/ dirty /\ job' = [job EXCEPT ![f] = "flush"] /\ Starts(f)
  \/ ~dirty /\ job' = [job EXCEPT ![f] = "returned"]
     /\ overlapped' = (overlapped \/ Working # {})

Final(f) ==
  /\ process = "stopping" /\ job[f] = "final"
  /\ FinalFlush(f)
  /\ UNCHANGED <<version, mutator, writer, caller, data, owed, file, calls, process, failures, unretried>>

\* The process ends some time after Shutdown returned, with all that is at work.
Exit ==
  /\ process = "stopping" /\ \E f \in Jobs : job[f] = "returned"
  /\ process' = "exited"
  /\ UNCHANGED <<version, mutator, writer, jobs, file, calls, history>>

JobStep(f) == Fire(f) \/ Flush(f) \/ Take(f) \/ Serialize(f) \/ Write(f) \/ Final(f)

WriterStep ==
  \/ SetDirty \/ Arm \/ Exit
  \/ \E f \in Jobs : JobStep(f) \/ WriteFails(f) \/ FlushNow(f)

Next == Change \/ WriterStep \/ \E f \in Jobs : Shutdown(f)

Spec == Init /\ [][Next]_vars

\* Goroutines run, timers fire, and the file system answers.
FairSpec ==
  /\ Spec
  /\ WF_vars(SetDirty) /\ WF_vars(Arm)
  /\ \A f \in Jobs : WF_vars(JobStep(f))

-----------------------------------------------------------------------------
(* Properties *)

JobStates == {"free", "armed", "final", "returned"} \cup AtWork

TypeOK ==
  /\ version \in 0..MaxChanges /\ file \in 0..version
  /\ mutator \in {"none", "changed", "marked"}
  /\ dirty \in BOOLEAN
  /\ timer \in {NoJob} \cup {f \in Jobs : job[f] \in {"armed", "flush"}}
  /\ job \in [Jobs -> JobStates] /\ caller \in [Jobs -> {"timer", "now", "shutdown"}]
  /\ data \in [Jobs -> 0..version] /\ owed \in [Jobs -> 0..version]
  /\ calls \in 0..MaxCalls /\ process \in {"up", "stopping", "exited"}
  /\ failures \in 0..MaxFailures
  /\ unretried \in BOOLEAN /\ overlapped \in BOOLEAN

\* A store that is dirty has a job that will take the flag.
WakeUpPending ==
  dirty => \/ mutator = "marked"
           \/ \E f \in Jobs : job[f] \in {"armed", "flush", "take", "final"}

\* No wake-up is lost between MarkDirty, the timers that fire and those that are
\* stopped, except after a write that failed (writer.go:74).
NoWakeUpLost == process # "exited" /\ ~unretried => WakeUpPending

\* A failed write is tried again (writer.go:118, "Re-mark dirty so we retry on next
\* interval").
FailedWriteIsRetried == process # "exited" => WakeUpPending

\* When nothing is dirty and nothing at work the file holds the contents, unless
\* two flushes ran at once.
SavedWhenQuiet ==
  ~dirty /\ mutator = "none" /\ Working = {} => file = version \/ overlapped

\* What was marked when Shutdown was called is on disk when the process ends
\* (writer.go:86, "Must be called before process exit to avoid data loss").
ShutdownSavesAll ==
  process = "exited" =>
    \A f \in Jobs : caller[f] = "shutdown" => file >= owed[f] \/ failures > 0

\* The same while no other flush is at work beside the one of Shutdown.
LoneShutdownSavesAll == ~overlapped => ShutdownSavesAll

\* When FlushNow returns, what was marked when it was called is on disk
\* (writer.go:166, "Used when the caller needs durability guarantees").
FlushNowIsDurable ==
  [][\A f \in Jobs :
       caller[f] = "now" /\ job[f] \in AtWork /\ job'[f] = "free"
         => file' >= owed[f] \/ failures' > 0]_vars

\* Every change reaches the disk without a further one, unless a write fails, two
\* flushes run at once, or the process stops (writer.go:31, "it schedules a write
\* after the debounce interval").
ChangesReachDisk ==
  \A n \in 1..MaxChanges :
    version = n ~> file >= n \/ failures > 0 \/ overlapped \/ process # "up"
=============================================================================
