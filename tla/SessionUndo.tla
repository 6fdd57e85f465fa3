----------------------------- MODULE SessionUndo -----------------------------
(***************************************************************************)
(* Undo: the checkpoints of memory/checkpoint/checkpoint.go, the short-term*)
(* memory they rewind (memory/memory/system.go, STM...), and               *)
(* Kernel.RollbackTo, which does both. Tools of a running turn, the user's *)
(* own editor, compaction of the conversation, new sessions, failing       *)
(* writes and crashes happen between any two of its steps, also while a    *)
(* snapshot or a comparison goes through the files.                        *)
(*                                                                         *)
(* Files are numbered in the order of the directory walk. A message is the *)
(* moment it was said at. The (size, mtime) cache is left out, and so are  *)
(* files that cannot be read.                                              *)
(***************************************************************************)
EXTENDS Naturals, FiniteSets, Sequences

CONSTANTS
  Batches,        \* those that take snapshots: batches of tools, graphs that are run
  NumFiles,       \* bound of the model: files that may exist
  Contents,       \* what a file that is small enough may contain
  MaxFiles,       \* maxFiles: how many files a walk lists (20000)
  MaxCheckpoints, \* maxCheckpoints: the window of checkpoints (100)
  StmMax,         \* stmMax as it is set at first, and the largest there is
  KeepRecent,     \* compressionKeepRecent: messages compaction keeps (4)
  MaxSays,        \* bound of the model: messages
  MaxIds,         \* bound of the model: checkpoints
  MaxEvents       \* bound of the model: edits, compactions, new sessions, windows, restarts

ASSUME BatchesAssumption == "rollback" \notin Batches
ASSUME FilesAssumption == NumFiles \in Nat /\ MaxFiles \in Nat \ {0}
ASSUME ContentsAssumption == Contents \cap {"gone", "big", "junk", "unrecorded"} = {}
ASSUME WindowAssumption ==
  /\ MaxCheckpoints \in Nat \ {0}
  /\ StmMax \in Nat /\ KeepRecent \in Nat /\ KeepRecent < StmMax
  /\ MaxSays \in Nat /\ MaxIds \in Nat /\ MaxEvents \in Nat

Files == 1..NumFiles
\* What a file can be: gone, too big to be captured, one of the contents, or
\* the remains of a write that was cut off.
States == Contents \cup {"gone", "big", "junk"}
Takers == Batches \cup {"rollback"}

VARIABLES
  tree,       \* the workspace
  entries,    \* Manager.entries
  log,        \* log.json
  stored,     \* contents with a blob in the store
  torn,       \* those of them whose blob was written in part
  taking,     \* how far each snapshot is; who reads files holds Manager.mu
  left,       \* paths each has still to go through
  seen,       \* the manifest of the one that reads
  stm,        \* short-term memory
  stmMax,     \* System.stmMax
  transcript, \* messages that left it
  clock,      \* the last message said
  compacting, \* a model call is summarising the conversation
  rb,         \* where the rollback is
  target,     \* the checkpoint it restores
  todo,       \* the changes it has still to undo
  events,     \* what MaxEvents bounds so far
  aligned,    \* history: checkpoints whose Turn still counts the same messages
  session,    \* history: said in this session, not rewound, not cut by a smaller window
  undo,       \* history: the snapshot the last rollback took of the workspace
  touched     \* history: files others changed since the rollback compared

undoVars == <<rb, target, todo, undo, touched>>
storeVars == <<entries, log, stored, torn>>
snapVars == <<taking, left, seen>>
talkVars == <<stm, stmMax, transcript, clock, compacting, session>>
vars == <<tree, storeVars, snapVars, talkVars, undoVars, events, aligned>>

Present == {f \in Files : tree[f] # "gone"}

\* walk: the files that exist, as many as fit, in the order of the walk.
Walked == {f \in Present : Cardinality({g \in Present : g < f}) < MaxFiles}

Unseen == [f \in Files |-> "unrecorded"]
NoEntry == [id |-> 0, turn |-> 0, at |-> 0, files |-> Unseen]

Last(s) == s[Len(s)]

\* The last n of a sequence.
Newest(s, n) == IF Len(s) > n THEN SubSeq(s, Len(s) - n + 1, Len(s)) ELSE s
Elements(s) == {s[i] : i \in DOMAIN s}

Happens == events < MaxEvents /\ events' = events + 1

NextId == IF entries = <<>> THEN 1 ELSE Last(entries).id + 1

\* The checkpoint a snapshot appends.
NewEntry == [id |-> NextId, turn |-> Len(stm), at |-> clock, files |-> seen]

-----------------------------------------------------------------------------
(* Snapshot *)

\* What a checkpoint needs blobs for: not for a file that is too big.
Captured(e) == {e.files[f] : f \in Files} \ {"unrecorded", "big"}

\* Manager.mu is free, or its holder is t.
Unlocked(t) == \A u \in Takers \ {t} : taking[u] # "reading"

\* The rollback is over, whether it did everything or not.
Leave ==
  /\ rb' = "idle"
  /\ target' = NoEntry /\ todo' = {} /\ touched' = {}

\* The snapshot lets the undo be undone; without it there is no rollback. Seeded fault:
\* the rollback goes on.
GoesOn ==
  /\ rb' = "restore" /\ undo' = [id |-> NextId, files |-> seen]
  /\ UNCHANGED <<target, todo, touched>>
GivesUp == Leave /\ UNCHANGED undo

\* A snapshot is taken or failed. Whoever else asked for it goes on whatever comes of it.
Taken(t, ok) ==
  /\ taking' = [taking EXCEPT ![t] = "no"] /\ left' = [left EXCEPT ![t] = {}]
  /\ seen' = Unseen
  /\ \/ t # "rollback" /\ UNCHANGED undoVars
     \/ /\ t = "rollback" /\ ok
        /\ rb' = "restore" /\ undo' = [id |-> NextId, files |-> seen]
        /\ UNCHANGED <<target, todo, touched>>
     \/ t = "rollback" /\ ~ok /\ GivesUp

\* The snapshot before a batch with a mutating tool, or before a graph runs, lists the
\* files without a lock.
List(b) ==
  /\ taking[b] = "no" /\ NextId <= MaxIds
  /\ taking' = [taking EXCEPT ![b] = "listed"] /\ left' = [left EXCEPT ![b] = Walked]
  /\ UNCHANGED <<events, tree, storeVars, seen, talkVars, undoVars, aligned>>

\* It reads one after another, which may be gone by now, and stores its blob.
ReadNext(t) == \E f \in left[t] :
  /\ taking[t] # "no" /\ Unlocked(t)
  /\ \A g \in left[t] : f <= g
  /\ \/ /\ seen' = [seen EXCEPT ![f] = IF tree[f] = "gone" THEN "unrecorded" ELSE tree[f]]
        /\ stored' = stored \cup ({tree[f]} \ {"gone", "big"})
        /\ taking' = [taking EXCEPT ![t] = "reading"] /\ left' = [left EXCEPT ![t] = @ \ {f}]
        /\ UNCHANGED <<torn, undoVars>>
     \* It cannot be written: the snapshot fails. What was written is taken for the
     \* whole of it from then on.
     \/ /\ tree[f] \notin stored \cup {"gone", "big"}
        /\ \/ UNCHANGED <<stored, torn>>
           \/ stored' = stored \cup {tree[f]} /\ torn' = torn \cup {tree[f]}
        /\ Taken(t, FALSE)
  /\ UNCHANGED <<entries, log, events, tree, talkVars, aligned>>

\* Append the entry, drop what leaves the window and save the log. A save that fails is
\* reported, with the entry already in memory.
Record(t, saved) ==
  /\ taking[t] # "no" /\ Unlocked(t) /\ left[t] = {} /\ NextId <= MaxIds
  /\ entries' = Newest(Append(entries, NewEntry), MaxCheckpoints)
  /\ log' = IF saved THEN entries' ELSE log
  /\ aligned' = aligned \cup {NextId}
  /\ Taken(t, saved)
  /\ UNCHANGED <<events, tree, stored, torn, talkVars>>

\* A tool or the user creates, changes or deletes a file.
Edit(f, s) ==
  /\ Happens
  /\ s # tree[f] /\ s # "junk"
  /\ tree' = [tree EXCEPT ![f] = s]
  /\ touched' = IF rb = "idle" THEN touched ELSE touched \cup {f}
  /\ UNCHANGED <<storeVars, snapVars, talkVars, rb, target, todo, undo, aligned>>

-----------------------------------------------------------------------------
(* Short-term memory *)

\* STMAdd: what falls off the front of the window goes to the transcript.
Say ==
  LET longer == Append(stm, clock + 1) IN
  /\ clock < MaxSays
  /\ clock' = clock + 1
  /\ stm' = Newest(longer, stmMax)
  /\ transcript' = transcript \cup (Elements(longer) \ Elements(stm'))
  /\ session' = session \cup {clock + 1}
  /\ aligned' = IF Len(longer) > stmMax THEN {} ELSE aligned
  /\ UNCHANGED <<events, tree, storeVars, snapVars, stmMax, compacting, undoVars>>

\* STMSetMax: what a smaller window has no room for is gone.
STMSetMax(n) ==
  /\ Happens
  /\ stmMax' = n
  /\ stm' = Newest(stm, n)
  /\ session' = session \ (Elements(stm) \ Elements(stm'))
  /\ aligned' = IF Len(stm) > n THEN {} ELSE aligned
  /\ UNCHANGED <<tree, storeVars, snapVars, transcript, clock, compacting, undoVars>>

\* Compaction reads the conversation, and a model call summarises it.
CompactionReads ==
  /\ Happens
  /\ ~compacting
  /\ Len(stm) >= 2
  /\ compacting' = TRUE
  /\ UNCHANGED <<tree, storeVars, snapVars, stm, stmMax, transcript, clock, session, undoVars,
                 aligned>>

\* STMCompress: the summary replaces all but the newest messages of what the
\* conversation is by now, and the originals are kept in the transcript.
KeepReplaced(tail) == transcript \cup (Elements(stm) \ Elements(tail))

CompactionReplaces ==
  LET tail == Newest(stm, KeepRecent) IN
  /\ compacting
  /\ stm' = Newest(<<0>> \o tail, stmMax)
  /\ transcript' = KeepReplaced(tail)
  /\ compacting' = FALSE
  /\ aligned' = {}
  /\ UNCHANGED <<events, tree, storeVars, snapVars, stmMax, clock, session, undoVars>>

\* The model call failed: the conversation stays as it is.
CompactionFails ==
  /\ compacting
  /\ compacting' = FALSE
  /\ UNCHANGED <<events, tree, storeVars, snapVars, stm, stmMax, transcript, clock, session,
                 undoVars, aligned>>

\* StartNewSession: the window is emptied; transcript and checkpoints stay.
StartNewSession ==
  /\ Happens
  /\ stm' = <<>> /\ session' = {} /\ aligned' = {}
  /\ UNCHANGED <<tree, storeVars, snapVars, stmMax, transcript, clock, compacting, undoVars>>

-----------------------------------------------------------------------------
(* Kernel.RollbackTo *)

\* Diff: a file that is listed and not in the manifest counts as created since; what is
\* gone by the time it is read is passed over.
Differs(e, f) ==
  \/ e.files[f] = "unrecorded"
  \/ e.files[f] \notin {"big", tree[f]} /\ tree[f] # "gone"

\* Seeded fault: files that are gone are forgotten.
ForgetDeleted(e) == {}
Deleted(e) == {f \in Files \ Walked : e.files[f] \notin {"unrecorded", "big"}}

\* The checkpoint is looked up, and the files are listed and then compared without a lock.
Compare(e) ==
  /\ rb = "idle" /\ Unlocked("rollback")
  /\ rb' = "compare" /\ target' = e
  /\ todo' = Deleted(e) /\ left' = [left EXCEPT !["rollback"] = Walked]
  /\ touched' = {}
  /\ UNCHANGED <<events, tree, storeVars, taking, seen, talkVars, undo, aligned>>

\* The next file on the list is read and compared.
CompareNext == \E f \in left["rollback"] :
  /\ rb = "compare"
  /\ \A g \in left["rollback"] : f <= g
  /\ left' = [left EXCEPT !["rollback"] = @ \ {f}]
  /\ todo' = IF Differs(target, f) THEN todo \cup {f} ELSE todo
  /\ UNCHANGED <<events, tree, storeVars, taking, seen, talkVars, rb, target, undo, touched, aligned>>

\* The snapshot the rollback takes first lists them anew.
Compared ==
  /\ rb = "compare" /\ left["rollback"] = {}
  /\ rb' = "snapshot"
  /\ taking' = [taking EXCEPT !["rollback"] = "listed"]
  /\ left' = [left EXCEPT !["rollback"] = Walked]
  /\ UNCHANGED <<events, tree, storeVars, seen, talkVars, target, todo, undo, touched, aligned>>

\* What is written for a file. The blob of torn contents is not what it says.
Restored(e, f) == IF e.files[f] = "unrecorded" THEN "gone"
                  ELSE IF e.files[f] \in torn THEN "junk"
                  ELSE e.files[f]

\* Undo the next change, in the order of the paths.
RestoreFile(f) ==
  /\ rb = "restore"
  /\ f \in todo /\ \A g \in todo : f <= g
  /\ tree' = [tree EXCEPT ![f] = Restored(target, f)]
  /\ todo' = todo \ {f}
  /\ UNCHANGED <<events, storeVars, snapVars, talkVars, rb, target, undo, touched, aligned>>

\* A removal, a read of a blob or a write fails: the rest is not undone and the
\* conversation stays. The failed write may have truncated the file.
RestoreFails(f) ==
  /\ rb = "restore"
  /\ f \in todo /\ \A g \in todo : f <= g
  /\ \/ UNCHANGED tree
     \/ Restored(target, f) # "gone" /\ tree' = [tree EXCEPT ![f] = "junk"]
  /\ Leave
  /\ UNCHANGED <<events, storeVars, snapVars, talkVars, undo, aligned>>

\* Nothing is left to undo.
RestoreEnds ==
  /\ rb = "restore"
  /\ todo = {}
  /\ rb' = "truncate"
  /\ UNCHANGED <<events, tree, storeVars, snapVars, talkVars, target, todo, undo, touched, aligned>>

\* STMTruncate, to the length the conversation had. Seeded fault: the message
\* after it is kept.
TruncateOneLess(n) == Len(stm) > n + 1
TruncateApplies(n) == Len(stm) > n

Rewound == IF TruncateApplies(target.turn) THEN SubSeq(stm, 1, target.turn) ELSE stm

\* The rollback is done. Later checkpoints count messages that are gone.
Truncate ==
  /\ rb = "truncate"
  /\ stm' = Rewound
  /\ session' = session \ (Elements(stm) \ Elements(Rewound))
  /\ aligned' = {i \in aligned : \E e \in Elements(entries) :
                                   e.id = i /\ e.turn <= Len(Rewound)}
  /\ Leave
  /\ UNCHANGED <<events, tree, storeVars, snapVars, stmMax, transcript, clock, compacting, undo>>

\* RollbackFile: one file, with no snapshot and no effect on the conversation.
\* A write that fails may have truncated it.
RollbackFile(e, f) ==
  /\ Happens /\ Unlocked("none")
  /\ e.files[f] # "big"
  /\ \/ tree' = [tree EXCEPT ![f] = Restored(e, f)]
     \/ Restored(e, f) # "gone" /\ tree' = [tree EXCEPT ![f] = "junk"]
  /\ touched' = IF rb = "idle" THEN touched ELSE touched \cup {f}
  /\ UNCHANGED <<storeVars, snapVars, talkVars, rb, target, todo, undo, aligned>>

-----------------------------------------------------------------------------
\* The process dies and is started again: New reads the log, the conversation
\* starts empty, and snapshots and a rollback stop where they were.
Restart ==
  /\ Happens
  /\ entries' = log
  /\ stm' = <<>> /\ transcript' = {} /\ compacting' = FALSE /\ session' = {}
  /\ taking' = [t \in Takers |-> "no"] /\ left' = [t \in Takers |-> {}] /\ seen' = Unseen
  /\ stmMax' = StmMax /\ aligned' = {}
  /\ Leave
  /\ UNCHANGED <<tree, log, stored, torn, clock, undo>>

\* The workspace starts with all its files; that one is missing takes an event.
Init ==
  /\ tree \in [Files -> Contents]
  /\ entries = <<>> /\ log = <<>> /\ stored = {} /\ torn = {}
  /\ taking = [t \in Takers |-> "no"] /\ left = [t \in Takers |-> {}] /\ seen = Unseen
  /\ stm = <<>> /\ stmMax = StmMax /\ transcript = {} /\ clock = 0
  /\ compacting = FALSE /\ session = {}
  /\ rb = "idle" /\ target = NoEntry /\ todo = {} /\ touched = {}
  /\ undo = [id |-> 0, files |-> Unseen]
  /\ events = 0 /\ aligned = {}

Rollback ==
  \/ \E e \in Elements(entries) : Compare(e)
  \/ CompareNext \/ Compared
  \/ \E f \in Files : RestoreFile(f) \/ RestoreFails(f)
  \/ RestoreEnds \/ Truncate

Next ==
  \/ \E b \in Batches : List(b)
  \/ \E t \in Takers : ReadNext(t) \/ \E saved \in BOOLEAN : Record(t, saved)
  \/ \E f \in Files, s \in States : Edit(f, s)
  \/ \E n \in 0..StmMax : STMSetMax(n)
  \/ Say \/ CompactionReads \/ CompactionReplaces \/ CompactionFails \/ StartNewSession
  \/ Rollback
  \/ \E e \in Elements(entries), f \in Files : RollbackFile(e, f)
  \/ Restart

Spec == Init /\ [][Next]_vars

-----------------------------------------------------------------------------
(* Properties *)

EntrySet == [id : 0..MaxIds, turn : 0..StmMax, at : 0..MaxSays,
             files : [Files -> (States \ {"gone"}) \cup {"unrecorded"}]]

TypeOK ==
  /\ tree \in [Files -> States]
  /\ \A s \in {entries, log} : Elements(s) \subseteq EntrySet /\ Len(s) <= MaxCheckpoints
  /\ stored \subseteq Contents \cup {"junk"} /\ torn \subseteq stored
  /\ taking \in [Takers -> {"no", "listed", "reading"}] /\ left \in [Takers -> SUBSET Files]
  /\ seen \in [Files -> (States \ {"gone"}) \cup {"unrecorded"}]
  /\ stmMax \in 0..StmMax
  /\ Elements(stm) \subseteq 0..MaxSays /\ Len(stm) <= stmMax
  /\ transcript \subseteq 0..MaxSays /\ session \subseteq 1..MaxSays
  /\ clock \in 0..MaxSays /\ compacting \in BOOLEAN
  /\ rb \in {"idle", "compare", "snapshot", "restore", "truncate"}
  /\ target \in EntrySet /\ todo \subseteq Files /\ touched \subseteq Files
  /\ undo.id \in 0..MaxIds /\ events \in 0..MaxEvents /\ aligned \subseteq 1..MaxIds

\* A rollback that got through its files restored every one of them that nobody
\* changed meanwhile: captured contents are back (unless their blob had been cut
\* off when it was first stored), and files too big to capture were neither
\* changed nor removed (checkpoint.go:34).
RollbackRestores ==
  rb = "truncate" =>
    \A f \in Files \ touched :
      /\ target.files[f] \notin torn \cup {"unrecorded", "big"} => tree[f] = target.files[f]
      /\ target.files[f] = "big" /\ undo.files[f] # "unrecorded" =>
           tree[f] = undo.files[f]

\* The undo can be undone, at any later time and also when the rollback failed
\* half-way or the process died in it: as long as the window reaches back that
\* far, the snapshot it took first is in memory and on disk under its own id,
\* with the workspace as it was and a blob for all of it.
UndoPointSurvives ==
  undo.id > 0 /\ undo.id + MaxCheckpoints > Last(entries).id =>
    \E e \in Elements(entries) \cap Elements(log) :
      e.id = undo.id /\ e.files = undo.files /\ Captured(e) \subseteq stored

\* The conversation is rewound with the files: after a rollback to a checkpoint
\* nothing said later than it is left. That holds for a checkpoint whose Turn
\* still counts the messages it counted: no compaction, no trimming, no smaller
\* window, no new session, no restart and no rollback past it came between.
RewoundConversation ==
  [][rb = "truncate" /\ rb' = "idle" /\ target.id \in aligned =>
       \A m \in Elements(stm') : m <= target.at]_vars

\* Compaction and the bounded window change what the model is shown and never
\* delete what was said: whatever was said in a session is in the window or in the
\* transcript (system.go:455), unless it was rewound or STMSetMax made the window too
\* small for it.
NothingSaidIsLost == session \subseteq Elements(stm) \cup transcript

=============================================================================
