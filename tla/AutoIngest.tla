----------------------------- MODULE AutoIngest -----------------------------
(***************************************************************************)
(* The retrieval index that keeps itself current: memory/ingest/auto.go,   *)
(* the watcher that reports changed files (tools/intelligence/watcher.go)  *)
(* and surfaces/server/autoingest.go, which joins the two when a workspace *)
(* is first used. All workspaces store their chunks in one semantic memory *)
(* and their manifest in one file.                                         *)
(*                                                                         *)
(* A content is cut into one chunk or two. Empty, binary and oversized     *)
(* files, and trees of more than autoIngestMaxFiles, are left out. Storing *)
(* a chunk changes memory only; the writer of the store saves it later     *)
(* (StoreWriter).                                                          *)
(***************************************************************************)
EXTENDS Naturals, FiniteSets

CONSTANTS
  Workspaces,
  Names,      \* paths below a workspace
  Watched,    \* those that end in .go
  Contents,
  Long,       \* contents of two chunks
  None,       \* no file, no chunk, no hash
  Passes,     \* bound of the model: passes at work at a time
  MaxEdits,   \* bound of the model: changes of files
  MaxEnds     \* bound of the model: ends of the process

NamesAssumption ==
  Watched \subseteq Names /\ None \notin Workspaces /\ None \notin Workspaces \X Names
BoundsAssumption == MaxEdits \in Nat /\ MaxEnds \in Nat
ContentsAssumption == Long \subseteq Contents /\ None \notin Contents

Files == Workspaces \X Names
In(w) == {w} \X Names
Slots == 1..2
Parts(c) == IF c = None THEN 0 ELSE IF c \in Long THEN 2 ELSE 1

VARIABLES
  disk,      \* the files
  manifest,  \* ingest_manifest.json: hash and number of chunks of each file
  saved,     \* the semantic store on disk
  \* memory of the process
  index,     \* chunks of the semantic store
  known,     \* Auto.hashes and Auto.chunkNo of each workspace
  attached,  \* workspaces that have an Auto and a watcher
  unseen,    \* files whose mtime the watcher has not recorded
  pass,      \* what each pass is at
  \* counts
  edits, ends,
  \* history
  crossed,   \* files that passes, or an end of the process, crossed: see below
  dropped    \* files deleted while an Auto was attached and not forgotten since

process == <<index, known, attached, unseen, pass>>
counts == <<edits, ends>>
history == <<crossed, dropped>>
vars == <<disk, manifest, saved, process, counts, history>>

Unknown == [hash |-> None, chunks |-> 0]
Nothing == [f \in Files |-> Unknown]
Blank == [f \in Files |-> [i \in Slots |-> None]]

\* No pass.
Idle == [step |-> "idle", kind |-> "none", of |-> None, todo |-> {}, seen |-> {},
         file |-> None, read |-> None, prev |-> 0, done |-> 0, stored |-> FALSE]

Init ==
  /\ disk \in [Files -> Contents] /\ manifest = Nothing /\ saved = Blank
  /\ index = Blank /\ known = [w \in Workspaces |-> Nothing]
  /\ attached = {} /\ unseen = {}
  /\ pass = [p \in Passes |-> Idle]
  /\ edits = 0 /\ ends = 0 /\ crossed = {} /\ dropped = {}

Busy(w) == \E p \in Passes : pass[p].of = w
Existing(w) == {f \in In(w) : disk[f] # None}

-----------------------------------------------------------------------------
(* Passes *)

Begin(p, kind, w, todo) ==
  /\ pass[p] = Idle
  /\ pass' = [pass EXCEPT ![p] = [Idle EXCEPT !.step = "next", !.kind = kind,
                                              !.of = w, !.todo = todo]]

\* startAutoIngest: the manifest is loaded, the watcher has seen nothing yet, and
\* one pass over the whole tree begins.
Attach(w) == \E p \in Passes :
  /\ w \notin attached
  /\ attached' = attached \cup {w}
  /\ known' = [known EXCEPT ![w] = manifest]
  /\ unseen' = unseen \cup In(w)
  /\ Begin(p, "sync", w, Existing(w))
  /\ UNCHANGED <<disk, manifest, saved, index, counts, history>>

\* What a walk of the watcher reports: .go files whose mtime is not the recorded one.
Changed(w) == {f \in unseen : f \in Existing(w) /\ f[2] \in Watched}

\* Its tick: the changed files go to a pass of their own.
Scan(w) == \E p \in Passes :
  /\ w \in attached /\ Changed(w) # {}
  /\ Begin(p, "files", w, Changed(w))
  /\ unseen' = unseen \ Changed(w)
  /\ UNCHANGED <<disk, manifest, saved, index, known, attached, counts, history>>

Known(p) == known[pass[p].of]

\* The passes that have read the file and not yet recorded it.
Holders(f) == {p \in Passes : pass[p].file = f}

\* forgetOne: the file leaves the maps, and its chunks the store. That crosses what
\* other passes do when one has the file in hand, when the file is there and what is
\* forgotten is its content (it came after the walk), and when it is another
\* workspace's: the manifest they share names it.
WithoutChunks(f, n) == [index EXCEPT ![f] = [i \in Slots |-> IF i <= n THEN None ELSE @[i]]]
Forget(w, f) ==
  /\ known' = [known EXCEPT ![w][f] = Unknown]
  /\ index' = WithoutChunks(f, known[w][f].chunks)
  /\ crossed' = IF Holders(f) # {} \/ known[w][f].hash = disk[f] \/ f \notin In(w)
                THEN crossed \cup {f} ELSE crossed
  /\ dropped' = dropped \ {f}

\* A pass over the tree leaves a file alone that has gone since the walk; one over
\* changed files forgets it. A file whose hash is known costs nothing more. A file
\* that another pass has read with a different content is crossed, also when its hash
\* is still the known one: the other pass has yet to record its own.
OtherInHand(f) == disk[f] # None /\ \E q \in Holders(f) : pass[q].read # disk[f]

Take(p) == \E f \in pass[p].todo :
  LET rest == [pass[p] EXCEPT !.todo = @ \ {f}, !.seen = @ \cup {f}] IN
  /\ pass[p].step = "next"
  /\ \/ /\ disk[f] = None /\ pass[p].kind = "files"
        /\ Forget(pass[p].of, f)
        /\ pass' = [pass EXCEPT ![p] = rest]
     \/ /\ IF disk[f] = None THEN pass[p].kind = "sync" ELSE Known(p)[f].hash = disk[f]
        /\ pass' = [pass EXCEPT ![p] = rest]
        /\ crossed' = IF OtherInHand(f) THEN crossed \cup {f} ELSE crossed
        /\ UNCHANGED <<known, index, dropped>>
     \/ /\ disk[f] # None /\ Known(p)[f].hash # disk[f]
        /\ pass' = [pass EXCEPT ![p] = [rest EXCEPT !.step = "store", !.file = f,
                      !.read = disk[f], !.prev = Known(p)[f].chunks, !.done = 0]]
        /\ crossed' = IF OtherInHand(f) THEN crossed \cup {f} ELSE crossed
        /\ UNCHANGED <<known, index, dropped>>
  /\ UNCHANGED <<disk, manifest, saved, attached, unseen, counts>>

\* storeChunks, one chunk after the other.
Store(p) ==
  LET i == pass[p].done + 1 IN
  /\ pass[p].step = "store" /\ i <= Parts(pass[p].read)
  /\ index' = [index EXCEPT ![pass[p].file][i] = pass[p].read]
  /\ pass' = [pass EXCEPT ![p].done = i, ![p].stored = TRUE]
  /\ UNCHANGED <<disk, manifest, saved, known, attached, unseen, counts, history>>

\* Seeded fault: chunks of a longer version stay.
LeaveChunks(f, now, before) == index

\* pruneChunks.
Pruned(f, now, before) ==
  [index EXCEPT ![f] = [i \in Slots |-> IF i > now /\ i <= before THEN None ELSE @[i]]]

Prune(p) ==
  /\ pass[p].step = "store" /\ pass[p].done = Parts(pass[p].read)
  /\ index' = Pruned(pass[p].file, pass[p].done, pass[p].prev)
  /\ pass' = [pass EXCEPT ![p].step = "record"]
  /\ UNCHANGED <<disk, manifest, saved, known, attached, unseen, counts, history>>

\* The hash of what was read, whatever the file holds by now.
Record(p) ==
  /\ pass[p].step = "record"
  /\ known' = [known EXCEPT ![pass[p].of][pass[p].file] =
                 [hash |-> pass[p].read, chunks |-> pass[p].done]]
  /\ pass' = [pass EXCEPT ![p].step = "next", ![p].file = None, ![p].read = None,
                          ![p].prev = 0, ![p].done = 0]
  /\ UNCHANGED <<disk, manifest, saved, index, attached, unseen, counts, history>>

\* forgetMissing: what the manifest knows and the walk did not see.
Missing(p) == {f \in Files : Known(p)[f].hash # None /\ f \notin pass[p].seen}

ForgetMissing(p) ==
  /\ pass[p].kind = "sync" /\ pass[p].step = "next" /\ pass[p].todo = {}
  /\ \E f \in Missing(p) : Forget(pass[p].of, f)
  /\ UNCHANGED <<disk, manifest, saved, attached, unseen, pass, counts>>

\* save: the one manifest takes what this workspace knows. What that changes of the
\* files of other workspaces is crossed.
Saved(w) == known[w]

Finish(p) ==
  /\ pass[p].step = "next" /\ pass[p].todo = {}
  /\ pass[p].kind = "sync" => Missing(p) = {}
  /\ manifest' = IF pass[p].kind = "sync" \/ pass[p].stored THEN Saved(pass[p].of)
                 ELSE manifest
  /\ pass' = [pass EXCEPT ![p] = Idle]
  /\ crossed' = crossed \cup {f \in Files \ In(pass[p].of) : manifest'[f] # manifest[f]}
  /\ UNCHANGED <<disk, saved, index, known, attached, unseen, counts, dropped>>

-----------------------------------------------------------------------------
(* The files, the writer of the store, and the process *)

\* A file is written, deleted, or created again; its mtime is a new one. The
\* watcher does not see that one is gone.
Edit(f, c) ==
  /\ edits < MaxEdits /\ c # disk[f]
  /\ disk' = [disk EXCEPT ![f] = c]
  /\ unseen' = IF f[1] \in attached THEN unseen \cup {f} ELSE unseen
  /\ dropped' = IF c = None /\ f[1] \in attached THEN dropped \cup {f} ELSE dropped \ {f}
  /\ edits' = edits + 1
  /\ UNCHANGED <<manifest, saved, index, known, attached, pass, ends, crossed>>

Flush ==
  /\ saved # index
  /\ saved' = index
  /\ UNCHANGED <<disk, manifest, process, counts, history>>

\* The chunks a content has.
Whole(c) == [i \in Slots |-> IF i <= Parts(c) THEN c ELSE None]

\* The process ends and is started again, at rest or in the middle of passes: with
\* its last write of the store, or without. Files of which the store on disk does
\* not hold what the manifest says are crossed.
End(how) ==
  /\ ends < MaxEnds
  /\ ends' = ends + 1
  /\ saved' = IF how = "crash" THEN saved ELSE index
  /\ index' = saved'
  /\ known' = [w \in Workspaces |-> Nothing]
  /\ attached' = {} /\ unseen' = {}
  /\ pass' = [p \in Passes |-> Idle]
  /\ crossed' = crossed \cup {f \in Files : index'[f] # Whole(manifest[f].hash)}
  /\ dropped' = {}
  /\ UNCHANGED <<disk, manifest, edits>>

Next ==
  \/ \E w \in Workspaces : Attach(w) \/ Scan(w)
  \/ \E p \in Passes :
       Take(p) \/ Store(p) \/ Prune(p) \/ Record(p) \/ ForgetMissing(p) \/ Finish(p)
  \/ \E f \in Files, c \in Contents \cup {None} : Edit(f, c)
  \/ Flush
  \/ \E how \in {"exit", "crash"} : End(how)

Spec == Init /\ [][Next]_vars

-----------------------------------------------------------------------------
(* Properties *)

KnownFiles == [Files -> [hash : Contents \cup {None}, chunks : 0..2]]

PassRecords ==
  [step : {"idle", "next", "store", "record"}, kind : {"none", "sync", "files"},
   of : Workspaces \cup {None}, todo : SUBSET Files, seen : SUBSET Files,
   file : Files \cup {None}, read : Contents \cup {None}, prev : 0..2, done : 0..2,
   stored : BOOLEAN]

\* Every variable keeps to its values, and a pass holds what its step needs.
TypeOK ==
  /\ disk \in [Files -> Contents \cup {None}]
  /\ manifest \in KnownFiles /\ known \in [Workspaces -> KnownFiles]
  /\ index \in [Files -> [Slots -> Contents \cup {None}]]
  /\ saved \in [Files -> [Slots -> Contents \cup {None}]]
  /\ attached \subseteq Workspaces /\ unseen \subseteq Files
  /\ edits \in 0..MaxEdits /\ ends \in 0..MaxEnds
  /\ crossed \subseteq Files /\ dropped \subseteq Files
  /\ pass \in [Passes -> PassRecords]
  /\ \A p \in Passes :
       IF pass[p].step = "idle" THEN pass[p] = Idle
       ELSE /\ pass[p].of \in attached /\ pass[p].todo \cup pass[p].seen \subseteq In(pass[p].of)
            /\ pass[p].step # "next" => pass[p].file \in Files /\ pass[p].read \in Contents
            /\ pass[p].done \in 0..Parts(pass[p].read)

\* Nothing is left to do for a workspace: no pass, and nothing for the watcher to
\* report.
Quiet(w) == w \in attached /\ ~Busy(w) /\ Changed(w) = {}

\* Auto "keeps one workspace's ingested knowledge current" (auto.go:51): a watched
\* file is indexed with the content it has, every chunk of it and none of an earlier
\* one, also when it is written or comes back while passes are at work, when several
\* passes have it in hand with one content, and after a restart. Of a file that was
\* crossed nothing is said: auto.go has no guard against any of that.
KeepsCurrent ==
  \A w \in Workspaces : \A f \in Existing(w) \ crossed :
    Quiet(w) /\ f[2] \in Watched => index[f] = Whole(disk[f])

\* Of a file that is gone, "drop what we stored for it rather than keep serving it"
\* (auto.go:197): when it was deleted while no Auto was attached, or a pass over
\* changed files found that it has gone. No other deletion is noticed until the next
\* start.
DeletedIsForgotten ==
  \A w \in Workspaces : \A f \in In(w) \ (crossed \cup dropped) :
    Quiet(w) /\ disk[f] = None => index[f] = Whole(None)

\* What auto.go:18 says: "the unit of work is a file whose CONTENT changed". The first
\* tick of the watcher comes beside the first Sync, and both embed a file that neither
\* has recorded.
EmbedsOnce ==
  [][\A p \in Passes :
       pass[p].step = "next" /\ pass'[p].step = "store"
         => index[pass'[p].file] # Whole(pass'[p].read)]_vars

\* What autoingest.go:8 says: the two indexes "go stale on exactly the same event: a
\* file changed". The watcher reports .go files only.
EveryChangeIsSeen ==
  \A w \in Workspaces : \A f \in Existing(w) :
    Quiet(w) => index[f] = Whole(disk[f])
=============================================================================
