-------------------------- MODULE SessionUndoProofs --------------------------
(***************************************************************************)
(* Proofs about SessionUndo, for any files, contents, windows and bounds.  *)
(***************************************************************************)
EXTENDS SessionUndo, SequenceTheorems, TLAPS

-----------------------------------------------------------------------------
(* The helpers on sequences *)

LEMMA ElementsRange ==
  ASSUME NEW S, NEW s \in Seq(S)
  PROVE  /\ Elements(s) = {s[i] : i \in 1..Len(s)}
         /\ Elements(s) \subseteq S /\ Len(s) \in Nat
BY DEF Elements

LEMMA ElementsOfAppend ==
  ASSUME NEW S, NEW s \in Seq(S), NEW e \in S
  PROVE  /\ Append(s, e) \in Seq(S) /\ Len(Append(s, e)) = Len(s) + 1
         /\ Elements(Append(s, e)) = Elements(s) \cup {e}
<1>1. Append(s, e) \in Seq(S) /\ Len(Append(s, e)) = Len(s) + 1
  OBVIOUS
<1>2. \A i \in 1..(Len(s) + 1) : Append(s, e)[i] = IF i <= Len(s) THEN s[i] ELSE e
  OBVIOUS
<1>3. Elements(s) = {s[i] : i \in 1..Len(s)}
  BY ElementsRange
<1>4. Elements(Append(s, e)) = {Append(s, e)[i] : i \in 1..(Len(s) + 1)}
  BY <1>1, ElementsRange
<1>5. Elements(Append(s, e)) \subseteq Elements(s) \cup {e}
  BY <1>2, <1>3, <1>4
<1>6. Elements(s) \subseteq Elements(Append(s, e))
  BY <1>2, <1>3, <1>4
<1>7. e \in Elements(Append(s, e))
  <2>1. Len(s) + 1 \in 1..(Len(s) + 1) /\ ~(Len(s) + 1 <= Len(s))
    OBVIOUS
  <2> QED BY <2>1, <1>2, <1>4
<1> QED BY <1>1, <1>5, <1>6, <1>7

\* The newest n of s are a part of it, end as it ends, and are at most n.
LEMMA NewestIsSuffix ==
  ASSUME NEW S, NEW s \in Seq(S), NEW n \in Nat
  PROVE  /\ Newest(s, n) \in Seq(S)
         /\ Len(Newest(s, n)) = IF Len(s) > n THEN n ELSE Len(s)
         /\ \A i \in 1..Len(Newest(s, n)) :
              Newest(s, n)[i] = s[i + (Len(s) - Len(Newest(s, n)))]
<1>1. CASE Len(s) > n
  <2>1. \A i \in (Len(s) - n + 1)..Len(s) : s[i] \in S
    BY <1>1
  <2>2. Newest(s, n) = SubSeq(s, Len(s) - n + 1, Len(s))
    BY <1>1 DEF Newest
  <2>3. /\ SubSeq(s, Len(s) - n + 1, Len(s)) \in Seq(S)
        /\ Len(SubSeq(s, Len(s) - n + 1, Len(s))) = n
        /\ \A i \in 1..n : SubSeq(s, Len(s) - n + 1, Len(s))[i] = s[Len(s) - n + 1 + i - 1]
    BY <1>1, <2>1, SubSeqProperties
  <2> QED BY <1>1, <2>2, <2>3
<1>2. CASE ~(Len(s) > n)
  BY <1>2 DEF Newest
<1> QED BY <1>1, <1>2

LEMMA NewestElements ==
  ASSUME NEW S, NEW s \in Seq(S), NEW n \in Nat
  PROVE  Elements(Newest(s, n)) \subseteq Elements(s)
<1>1. \A i \in 1..Len(Newest(s, n)) : i + (Len(s) - Len(Newest(s, n))) \in 1..Len(s)
  BY NewestIsSuffix
<1>2. /\ Elements(s) = {s[i] : i \in 1..Len(s)}
      /\ Elements(Newest(s, n)) = {Newest(s, n)[i] : i \in 1..Len(Newest(s, n))}
  BY NewestIsSuffix, ElementsRange
<1> QED BY <1>1, <1>2, NewestIsSuffix

-----------------------------------------------------------------------------
(* The parts of the invariant *)

StoreOK ==
  /\ entries \in Seq(EntrySet) /\ Len(entries) <= MaxCheckpoints
  /\ log \in Seq(EntrySet) /\ Len(log) <= MaxCheckpoints
  /\ stored \subseteq Contents \cup {"junk"} /\ torn \subseteq stored
TalkOK ==
  /\ stm \in Seq(0..MaxSays) /\ Len(stm) <= stmMax /\ stmMax \in 0..StmMax
  /\ transcript \subseteq 0..MaxSays /\ session \subseteq 1..MaxSays
  /\ clock \in 0..MaxSays /\ compacting \in BOOLEAN
RollbackOK ==
  /\ tree \in [Files -> States]
  /\ rb \in {"idle", "compare", "snapshot", "restore", "truncate"}
  /\ target \in EntrySet /\ todo \subseteq Files /\ touched \subseteq Files
  /\ undo.id \in 0..MaxIds /\ events \in 0..MaxEvents /\ aligned \subseteq 1..MaxIds

\* Who takes a snapshot and how far it is. One at a time reads files, every blob it
\* needs is stored, and the rollback takes its snapshot when it is at that.
SnapOK ==
  /\ taking \in [Takers -> {"no", "listed", "reading"}] /\ left \in [Takers -> SUBSET Files]
  /\ seen \in [Files -> (States \ {"gone"}) \cup {"unrecorded"}]
  /\ \A f \in Files : seen[f] \in stored \cup {"unrecorded", "big"}
  /\ \A t, u \in Takers : taking[t] = "reading" /\ taking[u] = "reading" => t = u
  /\ (\A t \in Takers : taking[t] # "reading") => seen = Unseen
  /\ taking["rollback"] # "no" <=> rb = "snapshot"

\* Checkpoints are numbered without gaps, in memory and in the log.
InOrder(s) ==
  \A i, j \in 1..Len(s) : s[i].id >= 1 /\ s[j].id = s[i].id + (j - i)
Numbered == InOrder(entries) /\ InOrder(log) /\ target.id < NextId

\* What a rollback has still to compare and to undo, what its snapshot has read, and
\* what it has restored.
HalfRestored ==
  rb # "idle" => \A f \in Files :
    /\ target.files[f] = "big" => f \notin todo
    /\ rb = "compare" /\ f \in left["rollback"] /\ f \notin touched => tree[f] # "gone"
    /\ f \notin todo \cup touched /\ ~(rb = "compare" /\ f \in left["rollback"])
         /\ target.files[f] \notin torn \cup {"unrecorded", "big"} =>
           tree[f] = target.files[f]
    /\ taking["rollback"] = "reading" /\ f \notin touched /\ seen[f] # "unrecorded" =>
         seen[f] = tree[f]
    /\ rb \in {"restore", "truncate"} /\ f \notin touched
         /\ target.files[f] = "big" /\ undo.files[f] # "unrecorded" =>
           tree[f] = undo.files[f]
    /\ rb = "truncate" => f \notin todo

\* The Turn of a checkpoint that is aligned counts messages that are still the
\* first ones, and all of them were said before it.
TurnsCount ==
  /\ \A m \in Elements(stm) : m <= clock
  /\ \A e \in Elements(entries) \cup {target} :
       e.id \in aligned =>
         e.turn <= Len(stm) /\ \A i \in 1..e.turn : stm[i] <= e.at

\* The snapshot the last rollback took is in the log, and in memory the same.
IsUndo(e) == e.id = undo.id /\ e.files = undo.files /\ Captured(e) \subseteq stored
UndoKept ==
  undo.id > 0 =>
    /\ entries # <<>> /\ log # <<>>
    /\ undo.id + MaxCheckpoints > Last(entries).id =>
         \E e \in Elements(entries) \cap Elements(log) : IsUndo(e)
    /\ undo.id + MaxCheckpoints > Last(log).id => \E e \in Elements(log) : IsUndo(e)

LEMMA TypeFromParts == StoreOK /\ TalkOK /\ RollbackOK /\ SnapOK => TypeOK
BY ElementsRange DEF StoreOK, TalkOK, RollbackOK, SnapOK, TypeOK

LEMMA NewEntryTyped ==
  ASSUME StoreOK, TalkOK, SnapOK, NextId <= MaxIds
  PROVE  /\ NextId \in 1..MaxIds /\ NewEntry \in EntrySet
         /\ NewEntry.id = NextId /\ NewEntry.turn = Len(stm)
         /\ NewEntry.at = clock /\ NewEntry.files = seen
<1>1. NextId \in Nat /\ NextId >= 1
  <2>1. CASE entries = <<>>
    BY <2>1 DEF NextId
  <2>2. CASE entries # <<>>
    <3>1. Len(entries) \in 1..Len(entries)
      BY <2>2 DEF StoreOK
    <3>2. Last(entries) \in EntrySet
      BY <3>1, ElementOfSeq DEF StoreOK, Last
    <3>3. Last(entries).id \in Nat
      BY <3>2, WindowAssumption DEF EntrySet
    <3> QED BY <2>2, <3>3 DEF NextId
  <2> QED BY <2>1, <2>2
<1>2. seen \in [Files -> (States \ {"gone"}) \cup {"unrecorded"}]
  BY DEF SnapOK
<1>3. Len(stm) \in 0..StmMax /\ clock \in 0..MaxSays
  BY WindowAssumption DEF TalkOK
<1>4. NextId \in 0..MaxIds
  BY <1>1, WindowAssumption
<1> QED BY <1>1, <1>2, <1>3, <1>4, WindowAssumption DEF NewEntry, EntrySet

\* An entry is appended, and what leaves the window is dropped.
Appended(e) == entries' = Newest(Append(entries, e), MaxCheckpoints)

\* What a recorded snapshot does to the window of checkpoints.
LEMMA Recording ==
  ASSUME StoreOK, Numbered, NEW e \in EntrySet, e.id = NextId, NextId >= 1,
         Appended(e)
  PROVE  /\ entries' \in Seq(EntrySet) /\ Len(entries') \in 1..MaxCheckpoints
         /\ Last(entries') = e /\ InOrder(entries')
         /\ Elements(entries') \subseteq Elements(entries) \cup {e}
         /\ \A c \in Elements(entries) : c.id + MaxCheckpoints > e.id => c \in Elements(entries')
<1> DEFINE longer == Append(entries, e)
<1>1. /\ longer \in Seq(EntrySet) /\ Len(longer) = Len(entries) + 1
      /\ Elements(longer) = Elements(entries) \cup {e}
  BY ElementsOfAppend DEF StoreOK
<1>2. \A i \in 1..Len(longer) : longer[i] = IF i <= Len(entries) THEN entries[i] ELSE e
  BY DEF StoreOK
<1>3. InOrder(longer)
  <2>1. \A i \in 1..Len(entries) : entries[i] \in EntrySet /\ entries[i].id \in Int
    <3>1. \A i \in 1..Len(entries) : entries[i] \in EntrySet
      BY ElementOfSeq DEF StoreOK
    <3> QED BY <3>1, WindowAssumption DEF EntrySet
  <2>2. CASE entries = <<>>
    BY <2>2, <1>1, <1>2 DEF InOrder, NextId
  <2>3. CASE entries # <<>>
    <3>1. Len(entries) \in 1..Len(entries) /\ e.id = entries[Len(entries)].id + 1
      BY <2>3 DEF NextId, Last, StoreOK
    <3>2. \A i \in 1..Len(entries) :
            entries[i].id >= 1 /\ e.id = entries[i].id + (Len(entries) + 1 - i)
      <4>1. \A i \in 1..Len(entries) :
              entries[i].id >= 1 /\ entries[Len(entries)].id = entries[i].id + (Len(entries) - i)
        BY <3>1 DEF Numbered, InOrder
      <4>2. Len(entries) \in Int
        BY <3>1
      <4> QED BY <2>1, <3>1, <4>1, <4>2
    <3>3. \A i, j \in 1..Len(entries) : entries[j].id = entries[i].id + (j - i)
      BY DEF Numbered, InOrder
    <3> SUFFICES ASSUME NEW i \in 1..Len(longer), NEW j \in 1..Len(longer)
                 PROVE  longer[i].id >= 1 /\ longer[j].id = longer[i].id + (j - i)
      BY DEF InOrder
    <3>4. Len(entries) \in Nat /\ e.id \in Int
      BY <2>1, <3>1 DEF StoreOK
    <3>5. CASE i <= Len(entries) /\ j <= Len(entries)
      <4>1. i \in 1..Len(entries) /\ j \in 1..Len(entries)
        BY <3>5, <3>4, <1>1
      <4> QED BY <4>1, <3>2, <3>3, <1>2
    <3>6. CASE i <= Len(entries) /\ j > Len(entries)
      <4>1. i \in 1..Len(entries) /\ j = Len(entries) + 1
        BY <3>6, <3>4, <1>1
      <4> QED BY <4>1, <3>2, <3>4, <3>6, <1>2
    <3>7. CASE i > Len(entries) /\ j <= Len(entries)
      <4>1. j \in 1..Len(entries) /\ i = Len(entries) + 1
        BY <3>7, <3>4, <1>1
      <4>2. longer[i] = e /\ longer[j] = entries[j]
        BY <4>1, <3>7, <1>2
      <4>3. e.id = entries[j].id + (Len(entries) + 1 - j) /\ entries[j].id \in Int /\ e.id >= 1
        BY <4>1, <2>1, <3>2, <3>4
      <4>4. entries[j].id = e.id + (j - i)
        BY <4>1, <4>3, <3>4
      <4> QED BY <4>2, <4>3, <4>4
    <3>8. CASE i > Len(entries) /\ j > Len(entries)
      <4>1. j = Len(entries) + 1 /\ i = Len(entries) + 1
        BY <3>8, <3>4, <1>1
      <4> QED BY <4>1, <3>4, <3>8, <1>2
    <3> QED BY <3>4, <3>5, <3>6, <3>7, <3>8, <1>1
  <2> QED BY <2>2, <2>3
<1>4. entries' = Newest(longer, MaxCheckpoints)
  BY DEF Appended
<1>5. longer[Len(longer)] = e
  BY <1>1, <1>2 DEF StoreOK
<1> HIDE DEF longer
<1>6. /\ entries' \in Seq(EntrySet)
      /\ Len(entries') = IF Len(longer) > MaxCheckpoints THEN MaxCheckpoints ELSE Len(longer)
      /\ \A i \in 1..Len(entries') : entries'[i] = longer[i + (Len(longer) - Len(entries'))]
  BY <1>1, <1>4, NewestIsSuffix, WindowAssumption
<1>7. Len(entries) \in Nat /\ Len(longer) \in Nat /\ MaxCheckpoints \in Nat \ {0}
  BY <1>1, WindowAssumption DEF StoreOK
<1>8. Len(entries') \in 1..MaxCheckpoints
  BY <1>1, <1>6, <1>7
<1>9. Last(entries') = e
  <2>1. Len(entries') \in 1..Len(entries')
    BY <1>8
  <2>2. Len(entries') + (Len(longer) - Len(entries')) = Len(longer)
    BY <1>7, <1>8
  <2>3. entries'[Len(entries')] = e
    BY <2>1, <2>2, <1>5, <1>6
  <2> QED BY <2>3 DEF Last
<1>10. InOrder(entries')
  <2> SUFFICES ASSUME NEW i \in 1..Len(entries'), NEW j \in 1..Len(entries')
               PROVE  entries'[i].id >= 1 /\ entries'[j].id = entries'[i].id + (j - i)
    BY DEF InOrder
  <2> DEFINE d == Len(longer) - Len(entries')
  <2>1. i + d \in 1..Len(longer) /\ j + d \in 1..Len(longer) /\ (j + d) - (i + d) = j - i
    <3>1. Len(entries') <= Len(longer) /\ Len(entries') \in Nat
      BY <1>6, <1>7, <1>8
    <3> QED BY <3>1, <1>7
  <2>2. longer[i + d].id >= 1 /\ longer[j + d].id = longer[i + d].id + ((j + d) - (i + d))
    BY <1>3, <2>1 DEF InOrder
  <2> HIDE DEF d
  <2> QED BY <1>6, <2>1, <2>2 DEF d
<1>11. Elements(entries') \subseteq Elements(entries) \cup {e}
  BY <1>1, <1>4, NewestElements, WindowAssumption
<1>12. ASSUME NEW c \in Elements(entries), c.id + MaxCheckpoints > e.id
       PROVE  c \in Elements(entries')
  <2>1. PICK k \in 1..Len(longer) : c = longer[k]
    BY <1>1, ElementsRange
  <2>2. longer[k].id \in Int
    <3>1. longer[k] \in EntrySet
      BY <1>1, ElementOfSeq
    <3> QED BY <3>1, WindowAssumption DEF EntrySet
  <2>3. Len(longer) \in 1..Len(longer) /\ e.id = longer[k].id + (Len(longer) - k)
    BY <1>1, <1>3, <1>5, <1>7, <2>1 DEF InOrder
  <2>4. Len(longer) - k < MaxCheckpoints
    BY <1>7, <1>12, <2>1, <2>2, <2>3
  <2> DEFINE i == k - (Len(longer) - Len(entries'))
  <2>5. i \in 1..Len(entries') /\ i + (Len(longer) - Len(entries')) = k
    BY <1>6, <1>7, <1>8, <2>4
  <2>6. entries'[i] = c
    BY <1>6, <2>1, <2>5
  <2> HIDE DEF i
  <2> QED BY <1>6, <2>5, <2>6, ElementsRange
<1> QED BY <1>6, <1>8, <1>9, <1>10, <1>11, <1>12

LEMMA NoEntryTyped == NoEntry \in EntrySet /\ NoEntry.id = 0
BY WindowAssumption DEF NoEntry, Unseen, EntrySet

LEMMA EntryTyped ==
  ASSUME StoreOK, NEW e \in Elements(entries)
  PROVE  e \in EntrySet
BY ElementsRange DEF StoreOK

\* What is written back for a file is something a file can be.
LEMMA RestoredTyped ==
  ASSUME NEW e \in EntrySet, NEW f \in Files
  PROVE  Restored(e, f) \in States
<1>1. e.files[f] \in (States \ {"gone"}) \cup {"unrecorded"}
  BY DEF EntrySet
<1> QED BY <1>1 DEF Restored, States

\* Reading one file leaves the checkpoints and the workspace alone, and what is stored
\* stays. A snapshot that fails ends the rollback it was taken for.
LEMMA Reading ==
  ASSUME StoreOK, RollbackOK, NEW t \in Takers, left \in [Takers -> SUBSET Files], ReadNext(t)
  PROVE  /\ UNCHANGED <<entries, log, events, tree, aligned>> /\ UNCHANGED talkVars
         /\ stored \subseteq stored' /\ torn \subseteq torn' /\ torn' \subseteq stored'
         /\ stored' \subseteq Contents \cup {"junk"}
         /\ UNCHANGED undoVars \/ (Leave /\ UNCHANGED undo)
<1>1. PICK f \in left[t] :
        /\ \/ /\ stored' = stored \cup ({tree[f]} \ {"gone", "big"})
              /\ UNCHANGED <<torn, undoVars>>
           \/ /\ tree[f] \notin stored \cup {"gone", "big"}
              /\ \/ UNCHANGED <<stored, torn>>
                 \/ stored' = stored \cup {tree[f]} /\ torn' = torn \cup {tree[f]}
              /\ Taken(t, FALSE)
        /\ UNCHANGED <<entries, log, events, tree, talkVars, aligned>>
  BY Zenon DEF ReadNext
<1>2. tree[f] \in Contents \cup {"gone", "big", "junk"}
  BY DEF RollbackOK, States
<1>3. UNCHANGED <<entries, log, events, tree, aligned>> /\ UNCHANGED talkVars
  BY <1>1
<1>4. Taken(t, FALSE) => UNCHANGED undoVars \/ (Leave /\ UNCHANGED undo)
  BY DEF Taken, GivesUp
<1>5. /\ stored \subseteq stored' /\ torn \subseteq torn' /\ torn' \subseteq stored'
      /\ stored' \subseteq Contents \cup {"junk"}
  BY <1>1, <1>2 DEF StoreOK
<1>6. UNCHANGED undoVars \/ (Leave /\ UNCHANGED undo)
  <2>1. UNCHANGED undoVars \/ Taken(t, FALSE)
    BY <1>1
  <2> QED BY <2>1, <1>4
<1> QED BY <1>3, <1>5, <1>6

\* What it is to record a snapshot, and what becomes of the rollback it was taken for.
LEMMA Recorded ==
  ASSUME StoreOK, TalkOK, SnapOK, NEW t \in Takers, NEW saved \in BOOLEAN, Record(t, saved)
  PROVE  /\ NewEntry \in EntrySet /\ NewEntry.id = NextId /\ NextId \in 1..MaxIds
         /\ NewEntry.turn = Len(stm) /\ NewEntry.at = clock /\ NewEntry.files = seen
         /\ Appended(NewEntry)
         /\ log' = IF saved THEN entries' ELSE log
         /\ aligned' = aligned \cup {NextId}
         /\ UNCHANGED <<events, tree, stored, torn>> /\ UNCHANGED talkVars
         /\ \/ UNCHANGED undoVars
            \/ Leave /\ UNCHANGED undo
            \/ /\ t = "rollback" /\ saved /\ rb' = "restore"
               /\ undo'.id = NextId /\ undo'.files = seen
               /\ UNCHANGED <<target, todo, touched>>
<1>1. NextId <= MaxIds
  BY DEF Record
<1>2. /\ NewEntry \in EntrySet /\ NewEntry.id = NextId /\ NextId \in 1..MaxIds
      /\ NewEntry.turn = Len(stm) /\ NewEntry.at = clock /\ NewEntry.files = seen
  BY <1>1, NewEntryTyped
<1>3. /\ Appended(NewEntry)
      /\ log' = IF saved THEN entries' ELSE log
      /\ aligned' = aligned \cup {NextId}
      /\ UNCHANGED <<events, tree, stored, torn>> /\ UNCHANGED talkVars
  BY DEF Record, Appended
<1>4. \/ UNCHANGED undoVars
      \/ Leave /\ UNCHANGED undo
      \/ /\ t = "rollback" /\ saved /\ rb' = "restore"
         /\ undo' = [id |-> NextId, files |-> seen]
         /\ UNCHANGED <<target, todo, touched>>
  BY Zenon DEF Record, Taken, GivesUp
<1>5. /\ [id |-> NextId, files |-> seen].id = NextId
      /\ [id |-> NextId, files |-> seen].files = seen
  OBVIOUS
<1> QED BY <1>2, <1>3, <1>4, <1>5

LEMMA StepKeepsRollback ==
  ASSUME StoreOK, TalkOK, RollbackOK, SnapOK, [Next]_vars
  PROVE  RollbackOK'
<1>1. ASSUME NEW b \in Batches, List(b) PROVE RollbackOK'
  BY <1>1, NoEntryTyped DEF List, storeVars, snapVars, talkVars, undoVars, RollbackOK
<1>2. ASSUME NEW f \in Files, NEW s \in States, Edit(f, s) PROVE RollbackOK'
  <2>1. tree' \in [Files -> States] /\ touched' \subseteq Files
    BY <1>2 DEF Edit, RollbackOK
  <2>2. events' \in 0..MaxEvents
    BY <1>2, WindowAssumption DEF Edit, Happens, RollbackOK
  <2> QED BY <1>2, <2>1, <2>2 DEF Edit, RollbackOK
<1>3. CASE Say
  <2>1. aligned' \in {aligned, {}}
    BY <1>3 DEF Say
  <2> QED BY <1>3, <2>1 DEF Say, undoVars, RollbackOK
<1>4. CASE CompactionReads
  BY <1>4, NoEntryTyped, WindowAssumption DEF CompactionReads, storeVars, snapVars, talkVars, undoVars, RollbackOK, Happens
<1>5. CASE CompactionReplaces
  BY <1>5, NoEntryTyped, WindowAssumption DEF CompactionReplaces, storeVars, snapVars, talkVars, undoVars, RollbackOK, Happens
<1>6. CASE CompactionFails
  BY <1>6, NoEntryTyped, WindowAssumption DEF CompactionFails, storeVars, snapVars, talkVars, undoVars, RollbackOK, Happens
<1>7. CASE StartNewSession
  BY <1>7, NoEntryTyped, WindowAssumption DEF StartNewSession, storeVars, snapVars, talkVars, undoVars, RollbackOK, Happens
<1>8. ASSUME NEW e \in Elements(entries), Compare(e) PROVE RollbackOK'
  <2>1. e \in EntrySet
    BY EntryTyped
  <2>2. Deleted(e) \subseteq Files
    BY DEF Deleted
  <2>3. /\ rb' = "compare" /\ target' = e /\ todo' = Deleted(e) /\ touched' = {}
        /\ UNCHANGED <<tree, undo, events, aligned>>
    BY <1>8 DEF Compare
  <2> QED BY <2>1, <2>2, <2>3 DEF RollbackOK
<1>9. ASSUME NEW t \in Takers, ReadNext(t) PROVE RollbackOK'
  <2>1. UNCHANGED <<events, tree, aligned>> /\ (UNCHANGED undoVars \/ (Leave /\ UNCHANGED undo))
    BY <1>9, Reading DEF SnapOK
  <2> QED BY <2>1, NoEntryTyped DEF undoVars, Leave, RollbackOK
<1>10. ASSUME NEW f \in Files, RestoreFile(f) PROVE RollbackOK'
  <2>1. Restored(target, f) \in States
    BY RestoredTyped DEF RollbackOK
  <2> QED BY <1>10, <2>1 DEF RestoreFile, RollbackOK
<1>11. ASSUME NEW f \in Files, RestoreFails(f) PROVE RollbackOK'
  <2>1. tree' \in [Files -> States]
    BY <1>11 DEF RestoreFails, RollbackOK, States
  <2> QED BY <1>11, <2>1, NoEntryTyped DEF RestoreFails, Leave, RollbackOK
<1>12. CASE RestoreEnds
  BY <1>12, NoEntryTyped, WindowAssumption DEF RestoreEnds, storeVars, snapVars, talkVars, undoVars, RollbackOK, Happens
<1>13. CASE Truncate
  <2>1. aligned' \subseteq 1..MaxIds
    BY <1>13 DEF Truncate, RollbackOK
  <2> QED BY <1>13, <2>1, NoEntryTyped DEF Truncate, Leave, RollbackOK
<1>14. ASSUME NEW e \in Elements(entries), NEW f \in Files, RollbackFile(e, f) PROVE RollbackOK'
  <2>1. Restored(e, f) \in States /\ "junk" \in States
    BY RestoredTyped, EntryTyped DEF States
  <2>2. tree' \in [Files -> States] /\ touched' \subseteq Files
    BY <1>14, <2>1 DEF RollbackFile, RollbackOK
  <2>3. events' \in 0..MaxEvents
    BY <1>14, WindowAssumption DEF RollbackFile, Happens, RollbackOK
  <2> QED BY <1>14, <2>2, <2>3 DEF RollbackFile, RollbackOK
<1>15. CASE Restart
  <2>1. target' = NoEntry /\ todo' = {} /\ touched' = {} /\ rb' = "idle" /\ aligned' = {}
    BY <1>15 DEF Restart, Leave
  <2>2. UNCHANGED <<tree, undo>> /\ events' \in 0..MaxEvents
    BY <1>15, WindowAssumption DEF Restart, Happens, RollbackOK
  <2> QED BY <2>1, <2>2, NoEntryTyped DEF RollbackOK
<1>16. CASE UNCHANGED vars
  BY <1>16, NoEntryTyped, WindowAssumption DEF vars, storeVars, snapVars, talkVars, undoVars, RollbackOK, Happens
<1>17. ASSUME NEW t \in Takers, NEW saved \in BOOLEAN, Record(t, saved) PROVE RollbackOK'
  <2>1. NextId \in 1..MaxIds /\ aligned' = aligned \cup {NextId} /\ UNCHANGED <<events, tree>>
    BY <1>17, Recorded
  <2>2. \/ UNCHANGED undoVars
        \/ Leave /\ UNCHANGED undo
        \/ /\ t = "rollback" /\ saved /\ rb' = "restore"
           /\ undo'.id = NextId /\ undo'.files = seen
           /\ UNCHANGED <<target, todo, touched>>
    BY <1>17, Recorded
  <2>3. CASE UNCHANGED undoVars
    BY <2>1, <2>3 DEF undoVars, RollbackOK
  <2>4. CASE Leave /\ UNCHANGED undo
    BY <2>1, <2>4, NoEntryTyped DEF Leave, RollbackOK
  <2>5. CASE rb' = "restore" /\ undo'.id = NextId /\ UNCHANGED <<target, todo, touched>>
    BY <2>1, <2>5, WindowAssumption DEF RollbackOK
  <2> QED BY <2>2, <2>3, <2>4, <2>5
<1>18. CASE CompareNext
  <2>1. todo' \subseteq Files
    BY <1>18 DEF CompareNext, SnapOK, RollbackOK, Takers
  <2> QED BY <1>18, <2>1 DEF CompareNext, RollbackOK
<1>19. CASE Compared
  BY <1>19 DEF Compared, storeVars, snapVars, talkVars, undoVars, RollbackOK
<1>20. ASSUME NEW n \in 0..StmMax, STMSetMax(n) PROVE RollbackOK'
  <2>1. aligned' \in {aligned, {}} /\ UNCHANGED tree /\ UNCHANGED undoVars
    BY <1>20 DEF STMSetMax
  <2>2. events' \in 0..MaxEvents
    BY <1>20, WindowAssumption DEF STMSetMax, Happens, RollbackOK
  <2> QED BY <2>1, <2>2 DEF undoVars, RollbackOK
<1> QED
  BY <1>1, <1>2, <1>3, <1>4, <1>5, <1>6, <1>7, <1>8, <1>9,
     <1>10, <1>11, <1>12, <1>13, <1>14, <1>15, <1>16,
     <1>17, <1>18, <1>19, <1>20
  DEF Next, Rollback

\* A snapshot that is over holds nothing up, and the rollback is not at it any more.
LEMMA TakenKeepsSnaps ==
  ASSUME SnapOK, NEW t \in Takers, NEW ok \in BOOLEAN, taking[t] # "no", Unlocked(t),
         Taken(t, ok), stored \subseteq stored'
  PROVE  SnapOK'
<1>1. /\ taking' = [taking EXCEPT ![t] = "no"] /\ left' = [left EXCEPT ![t] = {}]
      /\ seen' = Unseen
  BY DEF Taken
<1>2. taking' \in [Takers -> {"no", "listed", "reading"}] /\ left' \in [Takers -> SUBSET Files]
  BY <1>1 DEF SnapOK
<1>3. \A u \in Takers : taking'[u] # "reading"
  BY <1>1 DEF SnapOK, Unlocked
<1>4. taking'["rollback"] # "no" <=> rb' = "snapshot"
  <2>1. "rollback" \in Takers
    BY DEF Takers
  <2>2. CASE t = "rollback"
    <3>1. rb' # "snapshot"
      BY <2>2 DEF Taken, GivesUp, Leave
    <3> QED BY <1>1, <2>1, <2>2, <3>1 DEF SnapOK
  <2>3. CASE t # "rollback"
    <3>1. rb' = rb /\ taking'["rollback"] = taking["rollback"]
      BY <1>1, <2>1, <2>3 DEF Taken, undoVars, SnapOK
    <3> QED BY <3>1 DEF SnapOK
  <2> QED BY <2>2, <2>3
<1>5. /\ seen' \in [Files -> (States \ {"gone"}) \cup {"unrecorded"}]
      /\ \A f \in Files : seen'[f] \in stored' \cup {"unrecorded", "big"}
  BY <1>1 DEF Unseen
<1> QED BY <1>1, <1>2, <1>3, <1>4, <1>5 DEF SnapOK

LEMMA StepKeepsSnaps ==
  ASSUME StoreOK, TalkOK, RollbackOK, SnapOK, [Next]_vars
  PROVE  SnapOK'
<1> "rollback" \in Takers
  BY DEF Takers
<1>1. ASSUME NEW b \in Batches, List(b) PROVE SnapOK'
  <2>1. b \in Takers /\ b # "rollback" /\ taking[b] = "no"
    BY <1>1, BatchesAssumption DEF List, Takers
  <2>2. /\ taking' = [taking EXCEPT ![b] = "listed"] /\ left' = [left EXCEPT ![b] = Walked]
        /\ UNCHANGED <<seen, stored, rb>>
    BY <1>1 DEF List, storeVars, undoVars
  <2>3. Walked \subseteq Files
    BY DEF Walked, Present
  <2>4. \A t \in Takers : taking'[t] = "reading" <=> taking[t] = "reading"
    BY <2>1, <2>2 DEF SnapOK
  <2>5. taking'["rollback"] = taking["rollback"]
    BY <2>1, <2>2 DEF SnapOK
  <2>6. taking' \in [Takers -> {"no", "listed", "reading"}] /\ left' \in [Takers -> SUBSET Files]
    BY <2>2, <2>3 DEF SnapOK
  <2> QED BY <2>2, <2>4, <2>5, <2>6 DEF SnapOK
<1>2. ASSUME NEW f \in Files, NEW s \in States, Edit(f, s) PROVE SnapOK'
  BY <1>2 DEF Edit, storeVars, snapVars, SnapOK
<1>3. CASE Say
  BY <1>3 DEF Say, storeVars, snapVars, undoVars, SnapOK
<1>4. CASE CompactionReads
  BY <1>4 DEF CompactionReads, storeVars, snapVars, undoVars, SnapOK
<1>5. CASE CompactionReplaces
  BY <1>5 DEF CompactionReplaces, storeVars, snapVars, undoVars, SnapOK
<1>6. CASE CompactionFails
  BY <1>6 DEF CompactionFails, storeVars, snapVars, undoVars, SnapOK
<1>7. CASE StartNewSession
  BY <1>7 DEF StartNewSession, storeVars, snapVars, undoVars, SnapOK
<1>8. ASSUME NEW e \in Elements(entries), Compare(e) PROVE SnapOK'
  <2>1. Walked \subseteq Files
    BY DEF Walked, Present
  <2>2. /\ left' \in [Takers -> SUBSET Files] /\ UNCHANGED <<taking, seen, stored>>
        /\ rb = "idle" /\ rb' = "compare"
    BY <1>8, <2>1 DEF Compare, storeVars, SnapOK
  <2> QED BY <2>2 DEF SnapOK
<1>9. ASSUME NEW t \in Takers, ReadNext(t) PROVE SnapOK'
  <2>1. PICK f \in left[t] :
          /\ taking[t] # "no" /\ Unlocked(t)
          /\ \/ /\ seen' = [seen EXCEPT ![f] = IF tree[f] = "gone" THEN "unrecorded" ELSE tree[f]]
                /\ stored' = stored \cup ({tree[f]} \ {"gone", "big"})
                /\ taking' = [taking EXCEPT ![t] = "reading"]
                /\ left' = [left EXCEPT ![t] = @ \ {f}]
                /\ UNCHANGED <<torn, undoVars>>
             \/ Taken(t, FALSE)
    BY <1>9, Zenon DEF ReadNext
  <2>2. stored \subseteq stored'
    BY <1>9, Reading DEF SnapOK
  <2>3. CASE Taken(t, FALSE)
    BY <2>1, <2>2, <2>3, TakenKeepsSnaps
  <2>4. CASE /\ seen' = [seen EXCEPT ![f] = IF tree[f] = "gone" THEN "unrecorded" ELSE tree[f]]
             /\ stored' = stored \cup ({tree[f]} \ {"gone", "big"})
             /\ taking' = [taking EXCEPT ![t] = "reading"]
             /\ left' = [left EXCEPT ![t] = @ \ {f}]
             /\ UNCHANGED <<torn, undoVars>>
    <3>1. f \in Files /\ tree[f] \in States
      BY DEF SnapOK, RollbackOK
    <3>2. /\ seen' \in [Files -> (States \ {"gone"}) \cup {"unrecorded"}]
          /\ \A g \in Files : seen'[g] \in stored' \cup {"unrecorded", "big"}
      BY <2>4, <3>1 DEF SnapOK
    <3>3. taking' \in [Takers -> {"no", "listed", "reading"}] /\ left' \in [Takers -> SUBSET Files]
      BY <2>4 DEF SnapOK
    <3>4. taking'[t] = "reading" /\ \A u \in Takers \ {t} : taking'[u] # "reading"
      BY <2>1, <2>4 DEF SnapOK, Unlocked
    <3>5. (taking'["rollback"] # "no") = (taking["rollback"] # "no") /\ rb' = rb
      BY <2>1, <2>4 DEF SnapOK, undoVars
    <3> QED BY <3>2, <3>3, <3>4, <3>5 DEF SnapOK
  <2> QED BY <2>1, <2>3, <2>4
<1>10. ASSUME NEW f \in Files, RestoreFile(f) PROVE SnapOK'
  BY <1>10 DEF RestoreFile, storeVars, snapVars, SnapOK
<1>11. ASSUME NEW f \in Files, RestoreFails(f) PROVE SnapOK'
  BY <1>11 DEF RestoreFails, Leave, storeVars, snapVars, SnapOK
<1>12. CASE RestoreEnds
  BY <1>12 DEF RestoreEnds, storeVars, snapVars, SnapOK
<1>13. CASE Truncate
  BY <1>13 DEF Truncate, Leave, storeVars, snapVars, SnapOK
<1>14. ASSUME NEW e \in Elements(entries), NEW f \in Files, RollbackFile(e, f) PROVE SnapOK'
  BY <1>14 DEF RollbackFile, storeVars, snapVars, SnapOK
<1>15. CASE Restart
  <2>1. /\ taking' = [t \in Takers |-> "no"] /\ left' = [t \in Takers |-> {}] /\ seen' = Unseen
        /\ rb' = "idle"
    BY <1>15 DEF Restart, Leave
  <2> QED BY <2>1 DEF SnapOK, Unseen
<1>16. CASE UNCHANGED vars
  BY <1>16 DEF vars, storeVars, snapVars, undoVars, SnapOK
<1>17. ASSUME NEW t \in Takers, NEW saved \in BOOLEAN, Record(t, saved) PROVE SnapOK'
  BY <1>17, TakenKeepsSnaps DEF Record
<1>18. CASE CompareNext
  <2>1. left' \in [Takers -> SUBSET Files] /\ UNCHANGED <<taking, seen, stored, rb>>
    BY <1>18 DEF CompareNext, storeVars, SnapOK
  <2> QED BY <2>1 DEF SnapOK
<1>19. CASE Compared
  <2>1. /\ taking' = [taking EXCEPT !["rollback"] = "listed"] /\ rb = "compare" /\ rb' = "snapshot"
        /\ left' = [left EXCEPT !["rollback"] = Walked] /\ UNCHANGED <<seen, stored>>
    BY <1>19 DEF Compared, storeVars
  <2>2. Walked \subseteq Files
    BY DEF Walked, Present
  <2>3. taking["rollback"] = "no"
    BY <2>1 DEF SnapOK
  <2>4. \A t \in Takers : taking'[t] = "reading" <=> taking[t] = "reading"
    BY <2>1, <2>3 DEF SnapOK
  <2>5. taking'["rollback"] = "listed"
    BY <2>1 DEF SnapOK
  <2>6. taking' \in [Takers -> {"no", "listed", "reading"}] /\ left' \in [Takers -> SUBSET Files]
    BY <2>1, <2>2 DEF SnapOK
  <2> QED BY <2>1, <2>4, <2>5, <2>6 DEF SnapOK
<1>20. ASSUME NEW n \in 0..StmMax, STMSetMax(n) PROVE SnapOK'
  BY <1>20 DEF STMSetMax, storeVars, snapVars, undoVars, SnapOK
<1> QED
  BY <1>1, <1>2, <1>3, <1>4, <1>5, <1>6, <1>7, <1>8, <1>9,
     <1>10, <1>11, <1>12, <1>13, <1>14, <1>15, <1>16,
     <1>17, <1>18, <1>19, <1>20
  DEF Next, Rollback

\* What is left of the conversation is its beginning.
LEMMA RewoundIsPrefix ==
  ASSUME TalkOK, RollbackOK
  PROVE  /\ Rewound \in Seq(0..MaxSays)
         /\ Len(Rewound) = IF Len(stm) > target.turn THEN target.turn ELSE Len(stm)
         /\ \A i \in 1..Len(Rewound) : Rewound[i] = stm[i]
         /\ Len(stm) \in Nat /\ target.turn \in Nat
<1>1. Len(stm) \in Nat /\ target.turn \in Nat /\ stm \in Seq(0..MaxSays)
  BY WindowAssumption DEF TalkOK, RollbackOK, EntrySet
<1>2. CASE Len(stm) > target.turn
  <2>1. \A i \in 1..target.turn : stm[i] \in 0..MaxSays
    <3>1. \A i \in 1..target.turn : i \in 1..Len(stm)
      BY <1>1, <1>2
    <3> QED BY <1>1, <3>1, ElementOfSeq
  <2>2. Rewound = SubSeq(stm, 1, target.turn)
    BY <1>2 DEF Rewound, TruncateApplies
  <2> QED BY <1>1, <1>2, <2>1, <2>2, SubSeqProperties
<1>3. CASE ~(Len(stm) > target.turn)
  BY <1>1, <1>3 DEF Rewound, TruncateApplies
<1> QED BY <1>2, <1>3

LEMMA RoomFor ==
  ASSUME NEW l \in Nat, NEW m \in Nat, l <= m, NEW b, b = 1 + l,
         NEW s, s = IF b > m THEN m ELSE b
  PROVE  b \in Nat /\ s \in Nat /\ b - s \in {0, 1}
OBVIOUS

\* A compacted conversation is the summary and the newest messages, less the summary
\* when there is no room for both.
LEMMA Compacted ==
  ASSUME TalkOK
  PROVE  LET tail == Newest(stm, KeepRecent)
             short == Newest(<<0>> \o tail, stmMax) IN
         /\ tail \in Seq(0..MaxSays) /\ Elements(tail) \subseteq Elements(stm)
         /\ short \in Seq(0..MaxSays) /\ Len(short) <= stmMax
         /\ Elements(tail) \subseteq Elements(short)
         /\ Elements(short) \subseteq {0} \cup Elements(tail)
<1> DEFINE tail == Newest(stm, KeepRecent)
           both == <<0>> \o tail
           short == Newest(both, stmMax)
<1>1. /\ tail \in Seq(0..MaxSays) /\ Elements(tail) \subseteq Elements(stm)
      /\ Len(tail) \in Nat /\ Len(tail) <= stmMax
  <2>1. stm \in Seq(0..MaxSays) /\ Len(stm) \in Nat /\ stmMax \in Nat /\ Len(stm) <= stmMax
    BY WindowAssumption DEF TalkOK
  <2>2. tail \in Seq(0..MaxSays) /\ Len(tail) <= Len(stm)
    BY <2>1, NewestIsSuffix, WindowAssumption
  <2>3. Elements(tail) \subseteq Elements(stm)
    BY <2>1, NewestElements, WindowAssumption
  <2> QED BY <2>1, <2>2, <2>3
<1> HIDE DEF tail
<1>2. <<0>> \in Seq(0..MaxSays) /\ Len(<<0>>) = 1 /\ <<0>>[1] = 0
  BY WindowAssumption
<1>3. /\ both \in Seq(0..MaxSays) /\ Len(both) = 1 + Len(tail)
      /\ both[1] = 0 /\ \A i \in 1..Len(tail) : both[i + 1] = tail[i]
  <2>1. /\ both \in Seq(0..MaxSays) /\ Len(both) = 1 + Len(tail)
        /\ \A i \in 1..(1 + Len(tail)) : both[i] = IF i <= 1 THEN <<0>>[i] ELSE tail[i - 1]
    BY <1>1, <1>2, ConcatProperties
  <2> HIDE DEF both
  <2> QED BY <1>1, <1>2, <2>1
<1> HIDE DEF both
<1>4. stmMax \in Nat
  BY WindowAssumption DEF TalkOK
<1>5. /\ short \in Seq(0..MaxSays)
      /\ Len(short) = IF Len(both) > stmMax THEN stmMax ELSE Len(both)
      /\ \A i \in 1..Len(short) : short[i] = both[i + (Len(both) - Len(short))]
  BY <1>3, <1>4, NewestIsSuffix
<1> HIDE DEF short
<1>6. /\ Elements(tail) = {tail[i] : i \in 1..Len(tail)}
      /\ Elements(both) = {both[i] : i \in 1..Len(both)}
      /\ Elements(short) = {short[i] : i \in 1..Len(short)}
  BY <1>1, <1>3, <1>5, ElementsRange
<1>7. Elements(tail) \subseteq Elements(short)
  <2> SUFFICES ASSUME NEW i \in 1..Len(tail) PROVE tail[i] \in Elements(short)
    BY <1>6
  <2> DEFINE k == i + 1 - (Len(both) - Len(short))
  <2>1. Len(both) \in Nat /\ Len(short) \in Nat /\ Len(both) - Len(short) \in {0, 1}
    BY <1>1, <1>3, <1>4, <1>5, RoomFor
  <2>2. k \in 1..Len(short) /\ k + (Len(both) - Len(short)) = i + 1
    BY <1>1, <1>3, <2>1
  <2>3. short[k] = both[i + 1] /\ both[i + 1] = tail[i]
    BY <2>2, <1>3, <1>5
  <2> HIDE DEF k
  <2> QED BY <2>2, <2>3, <1>6
<1>8. Elements(short) \subseteq {0} \cup Elements(tail)
  <2> SUFFICES ASSUME NEW i \in 1..Len(both) PROVE both[i] = 0 \/ both[i] \in Elements(tail)
    <3>1. \A i \in 1..Len(short) : i + (Len(both) - Len(short)) \in 1..Len(both)
      BY <1>1, <1>3, <1>4, <1>5
    <3> QED BY <3>1, <1>5, <1>6
  <2>1. i = 1 \/ (i - 1 \in 1..Len(tail) /\ (i - 1) + 1 = i)
    BY <1>1, <1>3
  <2> QED BY <2>1, <1>3, <1>6
<1>9. Len(short) <= stmMax
  BY <1>1, <1>3, <1>4, <1>5
<1> QED BY <1>1, <1>5, <1>7, <1>8, <1>9 DEF short, both, tail

LEMMA StepKeepsTalk ==
  ASSUME StoreOK, TalkOK, RollbackOK, SnapOK, [Next]_vars
  PROVE  TalkOK'
<1>1. ASSUME NEW b \in Batches, List(b) PROVE TalkOK'
  BY <1>1 DEF List, Leave, storeVars, snapVars, talkVars, undoVars, TalkOK
<1>2. ASSUME NEW f \in Files, NEW s \in States, Edit(f, s) PROVE TalkOK'
  BY <1>2 DEF Edit, storeVars, snapVars, talkVars, undoVars, TalkOK
<1>3. CASE Say
  <2> DEFINE longer == Append(stm, clock + 1)
  <2>1. clock + 1 \in 0..MaxSays /\ clock + 1 \in 1..MaxSays
    BY <1>3, WindowAssumption DEF Say, TalkOK
  <2>2. /\ longer \in Seq(0..MaxSays)
        /\ Elements(longer) \subseteq 0..MaxSays
    BY <2>1, ElementsOfAppend, ElementsRange DEF TalkOK
  <2>3. stm' = Newest(longer, stmMax)
    BY <1>3 DEF Say
  <2>4. transcript' \subseteq transcript \cup Elements(longer)
    BY <1>3 DEF Say
  <2> HIDE DEF longer
  <2>5. stm' \in Seq(0..MaxSays) /\ Len(stm') <= stmMax
    BY <2>2, <2>3, NewestIsSuffix, ElementsRange, WindowAssumption DEF TalkOK
  <2> QED BY <1>3, <2>1, <2>2, <2>4, <2>5 DEF Say, TalkOK
<1>4. CASE CompactionReads
  BY <1>4 DEF CompactionReads, storeVars, snapVars, talkVars, undoVars, TalkOK
<1>5. CASE CompactionReplaces
  <2>1. stm' \in Seq(0..MaxSays) /\ Len(stm') <= stmMax
    BY <1>5, Compacted DEF CompactionReplaces
  <2>2. transcript' \subseteq transcript \cup Elements(stm)
    BY <1>5 DEF CompactionReplaces, KeepReplaced
  <2>3. Elements(stm) \subseteq 0..MaxSays
    BY ElementsRange DEF TalkOK
  <2> QED BY <1>5, <2>1, <2>2, <2>3 DEF CompactionReplaces, TalkOK
<1>6. CASE CompactionFails
  BY <1>6 DEF CompactionFails, storeVars, snapVars, talkVars, undoVars, TalkOK
<1>7. CASE StartNewSession
  BY <1>7, WindowAssumption DEF StartNewSession, storeVars, snapVars, talkVars, undoVars, TalkOK
<1>8. ASSUME NEW e \in Elements(entries), Compare(e) PROVE TalkOK'
  BY <1>8 DEF Compare, storeVars, snapVars, talkVars, undoVars, TalkOK
<1>9. ASSUME NEW t \in Takers, ReadNext(t) PROVE TalkOK'
  <2>1. UNCHANGED talkVars
    BY <1>9, Reading DEF SnapOK
  <2> QED BY <2>1 DEF talkVars, TalkOK
<1>10. ASSUME NEW f \in Files, RestoreFile(f) PROVE TalkOK'
  BY <1>10 DEF RestoreFile, storeVars, snapVars, talkVars, undoVars, TalkOK
<1>11. ASSUME NEW f \in Files, RestoreFails(f) PROVE TalkOK'
  BY <1>11 DEF RestoreFails, Leave, storeVars, snapVars, talkVars, undoVars, TalkOK
<1>12. CASE RestoreEnds
  BY <1>12 DEF RestoreEnds, storeVars, snapVars, talkVars, undoVars, TalkOK
<1>13. CASE Truncate
  <2>1. Rewound \in Seq(0..MaxSays) /\ Len(Rewound) <= stmMax
    BY RewoundIsPrefix, WindowAssumption DEF TalkOK
  <2> QED BY <1>13, <2>1 DEF Truncate, TalkOK
<1>14. ASSUME NEW e \in Elements(entries), NEW f \in Files, RollbackFile(e, f) PROVE TalkOK'
  BY <1>14 DEF RollbackFile, storeVars, snapVars, talkVars, undoVars, TalkOK
<1>15. CASE Restart
  <2>1. /\ stm' = <<>> /\ transcript' = {} /\ compacting' = FALSE /\ session' = {}
        /\ clock' = clock /\ stmMax' = StmMax
    BY <1>15 DEF Restart
  <2>2. stm' \in Seq(0..MaxSays) /\ Len(stm') <= stmMax' /\ stmMax' \in 0..StmMax
    BY <2>1, EmptySeq, WindowAssumption
  <2> QED BY <2>1, <2>2 DEF TalkOK
<1>16. CASE UNCHANGED vars
  BY <1>16 DEF vars, storeVars, snapVars, talkVars, undoVars, TalkOK
<1>17. ASSUME NEW t \in Takers, NEW saved \in BOOLEAN, Record(t, saved) PROVE TalkOK'
  <2>1. UNCHANGED talkVars
    BY <1>17, Recorded
  <2> QED BY <2>1 DEF talkVars, TalkOK
<1>18. CASE CompareNext
  BY <1>18 DEF CompareNext, Leave, storeVars, snapVars, talkVars, undoVars, TalkOK
<1>19. CASE Compared
  BY <1>19 DEF Compared, Leave, storeVars, snapVars, talkVars, undoVars, TalkOK
<1>20. ASSUME NEW n \in 0..StmMax, STMSetMax(n) PROVE TalkOK'
  <2>1. /\ stm' = Newest(stm, n) /\ stmMax' = n /\ session' \subseteq session
        /\ UNCHANGED <<transcript, clock, compacting>>
    BY <1>20 DEF STMSetMax
  <2>2. stm' \in Seq(0..MaxSays) /\ Len(stm') <= n
    BY <2>1, NewestIsSuffix, WindowAssumption DEF TalkOK
  <2> QED BY <2>1, <2>2 DEF TalkOK
<1> QED
  BY <1>1, <1>2, <1>3, <1>4, <1>5, <1>6, <1>7, <1>8, <1>9,
     <1>10, <1>11, <1>12, <1>13, <1>14, <1>15, <1>16,
     <1>17, <1>18, <1>19, <1>20
  DEF Next, Rollback

LEMMA StepKeepsStore ==
  ASSUME StoreOK, TalkOK, RollbackOK, SnapOK, Numbered, [Next]_vars
  PROVE  StoreOK'
<1>1. ASSUME NEW b \in Batches, List(b) PROVE StoreOK'
  BY <1>1 DEF List, Leave, storeVars, snapVars, talkVars, undoVars, StoreOK
<1>2. ASSUME NEW f \in Files, NEW s \in States, Edit(f, s) PROVE StoreOK'
  BY <1>2 DEF Edit, storeVars, snapVars, talkVars, undoVars, StoreOK
<1>3. CASE Say
  BY <1>3 DEF Say, storeVars, snapVars, talkVars, undoVars, StoreOK
<1>4. CASE CompactionReads
  BY <1>4 DEF CompactionReads, storeVars, snapVars, talkVars, undoVars, StoreOK
<1>5. CASE CompactionReplaces
  BY <1>5 DEF CompactionReplaces, storeVars, snapVars, talkVars, undoVars, StoreOK
<1>6. CASE CompactionFails
  BY <1>6 DEF CompactionFails, storeVars, snapVars, talkVars, undoVars, StoreOK
<1>7. CASE StartNewSession
  BY <1>7 DEF StartNewSession, storeVars, snapVars, talkVars, undoVars, StoreOK
<1>8. ASSUME NEW e \in Elements(entries), Compare(e) PROVE StoreOK'
  BY <1>8 DEF Compare, storeVars, snapVars, talkVars, undoVars, StoreOK
<1>9. ASSUME NEW t \in Takers, ReadNext(t) PROVE StoreOK'
  <2>1. /\ UNCHANGED <<entries, log>>
        /\ torn' \subseteq stored' /\ stored' \subseteq Contents \cup {"junk"}
    BY <1>9, Reading DEF SnapOK
  <2> QED BY <2>1 DEF StoreOK
<1>10. ASSUME NEW f \in Files, RestoreFile(f) PROVE StoreOK'
  BY <1>10 DEF RestoreFile, storeVars, snapVars, talkVars, undoVars, StoreOK
<1>11. ASSUME NEW f \in Files, RestoreFails(f) PROVE StoreOK'
  BY <1>11 DEF RestoreFails, Leave, storeVars, snapVars, talkVars, undoVars, StoreOK
<1>12. CASE RestoreEnds
  BY <1>12 DEF RestoreEnds, storeVars, snapVars, talkVars, undoVars, StoreOK
<1>13. CASE Truncate
  BY <1>13 DEF Truncate, Leave, storeVars, snapVars, talkVars, undoVars, StoreOK
<1>14. ASSUME NEW e \in Elements(entries), NEW f \in Files, RollbackFile(e, f) PROVE StoreOK'
  BY <1>14 DEF RollbackFile, storeVars, snapVars, talkVars, undoVars, StoreOK
<1>15. CASE Restart
  BY <1>15 DEF Restart, Leave, storeVars, snapVars, talkVars, undoVars, StoreOK
<1>16. CASE UNCHANGED vars
  BY <1>16 DEF vars, storeVars, snapVars, talkVars, undoVars, StoreOK
<1>17. ASSUME NEW t \in Takers, NEW saved \in BOOLEAN, Record(t, saved) PROVE StoreOK'
  <2>1. /\ NewEntry \in EntrySet /\ NewEntry.id = NextId /\ NextId \in 1..MaxIds
        /\ Appended(NewEntry)
        /\ log' = IF saved THEN entries' ELSE log
        /\ UNCHANGED <<stored, torn>>
    BY <1>17, Recorded
  <2>2. entries' \in Seq(EntrySet) /\ Len(entries') \in 1..MaxCheckpoints
    BY <2>1, Recording
  <2>3. log' = entries' \/ log' = log
    BY <2>1
  <2> QED BY <2>1, <2>2, <2>3 DEF StoreOK
<1>18. CASE CompareNext
  BY <1>18 DEF CompareNext, Leave, storeVars, snapVars, talkVars, undoVars, StoreOK
<1>19. CASE Compared
  BY <1>19 DEF Compared, Leave, storeVars, snapVars, talkVars, undoVars, StoreOK
<1>20. ASSUME NEW n \in 0..StmMax, STMSetMax(n) PROVE StoreOK'
  BY <1>20 DEF STMSetMax, Leave, storeVars, snapVars, talkVars, undoVars, StoreOK
<1> QED
  BY <1>1, <1>2, <1>3, <1>4, <1>5, <1>6, <1>7, <1>8, <1>9,
     <1>10, <1>11, <1>12, <1>13, <1>14, <1>15, <1>16,
     <1>17, <1>18, <1>19, <1>20
  DEF Next, Rollback

\* The next checkpoint is numbered above all there are.
LEMMA NextIsNew ==
  ASSUME StoreOK, Numbered
  PROVE  /\ NextId \in Nat /\ NextId >= 1
         /\ \A e \in Elements(entries) : e.id \in Nat /\ e.id >= 1 /\ e.id < NextId
<1>1. \A i \in 1..Len(entries) : entries[i] \in EntrySet /\ entries[i].id \in Nat
  <2>1. \A i \in 1..Len(entries) : entries[i] \in EntrySet
    BY ElementOfSeq DEF StoreOK
  <2> QED BY <2>1, WindowAssumption DEF EntrySet
<1>2. Elements(entries) = {entries[i] : i \in 1..Len(entries)} /\ Len(entries) \in Nat
  BY ElementsRange DEF StoreOK
<1>3. CASE entries = <<>>
  BY <1>2, <1>3 DEF NextId
<1>4. CASE entries # <<>>
  <2>1. Len(entries) \in 1..Len(entries) /\ NextId = entries[Len(entries)].id + 1
    BY <1>4 DEF NextId, Last, StoreOK
  <2>2. \A i \in 1..Len(entries) :
          entries[i].id >= 1 /\ entries[Len(entries)].id = entries[i].id + (Len(entries) - i)
    BY <2>1 DEF Numbered, InOrder
  <2> QED BY <1>1, <1>2, <2>1, <2>2, SMTT(60)
<1> QED BY <1>3, <1>4

LEMMA NextAfter ==
  ASSUME NEW e \in EntrySet, Len(entries') >= 1, Last(entries') = e
  PROVE  NextId' = e.id + 1
<1>1. entries' # <<>>
  OBVIOUS
<1> QED BY <1>1 DEF NextId

LEMMA StepKeepsNumbers ==
  ASSUME StoreOK, TalkOK, RollbackOK, SnapOK, Numbered, [Next]_vars
  PROVE  Numbered'
<1>1. ASSUME NEW b \in Batches, List(b) PROVE Numbered'
  BY <1>1 DEF List, Leave, storeVars, snapVars, talkVars, undoVars, Numbered, NextId
<1>2. ASSUME NEW f \in Files, NEW s \in States, Edit(f, s) PROVE Numbered'
  BY <1>2 DEF Edit, storeVars, snapVars, talkVars, undoVars, Numbered, NextId
<1>3. CASE Say
  BY <1>3 DEF Say, storeVars, snapVars, talkVars, undoVars, Numbered, NextId
<1>4. CASE CompactionReads
  BY <1>4 DEF CompactionReads, storeVars, snapVars, talkVars, undoVars, Numbered, NextId
<1>5. CASE CompactionReplaces
  BY <1>5 DEF CompactionReplaces, storeVars, snapVars, talkVars, undoVars, Numbered, NextId
<1>6. CASE CompactionFails
  BY <1>6 DEF CompactionFails, storeVars, snapVars, talkVars, undoVars, Numbered, NextId
<1>7. CASE StartNewSession
  BY <1>7 DEF StartNewSession, storeVars, snapVars, talkVars, undoVars, Numbered, NextId
<1>8. ASSUME NEW e \in Elements(entries), Compare(e) PROVE Numbered'
  <2>1. target' = e /\ UNCHANGED <<entries, log>>
    BY <1>8 DEF Compare, storeVars, snapVars, talkVars, undoVars
  <2> QED BY <2>1, NextIsNew DEF Numbered, NextId
<1>9. ASSUME NEW t \in Takers, ReadNext(t) PROVE Numbered'
  <2>1. UNCHANGED <<entries, log>> /\ target' \in {target, NoEntry}
    BY <1>9, Reading DEF SnapOK, undoVars, Leave
  <2> QED BY <2>1, NextIsNew, NoEntryTyped DEF Numbered, NextId
<1>10. ASSUME NEW f \in Files, RestoreFile(f) PROVE Numbered'
  BY <1>10 DEF RestoreFile, storeVars, snapVars, talkVars, undoVars, Numbered, NextId
<1>11. ASSUME NEW f \in Files, RestoreFails(f) PROVE Numbered'
  <2>1. target' = NoEntry /\ UNCHANGED <<entries, log>>
    BY <1>11 DEF RestoreFails, Leave, storeVars, snapVars, talkVars, undoVars
  <2> QED BY <2>1, NoEntryTyped, NextIsNew DEF Numbered, NextId
<1>12. CASE RestoreEnds
  BY <1>12 DEF RestoreEnds, storeVars, snapVars, talkVars, undoVars, Numbered, NextId
<1>13. CASE Truncate
  <2>1. target' = NoEntry /\ UNCHANGED <<entries, log>>
    BY <1>13 DEF Truncate, Leave, storeVars, snapVars, talkVars, undoVars
  <2> QED BY <2>1, NoEntryTyped, NextIsNew DEF Numbered, NextId
<1>14. ASSUME NEW e \in Elements(entries), NEW f \in Files, RollbackFile(e, f) PROVE Numbered'
  BY <1>14 DEF RollbackFile, storeVars, snapVars, talkVars, undoVars, Numbered, NextId
<1>15. CASE Restart
  <2>1. target' = NoEntry /\ entries' = log /\ log' = log
    BY <1>15 DEF Restart, Leave, storeVars, snapVars, talkVars, undoVars
  <2>2. CASE log = <<>>
    BY <2>1, <2>2, NoEntryTyped DEF Numbered, NextId
  <2>3. CASE log # <<>>
    <3>1. Len(log) \in 1..Len(log) /\ Last(log) = log[Len(log)] /\ log[Len(log)] \in EntrySet
      BY <2>3, ElementOfSeq DEF StoreOK, Last
    <3>2. Last(log).id >= 1 /\ Last(log).id \in Nat
      BY <3>1, WindowAssumption DEF Numbered, InOrder, EntrySet
    <3>3. NextId' = Last(log).id + 1
      BY <2>1, <2>3 DEF NextId
    <3> QED BY <2>1, <3>2, <3>3, NoEntryTyped DEF Numbered
  <2> QED BY <2>2, <2>3
<1>16. CASE UNCHANGED vars
  BY <1>16 DEF vars, storeVars, snapVars, talkVars, undoVars, Numbered, NextId
<1>17. ASSUME NEW t \in Takers, NEW saved \in BOOLEAN, Record(t, saved) PROVE Numbered'
  <2>1. /\ NewEntry \in EntrySet /\ NewEntry.id = NextId /\ NextId \in 1..MaxIds
        /\ Appended(NewEntry)
        /\ log' = IF saved THEN entries' ELSE log
    BY <1>17, Recorded
  <2>2. target' \in {target, NoEntry} /\ target.id \in Nat
    <3>1. target' \in {target, NoEntry}
      BY <1>17, Recorded DEF undoVars, Leave
    <3>2. target.id \in Nat
      BY WindowAssumption DEF RollbackOK, EntrySet
    <3> QED BY <3>1, <3>2
  <2>3. InOrder(entries') /\ NextId' = NextId + 1
    BY <2>1, Recording, NextAfter
  <2>4. InOrder(log)'
    BY <2>1, <2>3 DEF Numbered, InOrder
  <2>5. target'.id < NextId'
    BY <2>1, <2>2, <2>3, NoEntryTyped DEF Numbered
  <2> QED BY <2>3, <2>4, <2>5 DEF Numbered, InOrder
<1>18. CASE CompareNext
  BY <1>18 DEF CompareNext, Leave, storeVars, snapVars, talkVars, undoVars, Numbered, NextId
<1>19. CASE Compared
  BY <1>19 DEF Compared, Leave, storeVars, snapVars, talkVars, undoVars, Numbered, NextId
<1>20. ASSUME NEW n \in 0..StmMax, STMSetMax(n) PROVE Numbered'
  BY <1>20 DEF STMSetMax, Leave, storeVars, snapVars, talkVars, undoVars, Numbered, NextId
<1> QED
  BY <1>1, <1>2, <1>3, <1>4, <1>5, <1>6, <1>7, <1>8, <1>9,
     <1>10, <1>11, <1>12, <1>13, <1>14, <1>15, <1>16,
     <1>17, <1>18, <1>19, <1>20
  DEF Next, Rollback

LEMMA StepKeepsRestored ==
  ASSUME StoreOK, TalkOK, RollbackOK, SnapOK, HalfRestored, [Next]_vars
  PROVE  HalfRestored'
<1>1. ASSUME NEW b \in Batches, List(b) PROVE HalfRestored'
  <2>1. b # "rollback"
    BY BatchesAssumption
  <2>2. taking'["rollback"] = taking["rollback"] /\ left'["rollback"] = left["rollback"]
    BY <1>1, <2>1 DEF List, SnapOK, Takers
  <2>3. UNCHANGED <<tree, torn, seen, rb, target, todo, undo, touched>>
    BY <1>1 DEF List, storeVars, undoVars
  <2> QED BY <2>2, <2>3 DEF HalfRestored
<1>2. ASSUME NEW f \in Files, NEW s \in States, Edit(f, s) PROVE HalfRestored'
  <2>1. UNCHANGED <<rb, target, todo, undo, torn, taking, left, seen>>
    BY <1>2 DEF Edit, storeVars, snapVars, talkVars, undoVars
  <2>2. \A g \in Files : g # f => tree'[g] = tree[g]
    BY <1>2 DEF Edit, storeVars, snapVars, talkVars, undoVars, RollbackOK
  <2>3. rb # "idle" => touched' = touched \cup {f}
    BY <1>2 DEF Edit, storeVars, snapVars, talkVars, undoVars
  <2> QED BY <2>1, <2>2, <2>3 DEF HalfRestored
<1>3. CASE Say
  BY <1>3 DEF Say, storeVars, snapVars, talkVars, undoVars, HalfRestored
<1>4. CASE CompactionReads
  BY <1>4 DEF CompactionReads, storeVars, snapVars, talkVars, undoVars, HalfRestored
<1>5. CASE CompactionReplaces
  BY <1>5 DEF CompactionReplaces, storeVars, snapVars, talkVars, undoVars, HalfRestored
<1>6. CASE CompactionFails
  BY <1>6 DEF CompactionFails, storeVars, snapVars, talkVars, undoVars, HalfRestored
<1>7. CASE StartNewSession
  BY <1>7 DEF StartNewSession, storeVars, snapVars, talkVars, undoVars, HalfRestored
<1>8. ASSUME NEW e \in Elements(entries), Compare(e) PROVE HalfRestored'
  <2>1. /\ rb' = "compare" /\ target' = e /\ todo' = Deleted(e) /\ touched' = {}
        /\ left' = [left EXCEPT !["rollback"] = Walked]
        /\ UNCHANGED <<tree, torn, taking>>
    BY <1>8 DEF Compare, storeVars
  <2>2. left'["rollback"] = Walked
    BY <2>1 DEF SnapOK, Takers
  <2>3. \A f \in Files : e.files[f] = "big" => f \notin Deleted(e)
    BY DEF Deleted
  <2>4. \A f \in Files \ (Deleted(e) \cup Walked) : e.files[f] \in {"unrecorded", "big"}
    BY DEF Deleted
  <2>5. \A f \in Walked : tree[f] # "gone"
    BY DEF Walked, Present
  <2>6. taking'["rollback"] # "reading"
    BY <1>8, <2>1 DEF Compare, SnapOK
  <2> QED BY <2>1, <2>2, <2>3, <2>4, <2>5, <2>6 DEF HalfRestored
<1>9. ASSUME NEW t \in Takers, ReadNext(t) PROVE HalfRestored'
  <2>1. /\ UNCHANGED tree /\ torn \subseteq torn'
        /\ UNCHANGED undoVars \/ (Leave /\ UNCHANGED undo)
    BY <1>9, Reading DEF SnapOK
  <2>2. CASE Leave
    BY <2>2 DEF Leave, HalfRestored
  <2>3. CASE UNCHANGED undoVars /\ rb # "idle"
    <3>1. UNCHANGED <<rb, target, todo, undo, touched>> /\ tree' = tree
      BY <2>1, <2>3 DEF undoVars
    <3>2. PICK f \in left[t] :
            /\ taking[t] # "no" /\ Unlocked(t)
            /\ \/ /\ seen' = [seen EXCEPT ![f] = IF tree[f] = "gone" THEN "unrecorded" ELSE tree[f]]
                  /\ taking' = [taking EXCEPT ![t] = "reading"]
                  /\ left' = [left EXCEPT ![t] = @ \ {f}]
               \/ Taken(t, FALSE)
      BY <1>9, Zenon DEF ReadNext
    <3>3. f \in Files
      BY <3>2 DEF SnapOK
    <3>4. t = "rollback" => rb = "snapshot"
      BY <3>2 DEF SnapOK
    <3>5. \A u \in Takers \ {t} : taking[u] # "reading"
      BY <3>2 DEF Unlocked
    <3>6. "rollback" \in Takers
      BY DEF Takers
    <3>7. CASE t = "rollback"
      <4>1. ASSUME taking'["rollback"] = "reading"
            PROVE  \A g \in Files : g \notin touched /\ seen'[g] # "unrecorded" => seen'[g] = tree[g]
        <5>1. ~Taken(t, FALSE)
          <6>1. Taken(t, FALSE) => taking' = [taking EXCEPT ![t] = "no"]
            BY DEF Taken
          <6> QED BY <4>1, <6>1, <3>6, <3>7 DEF SnapOK
        <5>2. seen' = [seen EXCEPT ![f] = IF tree[f] = "gone" THEN "unrecorded" ELSE tree[f]]
          BY <3>2, <5>1
        <5>3. taking["rollback"] # "reading" => seen = Unseen
          BY <3>5, <3>7 DEF SnapOK
        <5>4. \A g \in Files : g \notin touched /\ seen[g] # "unrecorded" => seen[g] = tree[g]
          BY <5>3, <2>3 DEF HalfRestored, Unseen
        <5> QED BY <3>3, <5>2, <5>4 DEF SnapOK
      <4> QED BY <2>1, <3>1, <3>4, <3>7, <4>1 DEF HalfRestored
    <3>8. CASE t # "rollback"
      <4>1. taking["rollback"] # "reading" /\ taking'["rollback"] = taking["rollback"]
            /\ left'["rollback"] = left["rollback"]
        BY <3>2, <3>5, <3>6, <3>8 DEF Taken, SnapOK
      <4> QED BY <2>1, <3>1, <4>1 DEF HalfRestored
    <3> QED BY <3>7, <3>8
  <2>4. CASE UNCHANGED undoVars /\ rb = "idle"
    BY <2>4 DEF undoVars, HalfRestored
  <2> QED BY <2>1, <2>2, <2>3, <2>4
<1>10. ASSUME NEW f \in Files, RestoreFile(f) PROVE HalfRestored'
  <2>1. /\ rb = "restore" /\ rb' = "restore" /\ taking'["rollback"] = "no"
        /\ UNCHANGED <<target, undo, touched, torn>>
    BY <1>10 DEF RestoreFile, storeVars, snapVars, talkVars, undoVars, SnapOK
  <2>2. f \in todo /\ todo' = todo \ {f}
    BY <1>10 DEF RestoreFile, storeVars, snapVars, talkVars, undoVars
  <2>3. tree' = [tree EXCEPT ![f] = Restored(target, f)]
    BY <1>10 DEF RestoreFile, storeVars, snapVars, talkVars, undoVars
  <2>4. \A g \in Files : g # f => tree'[g] = tree[g]
    BY <2>3 DEF RollbackOK
  <2>5. target.files[f] \notin torn \cup {"unrecorded"} => tree'[f] = target.files[f]
    BY <2>3 DEF RollbackOK, Restored
  <2> QED BY <2>1, <2>2, <2>4, <2>5 DEF HalfRestored
<1>11. ASSUME NEW f \in Files, RestoreFails(f) PROVE HalfRestored'
  <2>1. rb' = "idle"
    BY <1>11 DEF RestoreFails, Leave, storeVars, snapVars, talkVars, undoVars
  <2> QED BY <2>1 DEF HalfRestored
<1>12. CASE RestoreEnds
  BY <1>12 DEF RestoreEnds, storeVars, snapVars, talkVars, undoVars, HalfRestored
<1>13. CASE Truncate
  <2>1. rb' = "idle"
    BY <1>13 DEF Truncate, Leave, storeVars, snapVars, talkVars, undoVars
  <2> QED BY <2>1 DEF HalfRestored
<1>14. ASSUME NEW e \in Elements(entries), NEW f \in Files, RollbackFile(e, f) PROVE HalfRestored'
  <2>1. UNCHANGED <<rb, target, todo, undo, torn, taking, left, seen>>
    BY <1>14 DEF RollbackFile, storeVars, snapVars, talkVars, undoVars
  <2>2. \A g \in Files : g # f => tree'[g] = tree[g]
    BY <1>14 DEF RollbackFile, storeVars, snapVars, talkVars, undoVars, RollbackOK
  <2>3. rb # "idle" => touched' = touched \cup {f}
    BY <1>14 DEF RollbackFile, storeVars, snapVars, talkVars, undoVars
  <2> QED BY <2>1, <2>2, <2>3 DEF HalfRestored
<1>15. CASE Restart
  <2>1. rb' = "idle"
    BY <1>15 DEF Restart, Leave, storeVars, snapVars, talkVars, undoVars
  <2> QED BY <2>1 DEF HalfRestored
<1>16. CASE UNCHANGED vars
  BY <1>16 DEF vars, storeVars, snapVars, talkVars, undoVars, HalfRestored
<1>17. ASSUME NEW t \in Takers, NEW saved \in BOOLEAN, Record(t, saved) PROVE HalfRestored'
  <2>1. /\ UNCHANGED <<tree, torn>>
        /\ \/ UNCHANGED undoVars
           \/ Leave /\ UNCHANGED undo
           \/ /\ t = "rollback" /\ saved /\ rb' = "restore"
              /\ undo'.id = NextId /\ undo'.files = seen
              /\ UNCHANGED <<target, todo, touched>>
    BY <1>17, Recorded
  <2>2. CASE Leave
    BY <2>2 DEF Leave, HalfRestored
  <2>3. taking' = [taking EXCEPT ![t] = "no"] /\ left' = [left EXCEPT ![t] = {}] /\ seen' = Unseen
    BY <1>17 DEF Record, Taken
  <2>4. taking[t] # "no" /\ Unlocked(t)
    BY <1>17 DEF Record
  <2>5. "rollback" \in Takers
    BY DEF Takers
  <2>6. CASE UNCHANGED undoVars
    <3>1. UNCHANGED <<rb, target, todo, undo, touched>>
      BY <2>6 DEF undoVars
    <3>2. t = "rollback" => rb = "snapshot"
      BY <2>4 DEF SnapOK
    <3>3. rb = "compare" => left'["rollback"] = left["rollback"]
      BY <2>3, <2>5, <3>2 DEF SnapOK
    <3>4. \A f \in Files : seen'[f] = "unrecorded"
      BY <2>3 DEF Unseen
    <3> QED BY <2>1, <3>1, <3>3, <3>4 DEF HalfRestored
  <2>7. CASE /\ t = "rollback" /\ rb' = "restore" /\ undo'.files = seen
             /\ UNCHANGED <<target, todo, touched>>
    <3>1. rb = "snapshot"
      BY <2>4, <2>7 DEF SnapOK
    <3>2. taking["rollback"] # "reading" => seen = Unseen
      BY <2>4, <2>7 DEF SnapOK, Unlocked
    <3>3. \A f \in Files : f \notin touched /\ seen[f] # "unrecorded" => seen[f] = tree[f]
      BY <3>1, <3>2 DEF HalfRestored, Unseen
    <3>4. \A f \in Files : seen'[f] = "unrecorded"
      BY <2>3 DEF Unseen
    <3> QED BY <2>1, <2>7, <3>1, <3>3, <3>4 DEF HalfRestored
  <2> QED BY <2>1, <2>2, <2>6, <2>7
<1>18. CASE CompareNext
  <2>1. PICK f \in left["rollback"] :
          /\ left' = [left EXCEPT !["rollback"] = @ \ {f}]
          /\ todo' = IF Differs(target, f) THEN todo \cup {f} ELSE todo
    BY <1>18 DEF CompareNext
  <2>2. rb = "compare" /\ UNCHANGED <<tree, torn, taking, seen, rb, target, undo, touched>>
    BY <1>18 DEF CompareNext, storeVars
  <2>3. f \in Files /\ left'["rollback"] = left["rollback"] \ {f}
    BY <2>1 DEF SnapOK, Takers
  <2>4. target.files[f] = "big" => ~Differs(target, f)
    BY DEF Differs
  <2>5. ~Differs(target, f) /\ f \notin touched /\ target.files[f] \notin {"unrecorded", "big"}
          => tree[f] = target.files[f]
    BY <2>2, <2>3 DEF Differs, HalfRestored
  <2> QED BY <2>1, <2>2, <2>3, <2>4, <2>5 DEF HalfRestored
<1>19. CASE Compared
  <2>1. /\ rb = "compare" /\ left["rollback"] = {} /\ rb' = "snapshot"
        /\ taking' = [taking EXCEPT !["rollback"] = "listed"]
        /\ UNCHANGED <<tree, torn, target, todo, undo, touched>>
    BY <1>19 DEF Compared, storeVars
  <2>2. taking'["rollback"] = "listed"
    BY <2>1 DEF SnapOK, Takers
  <2> QED BY <2>1, <2>2 DEF HalfRestored
<1>20. ASSUME NEW n \in 0..StmMax, STMSetMax(n) PROVE HalfRestored'
  BY <1>20 DEF STMSetMax, Leave, storeVars, snapVars, talkVars, undoVars, HalfRestored
<1> QED
  BY <1>1, <1>2, <1>3, <1>4, <1>5, <1>6, <1>7, <1>8, <1>9,
     <1>10, <1>11, <1>12, <1>13, <1>14, <1>15, <1>16,
     <1>17, <1>18, <1>19, <1>20
  DEF Next, Rollback

LEMMA StepKeepsSaid ==
  ASSUME StoreOK, TalkOK, RollbackOK, SnapOK, NothingSaidIsLost, [Next]_vars
  PROVE  NothingSaidIsLost'
<1>1. ASSUME NEW b \in Batches, List(b) PROVE NothingSaidIsLost'
  BY <1>1 DEF List, Leave, storeVars, snapVars, talkVars, undoVars, NothingSaidIsLost, Elements
<1>2. ASSUME NEW f \in Files, NEW s \in States, Edit(f, s) PROVE NothingSaidIsLost'
  BY <1>2 DEF Edit, storeVars, snapVars, talkVars, undoVars, NothingSaidIsLost, Elements
<1>3. CASE Say
  <2> DEFINE longer == Append(stm, clock + 1)
  <2>1. clock + 1 \in 0..MaxSays
    BY <1>3, WindowAssumption DEF Say, TalkOK
  <2>2. Elements(longer) = Elements(stm) \cup {clock + 1}
    BY <2>1, ElementsOfAppend DEF TalkOK
  <2>3. /\ transcript' = transcript \cup (Elements(longer) \ Elements(stm'))
        /\ session' = session \cup {clock + 1}
    BY <1>3 DEF Say
  <2> HIDE DEF longer
  <2> QED BY <2>2, <2>3 DEF NothingSaidIsLost, Elements
<1>4. CASE CompactionReads
  BY <1>4 DEF CompactionReads, storeVars, snapVars, talkVars, undoVars, NothingSaidIsLost, Elements
<1>5. CASE CompactionReplaces
  <2> DEFINE tail == Newest(stm, KeepRecent)
  <2>1. Elements(tail) \subseteq Elements(stm')
    BY <1>5, Compacted DEF CompactionReplaces
  <2>2. /\ session' = session
        /\ transcript' = transcript \cup (Elements(stm) \ Elements(tail))
    BY <1>5 DEF CompactionReplaces, KeepReplaced, talkVars
  <2> HIDE DEF tail
  <2> QED BY <2>1, <2>2 DEF NothingSaidIsLost, Elements
<1>6. CASE CompactionFails
  BY <1>6 DEF CompactionFails, storeVars, snapVars, talkVars, undoVars, NothingSaidIsLost, Elements
<1>7. CASE StartNewSession
  BY <1>7 DEF StartNewSession, storeVars, snapVars, talkVars, undoVars, NothingSaidIsLost, Elements
<1>8. ASSUME NEW e \in Elements(entries), Compare(e) PROVE NothingSaidIsLost'
  BY <1>8 DEF Compare, storeVars, snapVars, talkVars, undoVars, NothingSaidIsLost, Elements
<1>9. ASSUME NEW t \in Takers, ReadNext(t) PROVE NothingSaidIsLost'
  <2>1. UNCHANGED talkVars
    BY <1>9, Reading DEF SnapOK
  <2> QED BY <2>1 DEF talkVars, NothingSaidIsLost, Elements
<1>10. ASSUME NEW f \in Files, RestoreFile(f) PROVE NothingSaidIsLost'
  BY <1>10 DEF RestoreFile, storeVars, snapVars, talkVars, undoVars, NothingSaidIsLost, Elements
<1>11. ASSUME NEW f \in Files, RestoreFails(f) PROVE NothingSaidIsLost'
  BY <1>11 DEF RestoreFails, Leave, storeVars, snapVars, talkVars, undoVars, NothingSaidIsLost, Elements
<1>12. CASE RestoreEnds
  BY <1>12 DEF RestoreEnds, storeVars, snapVars, talkVars, undoVars, NothingSaidIsLost, Elements
<1>13. CASE Truncate
  <2>1. /\ stm' = Rewound /\ transcript' = transcript
        /\ session' = session \ (Elements(stm) \ Elements(Rewound))
    BY <1>13 DEF Truncate
  <2> QED BY <2>1 DEF NothingSaidIsLost, Elements
<1>14. ASSUME NEW e \in Elements(entries), NEW f \in Files, RollbackFile(e, f) PROVE NothingSaidIsLost'
  BY <1>14 DEF RollbackFile, storeVars, snapVars, talkVars, undoVars, NothingSaidIsLost, Elements
<1>15. CASE Restart
  BY <1>15 DEF Restart, Leave, storeVars, snapVars, talkVars, undoVars, NothingSaidIsLost, Elements
<1>16. CASE UNCHANGED vars
  BY <1>16 DEF vars, storeVars, snapVars, talkVars, undoVars, NothingSaidIsLost, Elements
<1>17. ASSUME NEW t \in Takers, NEW saved \in BOOLEAN, Record(t, saved) PROVE NothingSaidIsLost'
  <2>1. UNCHANGED talkVars
    BY <1>17, Recorded
  <2> QED BY <2>1 DEF talkVars, NothingSaidIsLost, Elements
<1>18. CASE CompareNext
  BY <1>18 DEF CompareNext, Leave, storeVars, snapVars, talkVars, undoVars, NothingSaidIsLost, Elements
<1>19. CASE Compared
  BY <1>19 DEF Compared, Leave, storeVars, snapVars, talkVars, undoVars, NothingSaidIsLost, Elements
<1>20. ASSUME NEW n \in 0..StmMax, STMSetMax(n) PROVE NothingSaidIsLost'
  <2>1. session' = session \ (Elements(stm) \ Elements(stm')) /\ UNCHANGED transcript
    BY <1>20 DEF STMSetMax
  <2>2. NothingSaidIsLost => session' \subseteq Elements(stm') \cup transcript
    BY <2>1 DEF NothingSaidIsLost
  <2> QED BY <2>1, <2>2 DEF NothingSaidIsLost, Elements
<1> QED
  BY <1>1, <1>2, <1>3, <1>4, <1>5, <1>6, <1>7, <1>8, <1>9,
     <1>10, <1>11, <1>12, <1>13, <1>14, <1>15, <1>16,
     <1>17, <1>18, <1>19, <1>20
  DEF Next, Rollback

\* No two checkpoints have the same number.
LEMMA SameId ==
  ASSUME StoreOK, Numbered, NEW c \in Elements(entries), NEW e \in Elements(entries), c.id = e.id
  PROVE  c = e
<1>1. Elements(entries) = {entries[i] : i \in 1..Len(entries)}
  BY ElementsRange DEF StoreOK
<1>2. PICK i \in 1..Len(entries) : c = entries[i]
  BY <1>1
<1>3. PICK j \in 1..Len(entries) : e = entries[j]
  BY <1>1
<1>4. c.id \in Nat
  BY NextIsNew
<1>5. entries[j].id = entries[i].id + (j - i)
  BY DEF Numbered, InOrder
<1>6. i = j
  BY <1>2, <1>3, <1>4, <1>5
<1> QED BY <1>2, <1>3, <1>6

LEMMA StepKeepsTurns ==
  ASSUME StoreOK, TalkOK, RollbackOK, SnapOK, Numbered, TurnsCount, [Next]_vars
  PROVE  TurnsCount'
<1>1. ASSUME NEW b \in Batches, List(b) PROVE TurnsCount'
  BY <1>1 DEF List, Leave, storeVars, snapVars, talkVars, undoVars, TurnsCount, Elements
<1>2. ASSUME NEW f \in Files, NEW s \in States, Edit(f, s) PROVE TurnsCount'
  BY <1>2 DEF Edit, storeVars, snapVars, talkVars, undoVars, TurnsCount, Elements
<1>3. CASE Say
  <2> DEFINE longer == Append(stm, clock + 1)
  <2>1. clock + 1 \in 0..MaxSays /\ clock \in Nat
    BY <1>3, WindowAssumption DEF Say, TalkOK
  <2>2. /\ longer \in Seq(0..MaxSays) /\ Len(longer) = Len(stm) + 1
        /\ Elements(longer) = Elements(stm) \cup {clock + 1}
    BY <2>1, ElementsOfAppend DEF TalkOK
  <2>3. \A i \in 1..Len(stm) : longer[i] = stm[i]
    BY <2>1 DEF TalkOK
  <2>4. /\ clock' = clock + 1 /\ stm' = Newest(longer, stmMax)
        /\ aligned' = IF Len(longer) > stmMax THEN {} ELSE aligned
        /\ UNCHANGED <<entries, target>>
    BY <1>3 DEF Say, storeVars, snapVars, talkVars, undoVars
  <2> HIDE DEF longer
  <2>5. Elements(stm') \subseteq Elements(stm) \cup {clock + 1}
    BY <2>2, <2>4, NewestElements, WindowAssumption DEF TalkOK
  <2>6. \A m \in Elements(stm) : m \in Nat /\ m <= clock
    BY ElementsRange, WindowAssumption DEF TalkOK, TurnsCount
  <2>7. \A m \in Elements(stm') : m <= clock'
    BY <2>1, <2>4, <2>5, <2>6
  <2>8. CASE Len(longer) > stmMax
    BY <2>4, <2>7, <2>8 DEF TurnsCount, Elements
  <2>9. CASE ~(Len(longer) > stmMax)
    <3>1. stm' = longer /\ aligned' = aligned
      BY <2>4, <2>9 DEF Newest
    <3>2. ASSUME NEW e \in Elements(entries) \cup {target}, e.id \in aligned
          PROVE  e.turn <= Len(longer) /\ \A i \in 1..e.turn : longer[i] <= e.at
      <4>1. e.turn <= Len(stm) /\ \A i \in 1..e.turn : stm[i] <= e.at
        BY <3>2 DEF TurnsCount
      <4>2. e.turn \in Nat /\ Len(stm) \in Nat
        <5>1. e \in EntrySet
          BY EntryTyped DEF RollbackOK
        <5> QED BY <5>1, WindowAssumption, ElementsRange DEF EntrySet, TalkOK
      <4> QED BY <4>1, <4>2, <2>2, <2>3
    <3> QED BY <2>4, <2>7, <3>1, <3>2 DEF TurnsCount, Elements
  <2> QED BY <2>8, <2>9
<1>4. CASE CompactionReads
  BY <1>4 DEF CompactionReads, storeVars, snapVars, talkVars, undoVars, TurnsCount, Elements
<1>5. CASE CompactionReplaces
  <2>1. Elements(stm') \subseteq {0} \cup Elements(stm)
    BY <1>5, Compacted DEF CompactionReplaces
  <2>2. aligned' = {} /\ clock' = clock /\ 0 <= clock
    BY <1>5, WindowAssumption DEF CompactionReplaces, TalkOK
  <2> QED BY <2>1, <2>2 DEF TurnsCount, Elements
<1>6. CASE CompactionFails
  BY <1>6 DEF CompactionFails, storeVars, snapVars, talkVars, undoVars, TurnsCount, Elements
<1>7. CASE StartNewSession
  <2>1. stm' = <<>> /\ aligned' = {}
    BY <1>7 DEF StartNewSession, storeVars, snapVars, talkVars, undoVars
  <2>2. Elements(<<>>) = {}
    BY DEF Elements
  <2> QED BY <2>1, <2>2 DEF TurnsCount, Elements
<1>8. ASSUME NEW e \in Elements(entries), Compare(e) PROVE TurnsCount'
  BY <1>8 DEF Compare, storeVars, snapVars, talkVars, undoVars, TurnsCount, Elements
<1>9. ASSUME NEW t \in Takers, ReadNext(t) PROVE TurnsCount'
  <2>1. UNCHANGED <<entries, aligned>> /\ UNCHANGED talkVars /\ target' \in {target, NoEntry}
    BY <1>9, Reading DEF SnapOK, undoVars, Leave
  <2>2. NoEntry.id \notin aligned
    BY NoEntryTyped DEF RollbackOK
  <2> QED BY <2>1, <2>2 DEF talkVars, TurnsCount, Elements
<1>10. ASSUME NEW f \in Files, RestoreFile(f) PROVE TurnsCount'
  BY <1>10 DEF RestoreFile, storeVars, snapVars, talkVars, undoVars, TurnsCount, Elements
<1>11. ASSUME NEW f \in Files, RestoreFails(f) PROVE TurnsCount'
  <2>1. target' = NoEntry /\ UNCHANGED <<stm, clock, aligned, entries>>
    BY <1>11 DEF RestoreFails, Leave, storeVars, snapVars, talkVars, undoVars
  <2>2. NoEntry.id \notin aligned
    BY NoEntryTyped DEF RollbackOK
  <2> QED BY <2>1, <2>2 DEF TurnsCount, Elements
<1>12. CASE RestoreEnds
  BY <1>12 DEF RestoreEnds, storeVars, snapVars, talkVars, undoVars, TurnsCount, Elements
<1>13. CASE Truncate
  <2>1. /\ target' = NoEntry /\ stm' = Rewound /\ UNCHANGED <<clock, entries>>
        /\ aligned' = {i \in aligned : \E e \in Elements(entries) :
                                         e.id = i /\ e.turn <= Len(Rewound)}
    BY <1>13 DEF Truncate, Leave, storeVars, snapVars, talkVars, undoVars
  <2>2. NoEntry.id \notin aligned'
    BY <2>1, NoEntryTyped DEF RollbackOK
  <2>3. /\ Len(Rewound) \in Nat /\ Len(Rewound) <= Len(stm) /\ Len(stm) \in Nat
        /\ \A i \in 1..Len(Rewound) : Rewound[i] = stm[i]
    BY RewoundIsPrefix
  <2>4. Elements(Rewound) \subseteq Elements(stm)
    <3>1. Elements(Rewound) = {Rewound[i] : i \in 1..Len(Rewound)}
      BY RewoundIsPrefix, ElementsRange
    <3>2. Elements(stm) = {stm[i] : i \in 1..Len(stm)}
      BY ElementsRange DEF TalkOK
    <3>3. \A i \in 1..Len(Rewound) : i \in 1..Len(stm)
      BY <2>3
    <3> QED BY <3>1, <3>2, <3>3, <2>3
  <2>5. ASSUME NEW e \in Elements(entries), e.id \in aligned'
        PROVE  e.turn <= Len(Rewound) /\ \A i \in 1..e.turn : Rewound[i] <= e.at
    <3>1. PICK c \in Elements(entries) : c.id = e.id /\ c.turn <= Len(Rewound)
      BY <2>1, <2>5
    <3>2. c = e
      BY <3>1, SameId
    <3>3. e.turn \in Nat
      BY EntryTyped, WindowAssumption DEF EntrySet
    <3>4. \A i \in 1..e.turn : stm[i] <= e.at
      BY <2>1, <2>5 DEF TurnsCount
    <3> QED BY <2>3, <3>1, <3>2, <3>3, <3>4
  <2>6. \A m \in Elements(Rewound) : m <= clock
    BY <2>4 DEF TurnsCount
  <2> QED BY <2>1, <2>2, <2>5, <2>6 DEF TurnsCount, Elements
<1>14. ASSUME NEW e \in Elements(entries), NEW f \in Files, RollbackFile(e, f) PROVE TurnsCount'
  BY <1>14 DEF RollbackFile, storeVars, snapVars, talkVars, undoVars, TurnsCount, Elements
<1>15. CASE Restart
  <2>1. stm' = <<>> /\ aligned' = {}
    BY <1>15 DEF Restart, Leave, storeVars, snapVars, talkVars, undoVars
  <2>2. Elements(<<>>) = {}
    BY DEF Elements
  <2> QED BY <2>1, <2>2 DEF TurnsCount, Elements
<1>16. CASE UNCHANGED vars
  BY <1>16 DEF vars, storeVars, snapVars, talkVars, undoVars, TurnsCount, Elements
<1>17. ASSUME NEW t \in Takers, NEW saved \in BOOLEAN, Record(t, saved) PROVE TurnsCount'
  <2>1. /\ NewEntry \in EntrySet /\ NewEntry.id = NextId /\ NewEntry.turn = Len(stm)
        /\ NewEntry.at = clock /\ NextId >= 1
        /\ Appended(NewEntry)
        /\ aligned' = aligned \cup {NextId} /\ UNCHANGED talkVars
    BY <1>17, Recorded
  <2>2. UNCHANGED <<stm, clock>> /\ target' \in {target, NoEntry}
    <3>1. target' \in {target, NoEntry}
      BY <1>17, Recorded DEF undoVars, Leave
    <3> QED BY <2>1, <3>1 DEF talkVars
  <2>3. Elements(entries') \subseteq Elements(entries) \cup {NewEntry}
    BY <2>1, Recording
  <2>4. \A i \in 1..Len(stm) : stm[i] <= clock
    BY ElementsRange DEF TurnsCount, TalkOK
  <2>5. \A e \in Elements(entries) \cup {target, NoEntry} : e.id # NextId
    BY NextIsNew, NoEntryTyped, <2>1 DEF Numbered
  <2>6. NoEntry.id \notin aligned
    BY NoEntryTyped DEF RollbackOK
  <2>7. Len(stm) \in Nat
    BY ElementsRange DEF TalkOK
  <2> SUFFICES ASSUME NEW e \in Elements(entries') \cup {target'}, e.id \in aligned'
               PROVE  e.turn <= Len(stm) /\ \A i \in 1..e.turn : stm[i] <= e.at
    BY <2>2 DEF TurnsCount, Elements
  <2>8. CASE e = NewEntry
    BY <2>4, <2>7, <2>8, <2>1
  <2>9. CASE e # NewEntry
    <3>1. e \in Elements(entries) \cup {target} /\ e.id \in aligned
      BY <2>1, <2>2, <2>3, <2>5, <2>6, <2>9
    <3> QED BY <3>1 DEF TurnsCount
  <2> QED BY <2>8, <2>9
<1>18. CASE CompareNext
  BY <1>18 DEF CompareNext, Leave, storeVars, snapVars, talkVars, undoVars, TurnsCount, Elements
<1>19. CASE Compared
  BY <1>19 DEF Compared, Leave, storeVars, snapVars, talkVars, undoVars, TurnsCount, Elements
<1>20. ASSUME NEW n \in 0..StmMax, STMSetMax(n) PROVE TurnsCount'
  <2>1. /\ stm' = Newest(stm, n) /\ aligned' = IF Len(stm) > n THEN {} ELSE aligned
        /\ UNCHANGED <<clock, entries, target>>
    BY <1>20 DEF STMSetMax, storeVars, undoVars
  <2>2. Elements(stm') \subseteq Elements(stm)
    BY <2>1, NewestElements, WindowAssumption DEF TalkOK
  <2>3. CASE Len(stm) > n
    BY <2>1, <2>2, <2>3 DEF TurnsCount, Elements
  <2>4. CASE ~(Len(stm) > n)
    <3>1. stm' = stm /\ aligned' = aligned
      BY <2>1, <2>4 DEF Newest
    <3> QED BY <2>1, <3>1 DEF TurnsCount, Elements
  <2> QED BY <2>3, <2>4
<1> QED
  BY <1>1, <1>2, <1>3, <1>4, <1>5, <1>6, <1>7, <1>8, <1>9,
     <1>10, <1>11, <1>12, <1>13, <1>14, <1>15, <1>16,
     <1>17, <1>18, <1>19, <1>20
  DEF Next, Rollback

\* A later snapshot drops the last undo's only when it leaves the window.
LEMMA UndoThroughRecord ==
  ASSUME StoreOK, Numbered, UndoKept, undo.id \in Nat, undo' = undo, stored \subseteq stored',
         NEW e \in EntrySet, e.id = NextId, NextId >= 1,
         Appended(e),
         log' = entries' \/ log' = log
  PROVE  UndoKept'
<1>2. /\ Len(entries') >= 1 /\ Last(entries') = e
      /\ \A c \in Elements(entries) : c.id + MaxCheckpoints > e.id => c \in Elements(entries')
  BY Recording
<1>3. log' = entries' \/ log' = log
  OBVIOUS
<1> SUFFICES ASSUME undo.id > 0
             PROVE  /\ entries' # <<>> /\ log' # <<>>
                    /\ undo.id + MaxCheckpoints > Last(entries').id =>
                         \E c \in Elements(entries') \cap Elements(log') : IsUndo(c)'
                    /\ undo.id + MaxCheckpoints > Last(log').id =>
                         \E c \in Elements(log') : IsUndo(c)'
  BY DEF UndoKept, IsUndo, Elements, Last, Captured
<1>4. entries' # <<>> /\ log' # <<>>
  BY <1>2, <1>3 DEF UndoKept
<1>5. \A c : IsUndo(c) => IsUndo(c)'
  BY DEF IsUndo, Captured
<1>6. ASSUME undo.id + MaxCheckpoints > e.id
      PROVE  \E c \in Elements(entries) \cap Elements(log) : IsUndo(c) /\ c \in Elements(entries')
  <2>1. entries # <<>>
    BY DEF UndoKept
  <2>2. e.id = Last(entries).id + 1
    BY <2>1 DEF NextId
  <2>3. Last(entries).id \in Nat
    <3>1. Len(entries) \in 1..Len(entries)
      BY <2>1 DEF StoreOK
    <3>2. Last(entries) \in EntrySet
      BY <3>1, ElementOfSeq DEF StoreOK, Last
    <3> QED BY <3>2, WindowAssumption DEF EntrySet
  <2>4. undo.id + MaxCheckpoints > Last(entries).id
    BY <1>6, <2>2, <2>3, WindowAssumption
  <2>5. PICK c \in Elements(entries) \cap Elements(log) : IsUndo(c)
    BY <2>4 DEF UndoKept
  <2> QED BY <1>2, <1>6, <2>5 DEF IsUndo
<1>7. CASE log' = entries'
  BY <1>2, <1>4, <1>5, <1>6, <1>7
<1>8. CASE log' = log
  <2>1. undo.id + MaxCheckpoints > Last(log).id => \E c \in Elements(log) : IsUndo(c)
    BY DEF UndoKept
  <2> QED BY <1>2, <1>4, <1>5, <1>6, <1>8, <2>1
<1> QED BY <1>3, <1>7, <1>8

LEMMA StepKeepsUndo ==
  ASSUME StoreOK, TalkOK, RollbackOK, SnapOK, Numbered, UndoKept, [Next]_vars
  PROVE  UndoKept'
<1>1. ASSUME NEW b \in Batches, List(b) PROVE UndoKept'
  BY <1>1 DEF List, Leave, storeVars, snapVars, talkVars, undoVars, UndoKept, IsUndo, Elements, Last, Captured
<1>2. ASSUME NEW f \in Files, NEW s \in States, Edit(f, s) PROVE UndoKept'
  BY <1>2 DEF Edit, storeVars, snapVars, talkVars, undoVars, UndoKept, IsUndo, Elements, Last, Captured
<1>3. CASE Say
  BY <1>3 DEF Say, storeVars, snapVars, talkVars, undoVars, UndoKept, IsUndo, Elements, Last, Captured
<1>4. CASE CompactionReads
  BY <1>4 DEF CompactionReads, storeVars, snapVars, talkVars, undoVars, UndoKept, IsUndo, Elements, Last, Captured
<1>5. CASE CompactionReplaces
  <2>1. UNCHANGED <<entries, log, stored, undo>>
    BY <1>5 DEF CompactionReplaces, storeVars, snapVars, talkVars, undoVars
  <2> QED BY <2>1 DEF UndoKept, IsUndo, Elements, Last, Captured
<1>6. CASE CompactionFails
  BY <1>6 DEF CompactionFails, storeVars, snapVars, talkVars, undoVars, UndoKept, IsUndo, Elements, Last, Captured
<1>7. CASE StartNewSession
  BY <1>7 DEF StartNewSession, storeVars, snapVars, talkVars, undoVars, UndoKept, IsUndo, Elements, Last, Captured
<1>8. ASSUME NEW e \in Elements(entries), Compare(e) PROVE UndoKept'
  BY <1>8 DEF Compare, storeVars, snapVars, talkVars, undoVars, UndoKept, IsUndo, Elements, Last, Captured
<1>9. ASSUME NEW t \in Takers, ReadNext(t) PROVE UndoKept'
  <2>1. UNCHANGED <<entries, log, undo>> /\ stored \subseteq stored'
    BY <1>9, Reading DEF SnapOK, undoVars
  <2> QED BY <2>1 DEF UndoKept, IsUndo, Elements, Last, Captured
<1>10. ASSUME NEW f \in Files, RestoreFile(f) PROVE UndoKept'
  BY <1>10, SMTT(60) DEF RestoreFile, storeVars, snapVars, talkVars, undoVars, UndoKept, IsUndo, Elements, Last, Captured
<1>11. ASSUME NEW f \in Files, RestoreFails(f) PROVE UndoKept'
  BY <1>11 DEF RestoreFails, Leave, storeVars, snapVars, talkVars, undoVars, UndoKept, IsUndo, Elements, Last, Captured
<1>12. CASE RestoreEnds
  BY <1>12 DEF RestoreEnds, storeVars, snapVars, talkVars, undoVars, UndoKept, IsUndo, Elements, Last, Captured
<1>13. CASE Truncate
  BY <1>13 DEF Truncate, Leave, storeVars, snapVars, talkVars, undoVars, UndoKept, IsUndo, Elements, Last, Captured
<1>14. ASSUME NEW e \in Elements(entries), NEW f \in Files, RollbackFile(e, f) PROVE UndoKept'
  BY <1>14 DEF RollbackFile, storeVars, snapVars, talkVars, undoVars, UndoKept, IsUndo, Elements, Last, Captured
<1>15. CASE Restart
  <2>1. entries' = log /\ UNCHANGED <<log, stored, undo>>
    BY <1>15 DEF Restart
  <2> QED BY <2>1 DEF UndoKept, IsUndo, Elements, Last, Captured
<1>16. CASE UNCHANGED vars
  BY <1>16 DEF vars, storeVars, snapVars, talkVars, undoVars, UndoKept, IsUndo, Elements, Last, Captured
<1>17. ASSUME NEW t \in Takers, NEW saved \in BOOLEAN, Record(t, saved) PROVE UndoKept'
  <2>1. /\ NewEntry \in EntrySet /\ NewEntry.id = NextId /\ NextId \in 1..MaxIds
        /\ NewEntry.files = seen
        /\ Appended(NewEntry)
        /\ log' = IF saved THEN entries' ELSE log
        /\ UNCHANGED stored
    BY <1>17, Recorded
  <2>2. \/ undo' = undo
        \/ saved /\ undo'.id = NextId /\ undo'.files = seen
    BY <1>17, Recorded DEF undoVars
  <2>3. CASE undo' = undo
    <3>1. undo.id \in Nat /\ NextId >= 1
      BY NextIsNew, WindowAssumption DEF RollbackOK
    <3>2. log' = entries' \/ log' = log
      BY <2>1
    <3> QED BY <2>1, <2>3, <3>1, <3>2, UndoThroughRecord
  <2>4. CASE saved /\ undo'.id = NextId /\ undo'.files = seen
    <3>1. /\ entries' \in Seq(EntrySet) /\ Len(entries') \in 1..MaxCheckpoints
          /\ Last(entries') = NewEntry
      BY <2>1, Recording
    <3>2. log' = entries'
      BY <2>1, <2>4
    <3>3. entries' # <<>> /\ NewEntry \in Elements(entries')
      <4>1. Elements(entries') = {entries'[i] : i \in 1..Len(entries')}
        BY <3>1, ElementsRange
      <4> QED BY <3>1, <4>1 DEF Last
    <3>4. Captured(NewEntry) \subseteq stored
      BY <2>1 DEF Captured, SnapOK
    <3>5. NewEntry.id = undo'.id /\ NewEntry.files = undo'.files
      BY <2>1, <2>4
    <3> QED BY <2>1, <3>2, <3>3, <3>4, <3>5 DEF UndoKept, IsUndo, Elements, Last, Captured
  <2> QED BY <2>2, <2>3, <2>4
<1>18. CASE CompareNext
  BY <1>18 DEF CompareNext, Leave, storeVars, snapVars, talkVars, undoVars, UndoKept, IsUndo, Elements, Last, Captured
<1>19. CASE Compared
  BY <1>19 DEF Compared, Leave, storeVars, snapVars, talkVars, undoVars, UndoKept, IsUndo, Elements, Last, Captured
<1>20. ASSUME NEW n \in 0..StmMax, STMSetMax(n) PROVE UndoKept'
  <2>1. UNCHANGED <<entries, log, stored, undo>>
    BY <1>20 DEF STMSetMax, storeVars, undoVars
  <2> QED BY <2>1 DEF UndoKept, IsUndo, Elements, Last, Captured
<1> QED
  BY <1>1, <1>2, <1>3, <1>4, <1>5, <1>6, <1>7, <1>8, <1>9,
     <1>10, <1>11, <1>12, <1>13, <1>14, <1>15, <1>16,
     <1>17, <1>18, <1>19, <1>20
  DEF Next, Rollback

-----------------------------------------------------------------------------
(* The theorems *)

\* The inductive invariant.
Inv ==
  /\ StoreOK /\ TalkOK /\ RollbackOK /\ SnapOK /\ Numbered
  /\ HalfRestored /\ TurnsCount /\ UndoKept /\ NothingSaidIsLost

LEMMA InitEstablishes == Init => Inv
<1> SUFFICES ASSUME Init PROVE Inv
  OBVIOUS
<1>1. Elements(<<>>) = {}
  BY DEF Elements
<1>2. StoreOK
  BY EmptySeq, WindowAssumption DEF Init, StoreOK
<1>3. TalkOK
  <2>1. stm \in Seq(0..MaxSays) /\ Len(stm) <= stmMax /\ stmMax \in 0..StmMax
    BY EmptySeq, WindowAssumption DEF Init
  <2>2. clock = 0 /\ transcript = {} /\ session = {} /\ compacting = FALSE
    BY DEF Init
  <2>3. clock \in 0..MaxSays /\ transcript \subseteq 0..MaxSays /\ session \subseteq 1..MaxSays
    BY <2>2, WindowAssumption
  <2>4. compacting \in BOOLEAN
    BY <2>2
  <2> QED BY <2>1, <2>3, <2>4 DEF TalkOK
<1>4. RollbackOK
  <2>1. tree \in [Files -> States] /\ undo.id \in 0..MaxIds
    BY WindowAssumption DEF Init, States
  <2> QED BY <2>1, NoEntryTyped, WindowAssumption DEF Init, RollbackOK
<1>5. Numbered
  BY NoEntryTyped DEF Init, Numbered, InOrder, NextId
<1>6. HalfRestored
  BY DEF Init, HalfRestored
<1>7. TurnsCount
  BY <1>1, NoEntryTyped DEF Init, TurnsCount
<1>8. UndoKept /\ NothingSaidIsLost
  BY DEF Init, UndoKept, NothingSaidIsLost
<1>9. SnapOK
  BY DEF Init, SnapOK, Unseen, Takers
<1> QED BY <1>2, <1>3, <1>4, <1>5, <1>6, <1>7, <1>8, <1>9 DEF Inv

LEMMA Inductive == Spec => []Inv
<1>1. ASSUME Inv, [Next]_vars PROVE Inv'
  <2> USE <1>1 DEF Inv
  <2>1. StoreOK' /\ TalkOK' /\ RollbackOK' /\ SnapOK'
    BY StepKeepsStore, StepKeepsTalk, StepKeepsRollback, StepKeepsSnaps
  <2>2. Numbered' /\ HalfRestored'
    BY StepKeepsNumbers, StepKeepsRestored
  <2>3. TurnsCount' /\ UndoKept' /\ NothingSaidIsLost'
    BY StepKeepsTurns, StepKeepsUndo, StepKeepsSaid
  <2> QED BY <2>1, <2>2, <2>3
<1> QED BY InitEstablishes, <1>1, PTL DEF Spec

\* Checkpoints, conversation and rollback stay well-formed, and the window of
\* checkpoints and the short-term memory within their bounds.
THEOREM UndoTypeCorrect == Spec => []TypeOK
<1>1. Inv => TypeOK
  BY TypeFromParts DEF Inv
<1> QED BY <1>1, Inductive, PTL

\* A rollback that got through its files has restored every file that nobody
\* else changed in the meantime.
THEOREM RollbackIsComplete == Spec => []RollbackRestores
<1>1. Inv => RollbackRestores
  <2> SUFFICES ASSUME Inv, rb = "truncate", NEW f \in Files \ touched
               PROVE  /\ target.files[f] \notin torn \cup {"unrecorded", "big"} =>
                           tree[f] = target.files[f]
                      /\ target.files[f] = "big" /\ undo.files[f] # "unrecorded" =>
                           tree[f] = undo.files[f]
    BY DEF RollbackRestores
  <2> QED BY DEF Inv, HalfRestored
<1> QED BY <1>1, Inductive, PTL

\* The undo can be undone as long as the window reaches back that far.
THEOREM UndoCanBeUndone == Spec => []UndoPointSurvives
<1>1. Inv => UndoPointSurvives
  BY DEF Inv, UndoKept, IsUndo, UndoPointSurvives
<1> QED BY <1>1, Inductive, PTL

\* What was said in a session is in the window or kept in the transcript, unless it was
\* rewound or STMSetMax made the window too small for it.
THEOREM TranscriptIsComplete == Spec => []NothingSaidIsLost
<1>1. Inv => NothingSaidIsLost
  BY DEF Inv
<1> QED BY <1>1, Inductive, PTL

\* A rollback leaves no message said after the checkpoint it goes back to.
THEOREM ConversationIsRewound == Spec => RewoundConversation
<1> DEFINE Step == rb = "truncate" /\ rb' = "idle" /\ target.id \in aligned =>
                     \A m \in Elements(stm') : m <= target.at
<1>1. ASSUME Inv, [Next]_vars, rb = "truncate", rb' = "idle", target.id \in aligned
      PROVE  \A m \in Elements(stm') : m <= target.at
  <2>1. stm' = Rewound \/ stm' = <<>>
    <3>1. Truncate \/ Restart
      <4>1. ASSUME NEW t \in Takers, ReadNext(t) PROVE FALSE
        <5>1. UNCHANGED undoVars
          BY <1>1, <4>1 DEF ReadNext, Taken, Inv, SnapOK
        <5> QED BY <1>1, <5>1 DEF undoVars
      <4>2. ASSUME NEW t \in Takers, NEW saved \in BOOLEAN, Record(t, saved) PROVE FALSE
        <5>1. UNCHANGED undoVars
          BY <1>1, <4>2 DEF Record, Taken, Inv, SnapOK
        <5> QED BY <1>1, <5>1 DEF undoVars
      <4> QED
        BY <1>1, <4>1, <4>2 DEF Next, Rollback, vars, List, Edit, Say, STMSetMax, CompactionReads,
           CompactionReplaces, CompactionFails, StartNewSession, Compare, CompareNext,
           Compared, RestoreFile, RestoreFails, RestoreEnds, RollbackFile, undoVars
    <3> QED BY <3>1 DEF Truncate, Restart
  <2>2. CASE stm' = <<>>
    BY <2>2 DEF Elements
  <2>3. CASE stm' = Rewound
    <3>1. target.turn <= Len(stm) /\ \A i \in 1..target.turn : stm[i] <= target.at
      BY <1>1 DEF Inv, TurnsCount
    <3>2. /\ Rewound \in Seq(0..MaxSays)
          /\ Len(Rewound) = IF Len(stm) > target.turn THEN target.turn ELSE Len(stm)
          /\ \A i \in 1..Len(Rewound) : Rewound[i] = stm[i]
          /\ Len(stm) \in Nat /\ target.turn \in Nat
      BY <1>1, RewoundIsPrefix DEF Inv
    <3>3. Len(Rewound) = target.turn
      BY <3>1, <3>2
    <3>4. Elements(Rewound) = {Rewound[i] : i \in 1..Len(Rewound)}
      BY <3>2, ElementsRange
    <3> QED BY <2>3, <3>1, <3>2, <3>3, <3>4
  <2> QED BY <2>1, <2>2, <2>3
<1>2. Inv /\ [Next]_vars => [Step]_vars
  BY <1>1
<1>3. RewoundConversation <=> [][Step]_vars
  BY DEF RewoundConversation
<1> HIDE DEF Step
<1> QED BY <1>2, <1>3, Inductive, PTL DEF Spec

=============================================================================
