----------------------------- MODULE MemoryStore -----------------------------
(***************************************************************************)
(* Semantic memory: entries under their keys, vectors that are computed    *)
(* beside them and filled in later, and the writer that persists both      *)
(* (memory/memory/system.go). A text stands for the entry it is of.        *)
(***************************************************************************)
EXTENDS StoreWriter

CONSTANTS Keys, Texts, NoText

ASSUME TextsAssumption == NoText \notin Texts

VARIABLES
  entry,      \* the text stored under each key
  vector,     \* the text its vector was computed from
  backfills,  \* embeddings under way, each with the change it is of; embedWG
              \* counts them
  filled,     \* those that have filled their vector in
  closing,    \* System.Shutdown has been called
  waited,     \* embedWG.Wait has returned in it
  \* history
  awaited,    \* the embeddings that were under way then
  landed      \* the contents when the last of them was filled in

memory == <<entry, vector, backfills, filled, closing, waited, awaited, landed>>

MemoryInit ==
  /\ Init
  /\ entry = [k \in Keys |-> NoText] /\ vector = [k \in Keys |-> NoText]
  /\ backfills = {} /\ filled = {} /\ closing = FALSE
  /\ waited = FALSE /\ awaited = {} /\ landed = 0

SemanticAdd(k, t) ==
  /\ Change
  /\ entry' = [entry EXCEPT ![k] = t]
  /\ vector' = [vector EXCEPT ![k] = NoText]
  /\ backfills' = backfills \cup {[key |-> k, text |-> t, change |-> version']}
  /\ UNCHANGED <<filled, closing, waited, awaited, landed>>

SemanticRemove(k) ==
  /\ Change
  /\ entry' = [entry EXCEPT ![k] = NoText]
  /\ vector' = [vector EXCEPT ![k] = NoText]
  /\ UNCHANGED <<backfills, filled, closing, waited, awaited, landed>>

\* The vector arrives and goes to whatever is stored under the key by then.
Embedded(b) ==
  /\ b \in backfills \ filled /\ entry[b.key] # NoText
  /\ Change
  /\ vector' = [vector EXCEPT ![b.key] = b.text]
  /\ filled' = filled \cup {b}
  /\ landed' = IF b \in awaited THEN version' ELSE landed
  /\ UNCHANGED <<entry, backfills, closing, waited, awaited>>

\* The goroutine ends: it has filled the vector in and marked the store, found no
\* entry, or got no vector from the model.
BackfillEnds(b) ==
  /\ b \in backfills /\ (b \in filled => mutator = "none")
  /\ backfills' = backfills \ {b} /\ filled' = filled \ {b}
  /\ UNCHANGED <<vars, entry, vector, closing, waited, awaited, landed>>

CallShutdown ==
  /\ ~closing
  /\ closing' = TRUE
  /\ awaited' = backfills
  /\ UNCHANGED <<vars, entry, vector, backfills, filled, waited, landed>>

\* Seeded fault: the embeddings under way are not waited for.
NoneLeftToStart == TRUE

\* embedWG's counter is at zero.
NoneUnderWay == backfills = {}

\* embedWG.Wait returns. What is added from here on is embedded beside the
\* Shutdown of the writers.
WaitReturns ==
  /\ closing /\ ~waited /\ NoneUnderWay
  /\ waited' = TRUE
  /\ UNCHANGED <<vars, entry, vector, backfills, filled, closing, awaited, landed>>

WriterShutdown(f) == waited /\ Shutdown(f) /\ UNCHANGED memory

MemoryNext ==
  \/ \E k \in Keys : SemanticRemove(k) \/ \E t \in Texts : SemanticAdd(k, t)
  \/ \E b \in backfills : Embedded(b) \/ BackfillEnds(b)
  \/ CallShutdown \/ WaitReturns \/ \E f \in Jobs : WriterShutdown(f)
  \/ WriterStep /\ UNCHANGED memory

MemorySpec == MemoryInit /\ [][MemoryNext]_<<vars, memory>>

-----------------------------------------------------------------------------
(* Properties *)

MemoryTypeOK ==
  /\ TypeOK
  /\ entry \in [Keys -> Texts \cup {NoText}] /\ vector \in [Keys -> Texts \cup {NoText}]
  /\ backfills \cup awaited \subseteq [key : Keys, text : Texts, change : 1..version]
  /\ filled \subseteq backfills
  /\ closing \in BOOLEAN /\ waited \in BOOLEAN /\ landed \in 0..version

\* A vector that was on its way when Shutdown was called is on disk when the
\* process ends (system.go:193, "Let in-flight vectors land before the writers
\* flush"), unless a write failed or two flushes ran at once.
AwaitedVectorsAreSaved ==
  process = "exited" /\ failures = 0 /\ ~overlapped => landed <= file

\* The vector of an entry was computed from it (system.go:521, "computes an entry's
\* vector off the write path and fills it in when it arrives").
VectorIsOfItsEntry == \A k \in Keys : vector[k] \in {NoText, entry[k]}
=============================================================================
