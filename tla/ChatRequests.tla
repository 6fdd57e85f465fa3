---------------------------- MODULE ChatRequests ----------------------------
(***************************************************************************)
(* The request around a chat turn: the Idempotency-Key of /api/chat        *)
(* (surfaces/server/idempotency.go), the deadline that measures silence    *)
(* (progress_deadline.go), and the stop button (chat_handler.go). What the *)
(* turn does is ChatTurns; here it reports progress, or does not, and      *)
(* returns or panics.                                                      *)
(*                                                                         *)
(* Time passes in ticks of some minutes. The steps of a request around its *)
(* turn and those of a watchdog take no time; the turn takes any time.     *)
(***************************************************************************)
EXTENDS Naturals

CONSTANTS
  Requests,  \* bound of the model: requests
  Keys,      \* values of the Idempotency-Key header
  NoKey,     \* stands for the header of a request without one
  Headers,   \* bound of the model: the headers requests come with
  Nobody,
  TTL,       \* how long a reply is kept (10 minutes), in ticks
  Idle,      \* chatIdleTimeout (10 minutes)
  Hard       \* chatHardTimeout (2 hours)

TimesAssumption == TTL \in Nat \ {0} /\ Idle \in Nat \ {0} /\ Hard \in Nat \ {0}
NamesAssumption == NoKey \notin Keys /\ Nobody \notin Requests
HeadersAssumption == Headers \subseteq Keys \cup {NoKey}

VARIABLES
  \* The server.
  entry,      \* idempotencyStore.m: what is known of a key
  progressCh, \* the turn whose channel hears the events
  activeChatCancel, \* the turn whose CancelFunc the stop button calls
  \* A request.
  pc, key, outcome,
  ctx,        \* its context: "live", or why it is done
  \* Its watchdog.
  watch, beat, idleTimer, hardTimer,
  \* History, for the properties.
  age,        \* ticks since it was let in
  since,      \* ticks since it was answered
  quiet,      \* ticks since the last tick in which it reported progress
  spoke,      \* it reported progress in this tick
  latest      \* the turn that began last

slots == <<entry, progressCh, activeChatCancel>>
request == <<pc, key, outcome, ctx>>
watchdog == <<watch, beat, idleTimer, hardTimer>>
history == <<age, since, quiet, spoke, latest>>
vars == <<slots, request, watchdog, history>>

Absent == [state |-> "absent", at |-> 0]
Old == TTL + 1  \* ages are counted up to this

Init ==
  /\ entry = [k \in Keys |-> Absent]
  /\ progressCh = Nobody /\ activeChatCancel = Nobody
  /\ pc = [r \in Requests |-> "new"] /\ key = [r \in Requests |-> NoKey]
  /\ outcome = [r \in Requests |-> "none"] /\ ctx = [r \in Requests |-> "none"]
  /\ watch = [r \in Requests |-> FALSE] /\ beat = [r \in Requests |-> FALSE]
  /\ idleTimer = [r \in Requests |-> 0] /\ hardTimer = [r \in Requests |-> 0]
  /\ age = [r \in Requests |-> 0] /\ since = [r \in Requests |-> 0]
  /\ quiet = [r \in Requests |-> 0] /\ spoke = [r \in Requests |-> FALSE]
  /\ latest = Nobody

\* Where the context of a turn exists, from progressContext to the deferred cancel.
Turning == {"opened", "running", "returned", "cleared"}

-----------------------------------------------------------------------------
(* Idempotency keys *)

\* Seeded fault: a reply goes while its time is not over yet.
EvictedEarly ==
  [k \in Keys |-> IF entry[k].at >= TTL THEN Absent ELSE entry[k]]

\* evictLocked, for every key: an entry that is too old goes, whatever its state.
Evicted ==
  [k \in Keys |-> IF entry[k].at > TTL THEN Absent ELSE entry[k]]

Begun(e, k) == [e EXCEPT ![k] = [state |-> "inflight", at |-> 0]]

Completed(k) == [entry EXCEPT ![k] = [state |-> "done", at |-> 0]]

\* Seeded fault: abort leaves an entry in flight.
NotAborted(k) == entry

Aborted(k) ==
  [entry EXCEPT ![k] = IF @.state = "inflight" THEN Absent ELSE @]

\* begin found nothing: the handler runs.
LetIn(r, k) ==
  /\ k \in Keys => Evicted[k] = Absent
  /\ pc' = [pc EXCEPT ![r] = "entered"]
  /\ entry' = IF k \in Keys THEN Begun(Evicted, k) ELSE entry

\* begin found the key: its reply again, or a conflict while it is in flight.
TurnAway(r, k) ==
  /\ k \in Keys /\ Evicted[k] # Absent
  /\ pc' = [pc EXCEPT ![r] = IF Evicted[k].state = "done" THEN "replayed" ELSE "conflict"]
  /\ entry' = Evicted

Post(r) == \E k \in Headers :
  /\ pc[r] = "new"
  /\ key' = [key EXCEPT ![r] = k]
  /\ LetIn(r, k) \/ TurnAway(r, k)
  /\ UNCHANGED <<progressCh, activeChatCancel, outcome, ctx, watchdog, age, since, quiet,
                 spoke, latest>>

\* The handler answered, with an error or a reply, or it panicked.
Settle(r) ==
  /\ pc[r] = "handled"
  /\ pc' = [pc EXCEPT ![r] = "over"]
  /\ entry' = IF key[r] = NoKey THEN entry
              ELSE IF outcome[r] = "panic" THEN Aborted(key[r]) ELSE Completed(key[r])
  /\ UNCHANGED <<progressCh, activeChatCancel, key, outcome, ctx, watchdog, history>>

-----------------------------------------------------------------------------
(* The chat handler *)

\* It ends before there is a turn: the body is no JSON, the query is empty, ...
Refuse(r) == \E how \in {"answer", "panic"} :
  /\ pc[r] = "entered"
  /\ pc' = [pc EXCEPT ![r] = "handled"]
  /\ outcome' = [outcome EXCEPT ![r] = how]
  /\ UNCHANGED <<slots, key, ctx, watchdog, history>>

\* progressContext takes the place of whoever was heard, and starts a watchdog.
Open(r) ==
  /\ pc[r] = "entered"
  /\ pc' = [pc EXCEPT ![r] = "opened"]
  /\ progressCh' = r
  /\ ctx' = [ctx EXCEPT ![r] = "live"]
  /\ watch' = [watch EXCEPT ![r] = TRUE]
  /\ idleTimer' = [idleTimer EXCEPT ![r] = Idle]
  /\ hardTimer' = [hardTimer EXCEPT ![r] = Hard]
  /\ latest' = r
  /\ UNCHANGED <<entry, activeChatCancel, key, outcome, beat, age, since, quiet, spoke>>

Publish(r) ==
  /\ pc[r] = "opened"
  /\ pc' = [pc EXCEPT ![r] = "running"]
  /\ activeChatCancel' = r
  /\ UNCHANGED <<entry, progressCh, key, outcome, ctx, watchdog, history>>

\* The handler of watchProgress: a signal is left in the channel that is heard.
Heard ==
  [r \in Requests |-> beat[r] \/ (progressCh = r /\ watch[r])]

\* A turn reports events: those of one tick are one.
Emit(r) ==
  /\ pc[r] = "running" /\ ~spoke[r]
  /\ beat' = Heard
  /\ spoke' = [spoke EXCEPT ![r] = TRUE]
  /\ UNCHANGED <<slots, request, watch, idleTimer, hardTimer, age, since, quiet, latest>>

\* Execute and what follows it end, with an answer, an error or a panic.
Return(r) == \E how \in {"answer", "panic"} :
  /\ pc[r] = "running"
  /\ pc' = [pc EXCEPT ![r] = "returned"]
  /\ outcome' = [outcome EXCEPT ![r] = how]
  /\ UNCHANGED <<slots, key, ctx, watchdog, history>>

\* The two deferred functions, last one first: the slot of the stop button...
ClearCancel(r) ==
  /\ pc[r] = "returned"
  /\ pc' = [pc EXCEPT ![r] = "cleared"]
  /\ activeChatCancel' = Nobody
  /\ UNCHANGED <<entry, progressCh, key, outcome, ctx, watchdog, history>>

\* Seeded fault: the CancelFunc clears the slot of whoever is heard.
DetachedAlways(r) == Nobody

\* ... and the CancelFunc: only a turn that is still heard leaves its place.
Detached(r) == IF progressCh = r THEN Nobody ELSE progressCh
Cancelled(r, why) == [ctx EXCEPT ![r] = IF @ = "live" THEN why ELSE @]

Close(r) ==
  /\ pc[r] = "cleared"
  /\ pc' = [pc EXCEPT ![r] = "handled"]
  /\ progressCh' = Detached(r)
  /\ ctx' = [ctx EXCEPT ![r] = "over"]
  /\ quiet' = [quiet EXCEPT ![r] = 0] /\ spoke' = [spoke EXCEPT ![r] = FALSE]
  /\ UNCHANGED <<entry, activeChatCancel, key, outcome, watchdog, age, since, latest>>

\* handleCancelChat: the published function is called, and forgotten.
Stop ==
  /\ \E r \in Requests :
       /\ activeChatCancel = r
       /\ progressCh' = Detached(r)
       /\ ctx' = Cancelled(r, "stopped")
  /\ activeChatCancel' = Nobody
  /\ UNCHANGED <<entry, pc, key, outcome, watchdog, history>>

-----------------------------------------------------------------------------
(* The watchdog of a turn. Of several cases that are ready any may be taken. *)

\* It ends, and its timers and its channel with it.
Gone(r) ==
  /\ watch' = [watch EXCEPT ![r] = FALSE]
  /\ beat' = [beat EXCEPT ![r] = FALSE]
  /\ idleTimer' = [idleTimer EXCEPT ![r] = 0]
  /\ hardTimer' = [hardTimer EXCEPT ![r] = 0]

Leave(r) ==
  /\ ctx[r] # "live"
  /\ Gone(r)
  /\ UNCHANGED ctx

Expire(r, why) ==
  /\ ctx' = Cancelled(r, why)
  /\ Gone(r)

OutOfTime(r) == hardTimer[r] = 0 /\ Expire(r, "hard")
Stuck(r) == idleTimer[r] = 0 /\ Expire(r, "stuck")

Reset(r) ==
  /\ beat[r]
  /\ beat' = [beat EXCEPT ![r] = FALSE]
  /\ idleTimer' = [idleTimer EXCEPT ![r] = Idle]
  /\ UNCHANGED <<ctx, watch, hardTimer>>

Watch(r) ==
  /\ watch[r]
  /\ Leave(r) \/ OutOfTime(r) \/ Stuck(r) \/ Reset(r)
  /\ UNCHANGED <<slots, pc, key, outcome, history>>

HasWork(r) ==
  watch[r] /\ (ctx[r] # "live" \/ hardTimer[r] = 0 \/ idleTimer[r] = 0 \/ beat[r])

-----------------------------------------------------------------------------
(* Time *)

\* Ages are counted up to a limit.
Later(n, limit) == IF n < limit THEN n + 1 ELSE limit
Sooner(n) == IF n > 0 THEN n - 1 ELSE 0

\* Where a request does not stay.
Passing(r) == pc[r] \in {"entered", "opened", "returned", "cleared", "handled"}

\* The timers that are set run down.
Elapse(timer) == [r \in Requests |-> IF watch[r] THEN Sooner(timer[r]) ELSE timer[r]]

Tick ==
  /\ \A r \in Requests : ~HasWork(r) /\ ~Passing(r)
  /\ entry' = [k \in Keys |-> IF entry[k] = Absent THEN Absent
                              ELSE [entry[k] EXCEPT !.at = Later(@, Old)]]
  /\ idleTimer' = Elapse(idleTimer)
  /\ hardTimer' = Elapse(hardTimer)
  /\ age' = [r \in Requests |->
               IF pc[r] = "running" THEN Later(age[r], Old) ELSE age[r]]
  /\ since' = [r \in Requests |-> IF pc[r] = "over" THEN Later(since[r], Old) ELSE since[r]]
  /\ quiet' = [r \in Requests |->
                 IF pc[r] = "running"
                 THEN IF spoke[r] THEN 1 ELSE Later(quiet[r], Idle)
                 ELSE quiet[r]]
  /\ spoke' = [r \in Requests |-> FALSE]
  /\ UNCHANGED <<progressCh, activeChatCancel, request, watch, beat, latest>>

Next ==
  \/ \E r \in Requests :
       \/ Post(r) \/ Refuse(r) \/ Open(r) \/ Publish(r) \/ Emit(r) \/ Return(r)
       \/ ClearCancel(r) \/ Close(r) \/ Settle(r) \/ Watch(r)
  \/ Stop
  \/ Tick

Spec == Init /\ [][Next]_vars

\* Time passes, goroutines run, and a turn whose context is done returns: its
\* model calls and its tools look at the context. Nothing else makes it end.
Fairness ==
  /\ WF_vars(Tick)
  /\ \A r \in Requests :
       /\ WF_vars(Watch(r))
       /\ WF_vars(Refuse(r) \/ Open(r)) /\ WF_vars(Publish(r))
       /\ WF_vars(ctx[r] # "live" /\ Return(r))
       /\ WF_vars(ClearCancel(r)) /\ WF_vars(Close(r)) /\ WF_vars(Settle(r))

FairSpec == Spec /\ Fairness

-----------------------------------------------------------------------------
(* Properties *)

\* Every variable keeps to its values.
TypeOK ==
  /\ entry \in [Keys -> [state : {"absent", "inflight", "done"}, at : 0..Old]]
  /\ progressCh \in Requests \cup {Nobody} /\ activeChatCancel \in Requests \cup {Nobody}
  /\ pc \in [Requests -> Turning \cup {"new", "entered", "handled", "over", "replayed",
                                       "conflict"}]
  /\ key \in [Requests -> Headers \cup {NoKey}]
  /\ outcome \in [Requests -> {"none", "answer", "panic"}]
  /\ ctx \in [Requests -> {"none", "live", "over", "stopped", "hard", "stuck"}]
  /\ watch \in [Requests -> BOOLEAN] /\ beat \in [Requests -> BOOLEAN]
  /\ idleTimer \in [Requests -> 0..Idle] /\ hardTimer \in [Requests -> 0..Hard]
  /\ age \in [Requests -> 0..Old] /\ since \in [Requests -> 0..Old]
  /\ quiet \in [Requests -> 0..Idle] /\ spoke \in [Requests -> BOOLEAN]
  /\ latest \in Requests \cup {Nobody}

Active == {r \in Requests : pc[r] \in Turning \cup {"entered", "handled"}}
RunOf(k) == {r \in Active : key[r] = k}

\* While no request of a key has outlived the TTL, at most one of them runs:
\* begin, complete, abort and the evictions of others leave it its place.
RunsOnce == \A k \in Keys :
  (\A r \in Requests : key[r] = k => age[r] <= TTL) =>
    \A r, q \in RunOf(k) : r = q

\* A key that is in flight has a request that will settle it: after a panic, and
\* after the entry was dropped and taken again, no key is in flight for ever.
NoWedgedKey == \A k \in Keys : entry[k].state = "inflight" => RunOf(k) # {}

\* Once a key was answered, the work is not run again within the TTL, whatever
\* other requests of the key, slow or panicking, settle in between.
RetryReplays ==
  [][\A r, q \in Requests :
       pc[q] = "new" /\ pc'[q] = "entered" /\ key'[q] # NoKey /\ key[r] = key'[q]
       /\ pc[r] = "over" /\ outcome[r] = "answer" => since[r] > TTL]_vars

\* The turn that began last is cancelled as stuck only when it reported nothing
\* for the whole idle time, whichever older turns end, stop or report meanwhile.
StuckMeansSilent ==
  [][\A r \in Requests :
       ctx[r] = "live" /\ ctx'[r] = "stuck" /\ latest = r => quiet[r] >= Idle]_vars

\* Every request that was let in is answered and its key settled: one that hangs
\* is cancelled for its silence, one that reports for ever by the hard limit.
RequestsEnd == \A r \in Requests : pc[r] = "entered" ~> pc[r] = "over"

\* What idempotency.go:13 says: a retried POST "must not re-execute it". A turn
\* that outlives the TTL loses its key to the next begin.
RetryNeverReexecutes == \A k \in Keys : \A r, q \in RunOf(k) : r = q

\* What progress_deadline.go:14 says: "the deadline resets on evidence of
\* progress". The events of a turn reset only the deadline of the latest one.
ProgressIsNotStuck ==
  [][\A r \in Requests :
       ctx[r] = "live" /\ ctx'[r] = "stuck" => quiet[r] >= Idle]_vars

\* What progress_deadline.go:134 says: the CancelFunc is "published as
\* s.activeChatCancel for the stop endpoint to call". An older turn that ends
\* clears the slot of a newer one.
StopReachesATurn ==
  (\E r \in Requests : pc[r] = "running" /\ ctx[r] = "live") =>
    activeChatCancel # Nobody \/ \E r \in Requests : ctx[r] = "stopped"
=============================================================================
