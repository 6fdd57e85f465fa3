----------------------------- MODULE ModelCalls -----------------------------
(***************************************************************************)
(* Calls of a cloud model: retry(ratelimit(client)), the decoration that   *)
(* WrapCloud puts on every client, over the client's pool of credentials   *)
(* (model/llm/retry.go, ratelimit.go, client.go, keypool.go).              *)
(*                                                                         *)
(* Calls of several goroutines share one limiter and one pool. Time is     *)
(* kept as what is left of each delay: Tick moves it on by one unit, in    *)
(* any order with the steps of the calls. Requests and answers are         *)
(* abstracted to the class of their outcome.                               *)
(***************************************************************************)
EXTENDS Integers

CONSTANTS
  Calls,         \* callers; each makes one call after another
  Embedders,     \* those that ask for an embedding
  MaxIssues,     \* bound of the model: calls each of them makes
  Keys,          \* how many credentials the pool holds; they are 0..Keys-1
  RPM,           \* RateLimits.RPM, 0 when nothing is configured
  MaxAttempts,   \* RetryOpts.MaxAttempts
  BaseDelay,     \* RetryOpts.BaseDelay
  MaxDelay,      \* RetryOpts.MaxDelay
  Minute,        \* time units in a minute
  Hints,         \* values of Retry-After, 0 when the answer has none
  DefaultHold,   \* hold after a 429 without Retry-After (5 s)
  Cooldown,      \* keyCooldown (60 s)
  Release        \* adaptiveReleaseRPM (240)

CallersAssumption == Embedders \subseteq Calls /\ MaxIssues \in Nat \ {0}
PoolAssumption == Keys \in Nat \ {0} /\ Cooldown \in Nat \ {0}
DelaysAssumption ==
  /\ MaxAttempts \in Nat \ {0} /\ BaseDelay \in Nat \ {0} /\ MaxDelay \in Nat
  /\ Minute \in Nat \ {0} /\ DefaultHold \in Nat \ {0} /\ Hints \subseteq Nat
PaceAssumption == RPM \in Nat /\ Release \in Nat \ {0}

VARIABLES
  \* each call
  pc,        \* where it is
  attempt,   \* the attempt it is at
  wait,      \* time left of its sleep
  key,       \* the credential of the attempt
  err,       \* what the attempt came to
  streamed,  \* the attempt has delivered output to the caller
  issued,    \* calls the goroutine has made
  \* the limiter
  hold,      \* time left until holdUntil
  learned,   \* adaptiveRPM
  since429,  \* time since last429, no further than it matters
  tokens,    \* reqBucket.tokens in units of 1/Minute; NoBucket before it exists
  idle,      \* time since the bucket was last asked, no further than a minute
  recent,    \* how many entries of recent are no older than each age; at Minute, all
  \* the pool
  parked,    \* time left of each key's cooldown
  next,      \* the index Get looks at first
  \* history
  shown,     \* attempts of the call whose output the caller has seen
  answer,    \* the provider's last answer to the call
  asked,     \* time left of the wait the last answer asked for
  drawn      \* the key last drawn, and whether it was free

callVars == <<pc, attempt, wait, key, err, streamed, issued, shown, answer, asked>>
limiter == <<hold, learned, since429, tokens, idle, recent>>
pool == <<parked, next, drawn>>
vars == <<callVars, limiter, pool>>

NoBucket == -1
KeySet == 0..(Keys - 1)
Least(a, b) == IF a <= b THEN a ELSE b
Most(a, b) == IF a >= b THEN a ELSE b
Elapse(t) == IF t > 0 THEN t - 1 ELSE 0

\* How an attempt can end: a 429, a 429 of a daily quota, a 5xx answer or a lost
\* connection, a rejected key, anything else that would fail again; "stopped" is
\* ctx.Err().
NoError == [kind |-> "none", hint |-> 0]
Stopped == [kind |-> "stopped", hint |-> 0]
Outcomes ==
  [kind : {"limited", "daily", "fault"}, hint : Hints]
  \cup [kind : {"ok", "denied", "broken"}, hint : {0}]

\* IsRetryable.
Transient == {"limited", "fault"}

Init ==
  /\ pc = [c \in Calls |-> "idle"] /\ attempt = [c \in Calls |-> 1]
  /\ wait = [c \in Calls |-> 0] /\ key = [c \in Calls |-> 0]
  /\ err = [c \in Calls |-> NoError] /\ streamed = [c \in Calls |-> FALSE]
  /\ issued = [c \in Calls |-> 0]
  /\ hold = 0 /\ learned = 0 /\ since429 = 2 * Minute + 1
  /\ tokens = NoBucket /\ idle = 0 /\ recent = [a \in 0..Minute |-> 0]
  /\ parked = [k \in KeySet |-> 0] /\ next = 0
  /\ shown = [c \in Calls |-> {}] /\ asked = [c \in Calls |-> 0]
  /\ answer = [c \in Calls |-> "none"]
  /\ drawn = [key |-> 0, free |-> FALSE]

-----------------------------------------------------------------------------
(* The caller, and the limiter's acquire *)

\* A goroutine that has its answer may call again.
Issue(c) ==
  /\ pc[c] \in {"idle", "done"} /\ issued[c] < MaxIssues
  /\ pc' = [pc EXCEPT ![c] = "acquire"]
  /\ attempt' = [attempt EXCEPT ![c] = 1]
  /\ err' = [err EXCEPT ![c] = NoError]
  /\ streamed' = [streamed EXCEPT ![c] = FALSE]
  /\ issued' = [issued EXCEPT ![c] = @ + 1]
  /\ shown' = [shown EXCEPT ![c] = {}]
  /\ answer' = [answer EXCEPT ![c] = "none"]
  /\ asked' = [asked EXCEPT ![c] = 0]
  /\ UNCHANGED <<wait, key, limiter, pool>>

\* The tighter of the configured and the learned limit, 0 for none.
EffectiveRPM ==
  IF learned > 0 /\ (RPM = 0 \/ learned < RPM) THEN learned ELSE RPM

\* Seeded fault: what an idle bucket gains is not cut to a full one.
RefilledOverFull(rpm) ==
  IF tokens = NoBucket THEN rpm * Minute ELSE tokens + idle * rpm

\* tokenBucket.grant before it takes anything; a new bucket is full.
Refilled(rpm) ==
  IF tokens = NoBucket THEN rpm * Minute
  ELSE IF idle > 0 THEN Least(tokens + idle * rpm, rpm * Minute) ELSE tokens

\* Entries of the last minute stay, the request itself is added.
Dispatched == [a \in 0..Minute |-> recent[IF a = Minute THEN Minute - 1 ELSE a] + 1]

Sleeps(c, d) == wait' = [wait EXCEPT ![c] = d] /\ UNCHANGED <<pc, recent>>

Admits(c) ==
  /\ pc' = [pc EXCEPT ![c] = "send"]
  /\ recent' = Dispatched
  /\ UNCHANGED wait

\* One round of acquire's loop, under the limiter's lock.
Acquire(c) ==
  /\ pc[c] = "acquire" /\ wait[c] = 0
  /\ LET rpm == EffectiveRPM  have == Refilled(rpm) IN
     \/ /\ hold > 0
        /\ Sleeps(c, hold)
        /\ UNCHANGED <<tokens, idle>>
     \/ /\ hold = 0 /\ rpm = 0
        /\ Admits(c)
        /\ UNCHANGED <<tokens, idle>>
     \/ /\ hold = 0 /\ rpm > 0 /\ have >= Minute
        /\ Admits(c)
        /\ tokens' = have - Minute /\ idle' = 0
     \/ /\ hold = 0 /\ rpm > 0 /\ have < Minute
        /\ Sleeps(c, (Minute - have + rpm - 1) \div rpm)
        /\ tokens' = have /\ idle' = 0
  /\ UNCHANGED <<attempt, key, err, streamed, issued, shown, answer, asked, hold, learned, since429, pool>>

-----------------------------------------------------------------------------
(* The client: pickKey, the request, penalize *)

Free(k) == parked[k] = 0
FromNext(i) == (next + i) % Keys

\* KeyPool.Get: the next key that is not cooling down, else the first of those
\* that recover soonest; next is then back where it was.
Draw(k) ==
  \/ \E i \in KeySet : /\ k = FromNext(i) /\ Free(k)
                       /\ \A j \in 0..(i - 1) : ~Free(FromNext(j))
                       /\ next' = (next + i + 1) % Keys
  \/ /\ \A j \in KeySet : ~Free(j) /\ parked[k] <= parked[j]
     /\ \A j \in 0..(k - 1) : parked[k] < parked[j]
     /\ UNCHANGED next

\* CreateEmbedding sends the configured key, which is the first of the pool.
Send(c) ==
  /\ pc[c] = "send"
  /\ pc' = [pc EXCEPT ![c] = "flight"]
  /\ \/ /\ c \in Embedders
        /\ key' = [key EXCEPT ![c] = 0]
        /\ UNCHANGED <<next, drawn>>
     \/ /\ c \notin Embedders
        /\ \E k \in KeySet : /\ Draw(k)
                             /\ key' = [key EXCEPT ![c] = k]
                             /\ drawn' = [key |-> k, free |-> Free(k)]
  /\ UNCHANGED <<attempt, wait, err, streamed, issued, shown, answer, asked, limiter, parked>>

\* A delta of a streamed answer reaches the caller through the wrapped callback.
Stream(c) ==
  /\ pc[c] = "flight" /\ c \notin Embedders /\ ~streamed[c]
  /\ streamed' = [streamed EXCEPT ![c] = TRUE]
  /\ shown' = [shown EXCEPT ![c] = @ \cup {attempt[c]}]
  /\ UNCHANGED <<pc, attempt, wait, key, err, issued, answer, asked, limiter, pool>>

\* What CreateEmbedding makes of the answer: a failed status is a plain error,
\* which no layer above can tell from a bad request.
Reported(c, o) ==
  IF c \in Embedders /\ o.kind \in {"limited", "daily", "fault"}
  THEN [kind |-> "broken", hint |-> 0] ELSE o

\* penalize parks the key of a throttled or rejected chat request.
Penalize(c, o) ==
  IF c \notin Embedders /\ o.kind \in {"limited", "daily", "denied"}
  THEN parked' = [parked EXCEPT ![key[c]] = IF o.hint > 0 THEN o.hint ELSE Cooldown]
  ELSE UNCHANGED parked

\* The answer arrives. Once deltas came the status was 200: the stream can
\* only end or break.
Respond(c) ==
  /\ pc[c] = "flight"
  /\ \E o \in Outcomes :
       /\ streamed[c] => o.kind \in {"ok", "fault", "broken"}
       /\ pc' = [pc EXCEPT ![c] = "observe"]
       /\ err' = [err EXCEPT ![c] = Reported(c, o)]
       /\ Penalize(c, o)
       /\ answer' = [answer EXCEPT ![c] = o.kind]
       /\ asked' = [asked EXCEPT ![c] = o.hint]
  /\ UNCHANGED <<attempt, wait, key, streamed, issued, shown, limiter, next, drawn>>

-----------------------------------------------------------------------------
(* The limiter's observe, then the retry loop *)

\* Seeded fault: a later 429 with a shorter wait ends the hold earlier.
HoldReplaced(hint) ==
  /\ since429' = 0
  /\ hold' = IF hint > 0 THEN hint ELSE DefaultHold
  /\ learned' = 1

LearnFrom429(hint) ==
  LET rate == Most(recent[Minute], 2) \div 2
  IN /\ since429' = 0
     /\ hold' = Most(hold, IF hint > 0 THEN hint ELSE DefaultHold)
     /\ learned' = IF learned = 0 THEN rate ELSE Least(learned, rate)

\* After two clean minutes a success raises the learned rate by a tenth, and
\* drops it when it is past the release rate and nothing is configured.
Restore ==
  LET raised == learned + Most(learned \div 10, 1) IN
  learned' = IF learned > 0 /\ since429 > 2 * Minute
             THEN IF RPM = 0 /\ raised >= Release THEN 0 ELSE raised
             ELSE learned

\* backoff: exponential, no less than Retry-After, then a quarter more or less.
Backoffs(c) ==
  LET grown == Least(BaseDelay * 2 ^ (attempt[c] - 1), MaxDelay)
      d == Most(grown, err[c].hint)
  IN ((3 * d) \div 4)..((5 * d + 3) \div 4)

\* An attempt that has shown output is not made again.
MayRetry(c) ==
  err[c].kind \in Transient /\ ~streamed[c] /\ attempt[c] < MaxAttempts

Observe(c) ==
  /\ pc[c] = "observe"
  /\ CASE err[c].kind \in {"limited", "daily"} -> LearnFrom429(err[c].hint)
       [] err[c].kind = "ok" -> Restore /\ UNCHANGED <<hold, since429>>
       [] OTHER -> UNCHANGED <<hold, learned, since429>>
  /\ \/ /\ MayRetry(c)
        /\ pc' = [pc EXCEPT ![c] = "backoff"]
        /\ \E d \in Backoffs(c) : wait' = [wait EXCEPT ![c] = d]
     \/ /\ ~MayRetry(c)
        /\ pc' = [pc EXCEPT ![c] = "done"]
        /\ UNCHANGED wait
  /\ UNCHANGED <<attempt, key, err, streamed, issued, shown, answer, asked, tokens, idle, recent, pool>>

NextAttempt(c) ==
  /\ pc[c] = "backoff" /\ wait[c] = 0
  /\ pc' = [pc EXCEPT ![c] = "acquire"]
  /\ attempt' = [attempt EXCEPT ![c] = @ + 1]
  /\ streamed' = [streamed EXCEPT ![c] = FALSE]
  /\ UNCHANGED <<wait, key, err, issued, shown, answer, asked, limiter, pool>>

\* The caller's context ends while the call sleeps or is in flight.
Cancel(c) ==
  /\ pc[c] = "flight" \/ (pc[c] \in {"acquire", "backoff"} /\ wait[c] > 0)
  /\ pc' = [pc EXCEPT ![c] = "done"]
  /\ err' = [err EXCEPT ![c] = Stopped]
  /\ wait' = [wait EXCEPT ![c] = 0]
  /\ UNCHANGED <<attempt, key, streamed, issued, shown, answer, asked, limiter, pool>>

Tick ==
  /\ wait' = [c \in Calls |-> Elapse(wait[c])]
  /\ asked' = [c \in Calls |-> Elapse(asked[c])]
  /\ hold' = Elapse(hold)
  /\ since429' = Least(since429 + 1, 2 * Minute + 1)
  /\ idle' = IF tokens = NoBucket THEN 0 ELSE Least(idle + 1, Minute)
  /\ recent' = [a \in 0..Minute |-> CASE a = 0 -> 0
                                      [] a = Minute -> recent[Minute]
                                      [] OTHER -> recent[a - 1]]
  /\ parked' = [k \in KeySet |-> Elapse(parked[k])]
  /\ UNCHANGED <<pc, attempt, key, err, streamed, issued, shown, answer, learned, tokens, next, drawn>>

Step(c) ==
  Acquire(c) \/ Send(c) \/ Respond(c) \/ Observe(c) \/ NextAttempt(c)

Next == Tick \/ \E c \in Calls : Issue(c) \/ Step(c) \/ Stream(c) \/ Cancel(c)

Spec == Init /\ [][Next]_vars

\* Time goes on, goroutines run, and every request is answered or times out
\* (DefaultTimeout).
FairSpec == Spec /\ WF_vars(Tick) /\ \A c \in Calls : WF_vars(Step(c))

-----------------------------------------------------------------------------
(* Properties *)

CallStates == {"idle", "acquire", "send", "flight", "observe", "backoff", "done"}

TypeOK ==
  /\ pc \in [Calls -> CallStates] /\ attempt \in [Calls -> 1..MaxAttempts]
  /\ wait \in [Calls -> Nat] /\ key \in [Calls -> KeySet]
  /\ err \in [Calls -> Outcomes \cup {NoError, Stopped}]
  /\ streamed \in [Calls -> BOOLEAN] /\ issued \in [Calls -> 0..MaxIssues]
  /\ hold \in Nat /\ learned \in Nat /\ since429 \in 0..(2 * Minute + 1)
  /\ tokens \in Nat \cup {NoBucket} /\ idle \in 0..Minute
  /\ recent \in [0..Minute -> Nat]
  /\ parked \in [KeySet -> Nat] /\ next \in KeySet
  /\ answer \in [Calls -> {"none"} \cup {o.kind : o \in Outcomes}]
  /\ shown \in [Calls -> SUBSET (1..MaxAttempts)] /\ asked \in [Calls -> Nat]
  /\ drawn \in [key : KeySet, free : BOOLEAN]

\* What a caller is shown of a streamed answer comes from one attempt, and the
\* attempt that is returned is that one (retry.go:367, "otherwise retrying would
\* replay streamed chunks to the UI").
ShownOnce ==
  \A c \in Calls : /\ \A a, b \in shown[c] : a = b
                   /\ err[c].kind = "ok" => shown[c] \subseteq {attempt[c]}

\* An attempt after a 429 goes out no sooner than the provider asked for, whatever
\* the jitter of the back-off and the answers other calls had in the meantime
\* (ratelimit.go:14, "backed-off retries also respect ... the hold window").
ThrottleHintHonoured ==
  \A c \in Calls :
    pc[c] = "send" /\ attempt[c] > 1 /\ err[c].kind = "limited" => asked[c] = 0

\* The same of every answer with a Retry-After (retry.go:17, "honors the server's
\* Retry-After header").
RetryAfterHonoured ==
  \A c \in Calls : pc[c] = "send" /\ attempt[c] > 1 => asked[c] = 0

\* No stretch of time sees more requests than a full bucket and what refills in it,
\* through all that the limiter learns and forgets of the rate.
PaceIsKept ==
  RPM > 0 =>
    \A a \in 0..(Minute - 1) : recent[a] * Minute <= RPM * Minute + a * RPM

\* A call of these that ends in a transient failure has used all its attempts, unless
\* it had shown output or was cancelled.
RetriesOf(callers) ==
  \A c \in callers :
    pc[c] = "done" /\ err[c] # Stopped /\ answer[c] \in Transient /\ shown[c] = {}
      => attempt[c] = MaxAttempts

\* So do calls of a chat (retry.go:15, "Retryable: HTTP 429, 5xx, and network errors").
ChatIsRetried == RetriesOf(Calls \ Embedders)

\* And embeddings (retry.go:308, "with retries").
TransientIsRetried == RetriesOf(Calls)

\* Requests spread over the pool: after one on a free key the next takes another,
\* unless every other key is cooling down (keypool.go:13, "parks it for a cooldown
\* and serves the next").
KeysTakeTurns ==
  [][\A c \in Calls :
       Send(c) /\ c \notin Embedders /\ drawn.free /\ key'[c] = drawn.key
         => \A k \in KeySet \ {drawn.key} : parked[k] > 0]_vars

\* Every call returns, throttled or not: no sleep and no retry goes on for ever.
CallsReturn ==
  \A c \in Calls : pc[c] = "acquire" ~> pc[c] = "done"
=============================================================================
