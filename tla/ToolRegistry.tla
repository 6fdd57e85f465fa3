---------------------------- MODULE ToolRegistry ----------------------------
(***************************************************************************)
(* Tool calls: DispatchAll, dispatchOne and Execute of                     *)
(* tools/tools/registry.go with the circuit breaker of                     *)
(* tools/tools/breaker.go.                                                 *)
(*                                                                         *)
(* A batch of calls runs concurrently, a few at a time, and every result   *)
(* goes to the slot of its call. Clients of the HTTP surface execute single*)
(* tools beside it. All of them share one breaker per tool. Tool outputs   *)
(* are abstracted to success or failure; a timed-out handler, a nil result *)
(* and a failed command are all failures.                                  *)
(***************************************************************************)
EXTENDS Naturals, FiniteSets, Sequences

CONSTANTS
  Sigs,         \* call signatures: a tool with its arguments
  Tools,        \* tool names
  ToolOf,       \* the tool of a signature
  MaxBatch,     \* bound of the model: tool calls in one model answer
  Slots,        \* capacity of DispatchAll's semaphore (5 in the code)
  Threshold,    \* breakerDefaultThreshold (3)
  BaseBackoff,  \* breakerDefaultBaseBackoff, in ticks
  MaxBackoff,   \* breakerDefaultMaxBackoff, in ticks
  Clients,      \* concurrent callers of Execute
  Idle          \* a client with no call in flight

ASSUME SigsAssumption == ToolOf \in [Sigs -> Tools] /\ Idle \notin Tools
ASSUME BatchAssumption == MaxBatch \in Nat \ {0} /\ Slots \in Nat \ {0}
ASSUME BreakerAssumption ==
  /\ Threshold \in Nat \ {0} /\ BaseBackoff \in Nat \ {0}
  /\ MaxBackoff \in Nat /\ BaseBackoff <= MaxBackoff

VARIABLES
  fails,    \* consecutiveFails of each tool, no further than the threshold
  backoff,  \* the tool's next quarantine
  left,     \* time left of the tool's quarantine, 0 when there is none
  batch,    \* the calls of the model's last answer
  call,     \* where each call of the batch is
  client,   \* the tool each client is running
  failedRuns \* history: handlers of the tool that failed since one succeeded

breakerVars == <<fails, backoff, left, failedRuns>>
registryVars == <<breakerVars, batch, call, client>>

Positions == 1..MaxBatch
CallStates == {"none", "waiting", "admitted", "running", "ok", "failed"}
NoCalls == [i \in Positions |-> "none"]
Batches == UNION {[1..n -> Sigs] : n \in Positions}

Least(a, b) == IF a <= b THEN a ELSE b

CallTool(i) == ToolOf[batch[i]]
Holding == {i \in Positions : call[i] \in {"admitted", "running"}}
BatchDone == \A i \in 1..Len(batch) : call[i] \in {"ok", "failed"}

-----------------------------------------------------------------------------
(* The breaker *)

\* allow: not quarantined, or the quarantine is over.
Allows(t) == left[t] = 0

\* recordSuccess forgets everything about the tool.
RecordSuccess(t) ==
  /\ fails' = [fails EXCEPT ![t] = 0]
  /\ backoff' = [backoff EXCEPT ![t] = BaseBackoff]
  /\ left' = [left EXCEPT ![t] = 0]
  /\ failedRuns' = [failedRuns EXCEPT ![t] = 0]

\* recordFailure: from the threshold on, every failure starts a quarantine of
\* the current back-off and doubles the next one.
CountFailure(t) ==
  LET trips == fails[t] + 1 >= Threshold IN
  /\ fails' = [fails EXCEPT ![t] = Least(@ + 1, Threshold)]
  /\ left' = [left EXCEPT ![t] = IF trips THEN backoff[t] ELSE @]
  /\ backoff' = [backoff EXCEPT ![t] = IF trips THEN Least(2 * @, MaxBackoff) ELSE @]

RecordFailure(t) ==
  /\ CountFailure(t)
  /\ failedRuns' = [failedRuns EXCEPT ![t] = Least(@ + 1, Threshold)]

\* What a handler's end does to the breaker. A panic is recovered above
\* dispatchOne and Execute and never reaches it.
Outcome(t, how) ==
  \/ how = "ok" /\ RecordSuccess(t)
  \/ how = "failed" /\ RecordFailure(t)
  \/ how = "panic" /\ UNCHANGED breakerVars

-----------------------------------------------------------------------------
(* DispatchAll and dispatchOne *)

StartBatch(b) ==
  /\ batch' = b
  /\ call' = [i \in Positions |-> IF i <= Len(b) THEN "waiting" ELSE "none"]

\* A goroutine of the batch takes a place in the semaphore. It keeps it while
\* the permission gate asks, until the call has its result.
Admit(i) ==
  /\ call[i] = "waiting"
  /\ Cardinality(Holding) < Slots
  /\ call' = [call EXCEPT ![i] = "admitted"]
  /\ UNCHANGED <<breakerVars, batch, client>>

\* The call is turned away: an unknown tool, bad arguments, the read-only rule,
\* the permission gate or a hook. Seeded fault: the breaker hears of it.
RefuseAndCount(i) ==
  /\ call[i] = "admitted"
  /\ call' = [call EXCEPT ![i] = "failed"]
  /\ CountFailure(CallTool(i))
  /\ UNCHANGED <<failedRuns, batch, client>>

Refuse(i) ==
  /\ call[i] = "admitted"
  /\ call' = [call EXCEPT ![i] = "failed"]
  /\ UNCHANGED <<breakerVars, batch, client>>

\* The breaker short-circuits a call of a quarantined tool.
ShortCircuit(i) ==
  /\ call[i] = "admitted"
  /\ ~Allows(CallTool(i))
  /\ call' = [call EXCEPT ![i] = "failed"]
  /\ UNCHANGED <<breakerVars, batch, client>>

StartHandler(i) ==
  /\ call[i] = "admitted"
  /\ Allows(CallTool(i))
  /\ call' = [call EXCEPT ![i] = "running"]
  /\ UNCHANGED <<breakerVars, batch, client>>

\* The handler returns, times out or panics.
FinishHandler(i) ==
  /\ call[i] = "running"
  /\ \E how \in {"ok", "failed", "panic"} :
       /\ Outcome(CallTool(i), how)
       /\ call' = [call EXCEPT ![i] = IF how = "ok" THEN "ok" ELSE "failed"]
  /\ UNCHANGED <<batch, client>>

-----------------------------------------------------------------------------
(* Execute, the surface without a batch *)

ClientStarts(c, t) ==
  /\ client[c] = Idle
  /\ Allows(t)
  /\ client' = [client EXCEPT ![c] = t]
  /\ UNCHANGED <<breakerVars, batch, call>>

ClientEnds(c) ==
  /\ client[c] # Idle
  /\ \E how \in {"ok", "failed", "panic"} : Outcome(client[c], how)
  /\ client' = [client EXCEPT ![c] = Idle]
  /\ UNCHANGED <<batch, call>>

\* Time passes for every quarantine.
Tick ==
  /\ \E t \in Tools : left[t] > 0
  /\ left' = [t \in Tools |-> IF left[t] > 0 THEN left[t] - 1 ELSE 0]
  /\ UNCHANGED <<fails, backoff, failedRuns, batch, call, client>>

RegistryInit ==
  /\ fails = [t \in Tools |-> 0] /\ failedRuns = fails /\ left = fails
  /\ backoff = [t \in Tools |-> BaseBackoff]
  /\ batch = <<>> /\ call = NoCalls
  /\ client = [c \in Clients |-> Idle]

CallStep(i) ==
  Admit(i) \/ Refuse(i) \/ ShortCircuit(i) \/ StartHandler(i) \/ FinishHandler(i)

ClientStep(c) == ClientEnds(c) \/ \E t \in Tools : ClientStarts(c, t)

RegistryStep ==
  \/ \E i \in Positions : CallStep(i)
  \/ \E c \in Clients : ClientStep(c)
  \/ Tick

-----------------------------------------------------------------------------
(* Properties *)

RegistryTypeOK ==
  /\ fails \in [Tools -> 0..Threshold] /\ failedRuns \in [Tools -> 0..Threshold]
  /\ backoff \in [Tools -> BaseBackoff..MaxBackoff]
  /\ left \in [Tools -> 0..MaxBackoff]
  /\ batch \in Batches \cup {<<>>}
  /\ call \in [Positions -> CallStates]
  /\ \A i \in Positions : call[i] = "none" <=> i > Len(batch)
  /\ client \in [Clients -> Tools \cup {Idle}]

\* Only handlers that ran and failed put a tool in quarantine, as many of them
\* as the threshold says and none of them followed by a success: calls that
\* were refused, short-circuited or panicked never do, whatever the order in
\* which the calls of a batch and of other clients end (registry.go:458
\* "validation + permission pass, so those never trip the breaker").
QuarantineIsEarned ==
  \A t \in Tools : left[t] > 0 => failedRuns[t] >= Threshold

=============================================================================
