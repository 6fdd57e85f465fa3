# A verification project for DarkCode

TLA+ models of the parts of DarkCode whose correctness depends on the order of
steps of several actors: the chat turn and its plan gate, the execution of
planned task graphs, the ReAct loop over the tool registry, the approval of tool
calls, undo, the local model server, the overrides one request makes to
settings all requests share; and around these the calls of cloud models, the
stores and the index that keep themselves on disk, the requests of browser and
editor, and the processes the agent talks to: language servers, tool servers and
plugins.
TLC checks each model on a small instance. The TLA+ proof system (TLAPS) proves
the invariants for every value of the constants. Line numbers refer to the
repository at the commit in `src/`.

## 1. The system

DarkCode is a coding agent in Go. A surface (CLI, HTTP server, ACP) hands a
request to `uiport.Manager.Execute`, which applies the request's overrides and
calls the kernel. The kernel answers directly, runs the ReAct loop, or plans a
task graph and executes it with sub-agents. Loop and sub-agents call tools
through the registry, which asks the permission gate first. Results go to the
memory stores.

| part | state it keeps | operations | hard part | what makes it correct |
|---|---|---|---|---|
| Plan execution (`kernel/orchestrator`: dag_executor, execlog, repair, contract; `kernel/dag`, `kernel/plan`) | runtime DAG, plan graph, journal file, checkpoint id | execute graph, replay, verify, repair, roll back, record | failure of one task of a wave, cancellation, crash and resume, rollback against journal | order of tasks; a failure blocks its dependents and nothing else; replay only what is on disk; statuses follow evidence; it ends |
| Permission gate (`infra/permission`) | level, session decisions, counters; pending questions | Check, ask, SetLevel, ResetSession; Approve, Resolve, CancelAll | concurrent checks, two timeouts, answers that come late, cancelled turns | no call needing consent goes through without it; a refusal sticks; no check hangs |
| Request overrides (`kernel/orchestrator/kernel.go`) | depth and base of three settings on router and gate | apply, restore, model reload | overlapping requests, setter outside the lock | the configured value comes back |
| Chat turn and plan approval (`surfaces/server/chat_handler.go`, `kernel_execute.go`, `plan_gate.go`) | pending plan, last executed plan, project documents | chat, propose, approve, reject, revise, corrective passes, save | overlapping turns; the program's own corrective goals taken for the user's words | what runs is what was approved, once; a proposal is not built behind the user's back; documents and graphs stay with their project |
| Undo (`memory/checkpoint`, short-term memory, `Kernel.RollbackTo`) | log of 100 entries, blobs, conversation | snapshot, diff, rollback, compaction | files change while they are listed and read, rollback fails half-way, window slides, conversation compacted, crash | an undo is complete and can be undone; the conversation goes back with the files |
| ReAct loop (`kernel/loop`) | budgets, counts of repeated failures, last verdict | think, act, observe, check, evaluate, critique | many exits with their own conditions | every run ends; what it reports agrees with the last check |
| Tool registry (`tools/tools/registry.go`, `breaker.go`) | slots of a batch, one breaker per tool | dispatch of a batch, single calls | semaphore, panics, time-outs, one breaker for everybody | a tool is quarantined only for failures of its own |
| Embedded server (`model/provider/embedded`) | process, state, wait channel, health loop | start, stop, health loop, restart | crash during restart, stop after a failed start | one supervised server; a crash is noticed; the lock comes back |
| Model clients (`model/llm`: retry, ratelimit, client, keypool) | token bucket, learned rate, hold, cooldowns of keys | acquire, send, observe, retry, draw a key | what one caller learns of the rate holds for all; jitter and hints; a call cancelled in a sleep | no output twice; nothing sooner than the provider allows; every call returns |
| Debounced writer and memory stores (`memory/memory/writer.go`, `system.go`) | dirty flag, timer; entries, vectors on their way | mark, flush, FlushNow, Shutdown; add, remove, backfill | timers, flushes and Shutdown at once; failed writes; vectors that come late | what was marked reaches the disk; a vector is of its entry |
| Ingest (`memory/ingest/auto.go`, `tools/intelligence/watcher.go`, `surfaces/server/autoingest.go`) | manifest, hashes, chunks | walk, pass over changed files, prune, forget | overlapping passes, restarts, several workspaces in one store | the index at rest holds each file as it is |
| Chat requests (`surfaces/server`: idempotency, progress_deadline, chat_handler) | keys, the slots of the stop button and of progress events | post, replay, abort, stop, time out | slots shared by overlapping turns; panics; retries | a key runs once and is never wedged; only silence is taken for a hang |
| ACP agent (`surfaces/acp`) | sessions, cancelled marks, requests waiting for the editor | session/new, load, prompt, cancel; permission requests | a goroutine per prompt beside the reader; late answers; an editor that leaves | only what the editor allowed; a prompt is always answered |
| Terminal between CLI and GUI (`cmd/darkcode/app_gui.go`, `surfaces/server/session.go`) | event streams, grace timer, switch channel | connect, disconnect, button, grace period | tabs that reload or outlive a turn, callbacks that wait for the mutex | a turn of the GUI ends by its own signal; a closed browser gives the terminal back |
| Language servers (`tools/intelligence/lsp.go`) | server of a language, pending requests, diagnostics | call, read loop, Shutdown | start races, a server that ends, garbles or hangs in any step | answers reach their callers; nobody waits for a dead server |
| Tool sources (`tools/tools/sources.go`, `registry.go`) | sources, entries of the registry, client processes | add, connect, disconnect, remove | operations on one source at once; names two sources share | what is off-line is gone; what is listed can be called |
| Plugins (`tools/plugin/host.go`, `tools/tools/extension.go`) | loaded plugins, their pipes | Load, Execute, Shutdown | calls that share a pipe; plugins that hang | each call has its own answer; no process is left |
| Router, recall, context, providers, debugger, console | prompts, rankings, files | sequential per request | numeric heuristics, text, I/O | outside TLC's reach or without interleaving |

Components interact by direct calls, with three kinds of shared state: the
workspace (written by agents, snapshotted and restored by checkpoints, vouched
for by the journal), the router and the gate (written by requests, read by
tool calls), and the stores. `PROJECT.json` lists every component with its
files and what is left out of it, and the hazards of the code at their lines.

How the modules are composed: `AgentLoop` extends `ToolRegistry`, so the loop and
the clients of the HTTP surface drive one registry. `ChatTurns` composes the chat
handler with `Kernel.Execute` and the plan gate, `SessionUndo` the checkpoints
with the short-term memory and `Kernel.RollbackTo`. `PlanRun` implements
`TaskGraph` (`PlanRunRefinement`). `MemoryStore` extends `StoreWriter` with the
store that marks it dirty, `ChatRequests` is the shell around the turns of
`ChatTurns`. `MCSurfaces` has instances of `ChatRequests`, `AcpAgent`, `GuiSession`
and `AutoIngest`, `MCServices` of `LanguageServer`, `ToolSources`, `PluginHost` and
`ModelCalls`; `MCEnds` extends both. The components of one of these modules share no
state in the code either, so a behaviour of the instance is one of a single
component, named by the variable `surface` or `service`, and the others rest.
Each other `MC` module is the instance TLC checks,
each `Proofs` module the theorems about the module it is named after; `SurfacesProofs`
has those about `StoreWriter`, `MemoryStore` and the components of `MCSurfaces`,
`ServicesProofs` those about `EmbeddedServer` and the components of `MCServices`.

## 2. The modules

### PlanRun — execution of a planned graph

One goal is attempted up to `MaxAttempts` times. `pc` is the place in
`executePlannedGraph` / `executeDAG`.

| code | model |
|---|---|
| snapshot, `NewExecJournal`, `loadPrevious` (dag_executor.go:32, execlog.go:52-99) | `BeginAttempt` with `OpenJournal` |
| head of the loop, replay (dag_executor.go:152-191) | `PickWave`, `LeaveLoop` |
| `ExecuteAll` (subagent.go:629) | `AgentReturns`, `WaveEnds` |
| the record loop, `CancelDescendants` (dag_executor.go:238-267, dag.go:253) | `RecordResult` |
| `Finish` (execlog.go:175) | `FinishAppend`, `FinishRemove` |
| error path, merge (dag_executor.go:39-90) | `ReturnPartial`, `Merge` |
| `verifyContract`, `repairFailedAcceptance` | `VerifyContract`, `RepairRound`, `RepairEnds`, `Settle` |
| `recordOutcome` (dag_executor.go:106) | `RecordOutcome` |
| the user, the machine | `Cancel`, `Crash`, `Restart` |

`file` is the journal as `loadPrevious` would read it, not its lines, and `journal`
says what came of opening it: it was read, it was cut (it could not be opened, or not
be read to its end, so that part of it or nothing was found), or there is none, and
nothing is written either. A journal
write may be lost at any time (it is best-effort in the code), a failing agent
may leave part of its edits, a checkpoint and a rollback may fail, and a failed
rollback may have undone part of the edits. `tree` is the set of tasks whose
edits are in the workspace. Assumption named in the module: of the two halves
of `Finish`, the append and the removal, not both fail.

`TaskGraph` is what the user is promised of a graph, with none of the machinery:
tasks are completed in the order of their dependencies, a failure blocks in the
same step exactly the tasks that wait for it, and the graph goes to its checks
only with nothing left to do. `PlanRunRefinement` maps `status` to itself and
`pc` to three phases. The early return with partial results and a crash both
leave the attempt.

Left out: outputs and prompts of tasks; the graph itself is a constant, so a
goal that is planned differently the second time is not modelled (a hazard of
its own); two attempts at one goal at the same time; `/rollback` by the user
between attempts.

### PermissionGate — approval of a tool call

Each `Check` is a process; the approver goroutine of its question is another,
which the gate's timeout does not stop.

| code | model |
|---|---|
| `Check` up to the question (gate.go:363-462) | `CheckRuledOut`, `CheckAllows`, `CheckRefuses`, `CheckAsks` |
| `promptMu` and the second look at the session (gate.go:488-506) | `TakePrompt` |
| `askWithTimeout` and the switch on the verdict (gate.go:508-553) | `GateTakes`, `GateExpires` through `Record` |
| `ServerApprover.Approve` (server_gate.go:88) | `Register`, `ApproverTakes`, `ApproverExpires` |
| `Resolve`, `CancelAll` | `Resolve`, `CancelAll` |
| `SetLevel`, `ResetSession` | `SetLevel`, `ResetSession` |

What `classify`, the rules, the blast radius and the judge say of a call are
the constant sets `Dangerous`, `Ruled`, `Central` and `Judgeable`; the judge
may clear a call of `Judgeable` or not. A `Check` up to the question is one
step: it reads the level and the session's decisions once, in one critical
section (gate.go:409-426), and what comes before and after depends on
configuration alone. `said` (what the user really answered) and `seenLevel` are
history variables. Left out: the gate without an approver (the application
always installs one), `ModeApprover`, and the CLI prompt.

### RequestOverrides — settings a request overrides

`ApplyRequestOverrides` handles brain, mode and safety in that order, and its
restore function mode, safety, brain. For each the counter changes under
`overrideMu` (`CountIn`, `CountOut`) and the setter is called after the unlock
(`WriteOverride`, `WriteBase`). `ReloadModels` writes the mode without asking
the counters. `configured` is what the configuration last asked for; `raced`
records that a save or a reload fell between another request's count and its
write. Left out: loop and tool overrides, which travel in the context.

### ChatTurns — chat turns and the plan approval gate

A turn is one POST to the chat handler; any number may overlap, because only the
stop button's slot is exclusive, not the kernel. `pc[t]` is the place of turn t.

| code | model |
|---|---|
| `handleChat` up to Execute, documents of the project (chat_handler.go:96-271) | `Begin` |
| cost governor (kernel_execute.go:162) | `Refused` |
| `handlePendingPlan`, `classifyPlanDecision` (plan_gate.go:97-264) | `TakePending`, `NoPending`, `Approve`, `Reject`, `Revise` |
| the paths of `Execute` (kernel_execute.go:197-542) | `Answer`, `ProposePlan`, `StartPlan`, `PlanEnds` |
| `PlanAwaitingApproval`, `completeBuild` (chat_handler.go:309-413) | `AfterExecute`, `Correct` |
| workflow tick, `ConsumeApprovedPlan` (chat_handler.go:317-351) | `Finish`, `Conclude` |
| deferred `ClearProjectContext` (kernel_execute.go:41) | `Leave` |
| `pendingPlanTTL` | `Expire` |

A plan is a number and the user's reply one of three words. `Heard` is what
`classifyPlanDecision` makes of the reply: a corrective goal, and any message
behind the notes of its project, is too long to be a decision. `first`,
`offered`, `rejected`, `ranBy`, `home` and `overlapped` are history, kept only
while a property can still look at it. Left out: which path a text takes (the
model lets it take any), the cancel slot, and the text of a revision.

### SessionUndo — checkpoints, conversation and rollback

| code | model |
|---|---|
| `Manager.Snapshot`, `walk`, `putBlob` (checkpoint.go:111-222) | `List`, `ReadNext`, `Record`, with `Taken` and `Unlocked` |
| `Diff` (checkpoint.go:258-296) | `Compare`, `CompareNext`, `Differs`, `Deleted` |
| `Rollback`, `restore` (checkpoint.go:344-376, 455) | `Compared`, `GivesUp`, `RestoreFile`, `RestoreFails`, `RestoreEnds` |
| `RollbackFile` (checkpoint.go:429) | `RollbackFile` |
| `New` on the log (checkpoint.go:74), process death | `Restart` |
| `STMAdd`, `STMSetMax`, `STMCompress`, `STMTruncate`, `StartNewSession` (system.go:282-480) | `Say`, `STMSetMax`, `CompactionReplaces`, `Truncate`, `StartNewSession` |
| the model call of compaction (kernel_execute.go:234-264) | `CompactionReads`, `CompactionFails` |
| tools and the user's editor | `Edit` |

A snapshot lists the files without a lock, then holds `Manager.mu` while it reads and
stores one after another; a comparison lists and reads without any lock. Edits come
between any two of these steps. Several snapshots (`Batches`) and the one a rollback
takes may be under way; one at a time reads. `putBlob` writes in
place and is skipped when the blob exists, so a write that
was cut off leaves a blob that is taken for whole: `torn`. `aligned` is history:
the checkpoints whose `Turn` still counts the messages it counted when it was
taken. The stat and the read of one file are one step. Left out: the (size, mtime)
cache, files that cannot be read, the cap of 2000 messages of the transcript,
`STMClear`.

### ToolRegistry and AgentLoop — the ReAct loop on its tools

`ToolRegistry` has the calls of one batch, each waiting for one of `Slots` (5)
places, and clients that execute single tools beside it. A handler that returns
moves the breaker of its tool: `fails`, `backoff` and `left` are
`consecutiveFails`, the next quarantine and what is left of the current one. A
time-out and a failed command are failures; a panic is recovered above the
breaker and never reaches it, and refusals (unknown tool, bad arguments,
permission, hooks, an open breaker) count nothing.

`AgentLoop` is `ReActLoop.run`: `HeadStops` and `HeadContinues` (loop.go:456-475,
823-849), `ThinkFails`, `ThinkAnswers`, `ThinkActs`, then the batch,
`ObserveSuccess` and `ObserveFailure` one result at a time (loop.go:782-821),
and for an answer without tool calls `Verify`, `CheckContract`, `NoContract`,
`SelfEvaluate`, `Critique` and `Answer`. Models, checks and critics answer
arbitrarily. Left out: how the conversation is assembled and trimmed, streaming,
and the contents of results.

### EmbeddedServer — the local model server

The actors are the user's calls (`LoadModel` and `UnloadModel`, serialised by
`Provider.mu`), one restart per reported crash, a reaper and a health loop per
process. `holder` and `at` are `ProcessManager.mu` held through the two long
waits: of `Start` for health, of `Stop` for the exit.

| code | model |
|---|---|
| `Start`, `waitForReady` (manager.go:183-321, 393) | `StartRefused`, `StartBreaks`, `Launch`, `Ready`, `NotReady`, `ReapedAfterFailure` |
| the reaper (manager.go:286) | `Reap` |
| `healthLoop`, `reportCrash` (manager.go:329-386) | `WatchEnds`, `SeesExit`, `Tick`, `Poll`, `ReportCrash` |
| `Stop` (manager.go:519-550) | `BeginStop`, `StopSeesExit`, `StopKills` |
| `LoadModel`, `UnloadModel` (embedded_stub.go:408-441, 591) | `Call`, `CheckLoaded` |
| `attemptRestart` (embedded_stub.go:258-295) | `BeginRestart`, `StartFailed`, `StartSucceeded` |
| llama-server, `exec.CommandContext` | `Lives`, `KilledByContext` (external) |

A process loads, hangs, recovers and dies when it likes. `waitDone` and
`healthStop` name the channel a field points at, so a stale or nil channel is
visible, and closing one twice sets `panicked`. Left out: the generation
counter and the clients it invalidates, warm-up, launch options, downloads and
the resource governor.

### ModelCalls — calls of a cloud model

`WrapCloud` puts the retrying client around the rate limiter around the client
with its pool of keys. A call goes through `acquire`, `send`, `flight`,
`observe` and back-off; embeddings skip retries (`Reported`).

| code | model |
|---|---|
| `acquire`, the bucket (ratelimit.go:63-182) | `Refilled`, `Dispatched`, `Sleeps`, `Admits`, `Acquire` |
| `observe`, learning and forgetting a rate | `LearnFrom429`, `Restore`, `Observe` |
| `ChatCompletion` of the retrying client, `IsRetryable`, back-off (retry.go) | `Issue`, `Transient`, `MayRetry`, `Backoffs`, `NextAttempt` |
| `KeyPool.Get`, `Penalize` (keypool.go:59) | `Free`, `Draw`, `Penalize` |
| the client and the provider | `Send`, `Stream`, `Respond` (any outcome, any `Retry-After`) |

Time is discrete: `Tick` moves every delay on by one unit. The minute is two
units, so a bucket refills between two steps. `recent` is the pruned list of
dispatches, counted by age: how many of its entries are no older than each age, and
at `Minute` all of them, which is what learning from a 429 reads. Left out: the bucket of tokens per
minute (no caller configures it), the answer cache, windows and usage records.

### StoreWriter and MemoryStore — what reaches the disk

A job is one run of `flush`: of the timer, of `FlushNow` or of `Shutdown`. Its
steps are those between the locks of writer.go: `Flush`, `Take` (the flag),
`Serialize` (under the store's lock), `Write` or `WriteFails`. `MarkDirty` is two
steps, `SetDirty` and `Arm`, inside the store's lock that `Change` takes. The
contents are a version number. `overlapped` records that two flushes were ever at
work at once; `unretried` that a write failed and no timer was armed since.

MemoryStore adds keyed entries and the vectors computed beside them: `SemanticAdd`
and `SemanticRemove` are changes, `Embedded` fills a vector in under the key, and
`Shutdown` is three steps: it is called (`CallShutdown`), its wait for the embeddings
under way returns (`WaitReturns`), and the writer's `Shutdown` begins; entries and
embeddings come between them.

### LanguageServer — a client of a language server

Callers run the lsp tool; `App` shuts the program down; each server has a loop
that reads its output.

| code | model |
|---|---|
| `serverFor`, `startServer` | `LockClient`, `Look`, `Launch`, `CannotLaunch`, `GiveUp`, `Install` |
| `call`, `notify`, `write` | `Check`, `Register`, `Send`, `Write`, `Receive`, `Timeout`, `Drop` |
| `openFile`, diagnostics | `Open`, `Poll`, `StoreDiagnostics` |
| `readLoop`, `markClosed` | `Read`, `Deliver`, `Respond`, `LoopEnds`, `MarkClosed` |
| `Shutdown`, `close` | `Shutdown`, `Close` |
| the server behind its pipes (external) | `ServerReads`, `ServerSends`, `ServerFaults` |

A pipe holds `Pipe` messages, so that a write to a server that does not read
blocks with the server's mutex held, as in the code.

### ChatRequests — the request around a turn

| code | model |
|---|---|
| idempotency.go | `Begun`, `Evicted`, `Completed`, `Aborted`, in `Post`, `TurnAway`, `Settle` |
| the handler around the turn (chat_handler.go) | `Open`, `Publish`, `Return`, `ClearCancel`, `Close` |
| progress_deadline.go | `Emit`, `Reset`, `OutOfTime`, `Stuck`, `Leave` |
| the stop endpoint | `Stop` |

A tick is some minutes; the steps of a handler around its turn take no time, the
turn takes any. `Idle` and `TTL` are equal in the code (ten minutes) and nearly
so in the runs; `Hard` is larger.

### AutoIngest — an index that keeps itself current

`Attach` is the first use of a workspace: the `Auto` loads the manifest and begins
a full pass, the watcher begins to look. `Scan` is a walk of the watcher that
found changed files. A pass takes file after file: `Take` (read, hash, compare),
`Store` chunk by chunk, `Prune`, `Record`, and at the end `ForgetMissing` and
`Finish`, which saves the manifest. `Flush` is the store's writer (StoreWriter);
`End` is the end of the process at any step, with the last write of the store or
without. Passes overlap, over one file too, and files are written, deleted and
created again at any time. Contents have one chunk or two.

Two history variables name what auto.go does not guard against. `crossed` are files
that two passes had in hand with different contents, that were forgotten while they
were there or in hand, that another workspace's pass forgot or saved over, or whose
chunks an end of the process lost. `dropped` are files deleted under an `Auto` that no
pass has found missing yet: the watcher does not look for those. Left out: empty,
binary and oversized files, and the limit of files of a pass.

### AcpAgent — the agent behind an editor

| code | model |
|---|---|
| `Serve`, `handle` (acp.go:109-260) | `Serve` with `NewSession`, `LoadSession`, `CancelSession`, `StartPrompt`, `Deliver`; `StreamEnds`, `ServeReturns` |
| `prompt` (acp.go:262-316) | `Enter`, `Activate`, `Executed`, `Conclude`, `Leave` |
| `RequestPermission`, `call` (permission.go:73-155) | `Address`, `Register`, `SendAsk`, `TimesOut`, `Resume`, `Answered` |
| the editor (external) | `EditorSends`, `EditorPrompts`, `EditorAnswers`, `EditorLeaves` |

The editor sends lines in any order, answers any request once or never, and reads
what it is sent.

### ToolSources — tools that come and go

An operator is a request to the API or a console command. Nothing is locked from
one step to the next.

| code | model |
|---|---|
| `Add`, `Connect` (sources.go:106-208) | `Add`, `Look`, `Mark`, `Finish`, `Fail` |
| `connectMCPStdio`, `connectMCPHTTP` | `Spawn`, `Initialize`, `List`, `Fails` with `GivenUp` |
| `registerMCPTools`, `Register` | `Resolve` with `NameFor`, `Put` |
| `Disconnect`, `UnregisterBySource`, `Remove` | `Find`, `Unregister` with `Withdrawn`, `Close`, `Clear`, `Delete` |
| `dispatchOne` | `Fetch`, `Run` |

An id is added once. Any operation may begin at any time, on a source that another
works on or that is connected already; `tangled` records the sources where that
happened. Left out: how a request travels to an MCP server, tool files.

### PluginHost — plugins behind pipes

`Load` at startup and `Shutdown` hold the host's mutex through their calls;
`Execute` holds nothing during its own (`Execute`, `Write`, `Read`, `Returns`).
A plugin answers in order (`Serve`), or ends, hangs, or prints a line of its own.
Two readers of one `bufio.Reader` are a data race: the loser may also find a line
it cannot parse (`Rivals`).

### GuiSession — who has the terminal

| code | model |
|---|---|
| the loop of app.go, `RunGUI`, `RunCLI` | `SwitchToGUI`, `Drain`, `Receive` |
| `SetGUIActive` (session.go:94) | `Arm`, `Disarm` |
| `handleSSE`, `Subscribe` | `Opens`, `Closes` |
| `onSSEConnect`, `onSSEDisconnect` and its timer (session.go:121-168) | `Connects`, `Disconnects`, `Expires`, `Decides`, `Signals` |
| `handleSwitchCLI` | `Button` |

A timer that has run out (`Expires`) waits for `guiMu` as long as it likes before it
`Decides`: tabs, buttons and whole turns come between, and `Decides` looks again for a
subscriber and clears `guiGrace` whatever it holds by then, as session.go:155 does.
`back` are the timers that ran when a tab came back, `lost` those `guiGrace` was cleared
of while they ran. Left out: a GUI that another
process serves, where RunGUI waits for Enter instead.

### Seeded faults

Each module holds a few operators marked `Seeded fault` that no specification
uses. `PROJECT.json` pairs each with the definition it would replace and the
property that then fails, which shows that the property depends on the code it is
about.

## 3. What the runs show

| run | instance | shows |
|---|---|---|
| `plan_run` | four tasks T1 <- T2 <- T3 and T4, one checkable, two repair rounds, three attempts, journals read, cut or missing; 980,333 states | `BlockedByFailureOnly`, `JournalledWorkIsOnDisk`, `GreenTickHasNoFailingProof`, `NoTaskPaidTwice`, `AttemptEnds`, and that PlanRun implements `TaskGraph` |
| `permission_gate` | two checks, five calls (leaf write, central write, judgeable command, harmless read, banned command); 216,333 states | `ConsentBehindEveryRisk`, `RefusalSticks`, `EveryCheckDecides` |
| `request_overrides` | two requests, two values per setting, one reload, symmetric in the requests; 607,793 states | `BaseKeptOutsideTheWindow`, `SavedBaseIsConfigured` |
| `overrides_leak` | two requests, no reload | violated: an override outlives all requests (section 6) |
| `chat_turns` | four turns over a project with notes, one without and none; the third may begin beside another; two plans, one corrective pass, `always` and `auto`; 839,000 states | `ApprovedAsOffered`, `DecisionsAreFinal`, `ProposalTurnsDoNotBuild`, `SavedGraphIsOwn` |
| `session_undo` | two files, one content, snapshots of a batch and of the rollback, a window of one checkpoint and of two messages, two checkpoints, two events; 2,149,143 states | `RollbackRestores`, `UndoPointSurvives`, `RewoundConversation` |
| `agent_loop` | two calls of one tool, batches of two with one place, one client beside, two acting turns, two corrections; 797,906 states | `QuarantineIsEarned`, `ResultAgreesWithContract`, `LoopEnds` |
| `embedded_server` | two models, three processes, two calls, two missed checks, two attempts of a restart; 555,000 states | `SupervisedUnlessGivenUp`, `CrashIsNoticed`, `ManagerIsReleased` |
| `memory_store` | two jobs of flush, two changes, one FlushNow, one failing write, two texts of one entry, Shutdown at any time; 718,366 states | `NoWakeUpLost`, `LoneShutdownSavesAll`, `AwaitedVectorsAreSaved` |
| `surfaces` | two requests with one key; two prompts and two permission requests of one session; two tabs, two timers, three turns of the GUI; a file with contents of one chunk or two, two passes at a time, three edits, one end of the process; 885,982 states | `RequestsAreSettled`, `RetriesAreReplayed`, `TurnsEndForCause`, `EditorDecides`, `GuiIsPatient`, `IndexIsCurrent` |
| `services` | two callers of one language server; two sources, two operators, two processes, a tool they share a name with the program's; two plugins; two model calls of two attempts through one limiter of two requests a minute; 1,102,095 states | `AnswersReachTheirCaller`, `HandshakeFirst`, `SourcesAreWhole`, `NothingIsLeft`, `ProviderIsHeeded`, `PaceIsKept` |
| `ends` | smaller instances of the components of the two before, under fairness; 123,326 states | `NobodyIsLeftWaiting` |

The invariants of `surfaces` and `services` are conjunctions of those of one
component, its type invariant included, so that one run asks one question of a
component whatever the number of ways to break it.

The type invariants and the other invariants the models state (`DepthCountsHolders`,
`CompletedAfterDeps`, `NoDagDeadlock`, `ResultsMatchStatuses`,
`QuestionsAccountedFor`, `UnverifiedOnlyWhenBudgetSpent`, `NudgedBeforeAbort`,
`NothingSaidIsLost`, `GuidanceIsOwn`, `SavedWhenQuiet`) are proved for all values
of the constants (section 4) and need no run.

Bounds. A chain of three beside a lone task gives waves of two, direct and
indirect dependents of a failure, and a task no failure may block; the third
attempt is the first that can replay what a resumed attempt wrote. Two checks
are enough for one to wait for the prompt while the other is answered, which
every property of the gate is about; with two requests there is one that saves
while the other restores.

In `chat_turns` a third turn that begins beside another gives every pair of
overlapping steps, and a turn before and one after show what the pair leaves
behind; two plans are a proposal and its successor. `Late`, `NumTurns`,
`MaxPlans` are bounds of the model, `MaxPasses` stands for the code's 2. In
`session_undo` the window of one checkpoint slides with the second, which is the
rollback's own snapshot or one of a batch that comes beside it; a conversation of two
is trimmed by a summary, and by a smaller window; an event is an edit by others, a
compaction, a new session or window, a restart or a file restored alone. Two files are
one that is read and one still on the list.

In `agent_loop` nudge and abort come after one and two failures
(3 and 4 in the code) so that both fall within the two acting turns; two calls of
one tool share its breaker but not their counts. In `embedded_server` three
processes are a server, the one a restart starts and the one a swap starts.

In `memory_store` two jobs are a flush that is at work and one that comes in its
way, two changes one that is taken and one that is not. In `surfaces` a second
request is the retry of the first, or a turn that takes its slots; two prompts
and two permission requests are one to be answered and one to be confused with it;
a third turn of the GUI hears what the first left; with two timers the callback of one
meets the other; three edits change, delete and bring back a file before, in and after
a pass, and two passes are the first `Sync` and the first tick of the watcher. Two
workspaces and several files are left to the proofs.

In `services` the pipe holds one message,
so that a write can block; a second plugin fails while the first is called; with
a bucket of two requests and a minute of two ticks the rate that a 429 teaches is
below the configured one and comes back. Two operators and three operations are two
that overlap on one source and one after, or a repeated connect. `Offers` are the lists
of tools a source may answer with, a hint is 0 or 2 ticks.
`ends` leaves out what is known to hang: a
language server or plugin that stops reading or answering, and a tab left open from
the turn before.
All these bounds are instances of constants the proofs leave open.

Runs switch deadlock checking off because the models do end: attempts, checks,
requests, edits and calls are bounded, and a program that was shut down does
nothing more.

Fairness. `plan_run` assumes weak fairness of `Executor` as a whole: Go
schedules a runnable goroutine, and agents and acceptance commands run under
deadlines. Nothing is assumed of the user, of crashes or of success.
`permission_gate` assumes that `promptMu` is handed to a waiting check and that
the gate's timer fires; the approver and the user may stay silent for ever.
`agent_loop` assumes that the loop goes on (model calls have a deadline) and
that each call of a batch does (a handler's context expires after 120 s); nothing
is assumed of cancellation, of time or of other clients. `embedded_server`
assumes that the goroutines of the manager and the provider run, that timers fire
and that a killed process dies; nothing is assumed of a process that is not
killed or of who calls. After a panic the program is gone, so fairness ends
there. `ends` states the fairness of each component for itself: time passes and
timers fire; a handler goes through the steps around its turn, and a turn whose
context was cancelled returns; the agent behind the editor reads, and the editor
closes the stream some day but owes no answer; goroutines of the GUI, the language
server client, the plugin host and the model client run; a server that has not
ended reads. Nobody has to press a button, close a tab, or answer a question. No
liveness is claimed of chat turns, undo, tool sources, the index and request
overrides: they end when models, tools and users let them.

## 4. What is proved

Eight modules of proofs cover every invariant and action property of the passing
runs, and the refinement, for all values of the constants under the modules'
assumptions. Each component has one inductive invariant, a conjunction of
named parts; a lemma per part shows that every action keeps it. What the assumptions
say of the code: marks such as `Nobody` are nobody's name, an id that `Add` makes is
not "builtin", a goroutine that reads is not one that calls, and limits are positive
where the code's are.

PlanRun. Assumed: dependencies are tasks of the graph and every non-empty set
of tasks has one that depends on none of it (what `Validate` checks through
`Waves`; that a graph is finite is used only to count steps). `GraphInv` strengthens the properties
of the runtime DAG: a task is in `processed` exactly when it is not pending; a
task that ran had all dependencies completed; failure spreads to all direct
dependents; a wave consists of ready tasks; what is cancelled has a failed
task above it. That nothing ready means nothing pending then follows from
acyclicity applied to the set of pending tasks: its least member has only
completed dependencies, for a failed or cancelled one would have cancelled it.
`JournalInv` is the journal's part: a finished journal offers nothing to
resume; while the loop runs, a task the journal holds is in `memDone` or was
processed; from `merge` on the journal holds nothing, which is what makes the
rollback harmless; a successful reply of the wave is in `tree`, and so is
everything the journal holds.

`AttemptsAreBounded` is why an attempt ends: `StepsLeft` is a number that every
step of the attempt makes smaller (`EveryStepIsPaidFor`) and only a new attempt
makes larger, at most `4 * Cardinality(Nodes) + 2 * MaxRepairRounds + 9`. A task
still to be dispatched counts a wave, an answer and a record, which covers the
wave that is replayed whole and sends the loop back to its head (`HeadIsClear`:
nothing dispatched is left there); a repair round costs two, its verification
included.

That PlanRun implements `TaskGraph` needs the same invariant: a wave's tasks are
startable because of `GraphInv`, and the recursive cancellation of descendants
is one abstract failure because what it adds is exactly the closed set of tasks
that wait for the failed one. A step maps to a step or a stutter, by cases on
`Next`; the step that begins an attempt and the crash need the two ways statuses
may be dropped.

ChatTurns. The key part is `Alone`: a turn that is not marked as overlapping is
the only one at work, so what it read from the kernel is still there.
`HeardAsOffered` then carries what the user was offered from the request to the
decision. `DecidedOnce` needs `PlansNumbered` (a plan that ran or was rejected
is not pending and never will be again, because plans are numbered as they are
made). For `SavedGraphIsOwn`, `LastOwned` says who owes the last executed plan
its place: it is left over, or the turn that ran it is still on its way to
saving it.

SessionUndo. `Numbered` (checkpoints have consecutive numbers, in memory and in
the log) gives that a snapshot drops the undo's entry only when the window has
passed it, and that two entries with one number are the same. `SnapOK` says that one
snapshot at a time reads files and that what it has read so far has its blobs; when it
is recorded that is the new entry. `HalfRestored` says of every file that nobody else
touched what it contains while the rollback compares, takes its snapshot and restores:
a file still on the list exists, and one that was compared and is not to be undone, or
was restored, has the content of the checkpoint. `TurnsCount`
says that the `Turn` of an aligned checkpoint still counts the first messages and
that all of them were said before it; it is what `RewoundConversation` follows
from. That nothing said is lost has one exception, `STMSetMax`, which the history
`session` takes out. `UndoKept` also speaks of the log alone, since a restart makes it
the state in memory.

AgentLoop. `BreakerInv` says that a quarantined tool has reached the threshold and that the
count is that of real failures in a row; the place
of the loop in a batch (`PlaceInv`) bounds the counters of repeated failures,
and a nudge that was written is read before the next batch starts.
`RunsAreBounded` is why a run ends: `StepsLeft` adds up what the rounds and corrections
that are left are worth (a round at most `MaxBatch + 5` steps) and the place in the round
(`PlacesLeft`). A step either moves to a later place or pays for another round (`Nearer`),
also where a rejected answer sends the loop back. While a batch is at work the loop waits;
`CallsGoForward` says that its calls, at most three steps each, never go back.

EmbeddedServer. `InHand`: until a server is given up, the only process started
and not reaped is the one in the manager's hand, and its channel is the one the
manager waits on; closed channels are exactly those of reaped processes.
`Watched` keeps health loops below their limit and to processes that became
healthy. `SupervisedUnlessGivenUp` follows; without the premise it is false, as
the run shows when it is dropped (section 6).

PermissionGate. The counters need that the prompter is the one check whose
`pc` is `prompt`. Consent needs `QuestionOrder` (a question is pending before
it is answered, and an allow on the channel or on its way to the gate is the
user's own answer) and `AllowedByUser` (every tool in `allowed` has a check
whose user said so): both survive a new session because answers are never
withdrawn from the history.

RequestOverrides. `Control` says where a request can be: at its first setting
and not writing outside `apply` and `restore`, and writing only settings it
overrides. `depth` equals the cardinality of the set of holders, which needs
`Requests` finite and, per action, that exactly the acting request enters or
leaves that set. The base needs `SavedBaseIsConfigured` for the holders and
`WritersBringBase` for the last override out: unless `raced`, the base it is
about to write is the configured value.

Memory stores. `Shape` says where a job can be and what it read. `LoneInv` holds until
two flushes overlap: a store that is not dirty is on disk or in the one flush at work
(`Kept`), and what Shutdown owes stays covered by the flag, the data its flush holds or
the file (`Owing`). The store adds `WaitShape`: what has landed when Shutdown marks the
store is part of what it owes. A step of the store is one of the writer, so the writer's
lemmas are used as they are.

GuiSession. `GuiTimers`: an armed timer that was not lost is the one in `guiGrace`, and
the GUI has the terminal; a timer that ran when a tab came back was stopped or is lost;
what is on the channel while the loop waits was sent in this turn.
AcpAgent. `InputIsSound`: a line of the editor is what it could send, each prompt once;
`CancelIsTold`: a prompt that works in a cancelled session was itself told so.
ChatRequests. `YoungKeysRunOnce` and `RepliesAreKept`: while its requests are young a key
has one run, in flight as long as that is, and an answer is kept for the time to live;
`LatestIsHeard`: the channel of progress is the latest turn's, and what its timer has
left and the silence so far make at least the whole.

AutoIngest. The invariant speaks of every file that was not crossed, and needs no
assumption on how passes are scheduled. `FileIsIndexed`: the index holds what the file's
own workspace remembers of it, or the passes that have the file in hand all read one
content and the slots they have stored are of that one, the others of the remembered
one (`Replaces`), which lets any number of them store, prune and record in any order.
`FileIsAhead`: what is on disk is remembered, or in hand, or before a pass or the
watcher. `FileIsGone`: a file that was gone before its `Auto` came is forgotten, or the
first pass has that still to do.

EmbeddedServer and the services are in `ServicesProofs`. PluginHost: `AppHolds` (who
loads or shuts down holds the mutex) and `AliveIsHeld` (a plugin that is alive is in
the map or at its handshake).

ToolSources. Three of the four parts of `SourcesAreWhole` are about every source
(`SourcesAreNotMixedUp`): tools of the program keep their names, a tool, a client and a
call under way have a process that was started for their source, and what is registered
has not been closed. `NamesInv` has the types and whose process an operator has in hand.
`HandsAreApart` is what keeps overlapping operations from closing each other's work: until a
connect has handed its process to the source nobody else has it, a disconnect closes only
what a source was handed, and by then the connect that registered it is over, so that
what was withdrawn cannot come back. The fourth, that an off-line source has neither tool
nor process, is about the sources that are not `tangled`, beside others that are.
`SourcesAreSound` says for every step of an operator what such a source holds, and that
no second operator is at it; `LeavesSound` is its frame: a step at one source
leaves the others as they are.

ModelCalls. `CallRecords`, `ShownByOne` (one attempt has shown output), `HintIsHeld` (the
wait is at least the hint) and `EndsWithAnswer` give `ProviderIsHeeded`, whose retries
are those of chat calls: for an embedding `TransientIsRetried` is false (section 6). The
pace needs a reason of its own, since no step of the limiter looks at it. `PaceHeld`: what
was dispatched in any last ticks, together with the credit that is left, is within a full
bucket and what those ticks refill. The credit (`Credit`) is the tokens and what the idle
ticks since the last refill are worth, at most a full bucket. `RefillIsWithinCredit`: a
refill adds no more than they are worth. A dispatch takes from the credit what it adds to
the count; a tick moves every count to the age above. `PaceIsAlwaysKept` follows for any
rate, minute and number of callers. `DrawsTakeTurns` proves the action property
`KeysTakeTurns`, which no run checks: `TurnFollows` says that the pool looks next at the
key after the one it drew last, and once around, modulo the number of keys, the drawn key
comes last (`OnceAround`).

LanguageServer. `LspInv` comes in layers, since messages pass six hands between the
caller and its answer. Above the types, `WriterHolds`: who writes to a server holds its
mutex, and nobody closes it meanwhile. `IdsAreOwn`: of everything that carries an id at
a server - entries of `pending`, requests of callers, messages in either pipe, what the
server owes, what its loop has in hand - two with one id are of one caller. Each step
only passes such tokens on (`Grows`, `NoNewID`) but `Check`, whose id exceeds them all.
With it `MailIsOwn` says that what a channel holds is of the request that waits on it,
and `RequestsAreHeard` that a request is registered or has its answer: a delivery
takes an entry and fills the channel in one step, `markClosed` does so for all, and the
removal after a time-out cannot hit another's entry. `ServersAreAnnounced`: a server in
the map, or one a caller uses, has read the end of its handshake or has it in its
input, unless it is closed or dead, and any message that asks for something comes after; `InputMoves` lists what can happen
to that input. `AnswersReachTheirCaller` and `HandshakeFirst` follow.

Only model-checked: `AttemptEnds`, `EveryCheckDecides`, `LoopEnds`, `CrashIsNoticed`,
`ManagerIsReleased` and `NobodyIsLeftWaiting`, since liveness under fairness is outside
what the installed provers do. For `AttemptEnds` and `LoopEnds` the part that is no matter
of fairness is proved, with explicit bounds (`AttemptsAreBounded`, `RunsAreBounded`); no
run checks the variants.

## 5. Not modelled

- Router, recall, context, plan construction, self-healing: scores, prompts and
  text, one request at a time. The router's mode is state of RequestOverrides, a
  plan is a constant of PlanRun. How wide a wave is (`resolveConcurrency`).
- Providers, debugger, attachments, the console, configuration: formats, files and
  terminals, with a mutex or one goroutine each; their effects appear as arbitrary
  outcomes of the modelled components.
- The request protocol of an MCP client below one step per request, the bucket of
  tokens per minute, the episodic and the graph store (the semantic one stands for
  the writers of all three), two attempts at one goal over one journal file.
- Of the modelled components, what their sections above leave out.

By lines most of the repository is text, prompts, adapters and wiring, about which
a model would repeat the code.

## 6. Where code and comments part

The run `overrides_leak` finds that an override can outlive all requests:
`request_state.go:11` promises that "the router and gate return to their configured
base", and the restore writes it back after the unlock, where another request may
already have saved the override as its base.

The modules state a promise of the repository also where the code does not keep it,
as a property that no run and no theorem claims. Each was met while modelling, and
the model has a behaviour that breaks it.

| promise | code | stated as |
|---|---|---|
| "Repair rounds are exhausted and the graph is still provably broken" (repair.go:107) | the loop above also ends on cancellation (repair.go:59), and the run is rolled back all the same | `RevertOnlyAfterRepairExhausted` |
| a run with unfinished tasks "must not read as a clean success" (dag_executor.go:71) | `recordOutcome` looks at the runtime DAG, which repair never touches (dag_executor.go:106) | `SuccessWasVerified` |
| "A structurally central file is escalated even under permissive settings" (gate.go:404) | `ask` reads the session cache again without that condition (gate.go:497) | `CentralWriteIsAsked` |
| "A refusal sticks for the session, but only when the user actually refused" (gate.go:518) | `CancelAll` answers with a plain Deny (server_gate.go:171) | `DenialMeansRefusal` |
| back-off "honors the server's Retry-After header" (retry.go:17) | the jitter comes after the maximum and may be negative (retry.go:495) | `RetryAfterHonoured` |
| CreateEmbedding works "with retries" (retry.go:308) | a failed status becomes a plain error that nothing retries (client.go:391) | `TransientIsRetried`, with an embedding caller |
| "Re-mark dirty so we retry on next interval" (writer.go:118) | the flag is set and no timer is armed (writer.go:127) | `FailedWriteIsRetried` |
| Shutdown is there "to avoid data loss" (writer.go:86) | it does not wait for a flush at work (writer.go:96) | `ShutdownSavesAll` |
| FlushNow is for "durability guarantees" (writer.go:166) | another flush can have taken the flag and not written yet (writer.go:110, 176) | `FlushNowIsDurable` |
| an entry's vector is filled in "when it arrives" (system.go:521) | by key alone: an entry that was stored again gets the old text's vector (system.go:649) | `VectorIsOfItsEntry` |
| "A wedged language server must degrade to the AST path, never hang the agent" (lsp.go:36) | a write has no deadline and holds the server's mutex (lsp.go:366-371) | `HungServerHangsNobody` |
| "Shutdown stops every running server" (lsp.go:109) | of two servers started at once the first is overwritten (lsp.go:152) | `ShutdownStopsAll` |
| Diagnostics "returns the problems the language server reports" (lsp.go:569) | those of an earlier version are not dropped (lsp.go:586) | `DiagnosticsAreCurrent` |
| a retried POST "must not re-execute it" (idempotency.go:12) | an entry in flight is evicted after ten minutes (idempotency.go:79), turns run up to two hours | `RetryNeverReexecutes` |
| "the deadline resets on evidence of progress" (progress_deadline.go:14) | one channel: a later turn takes it away (progress_deadline.go:91) | `ProgressIsNotStuck` |
| the CancelFunc is published "for the stop endpoint to call" (progress_deadline.go:134) | an older turn that ends clears the slot of a newer one (chat_handler.go:195) | `StopReachesATurn` |
| Auto keeps "ingested knowledge current" (auto.go:51) | passes overlap (auto.go:229), a crash leaves a manifest without its chunks (auto.go:180), one manifest serves all workspaces (auto.go:253), a pass that only forgets is not saved (auto.go:233) | `KeepsCurrent`, of the files in `crossed` too |
| "the unit of work is a file whose CONTENT changed" (auto.go:18) | the first tick of the watcher comes beside the first `Sync`, and both embed what neither has recorded (auto.go:149-175, 210-231) | `EmbedsOnce` |
| a file that is gone is dropped (auto.go:197) | the watcher never reports one (watcher.go:89) | `DeletedIsForgotten`, of the files in `dropped` too |
| both indexes "share a watcher" (autoingest.go:8) | it looks at .go files only (watcher.go:93) | `EveryChangeIsSeen` |
| cancelled lets a prompt "report that it was cancelled" (acp.go:46) | its goroutine clears the mark when it starts (acp.go:273) | `CancelIsReported` |
| "session/cancel exists to interrupt a prompt" (acp.go:127) | it sets a mark (acp.go:237) | `CancelInterrupts` |
| a permission request goes to "the editor UI that asked for the work" (acp.go:52) | prompts of two sessions share one slot (acp.go:288) | `AskedWhereItRuns` |
| "When disconnected, those tools are removed and the underlying connection/process is closed" (sources.go:18) | a second connect, or one that is waiting, leaves them (sources.go:199-202) | `DisconnectedIsClean` |
| a taken name is prefixed "to keep both callable" (sources.go:254) | looked up and registered in two critical sections (sources.go:256) | `ListedIsCallable`, with two operators |
| Register "Panics if the name is already taken" (registry.go:95) | it overwrites (registry.go:100) | `TakenStaysTaken` |
| tools of a disconnected source "are no longer callable" (registry.go:108) | the handler may already have been fetched (registry.go:483) | `DisconnectedIsNotCalled` |
| "call sends a JSON-RPC request and reads the response" (host.go:138) | two calls read each other's lines, ids are not compared (host.go:150) | `AnswerIsOwn` |
| "A hung plugin is bounded by the registry's own per-tool timeout" (extension.go:208) | nothing returns before the plugin answers (extension.go:209, host.go:125) | `EveryCallEnds`, `ShutdownEnds`, with a plugin that hangs |
| closing the browser no longer leaves the CLI hung (server.go:87) | it does when the tab was open before `/gui` (session.go:138) | `ClosedBrowserResumes`, with `Leftovers` |

Others are visible in the models as a premise or an exception of a property.

- `StartNewSession` empties the window of messages and leaves the transcript
  (system.go:369-385), while the comment on clearing promises an isolated
  session (system.go:342).
- "always means always" (kernel_execute.go:479): a plan that cannot be made is
  replaced by direct execution without review (kernel_execute.go:520-523).
- A corrective pass is an Execute like any other: with a plan pending it is heard
  as feedback and revises the plan (chat_handler.go:310, 385). So is a plain
  "yes" in a project with notes, which come before it in the message
  (plan_gate.go:104): `Heard`.
- Two turns can both take a plan before the first decision is carried out, and
  then both run it: `DecisionsAreFinal` excepts overlapping turns.
- `Stop` after a failed `Start` waits on a nil channel with the lock held
  (manager.go:545): the exception of `ManagerIsReleased`.
- The context of a restart is cancelled as soon as its `Start` returned, which
  kills the process it started, which is reported as a crash and restarted
  (embedded_stub.go:280), against "no silent infinite retry loop"
  (embedded_stub.go:256).
- A crash report that comes late hits the successor of the server it is about
  (manager.go:371-377, "safe regardless of which fires first"), and the reaper of
  a server that was given up may close its successor's channel, or a closed or
  nil one (manager.go:57, 287-290). Both are behind `givenUp`.
- Two passes that read one file at different times leave old or mixed chunks, with a
  hash that says otherwise (auto.go:163-175, 223-231), also when the file has come back
  to the content whose hash is known by the time the second looks. A chunk that was left
  behind so is never pruned, since its number is no longer remembered. A file created
  during the first pass and taken by the watcher is forgotten at its end, as the walk
  did not see it (auto.go:253). All of these are in `crossed`.
- A journal that cannot be opened, or read to its end, is taken for what was read of it
  (execlog.go:71-80): the tasks behind the cut are done again, so that
  `NoTaskPaidTwice` speaks of journals that were read. A failure or a `run_finished`
  behind the cut is not seen either; that corner the model leaves out.
- `STMSetMax` drops messages without writing them to the transcript (system.go:418-425),
  where `STMAdd` and compaction do (system.go:455). Only tests call it.
- The callback of a grace timer clears `guiGrace` whichever timer it holds
  (session.go:152-164): the other runs on, beside the CLI or beside a tab that has come
  back, and its signal may end a later turn of the GUI (`lost`).
- A source that is connected again keeps its first process, which nobody closes any more
  (sources.go:202); one that is disconnected while it connects is registered after
  (sources.go:199). Both are in `tangled`.
- `UnloadModel` during the back-off of a restart: the unloaded model is started.

## 7. Plan

1. Two attempts at one goal at the same time over one journal file, and a goal
   planned differently the second time.
2. The generation counter and the clients of the embedded server, warm-up.
3. RequestOverrides as an implementation of a register with a base value.
