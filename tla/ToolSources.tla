----------------------------- MODULE ToolSources -----------------------------
(***************************************************************************)
(* Tool sources that come and go at run time: SourceManager                *)
(* (tools/tools/sources.go) with the registry it publishes into            *)
(* (tools/tools/registry.go), the processes behind mcp_stdio sources, and  *)
(* the calls of tools that are on their way meanwhile.                     *)
(*                                                                         *)
(* An operator is a request to the API of the server or a command of the   *)
(* console. The mutexes of the manager and of the registry are held for    *)
(* one step each; nothing holds them from one step to the next.            *)
(***************************************************************************)
EXTENDS Naturals, FiniteSets

CONSTANTS
  Sources,    \* ids
  Plain,      \* those without a process: mcp_http, internal, htp
  Tools,      \* names a tool has where it comes from
  Builtin,    \* those that are also names of tools of the program
  Offers,     \* bound of the model: sets of tools a source can list
  Operators,
  Callers,    \* goroutines that run a tool for the model
  Processes,  \* bound of the model: processes that can be started
  Nobody,
  MaxOps      \* bound of the model: operations

PlainAssumption == Plain \subseteq Sources /\ Builtin \subseteq Tools
\* The id of a source is not empty, as what the program's own tools have for one is:
\* here "builtin".
NobodyAssumption == Nobody \notin Sources \cup Processes \cup {"builtin"} /\ "builtin" \notin Sources
BoundsAssumption == MaxOps \in Nat /\ Offers \subseteq SUBSET Tools

\* A tool is registered by its own name or with the id of its source before it.
Names == Tools \X (Sources \cup {Nobody})
Entry(tool, s, c) == [tool |-> tool, source |-> s, client |-> c]
NoEntry == Entry(Nobody, Nobody, Nobody)

VARIABLES
  known,      \* keys of SourceManager.sources
  added,      \* ids that were ever in it
  status, listed, client,   \* Source.Status, Tools and client
  registry,   \* Registry.tools
  proc,       \* the processes
  owner,      \* the source each was started for
  pc, op, on, \* where an operator is, what it does, and to which source
  hand,       \* its process
  found,      \* tools it has yet to register
  names,      \* names it registered
  key,        \* tool and name it is about to register
  ops,
  call,       \* the entry each caller runs
  \* history
  tangled     \* sources that operations overlapped on, or that were connected again

manager == <<known, added, status, listed, client>>
world == <<proc, owner>>
past == <<ops, tangled>>
operator == <<pc, op, on, hand, found, names, key, past>>
vars == <<manager, registry, world, operator, call>>

Init ==
  /\ known = {} /\ added = {}
  /\ status = [s \in Sources |-> "disconnected"] /\ listed = [s \in Sources |-> {}]
  /\ client = [s \in Sources |-> Nobody]
  /\ registry = [n \in Names |-> IF n[1] \in Builtin /\ n[2] = Nobody
                                 THEN Entry(n[1], "builtin", Nobody) ELSE NoEntry]
  /\ proc = [c \in Processes |-> "unused"] /\ owner = [c \in Processes |-> Nobody]
  /\ pc = [o \in Operators |-> "idle"] /\ op = [o \in Operators |-> "none"]
  /\ on = [o \in Operators |-> Nobody] /\ hand = [o \in Operators |-> Nobody]
  /\ found = [o \in Operators |-> {}] /\ names = [o \in Operators |-> {}]
  /\ key = [o \in Operators |-> <<Nobody, Nobody>>]
  /\ ops = 0 /\ tangled = {} /\ call = [k \in Callers |-> NoEntry]

Go(o, where) == pc' = [pc EXCEPT ![o] = where]

\* The names a new connection begins with.
FreshNames(o) == {}

\* The operation is over.
Done(o) ==
  /\ Go(o, "idle")
  /\ op' = [op EXCEPT ![o] = "none"] /\ on' = [on EXCEPT ![o] = Nobody]
  /\ hand' = [hand EXCEPT ![o] = Nobody]
  /\ found' = [found EXCEPT ![o] = {}] /\ names' = [names EXCEPT ![o] = FreshNames(o)]
  /\ key' = [key EXCEPT ![o] = <<Nobody, Nobody>>]

Busy(s) == \E o \in Operators : on[o] = s

-----------------------------------------------------------------------------
(* What is asked *)

Add(s) ==
  /\ s \notin added
  /\ known' = known \cup {s} /\ added' = added \cup {s}
  /\ UNCHANGED <<status, listed, client, registry, world, operator, call>>

\* Nothing keeps operations on one source apart, nor what is connected from being
\* connected again.
Tangles(what, s) == Busy(s) \/ (what = "connect" /\ status[s] \in {"connected", "connecting"})

Begin(o, what, s) ==
  /\ pc[o] = "idle" /\ ops < MaxOps /\ s \in added
  /\ ops' = ops + 1
  /\ op' = [op EXCEPT ![o] = what] /\ on' = [on EXCEPT ![o] = s]
  /\ Go(o, IF what = "disconnect" THEN "find" ELSE "look")
  /\ tangled' = IF Tangles(what, s) THEN tangled \cup {s} ELSE tangled
  /\ UNCHANGED <<manager, registry, world, hand, found, names, key, call>>

\* Connect and Remove look the source up.
Look(o) ==
  /\ pc[o] = "look"
  /\ \/ on[o] \notin known /\ Done(o)
     \/ /\ on[o] \in known
        /\ Go(o, IF op[o] = "connect" THEN "mark" ELSE "find")
        /\ UNCHANGED <<op, on, hand, found, names, key>>
  /\ UNCHANGED <<manager, registry, world, past, call>>

-----------------------------------------------------------------------------
(* Connect *)

\* setSourceStatus
Marked(s, st) == status' = IF s \in known THEN [status EXCEPT ![s] = st] ELSE status

Mark(o) ==
  /\ pc[o] = "mark"
  /\ Marked(on[o], "connecting")
  /\ Go(o, IF on[o] \in Plain THEN "list" ELSE "spawn")
  /\ UNCHANGED <<known, added, listed, client, registry, world, op, on, hand, found, names,
                 key, past, call>>

Spawn(o) ==
  /\ pc[o] = "spawn"
  /\ \E c \in Processes :
       /\ proc[c] = "unused"
       /\ proc' = [proc EXCEPT ![c] = "running"] /\ owner' = [owner EXCEPT ![c] = on[o]]
       /\ hand' = [hand EXCEPT ![o] = c]
  /\ Go(o, "initialize")
  /\ UNCHANGED <<manager, registry, op, on, found, names, key, past, call>>

\* Close: killed, unless it has ended by itself.
Closed(c) ==
  IF c # Nobody /\ proc[c] = "running" THEN [proc EXCEPT ![c] = "killed"] ELSE proc

\* What becomes of a process whose handshake failed.
GivenUp(c) == Closed(c)

\* The process does not start, the handshake or the list fails.
Fails(o) ==
  /\ pc[o] \in {"spawn", "initialize", "list"}
  /\ proc' = GivenUp(hand[o])
  /\ Go(o, "fail")
  /\ hand' = [hand EXCEPT ![o] = Nobody]
  /\ UNCHANGED <<manager, registry, owner, op, on, found, names, key, past, call>>

Initialize(o) ==
  /\ pc[o] = "initialize" /\ proc[hand[o]] = "running"
  /\ Go(o, "list")
  /\ UNCHANGED <<manager, registry, world, op, on, hand, found, names, key, past, call>>

List(o) ==
  /\ pc[o] = "list" /\ (hand[o] # Nobody => proc[hand[o]] = "running")
  /\ \E offered \in Offers : found' = [found EXCEPT ![o] = offered]
  /\ Go(o, "register")
  /\ UNCHANGED <<manager, registry, world, op, on, hand, names, key, past, call>>

\* A name that another source has gets the id before it.
NameFor(tool, s) ==
  IF registry[<<tool, Nobody>>].source \notin {Nobody, s} THEN <<tool, s>> ELSE <<tool, Nobody>>

Resolve(o) == \E tool \in found[o] :
  /\ pc[o] = "register"
  /\ key' = [key EXCEPT ![o] = NameFor(tool, on[o])]
  /\ found' = [found EXCEPT ![o] = @ \ {tool}]
  /\ Go(o, "put")
  /\ UNCHANGED <<manager, registry, world, op, on, hand, names, past, call>>

\* Register overwrites what has the name.
Put(o) ==
  /\ pc[o] = "put"
  /\ registry' = [registry EXCEPT ![key[o]] = Entry(key[o][1], on[o], hand[o])]
  /\ names' = [names EXCEPT ![o] = @ \cup {key[o]}]
  /\ Go(o, "register")
  /\ UNCHANGED <<manager, world, op, on, hand, found, key, past, call>>

KeptClient(o) == hand[o]

\* Written to the source that was looked up, whatever has become of it.
Finish(o) ==
  /\ pc[o] = "register" /\ found[o] = {}
  /\ listed' = [listed EXCEPT ![on[o]] = names[o]]
  /\ client' = [client EXCEPT ![on[o]] = KeptClient(o)]
  /\ status' = [status EXCEPT ![on[o]] = "connected"]
  /\ Done(o)
  /\ UNCHANGED <<known, added, registry, world, past, call>>

Fail(o) ==
  /\ pc[o] = "fail"
  /\ Marked(on[o], "error")
  /\ Done(o)
  /\ UNCHANGED <<known, added, listed, client, registry, world, past, call>>

-----------------------------------------------------------------------------
(* Disconnect and Remove *)

Find(o) ==
  /\ pc[o] = "find"
  /\ \/ /\ on[o] \in known
        /\ hand' = [hand EXCEPT ![o] = client[on[o]]]
        /\ Go(o, "unregister")
        /\ UNCHANGED <<op, on, found, names, key>>
     \/ /\ on[o] \notin known /\ op[o] = "disconnect"
        /\ Done(o)
     \/ /\ on[o] \notin known /\ op[o] = "remove"
        /\ Go(o, "delete")
        /\ UNCHANGED <<op, on, hand, found, names, key>>
  /\ UNCHANGED <<manager, registry, world, past, call>>

\* Seeded fault: the tools stay.
StillThere(s) == registry

\* UnregisterBySource
Withdrawn(s) == [n \in Names |-> IF registry[n].source = s THEN NoEntry ELSE registry[n]]

Unregister(o) ==
  /\ pc[o] = "unregister"
  /\ registry' = Withdrawn(on[o])
  /\ Go(o, "close")
  /\ UNCHANGED <<manager, world, op, on, hand, found, names, key, past, call>>

Close(o) ==
  /\ pc[o] = "close"
  /\ proc' = Closed(hand[o])
  /\ Go(o, "clear")
  /\ UNCHANGED <<manager, registry, owner, op, on, hand, found, names, key, past, call>>

Clear(o) ==
  /\ pc[o] = "clear"
  /\ client' = [client EXCEPT ![on[o]] = Nobody]
  /\ listed' = [listed EXCEPT ![on[o]] = {}]
  /\ status' = [status EXCEPT ![on[o]] = "disconnected"]
  /\ \/ op[o] = "disconnect" /\ Done(o)
     \/ /\ op[o] = "remove" /\ Go(o, "delete")
        /\ hand' = [hand EXCEPT ![o] = Nobody]
        /\ UNCHANGED <<op, on, found, names, key>>
  /\ UNCHANGED <<known, added, registry, world, past, call>>

Delete(o) ==
  /\ pc[o] = "delete"
  /\ known' = known \ {on[o]}
  /\ Done(o)
  /\ UNCHANGED <<added, status, listed, client, registry, world, past, call>>

-----------------------------------------------------------------------------
(* Processes and calls *)

ProcessEnds(c) ==
  /\ proc[c] = "running"
  /\ proc' = [proc EXCEPT ![c] = "exited"]
  /\ UNCHANGED <<manager, registry, owner, operator, call>>

\* dispatchOne takes the entry, then asks the permission gate, then runs the handler.
Fetch(k) == \E n \in Names :
  /\ call[k] = NoEntry /\ registry[n].source \in Sources
  /\ call' = [call EXCEPT ![k] = registry[n]]
  /\ UNCHANGED <<manager, registry, world, operator>>

Run(k) ==
  /\ call[k] # NoEntry
  /\ call' = [call EXCEPT ![k] = NoEntry]
  /\ UNCHANGED <<manager, registry, world, operator>>

ConnectSteps(o) ==
  \/ Mark(o) \/ Spawn(o) \/ Fails(o) \/ Initialize(o) \/ List(o) \/ Resolve(o) \/ Put(o)
  \/ Finish(o) \/ Fail(o)
DisconnectSteps(o) ==
  Find(o) \/ Unregister(o) \/ Close(o) \/ Clear(o) \/ Delete(o)

Next ==
  \/ \E s \in Sources : Add(s)
  \/ \E o \in Operators, what \in {"connect", "disconnect", "remove"}, s \in Sources :
       Begin(o, what, s)
  \/ \E o \in Operators : Look(o) \/ ConnectSteps(o) \/ DisconnectSteps(o)
  \/ \E c \in Processes : ProcessEnds(c)
  \/ \E k \in Callers : Fetch(k) \/ Run(k)

Spec == Init /\ [][Next]_vars

-----------------------------------------------------------------------------
(* Properties *)

\* Every variable keeps to its values; an operator is busy with a source or idle.
TypeOK ==
  /\ known \subseteq added /\ added \subseteq Sources
  /\ status \in [Sources -> {"disconnected", "connecting", "connected", "error"}]
  /\ listed \in [Sources -> SUBSET Names] /\ client \in [Sources -> Processes \cup {Nobody}]
  /\ proc \in [Processes -> {"unused", "running", "exited", "killed"}]
  /\ owner \in [Processes -> Sources \cup {Nobody}]
  /\ \A o \in Operators : (on[o] = Nobody) <=> pc[o] = "idle"
  /\ \A o \in Operators : pc[o] \notin {"register", "put"} => found[o] = {} /\ names[o] = {}
  /\ ops \in 0..MaxOps /\ tangled \subseteq Sources

Clean(s) ==
  /\ \A n \in Names : registry[n].source # s
  /\ \A c \in Processes : owner[c] = s => proc[c] # "running"
Disconnected(s) == ~Busy(s) /\ (s \notin known \/ status[s] = "disconnected")

\* A source that is off-line, or could not be connected, has no tool in the registry
\* and no process left running; of a source that is tangled nothing is said.
OfflineIsClean == \A s \in Sources \ tangled :
  Disconnected(s) \/ (~Busy(s) /\ status[s] = "error") => Clean(s)

\* Whatever is registered was not closed: a tool goes before its process does.
RegisteredIsOpen ==
  \A n \in Names : registry[n].client # Nobody => proc[registry[n].client] # "killed"

\* No source takes the name of a tool of the program, not even between two lookups.
BuiltinsStay == \A tool \in Builtin : registry[<<tool, Nobody>>].source = "builtin"

\* Sources are not mixed up: a registered tool, the client a source keeps and the tool
\* a caller runs have a process that was started for their source (sources.go:170, 240),
\* whatever operations on a source are under way at once.
ServedByOwn ==
  /\ \A n \in Names : registry[n].client # Nobody => owner[registry[n].client] = registry[n].source
  /\ \A s \in Sources : client[s] # Nobody => owner[client[s]] = s
  /\ \A k \in Callers : call[k].client # Nobody => owner[call[k].client] = call[k].source

\* What sources.go:254 says of names two sources share: the prefix is there "to keep
\* both callable". A connected source has every tool it lists under the name it lists,
\* served by its own process, and no others.
ListedIsCallable == \A s \in Sources : ~Busy(s) /\ status[s] = "connected" =>
  {n \in Names : registry[n].source = s /\ registry[n].client = client[s]} = listed[s]

\* What sources.go:18 says: when a source is disconnected "those tools are removed and
\* the underlying connection/process is closed". Connect replaces the client of a
\* source that is connected, and an operation that was begun before writes its result
\* after.
DisconnectedIsClean == \A s \in Sources : Disconnected(s) => Clean(s)

\* What registry.go:95 says of Register: it "panics if the name is already taken". It
\* writes a warning and overwrites the entry, that of another source included.
TakenStaysTaken ==
  [][\A n \in Names : registry[n] # NoEntry => registry'[n] \in {registry[n], NoEntry}]_vars

\* What registry.go:108 says: the tools of a source that is disconnected "are no longer
\* callable by the agent". A call that waits for permission has its handler already.
DisconnectedIsNotCalled ==
  [][\A k \in Callers : call[k] # NoEntry /\ call'[k] = NoEntry =>
       ~Disconnected(call[k].source) \/ call[k].client # Nobody]_vars
=============================================================================
