----------------------------- MODULE PluginHost -----------------------------
(***************************************************************************)
(* Plugins as processes behind two pipes: tools/plugin/host.go, loaded at  *)
(* the start of the program and shut down at its end                       *)
(* (cmd/darkcode/app_wireup.go, app.go), and called by the handlers        *)
(* tools/tools/extension.go registers for their tools.                     *)
(*                                                                         *)
(* A plugin answers what it reads, in order. It may end, hang, or write a  *)
(* line of its own to its standard output. Nothing makes one call of a     *)
(* plugin wait for another: two that read take whatever line comes first,  *)
(* or ruin the buffer they share.                                          *)
(***************************************************************************)
EXTENDS Naturals, Sequences, FiniteSets

CONSTANTS
  Plugins,   \* their paths
  Callers,   \* goroutines that run tools
  App,       \* the one that loads and shuts down
  Nobody,
  Faults,    \* what can go wrong: "ends", "hangs", "chats"
  MaxCalls,  \* bound of the model: tool calls of each caller
  MaxFaults  \* bound of the model: faults of plugins

NobodyAssumption == Nobody \notin Callers \cup Plugins \cup {App} /\ App \notin Callers
FaultsAssumption == Faults \subseteq {"ends", "hangs", "chats"}

Actors == Callers \cup {App}

VARIABLES
  mu,       \* who holds Host.mu
  plugins,  \* Host.plugins
  nextID,   \* Host.nextID
  toLoad,   \* what DiscoverAll has yet to load
  pc, at,   \* where a goroutine is, and its plugin
  doing,    \* the method it calls
  id,       \* of its request
  result,   \* what its last Execute returned: "own", "other", "error"
  stdin, stdout,
  proc, calls, faults

host == <<mu, plugins, nextID, toLoad>>
goroutine == <<pc, at, doing, id, result>>
vars == <<host, goroutine, stdin, stdout, proc, calls, faults>>

Init ==
  /\ mu = Nobody /\ plugins = {} /\ nextID = 0 /\ toLoad = Plugins
  /\ pc = [a \in Actors |-> IF a = App THEN "boot" ELSE "idle"]
  /\ at = [a \in Actors |-> Nobody] /\ doing = [a \in Actors |-> "none"]
  /\ id = [a \in Actors |-> 0] /\ result = [c \in Callers |-> "none"]
  /\ stdin = [p \in Plugins |-> <<>>] /\ stdout = [p \in Plugins |-> <<>>]
  /\ proc = [p \in Plugins |-> "unused"]
  /\ calls = [c \in Callers |-> 0] /\ faults = 0

Go(a, where) == pc' = [pc EXCEPT ![a] = where]

\* A request with a number of its own.
Request(a, p, method) ==
  /\ nextID' = nextID + 1
  /\ id' = [id EXCEPT ![a] = nextID + 1]
  /\ at' = [at EXCEPT ![a] = p]
  /\ doing' = [doing EXCEPT ![a] = method]
  /\ Go(a, "write")

Released(a) == Nobody

\* A goroutine is through with its plugin.
Leaves(a, where) ==
  /\ Go(a, where)
  /\ at' = [at EXCEPT ![a] = Released(a)] /\ doing' = [doing EXCEPT ![a] = "none"]
  /\ id' = [id EXCEPT ![a] = 0]

-----------------------------------------------------------------------------
(* Load *)

LoadNext == \E p \in toLoad :
  /\ pc[App] = "boot" /\ mu = Nobody
  /\ mu' = App /\ toLoad' = toLoad \ {p}
  /\ proc' = [proc EXCEPT ![p] = "running"]
  /\ Request(App, p, "manifest")
  /\ UNCHANGED <<plugins, result, stdin, stdout, calls, faults>>

CannotStart == \E p \in toLoad :
  /\ pc[App] = "boot" /\ mu = Nobody
  /\ toLoad' = toLoad \ {p}
  /\ UNCHANGED <<mu, plugins, nextID, goroutine, stdin, stdout, proc, calls, faults>>

Booted ==
  /\ pc[App] = "boot" /\ toLoad = {}
  /\ Go(App, "runs")
  /\ UNCHANGED <<host, at, doing, id, result, stdin, stdout, proc, calls, faults>>

\* The manifest asks for the second half of the handshake, that for a place among the
\* plugins.
Handshaken ==
  \/ /\ doing[App] = "manifest"
     /\ Request(App, at[App], "init")
     /\ UNCHANGED <<mu, plugins, proc>>
  \/ /\ doing[App] = "init"
     /\ plugins' = plugins \cup {at[App]} /\ mu' = Nobody
     /\ Leaves(App, "boot")
     /\ UNCHANGED <<nextID, proc>>

\* Seeded fault: the process of a failed handshake is left alone.
LeftAlone(p) == proc

Killed(p) == [proc EXCEPT ![p] = "killed"]

HandshakeFails ==
  /\ doing[App] \in {"manifest", "init"}
  /\ proc' = Killed(at[App])
  /\ mu' = Nobody
  /\ Leaves(App, "boot")
  /\ UNCHANGED <<plugins, nextID>>

-----------------------------------------------------------------------------
(* Execute and Shutdown *)

Execute(c) == \E p \in Plugins :
  /\ pc[c] = "idle" /\ calls[c] < MaxCalls /\ pc[App] # "boot" /\ mu = Nobody
  /\ toLoad = {}
  /\ calls' = [calls EXCEPT ![c] = @ + 1]
  /\ \/ /\ p \in plugins
        /\ Request(c, p, "execute")
        /\ result' = [result EXCEPT ![c] = "none"]
     \/ /\ p \notin plugins
        /\ result' = [result EXCEPT ![c] = "error"]
        /\ UNCHANGED <<nextID, pc, at, doing, id>>
  /\ UNCHANGED <<mu, plugins, toLoad, stdin, stdout, proc, faults>>

Returns(c, answer) ==
  /\ doing[c] = "execute"
  /\ result' = [result EXCEPT ![c] = answer]
  /\ Leaves(c, "idle")
  /\ UNCHANGED <<mu, plugins, nextID, proc>>

Shutdown ==
  /\ pc[App] = "runs" /\ mu = Nobody
  /\ mu' = App
  /\ Go(App, "quit")
  /\ UNCHANGED <<plugins, nextID, toLoad, at, doing, id, result, stdin, stdout, proc, calls,
                 faults>>

ShutdownNext == \E p \in plugins :
  /\ pc[App] = "quit"
  /\ Request(App, p, "shutdown")
  /\ UNCHANGED <<mu, plugins, toLoad, result, stdin, stdout, proc, calls, faults>>

\* Kill and Wait; Wait closes the pipe.
Reap == LET p == at[App] IN
  /\ pc[App] = "reap"
  /\ proc' = [proc EXCEPT ![p] = "killed"]
  /\ stdin' = [stdin EXCEPT ![p] = <<>>] /\ stdout' = [stdout EXCEPT ![p] = <<>>]
  /\ plugins' = plugins \ {p}
  /\ Leaves(App, "quit")
  /\ UNCHANGED <<mu, nextID, toLoad, result, calls, faults>>

ShutdownDone ==
  /\ pc[App] = "quit" /\ plugins = {}
  /\ mu' = Nobody
  /\ Go(App, "gone")
  /\ UNCHANGED <<plugins, nextID, toLoad, at, doing, id, result, stdin, stdout, proc, calls,
                 faults>>

-----------------------------------------------------------------------------
(* call *)

Alive(p) == proc[p] \in {"running", "hung"}

Write(a) ==
  /\ pc[a] = "write" /\ Alive(at[a])
  /\ stdin' = [stdin EXCEPT ![at[a]] = Append(@, id[a])]
  /\ Go(a, "read")
  /\ UNCHANGED <<host, at, doing, id, result, stdout, proc, calls, faults>>

\* What follows an answer; Shutdown ignores it.
Then(a, answer) ==
  \/ a = App /\ answer # "error" /\ Handshaken /\ UNCHANGED result
  \/ a = App /\ HandshakeFails /\ UNCHANGED result
  \/ a \in Callers /\ Returns(a, answer)
  \/ /\ doing[a] = "shutdown" /\ Go(a, "reap")
     /\ UNCHANGED <<mu, plugins, nextID, at, doing, id, result, proc>>

\* Whose answer a line is; a line of the plugin's own is none.
Meaning(a, line) == IF line = id[a] THEN "own" ELSE IF line = 0 THEN "error" ELSE "other"

\* The reader has no mutex: another that reads the same buffer may ruin it.
Rivals(a) == {b \in Actors \ {a} : pc[b] = "read" /\ at[b] = at[a]}

Read(a) ==
  /\ pc[a] = "read" /\ stdout[at[a]] # <<>>
  /\ stdout' = [stdout EXCEPT ![at[a]] = Tail(@)]
  /\ \/ Then(a, Meaning(a, Head(stdout[at[a]])))
     \/ Rivals(a) # {} /\ Then(a, "error")
  /\ UNCHANGED <<toLoad, stdin, calls, faults>>

\* A write to, or a read from, a process that has ended.
Ended(p) == ~Alive(p)

CallFails(a) ==
  /\ \/ pc[a] = "write"
     \/ pc[a] = "read" /\ stdout[at[a]] = <<>>
  /\ Ended(at[a])
  /\ Then(a, "error")
  /\ UNCHANGED <<toLoad, stdin, stdout, calls, faults>>

-----------------------------------------------------------------------------
(* The plugins *)

Serve(p) ==
  /\ proc[p] = "running" /\ stdin[p] # <<>>
  /\ stdin' = [stdin EXCEPT ![p] = Tail(@)]
  /\ stdout' = [stdout EXCEPT ![p] = Append(@, Head(stdin[p]))]
  /\ UNCHANGED <<host, goroutine, proc, calls, faults>>

Faulty(p, fault) ==
  /\ fault \in Faults /\ faults < MaxFaults /\ proc[p] = "running"
  /\ faults' = faults + 1
  /\ UNCHANGED <<host, goroutine, stdin, calls>>

Ends(p) ==
  /\ Faulty(p, "ends")
  /\ proc' = [proc EXCEPT ![p] = "exited"]
  /\ UNCHANGED stdout

Hangs(p) ==
  /\ Faulty(p, "hangs")
  /\ proc' = [proc EXCEPT ![p] = "hung"]
  /\ UNCHANGED stdout

Chats(p) ==
  /\ Faulty(p, "chats")
  /\ stdout' = [stdout EXCEPT ![p] = Append(@, 0)]
  /\ UNCHANGED proc

AppSteps ==
  LoadNext \/ CannotStart \/ Booted \/ ShutdownNext \/ Reap \/ ShutdownDone
CallSteps(a) == Write(a) \/ Read(a) \/ CallFails(a)

Next ==
  \/ AppSteps \/ Shutdown
  \/ \E a \in Actors : CallSteps(a)
  \/ \E c \in Callers : Execute(c)
  \/ \E p \in Plugins : Serve(p) \/ Ends(p) \/ Hangs(p) \/ Chats(p)

Spec == Init /\ [][Next]_vars

\* Goroutines run, and a plugin that is not stuck answers.
FairSpec ==
  /\ Spec /\ WF_vars(AppSteps)
  /\ \A a \in Actors : WF_vars(CallSteps(a))
  /\ \A p \in Plugins : WF_vars(Serve(p))

-----------------------------------------------------------------------------
(* Properties *)

\* Every variable keeps to its values, and only a goroutine at work has a plugin.
TypeOK ==
  /\ mu \in {App, Nobody} /\ plugins \subseteq Plugins /\ toLoad \subseteq Plugins
  /\ result \in [Callers -> {"none", "own", "other", "error"}]
  /\ proc \in [Plugins -> {"unused", "running", "hung", "exited", "killed"}]
  /\ \A p \in Plugins : plugins \cap {p} # {} => proc[p] # "unused"
  /\ \A a \in Actors : (at[a] # Nobody) <=> pc[a] \in {"write", "read", "reap"}
  /\ \A a, b \in Actors : id[a] = id[b] /\ id[a] # 0 => a = b

\* When the host has shut down, no plugin is left: not one that was called meanwhile,
\* nor one whose handshake failed.
NothingIsLeft == pc[App] = "gone" => \A p \in Plugins : ~Alive(p)

\* What host.go:138 says: call "sends a JSON-RPC request and reads the response". It
\* reads a line, which may be the answer to another call.
AnswerIsOwn == \A c \in Callers : result[c] # "other"

\* Every call of a tool returns. So extension.go:208 says even of a plugin that hangs:
\* it "is bounded by the registry's own per-tool timeout". The handler is called by
\* dispatchOne itself, with a context it does not look at again.
EveryCallEnds == \A c \in Callers : pc[c] \in {"write", "read"} ~> pc[c] = "idle"

\* Shutdown comes to its end. So host.go:120 says: it "gracefully shuts down all loaded
\* plugins"; one that hangs is waited for before it would be killed.
ShutdownEnds == pc[App] = "quit" ~> pc[App] = "gone"
=============================================================================
