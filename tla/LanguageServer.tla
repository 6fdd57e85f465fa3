--------------------------- MODULE LanguageServer ---------------------------
(***************************************************************************)
(* The client of the language servers (tools/intelligence/lsp.go) for one  *)
(* language: servers started on demand, requests matched to answers by id, *)
(* the loop that reads a server's output, and Shutdown.                    *)
(*                                                                         *)
(* A server is a process behind two pipes. It reads whatever comes, owes   *)
(* answers it may send in any order or never, and may end, hang or send    *)
(* something that is no message.                                           *)
(***************************************************************************)
EXTENDS Naturals, Sequences

CONSTANTS
  Callers,   \* goroutines that run the lsp tool
  App,       \* the one that shuts the program down
  Servers,   \* bound of the model: the processes there can be
  Nobody,
  Kinds,     \* what is asked: "query", "symbol", "diagnose"
  Faults,    \* what can go wrong: "missing", "ends", "hangs", "garbles"
  Pipe,      \* bound of the model: messages a pipe holds
  MaxAsks,   \* bound of the model: calls of the tool by each caller
  MaxEdits,  \* bound of the model: changes of the file
  MaxFaults  \* bound of the model: faults of servers

\* The read loop of a server, a goroutine of its own.
Loop == "readLoop"

NobodyAssumption ==
  /\ Nobody \notin Callers \cup Servers \cup {App, Loop}
  /\ Loop \notin Callers \cup {App}
AppAssumption == App \notin Callers
BoundsAssumption == Pipe \in Nat \ {0}
KindsAssumption == Kinds \subseteq {"query", "symbol", "diagnose"}

Actors == Callers \cup {App}

VARIABLES
  clientMu,  \* who holds LSPClient.mu
  serving,   \* LSPClient.servers of the language
  failed,    \* LSPClient.failed of the language
  mu,        \* who holds server.mu while it writes
  pending,   \* server.pending: which id is whose
  nextID,    \* server.nextID
  stored,    \* server.diagnostics of the file: the version they are of
  closed,    \* server.closed
  pc,        \* where each goroutine is
  kind,      \* what it was asked
  doing,     \* the message it sends
  at,        \* its server
  id,        \* of its request
  mail,      \* what the channel of its request holds
  told,      \* the version of the file it sent
  result,    \* what its last call of the tool returned
  hand,      \* what the loop of each server works on
  stdin, stdout,
  proc,      \* the processes
  owes,      \* what a server has yet to send
  ready,     \* it was told of the end of the handshake
  file,      \* version of the file on disk
  asks, faults

client == <<clientMu, serving, failed>>
server == <<mu, pending, nextID, stored, closed>>
call == <<pc, kind, doing, at, id, mail, told, result>>
process == <<proc, owes, ready>>
counts == <<file, asks, faults>>
vars == <<client, server, call, hand, stdin, stdout, process, counts>>

Message(type, n, who, version) ==
  [type |-> type, id |-> n, who |-> who, version |-> version]
Nothing == Message("none", 0, Nobody, 0)
Plain(type) == Message(type, 0, Nobody, 0)

Init ==
  /\ clientMu = Nobody /\ serving = Nobody /\ failed = FALSE
  /\ mu = [s \in Servers |-> Nobody] /\ pending = [s \in Servers |-> {}]
  /\ nextID = [s \in Servers |-> 0] /\ stored = [s \in Servers |-> 0]
  /\ closed = [s \in Servers |-> FALSE]
  /\ pc = [c \in Actors |-> "idle"] /\ kind = [c \in Callers |-> "none"]
  /\ doing = [c \in Actors |-> "none"] /\ at = [c \in Actors |-> Nobody]
  /\ id = [c \in Callers |-> 0] /\ mail = [c \in Callers |-> Nothing]
  /\ told = [c \in Callers |-> 0] /\ result = [c \in Callers |-> Nothing]
  /\ hand = [s \in Servers |-> Nothing]
  /\ stdin = [s \in Servers |-> <<>>] /\ stdout = [s \in Servers |-> <<>>]
  /\ proc = [s \in Servers |-> "unused"] /\ owes = [s \in Servers |-> {}]
  /\ ready = [s \in Servers |-> FALSE]
  /\ file = 1 /\ asks = [c \in Callers |-> 0] /\ faults = 0

Go(c, where) == pc' = [pc EXCEPT ![c] = where]
Do(c, what, where) == doing' = [doing EXCEPT ![c] = what] /\ Go(c, where)

\* The tool returns.
Returns(c, answer) ==
  /\ Do(c, "none", "idle")
  /\ result' = [result EXCEPT ![c] = answer]
  /\ at' = [at EXCEPT ![c] = Nobody]
  /\ kind' = [kind EXCEPT ![c] = "none"]

-----------------------------------------------------------------------------
(* serverFor: a server of the language, started when there is none *)

Ask(c) ==
  /\ pc[c] = "idle" /\ asks[c] < MaxAsks
  /\ asks' = [asks EXCEPT ![c] = @ + 1]
  /\ \E k \in Kinds : kind' = [kind EXCEPT ![c] = k]
  /\ result' = [result EXCEPT ![c] = Nothing]
  /\ Go(c, "find")
  /\ UNCHANGED <<client, server, doing, at, id, mail, told, hand, stdin, stdout,
                 process, file, faults>>

LockClient(c) ==
  /\ pc[c] = "find" /\ clientMu = Nobody
  /\ clientMu' = c
  /\ Go(c, "look")
  /\ UNCHANGED <<serving, failed, server, kind, doing, at, id, mail, told, result,
                 hand, stdin, stdout, process, counts>>

\* isClosed takes server.mu with the client's mutex held.
Look(c) ==
  /\ pc[c] = "look"
  /\ clientMu' = Nobody
  /\ \/ /\ serving # Nobody /\ mu[serving] = Nobody /\ ~closed[serving]
        /\ at' = [at EXCEPT ![c] = serving]
        /\ Go(c, "open")
        /\ UNCHANGED <<kind, doing, result>>
     \/ /\ serving # Nobody => mu[serving] = Nobody /\ closed[serving]
        /\ \/ failed /\ Returns(c, Nothing)
           \/ ~failed /\ Go(c, "start") /\ UNCHANGED <<kind, doing, at, result>>
  /\ UNCHANGED <<serving, failed, server, id, mail, told, hand, stdin, stdout,
                 process, counts>>

Launch(c) ==
  /\ pc[c] = "start"
  /\ \E s \in Servers :
       /\ proc[s] = "unused"
       /\ proc' = [proc EXCEPT ![s] = "running"]
       /\ at' = [at EXCEPT ![c] = s]
  /\ Do(c, "initialize", "check")
  /\ UNCHANGED <<client, server, kind, id, mail, told, result, hand, stdin, stdout,
                 owes, ready, counts>>

CannotLaunch(c) ==
  /\ pc[c] = "start" /\ "missing" \in Faults
  /\ Go(c, "giveUp")
  /\ UNCHANGED <<client, server, kind, doing, at, id, mail, told, result, hand, stdin,
                 stdout, process, counts>>

GiveUp(c) ==
  /\ pc[c] = "giveUp" /\ clientMu = Nobody
  /\ failed' = TRUE
  /\ Returns(c, Nothing)
  /\ UNCHANGED <<clientMu, serving, server, id, mail, told, hand, stdin, stdout,
                 process, counts>>

\* The server takes the place of any other.
Install(c) ==
  /\ pc[c] = "install" /\ clientMu = Nobody
  /\ serving' = at[c]
  /\ Go(c, "open")
  /\ UNCHANGED <<clientMu, failed, server, kind, doing, at, id, mail, told, result, hand,
                 stdin, stdout, process, counts>>

\* openFile reads the file; a search of symbols opens none.
Open(c) ==
  /\ pc[c] = "open"
  /\ \/ /\ kind[c] = "symbol" /\ Do(c, "query", "check")
        /\ UNCHANGED told
     \/ /\ kind[c] # "symbol" /\ Do(c, "didOpen", "send")
        /\ told' = [told EXCEPT ![c] = file]
  /\ UNCHANGED <<client, server, kind, at, id, mail, result, hand, stdin, stdout, process,
                 counts>>

-----------------------------------------------------------------------------
(* call, notify and write *)

Requests == {"initialize", "query"}

Outgoing(c) ==
  IF doing[c] \in Requests THEN Message(doing[c], id[c], c, 0)
  ELSE IF doing[c] = "didOpen" THEN Message("didOpen", 0, c, told[c])
  ELSE Plain(doing[c])

\* A request that fails: a server that does not initialize is stopped.
Fails(c) ==
  \/ /\ doing[c] = "initialize"
     /\ Do(c, "shutdown", "send")
     /\ UNCHANGED <<kind, at, result>>
  \/ /\ doing[c] = "query"
     /\ Returns(c, Nothing)

\* The next request has an id no other has.
FreshID(s) == nextID[s] + 1

Check(c) ==
  LET s == at[c] IN
  /\ pc[c] = "check" /\ mu[s] = Nobody
  /\ \/ /\ closed[s] /\ Fails(c)
        /\ UNCHANGED <<nextID, id, mail>>
     \/ /\ ~closed[s]
        /\ id' = [id EXCEPT ![c] = FreshID(s)]
        /\ nextID' = [nextID EXCEPT ![s] = FreshID(s)]
        /\ mail' = [mail EXCEPT ![c] = Nothing]
        /\ Go(c, "register")
        /\ UNCHANGED <<kind, doing, at, result>>
  /\ UNCHANGED <<client, mu, pending, stored, closed, told, hand, stdin, stdout,
                 process, counts>>

Register(c) ==
  LET s == at[c] IN
  /\ pc[c] = "register" /\ mu[s] = Nobody
  /\ pending' = [pending EXCEPT ![s] = @ \cup {[id |-> id[c], who |-> c]}]
  /\ Go(c, "send")
  /\ UNCHANGED <<client, mu, nextID, stored, closed, kind, doing, at, id, mail, told,
                 result, hand, stdin, stdout, process, counts>>

\* What follows a message that needs no answer, sent or not.
Notified(c) ==
  \/ doing[c] = "initialized" /\ Go(c, "install") /\ UNCHANGED doing
  \/ doing[c] = "didOpen" /\ kind[c] = "query" /\ Do(c, "query", "check")
  \/ doing[c] = "didOpen" /\ kind[c] = "diagnose" /\ Go(c, "poll") /\ UNCHANGED doing
  \/ doing[c] = "shutdown" /\ Go(c, "close") /\ UNCHANGED doing

Unsent(c) ==
  \/ doing[c] \in Requests /\ Go(c, "drop") /\ UNCHANGED doing
  \/ doing[c] \notin Requests /\ Notified(c)

Unlock(s) == mu' = [mu EXCEPT ![s] = Nobody]

\* write holds server.mu until the pipe has taken the message.
Send(c) ==
  LET s == at[c] IN
  /\ pc[c] = "send" /\ mu[s] = Nobody
  /\ \/ closed[s] /\ Unsent(c) /\ UNCHANGED mu
     \/ ~closed[s] /\ mu' = [mu EXCEPT ![s] = c] /\ Go(c, "write") /\ UNCHANGED doing
  /\ UNCHANGED <<client, pending, nextID, stored, closed, kind, at, id, mail, told, result,
                 hand, stdin, stdout, process, counts>>

Write(c) ==
  LET s == at[c] IN
  /\ pc[c] = "write"
  /\ Unlock(s)
  /\ \/ /\ proc[s] = "dead" /\ Unsent(c)
        /\ UNCHANGED stdin
     \/ /\ proc[s] # "dead" /\ Len(stdin[s]) < Pipe
        /\ stdin' = [stdin EXCEPT ![s] = Append(@, Outgoing(c))]
        /\ \/ doing[c] \in Requests /\ Go(c, "await") /\ UNCHANGED doing
           \/ doing[c] \notin Requests /\ Notified(c)
  /\ UNCHANGED <<client, pending, nextID, stored, closed, kind, at, id, mail, told, result,
                 hand, stdout, process, counts>>

\* Seeded fault: a server is used as soon as it answered.
Unannounced(c) == Do(c, "initialized", "install")

Initialized(c) == Do(c, "initialized", "send")

\* A channel that was closed, or that holds an error, fails the request.
Receive(c) ==
  /\ pc[c] = "await" /\ mail[c] # Nothing
  /\ \/ mail[c].type # "answer" /\ Fails(c)
     \/ /\ mail[c].type = "answer" /\ doing[c] = "initialize"
        /\ Initialized(c) /\ UNCHANGED <<kind, at, result>>
     \/ /\ mail[c].type = "answer" /\ doing[c] = "query"
        /\ Returns(c, mail[c])
  /\ UNCHANGED <<client, server, id, mail, told, hand, stdin, stdout, process, counts>>

\* Seeded fault: a request waits for as long as it takes.
NoTimeout(c) == pc[c] = "none" /\ UNCHANGED vars

Timeout(c) ==
  /\ pc[c] = "await"
  /\ Go(c, "drop")
  /\ UNCHANGED <<client, server, kind, doing, at, id, mail, told, result, hand, stdin, stdout,
                 process, counts>>

Drop(c) ==
  LET s == at[c] IN
  /\ pc[c] = "drop" /\ mu[s] = Nobody
  /\ pending' = [pending EXCEPT ![s] = {p \in @ : p.id # id[c]}]
  /\ Fails(c)
  /\ UNCHANGED <<client, mu, nextID, stored, closed, id, mail, told, hand, stdin, stdout,
                 process, counts>>

\* Diagnostics looks every 100 ms for ones that were stored, and returns none in the end.
Poll(c) ==
  LET s == at[c] IN
  /\ pc[c] = "poll"
  /\ \/ /\ mu[s] = Nobody /\ stored[s] # 0
        /\ Returns(c, Message("diagnostics", 0, c, stored[s]))
     \/ Returns(c, Nothing)
  /\ UNCHANGED <<client, server, id, mail, told, hand, stdin, stdout, process, counts>>

-----------------------------------------------------------------------------
(* stop and Shutdown *)

\* Seeded fault: those who wait are left to their time-out.
LeaveWaiting(s) == pending' = [pending EXCEPT ![s] = {}] /\ UNCHANGED mail

Wake(s) ==
  /\ pending' = [pending EXCEPT ![s] = {}]
  /\ mail' = [c \in Callers |->
       IF \E p \in pending[s] : p.who = c /\ p.id = id[c] /\ at[c] = s
         THEN Plain("closed") ELSE mail[c]]

MarkClosed(s) == closed' = [closed EXCEPT ![s] = TRUE] /\ Wake(s)

\* What a process has sent can still be read.
Dies(s) ==
  /\ proc' = [proc EXCEPT ![s] = "dead"]
  /\ stdin' = [stdin EXCEPT ![s] = <<>>] /\ owes' = [owes EXCEPT ![s] = {}]

\* stop closes the server for its callers and kills the process.
Close(c) ==
  LET s == at[c] IN
  /\ pc[c] = "close" /\ mu[s] = Nobody
  /\ MarkClosed(s)
  /\ Dies(s)
  /\ Go(c, IF c = App THEN "down" ELSE "giveUp")
  /\ UNCHANGED <<client, mu, nextID, stored, kind, doing, at, id, told, result, hand, stdout,
                 ready, counts>>

Shutdown ==
  /\ pc[App] = "idle" /\ clientMu = Nobody
  /\ serving' = Nobody
  /\ at' = [at EXCEPT ![App] = serving]
  /\ Do(App, "shutdown", IF serving = Nobody THEN "down" ELSE "send")
  /\ UNCHANGED <<clientMu, failed, server, kind, id, mail, told, result, hand, stdin, stdout,
                 process, counts>>

-----------------------------------------------------------------------------
(* readLoop *)

Read(s) ==
  /\ hand[s] = Nothing /\ proc[s] # "unused"
  /\ \/ /\ stdout[s] # <<>>
        /\ hand' = [hand EXCEPT ![s] = Head(stdout[s])]
        /\ stdout' = [stdout EXCEPT ![s] = Tail(@)]
     \/ /\ stdout[s] = <<>> /\ proc[s] = "dead"
        /\ hand' = [hand EXCEPT ![s] = Plain("garbage")]
        /\ UNCHANGED stdout
  /\ UNCHANGED <<client, server, call, stdin, process, counts>>

Done(s) == hand' = [hand EXCEPT ![s] = Nothing]

\* An answer is of the request with its id, when that is still waited for.
AnswerOf(s, m) == {p \in pending[s] : p.id = m.id}

Deliver(s) ==
  LET m == hand[s] IN
  /\ m.type \in {"answer", "error"} /\ mu[s] = Nobody
  /\ \/ AnswerOf(s, m) = {} /\ UNCHANGED <<pending, mail>>
     \/ \E p \in AnswerOf(s, m) :
          /\ pending' = [pending EXCEPT ![s] = @ \ {p}]
          /\ mail' = [mail EXCEPT ![p.who] =
               IF id[p.who] = p.id /\ at[p.who] = s THEN m ELSE @]
  /\ Done(s)
  /\ UNCHANGED <<client, mu, nextID, stored, closed, pc, kind, doing, at, id, told, result,
                 stdin, stdout, process, counts>>

StoreDiagnostics(s) ==
  /\ hand[s].type = "publish" /\ mu[s] = Nobody
  /\ stored' = [stored EXCEPT ![s] = hand[s].version]
  /\ Done(s)
  /\ UNCHANGED <<client, mu, pending, nextID, closed, call, stdin, stdout, process, counts>>

\* respondEmpty, from within the loop.
Respond(s) ==
  /\ hand[s].type = "request" /\ mu[s] = Nobody
  /\ \/ closed[s] /\ Done(s) /\ UNCHANGED mu
     \/ /\ ~closed[s]
        /\ mu' = [mu EXCEPT ![s] = Loop]
        /\ hand' = [hand EXCEPT ![s] = Plain("response")]
  /\ UNCHANGED <<client, pending, nextID, stored, closed, call, stdin, stdout, process, counts>>

Responded(s) ==
  /\ hand[s].type = "response"
  /\ \/ proc[s] = "dead" /\ UNCHANGED stdin
     \/ /\ proc[s] # "dead" /\ Len(stdin[s]) < Pipe
        /\ stdin' = [stdin EXCEPT ![s] = Append(@, hand[s])]
  /\ Unlock(s)
  /\ Done(s)
  /\ UNCHANGED <<client, pending, nextID, stored, closed, call, stdout, process, counts>>

\* The loop ends with the output of the process or with something that is no message.
LoopEnds(s) ==
  /\ hand[s].type = "garbage" /\ mu[s] = Nobody
  /\ MarkClosed(s)
  /\ hand' = [hand EXCEPT ![s] = Plain("ended")]
  /\ UNCHANGED <<client, mu, nextID, stored, pc, kind, doing, at, id, told, result, stdin,
                 stdout, process, counts>>

LoopStep(s) ==
  Read(s) \/ Deliver(s) \/ StoreDiagnostics(s) \/ Respond(s) \/ Responded(s) \/ LoopEnds(s)

-----------------------------------------------------------------------------
(* The processes, external *)

Answers(m) ==
  IF m.type \in Requests THEN {[m EXCEPT !.type = "answer"], [m EXCEPT !.type = "error"]}
  ELSE IF m.type = "didOpen" THEN {[m EXCEPT !.type = "publish"]}
  ELSE {}

ServerReads(s) ==
  /\ proc[s] = "running" /\ stdin[s] # <<>>
  /\ stdin' = [stdin EXCEPT ![s] = Tail(@)]
  /\ LET m == Head(stdin[s]) IN
       /\ owes' = [owes EXCEPT ![s] = IF Answers(m) = {} THEN @ ELSE @ \cup {Answers(m)}]
       /\ ready' = [ready EXCEPT ![s] = @ \/ m.type = "initialized"]
  /\ UNCHANGED <<client, server, call, hand, stdout, proc, counts>>

ServerSends(s) ==
  /\ proc[s] = "running" /\ Len(stdout[s]) < Pipe
  /\ \E debt \in owes[s] : \E m \in debt :
       /\ stdout' = [stdout EXCEPT ![s] = Append(@, m)]
       /\ owes' = [owes EXCEPT ![s] = @ \ {debt}]
  /\ UNCHANGED <<client, server, call, hand, stdin, proc, ready, counts>>

\* A request of the server to the client, or something that is no message.
ServerFaults(s) ==
  /\ proc[s] = "running" /\ faults < MaxFaults
  /\ faults' = faults + 1
  /\ \/ "ends" \in Faults /\ Dies(s) /\ UNCHANGED stdout
     \/ /\ "hangs" \in Faults /\ proc' = [proc EXCEPT ![s] = "hung"]
        /\ UNCHANGED <<stdin, stdout, owes>>
     \/ \E type \in {"garbage", "request"} :
          /\ type = "garbage" => "garbles" \in Faults
          /\ Len(stdout[s]) < Pipe
          /\ stdout' = [stdout EXCEPT ![s] = Append(@, Plain(type))]
          /\ UNCHANGED <<stdin, proc, owes>>
  /\ UNCHANGED <<client, server, call, hand, ready, file, asks>>

Edit ==
  /\ file <= MaxEdits
  /\ file' = file + 1
  /\ UNCHANGED <<client, server, call, hand, stdin, stdout, process, asks, faults>>

-----------------------------------------------------------------------------
(* Specification *)

StopStep(c) == Send(c) \/ Write(c) \/ Close(c)

CallStep(c) ==
  \/ LockClient(c) \/ Look(c) \/ Launch(c) \/ CannotLaunch(c) \/ GiveUp(c) \/ Install(c)
  \/ Open(c) \/ Check(c) \/ Register(c) \/ Receive(c) \/ Timeout(c) \/ Drop(c) \/ Poll(c)
  \/ StopStep(c)

ServerStep(s) == ServerReads(s) \/ ServerSends(s)

Next ==
  \/ \E c \in Callers : Ask(c) \/ CallStep(c)
  \/ StopStep(App) \/ Shutdown
  \/ \E s \in Servers : LoopStep(s) \/ ServerStep(s) \/ ServerFaults(s)
  \/ Edit

Spec == Init /\ [][Next]_vars

\* Goroutines run and deadlines pass. A server that is up reads its input; it
\* need not answer.
FairSpec ==
  /\ Spec
  /\ \A c \in Callers : WF_vars(CallStep(c))
  /\ WF_vars(StopStep(App))
  /\ \A s \in Servers : WF_vars(LoopStep(s)) /\ WF_vars(ServerReads(s))

-----------------------------------------------------------------------------
(* Properties *)

Places == {"idle", "find", "look", "start", "giveUp", "install", "open", "check", "register",
           "send", "write", "await", "drop", "poll", "close", "down"}

\* Every variable has its type, a mutex is held by one who writes, and the ids
\* that are waited for were given out.
TypeOK ==
  /\ clientMu \in Callers \cup {Nobody} /\ serving \in Servers \cup {Nobody}
  /\ failed \in BOOLEAN
  /\ pc \in [Actors -> Places] /\ at \in [Actors -> Servers \cup {Nobody}]
  /\ \A c \in Callers : pc[c] = "look" <=> clientMu = c
  /\ \A s \in Servers :
       /\ \/ mu[s] = Nobody
          \/ mu[s] \in Actors /\ pc[mu[s]] = "write" /\ at[mu[s]] = s
          \/ mu[s] = Loop /\ hand[s].type = "response"
       /\ \A p \in pending[s] : p.id \in 1..nextID[s]
       /\ stored[s] \in 0..file
       /\ Len(stdin[s]) <= Pipe /\ Len(stdout[s]) <= Pipe

\* A caller is given the answer to its own request, however late or out of order
\* answers come (call and readLoop).
AnswersAreOwn ==
  \A c \in Callers : result[c].type = "answer" => result[c].who = c /\ result[c].id = id[c]

\* Nobody waits at a server that is closed: the answer can no longer come
\* (markClosed, whichever of call and markClosed is first).
NobodyWaitsOnClosed ==
  \A c \in Callers :
    pc[c] = "await" /\ closed[at[c]] => mail[c] # Nothing

\* A server is asked nothing before the end of its handshake, by any caller
\* (startServer runs before the server is in the map).
HandshakeFirst ==
  [][\A s \in Servers :
       ServerReads(s) /\ Head(stdin[s]).type \in {"didOpen", "query"} => ready[s]]_vars

\* A call of the tool returns while servers end, garble or do not answer.
CallsEnd == \A c \in Callers : pc[c] # "idle" ~> pc[c] = "idle"

\* A call of the tool returns also when its server hangs (lsp.go:36, "A wedged
\* language server must degrade to the AST path, never hang the agent").
HungServerHangsNobody == CallsEnd

\* While no call is at work, a server that runs is one Shutdown would stop (lsp.go:109,
\* "Shutdown stops every running server").
ShutdownStopsAll ==
  pc[App] = "idle" /\ (\A c \in Callers : pc[c] = "idle") =>
    \A s \in Servers : proc[s] = "running" => serving = s

\* Diagnostics are not of an older version than the one the call told the server of
\* (lsp.go:569, "the problems the language server reports for a file", and :580,
\* "arrive as an unsolicited notification after didOpen").
DiagnosticsAreCurrent ==
  \A c \in Callers :
    pc[c] = "idle" /\ result[c].type = "diagnostics" => result[c].version >= told[c]
=============================================================================
