----------------------------- MODULE MCServices -----------------------------
(***************************************************************************)
(* Instances of the four components that serve the agent: the language     *)
(* server, the sources of tools, the plugins and the calls of models. They *)
(* share no state, so what their steps do in between shows nothing new: a  *)
(* behaviour is one of a single component, `service`, and the others stay  *)
(* as they begin.                                                          *)
(***************************************************************************)
EXTENDS Naturals, TLC

CONSTANTS
  NoOne, Callers, App,
  \* LanguageServer
  Servers, Kinds, FaultsOfServers, ServerPipe, MaxAsks, MaxChanges, MaxServerFaults,
  \* ToolSources
  Sources, PlainSources, Tools, Builtin, Offers, Operators, ToolCallers, Processes, MaxOps,
  \* PluginHost
  Plugins, PluginFaults, MaxPluginCalls, MaxPluginFaults,
  \* ModelCalls
  Calls, Embedders, MaxIssues, KeyCount, RPM, MaxAttempts, BaseDelay, MaxDelay, Minute,
  Hints, DefaultHold, Cooldown, Release

VARIABLES
  service,
  clientMu, lspServing, failed, lspMu, lspPending, lspNextID, stored, lspClosed, lspPc, kind,
  lspDoing, lspAt, lspId, lspMail, lspTold, lspResult, lspHand, lspStdin, lspStdout, lspProc,
  owes, ready, file, asks, lspFaults,
  srcKnown, added, status, listed, client, registry, srcProc, owner, srcPc, op, on, srcHand,
  found, names, srcKey, ops, call, tangled,
  plugMu, plugins, plugNextID, toLoad, plugPc, plugAt, plugDoing, plugId, plugResult,
  plugStdin, plugStdout, plugProc, plugCalls, plugFaults,
  modelPc, attempt, wait, modelKey, err, streamed, issued, shown, modelAnswer, modelAsked,
  hold, learned, since429, tokens, idle, recent, parked, next, drawn

Lsp == INSTANCE LanguageServer WITH
  Nobody <- NoOne, Faults <- FaultsOfServers, Pipe <- ServerPipe, MaxEdits <- MaxChanges,
  MaxFaults <- MaxServerFaults,
  serving <- lspServing, mu <- lspMu, pending <- lspPending, nextID <- lspNextID,
  pc <- lspPc, doing <- lspDoing, at <- lspAt, id <- lspId, mail <- lspMail,
  told <- lspTold, result <- lspResult, hand <- lspHand, stdin <- lspStdin,
  stdout <- lspStdout, closed <- lspClosed, proc <- lspProc, faults <- lspFaults
Src == INSTANCE ToolSources WITH
  Nobody <- NoOne, Callers <- ToolCallers, Plain <- PlainSources, known <- srcKnown,
  proc <- srcProc, pc <- srcPc, hand <- srcHand, key <- srcKey
Plug == INSTANCE PluginHost WITH
  Nobody <- NoOne, Faults <- PluginFaults, MaxCalls <- MaxPluginCalls,
  MaxFaults <- MaxPluginFaults,
  mu <- plugMu, nextID <- plugNextID, pc <- plugPc, at <- plugAt, doing <- plugDoing,
  id <- plugId, result <- plugResult, stdin <- plugStdin, stdout <- plugStdout,
  proc <- plugProc, calls <- plugCalls, faults <- plugFaults
Model == INSTANCE ModelCalls WITH
  Keys <- KeyCount, pc <- modelPc, key <- modelKey, answer <- modelAnswer,
  asked <- modelAsked

lsp ==
  <<clientMu, lspServing, failed, lspMu, lspPending, lspNextID, stored, lspClosed, lspPc, kind,
    lspDoing, lspAt, lspId, lspMail, lspTold, lspResult, lspHand, lspStdin, lspStdout,
    lspProc, owes, ready, file, asks, lspFaults>>
src ==
  <<srcKnown, added, status, listed, client, registry, srcProc, owner, srcPc, op, on,
    srcHand, found, names, srcKey, ops, call, tangled>>
plug ==
  <<plugMu, plugins, plugNextID, toLoad, plugPc, plugAt, plugDoing, plugId, plugResult,
    plugStdin, plugStdout, plugProc, plugCalls, plugFaults>>
model ==
  <<modelPc, attempt, wait, modelKey, err, streamed, issued, shown, modelAnswer, modelAsked,
    hold, learned, since429, tokens, idle, recent, parked, next, drawn>>
services == <<service, lsp, src, plug, model>>

ASSUME ServicesAssumption ==
  /\ Lsp!NobodyAssumption /\ Lsp!AppAssumption /\ Lsp!KindsAssumption
  /\ Lsp!BoundsAssumption
  /\ Src!PlainAssumption /\ Src!NobodyAssumption /\ Src!BoundsAssumption
  /\ Plug!NobodyAssumption /\ Plug!FaultsAssumption
  /\ Model!CallersAssumption /\ Model!PoolAssumption /\ Model!DelaysAssumption
  /\ Model!PaceAssumption

ServicesBegin == Lsp!Init /\ Src!Init /\ Plug!Init /\ Model!Init

ServicesInit ==
  service \in {"lsp", "src", "plug", "model"} /\ ServicesBegin

OfLsp == service = "lsp" /\ UNCHANGED <<service, src, plug, model>>
OfSrc == service = "src" /\ UNCHANGED <<service, lsp, plug, model>>
OfPlug == service = "plug" /\ UNCHANGED <<service, lsp, src, model>>
OfModel == service = "model" /\ UNCHANGED <<service, lsp, src, plug>>

ServicesNext ==
  \/ OfLsp /\ Lsp!Next
  \/ OfSrc /\ Src!Next
  \/ OfPlug /\ Plug!Next
  \/ OfModel /\ Model!Next

ServicesSpec == ServicesInit /\ [][ServicesNext]_services

\* Calls of a model are alike, and so are the processes of sources.
ServicesAlike == Permutations(Calls) \cup Permutations(Processes)

-----------------------------------------------------------------------------
(* Properties; the modules say more of each *)

\* A caller of the language server is given the answer to its own request and does not
\* wait at a server that is closed (lsp.go).
AnswersReachTheirCaller ==
  service = "lsp" => Lsp!TypeOK /\ Lsp!AnswersAreOwn /\ Lsp!NobodyWaitsOnClosed

\* A language server is asked nothing before its handshake has ended (lsp.go).
HandshakeFirst == Lsp!HandshakeFirst

\* However operations overlap, what is registered is open and of its source, and tools of
\* the program stay; and a source that is off-line has no tool and no process, unless its
\* operations overlapped or it was connected again (sources.go, registry.go).
SourcesAreWhole == service = "src" =>
  /\ Src!TypeOK /\ Src!BuiltinsStay /\ Src!ServedByOwn
  /\ Src!OfflineIsClean /\ Src!RegisteredIsOpen

\* No plugin outlives a shutdown, whoever calls it meanwhile (host.go).
NothingIsLeft == service = "plug" => Plug!TypeOK /\ Plug!NothingIsLeft

\* A call of a model shows one answer, waits as long as the provider asks for and, if it
\* is no embedding, tries again what may pass (retry.go, ratelimit.go).
ProviderIsHeeded == service = "model" =>
  Model!ShownOnce /\ Model!ThrottleHintHonoured /\ Model!ChatIsRetried

\* No more requests go out than the limits allow (ratelimit.go).
PaceIsKept == service = "model" => Model!TypeOK /\ Model!PaceIsKept
=============================================================================
