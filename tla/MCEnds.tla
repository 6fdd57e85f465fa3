------------------------------- MODULE MCEnds -------------------------------
(***************************************************************************)
(* What must end, in small instances of the components of MCSurfaces and   *)
(* MCServices. Fairness is that of each module: goroutines run, timers run *)
(* out, and what has been asked to stop looks at its context. Nobody has   *)
(* to press a button, answer a question or close a tab.                    *)
(***************************************************************************)
EXTENDS MCSurfaces, MCServices

everything == <<surfaces, services>>

EndsInit ==
  \/ SurfacesInit /\ service = "none" /\ ServicesBegin
  \/ ServicesInit /\ surface = "none" /\ SurfacesBegin

EndsNext ==
  \/ SurfacesNext /\ UNCHANGED services
  \/ ServicesNext /\ UNCHANGED surfaces

ChatFairness ==
  /\ WF_chat(surface = "chat" /\ Chat!Tick)
  /\ \A r \in Posts :
       /\ WF_chat(surface = "chat" /\ Chat!Watch(r))
       /\ WF_chat(surface = "chat" /\ (Chat!Refuse(r) \/ Chat!Open(r)))
       /\ WF_chat(surface = "chat" /\ Chat!Publish(r))
       /\ WF_chat(surface = "chat" /\ ctx[r] # "live" /\ Chat!Return(r))
       /\ WF_chat(surface = "chat" /\ Chat!ClearCancel(r))
       /\ WF_chat(surface = "chat" /\ Chat!Close(r))
       /\ WF_chat(surface = "chat" /\ Chat!Settle(r))

AcpFairness ==
  /\ WF_acp(surface = "acp" /\ Acp!Serve) /\ WF_acp(surface = "acp" /\ Acp!StreamEnds)
  /\ WF_acp(surface = "acp" /\ Acp!ServeReturns) /\ WF_acp(surface = "acp" /\ Acp!EditorLeaves)
  /\ \A p \in Prompts :
       WF_acp(surface = "acp" /\ Acp!AgentSteps(p)) /\ WF_acp(surface = "acp" /\ Acp!Executed(p))

GuiFairness ==
  /\ WF_gui(surface = "gui" /\ Gui!MainSteps)
  /\ \A x \in Streams : WF_gui(surface = "gui" /\ Gui!StreamSteps(x))
  /\ \A t \in Timers : WF_gui(surface = "gui" /\ Gui!TimerSteps(t))

LspFairness ==
  /\ \A c \in Callers : WF_lsp(service = "lsp" /\ Lsp!CallStep(c))
  /\ WF_lsp(service = "lsp" /\ Lsp!StopStep(App))
  /\ \A s \in Servers : WF_lsp(service = "lsp" /\ Lsp!LoopStep(s)) /\ WF_lsp(service = "lsp" /\ Lsp!ServerReads(s))

PlugFairness ==
  /\ WF_plug(service = "plug" /\ Plug!AppSteps)
  /\ \A a \in Callers \cup {App} : WF_plug(service = "plug" /\ Plug!CallSteps(a))
  /\ \A p \in Plugins : WF_plug(service = "plug" /\ Plug!Serve(p))

ModelFairness ==
  /\ WF_model(service = "model" /\ Model!Tick)
  /\ \A c \in Calls : WF_model(service = "model" /\ Model!Step(c))

EndsSpec ==
  /\ EndsInit /\ [][EndsNext]_everything
  /\ ChatFairness /\ AcpFairness /\ GuiFairness
  /\ LspFairness /\ PlugFairness /\ ModelFairness

-----------------------------------------------------------------------------
(* Properties *)

\* Nobody is left waiting. Around the agent: a request that was let in is settled, however
\* its turn behaves (progress_deadline.go); a prompt is answered though the editor never
\* answers (permission.go); a GUI turn whose last tab was closed gives the terminal back
\* (server.go). Of the services: no call lasts for ever, of a language server that ends,
\* garbles or is not there (lsp.go), of a plugin that dies, nor the plugins' shutdown
\* (host.go), nor of a model that is throttled (retry.go, ratelimit.go).
NobodyIsLeftWaiting ==
  /\ Chat!RequestsEnd /\ Acp!PromptsAreAnswered /\ Gui!ClosedBrowserResumes
  /\ Lsp!CallsEnd /\ Plug!EveryCallEnds /\ Plug!ShutdownEnds /\ Model!CallsReturn
=============================================================================
