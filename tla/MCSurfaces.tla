----------------------------- MODULE MCSurfaces -----------------------------
(***************************************************************************)
(* Instances of the four components around the turns of the agent:         *)
(* requests of the browser, the agent behind an editor, the terminal that  *)
(* hands over to the browser, and the index that follows the files. They   *)
(* share no state, so what their steps do in between shows nothing new: a  *)
(* behaviour is one of a single component, `surface`, and the others stay  *)
(* as they begin.                                                          *)
(***************************************************************************)
EXTENDS Naturals, TLC

CONSTANTS
  Nobody, None,
  \* ChatRequests
  NoKey, Posts, RequestKeys, Headers, TTL, Silence, Hard,
  \* AcpAgent
  Sessions, Prompts, Asks, Pipe, MaxLines,
  \* GuiSession
  Streams, Timers, Leftovers, MaxSessions,
  \* AutoIngest
  Workspaces, Documents, Watched, Contents, Long, Passes, MaxEdits, MaxEnds

VARIABLES
  surface,
  chatEntry, progressCh, activeChatCancel, chatPc, key, outcome, ctx, watch, beat, idleTimer,
  hardTimer, age, since, quiet, spoke, latest,
  input, eof, serving, acpKnown, cancelled, active, pending, mail, acpPc, acpSession, ask,
  to, stop, asked, answer, verdict, asker, lines, told,
  main, session, switch, resume, ever, grace, guiTimer, stream, subs, sentIn, endedBy, seen,
  back, lost,
  disk, manifest, saved, index, known, attached, unseen, pass, edits, ends, crossed, dropped

Chat == INSTANCE ChatRequests WITH
  Requests <- Posts, Keys <- RequestKeys, Idle <- Silence, entry <- chatEntry, pc <- chatPc
Acp == INSTANCE AcpAgent WITH known <- acpKnown, pc <- acpPc, session <- acpSession
Gui == INSTANCE GuiSession WITH timer <- guiTimer
Ingest == INSTANCE AutoIngest WITH Names <- Documents

chat ==
  <<chatEntry, progressCh, activeChatCancel, chatPc, key, outcome, ctx, watch, beat, idleTimer,
    hardTimer, age, since, quiet, spoke, latest>>
acp ==
  <<input, eof, serving, acpKnown, cancelled, active, pending, mail, acpPc, acpSession, ask,
    to, stop, asked, answer, verdict, asker, lines, told>>
gui ==
  <<main, session, switch, resume, ever, grace, guiTimer, stream, subs, sentIn, endedBy, seen,
    back, lost>>
ingest ==
  <<disk, manifest, saved, index, known, attached, unseen, pass, edits, ends, crossed, dropped>>
surfaces == <<surface, chat, acp, gui, ingest>>

ASSUME SurfacesAssumption ==
  /\ Chat!TimesAssumption /\ Chat!NamesAssumption /\ Chat!HeadersAssumption
  /\ Acp!NamesAssumption /\ Acp!BoundsAssumption
  /\ Gui!NobodyAssumption /\ Gui!FlagsAssumption /\ Gui!BoundsAssumption
  /\ Ingest!NamesAssumption /\ Ingest!ContentsAssumption /\ Ingest!BoundsAssumption

\* Of the files that are there at first, one choice is enough for the others.
SurfacesBegin ==
  /\ Chat!Init /\ Acp!Init /\ Gui!Init /\ Ingest!Init
  /\ surface # "ingest" => disk = [f \in Workspaces \X Documents |-> CHOOSE c \in Contents : TRUE]

SurfacesInit ==
  surface \in {"chat", "acp", "gui", "ingest"} /\ SurfacesBegin

OfChat == surface = "chat" /\ UNCHANGED <<surface, acp, gui, ingest>>
OfAcp == surface = "acp" /\ UNCHANGED <<surface, chat, gui, ingest>>
OfGui == surface = "gui" /\ UNCHANGED <<surface, chat, acp, ingest>>
OfIngest == surface = "ingest" /\ UNCHANGED <<surface, chat, acp, gui>>

SurfacesNext ==
  \/ OfChat /\ Chat!Next
  \/ OfAcp /\ Acp!Next
  \/ OfGui /\ Gui!Next
  \/ OfIngest /\ Ingest!Next

SurfacesSpec == SurfacesInit /\ [][SurfacesNext]_surfaces

\* Prompts are alike, and so are the requests to the editor and the passes over the files.
SurfacesAlike == Permutations(Prompts) \cup Permutations(Asks) \cup Permutations(Passes)

-----------------------------------------------------------------------------
(* Properties; the modules say more of each *)

\* A key runs at most one request until its time is over, and never stays in flight
\* without one (idempotency.go).
RequestsAreSettled ==
  surface = "chat" => Chat!TypeOK /\ Chat!RunsOnce /\ Chat!NoWedgedKey

\* A request that was answered is replayed to a retry until its time is over, and not
\* run again (idempotency.go).
RetriesAreReplayed == Chat!RetryReplays

\* A turn ends for a reason of its own: the latest chat turn is stuck only after silence
\* (progress_deadline.go), a turn of the GUI is over only by its own signal (server.go).
TurnsEndForCause == Chat!StuckMeansSilent /\ Gui!EndsByItsOwn

\* The editor alone allows, cancels and closes: no action without its approval, no
\* cancel meant for another turn, no slot or turn left behind (acp.go, permission.go).
EditorDecides == surface = "acp" =>
  /\ Acp!TypeOK /\ Acp!OnlyApprovedIsAllowed /\ Acp!CancelIsOwn
  /\ Acp!SlotsAreFreed /\ Acp!NoTurnOutlivesServe

\* A reload is no end, and the CLI is left alone (session.go), but for timers that are
\* beyond recall.
GuiIsPatient ==
  surface = "gui" => Gui!TypeOK /\ Gui!ReloadIsNoEnd /\ Gui!CliIsLeftAlone

\* When nothing is left to do, the index holds what the files hold that passes and ends
\* of the process did not cross (auto.go).
IndexIsCurrent ==
  surface = "ingest" => Ingest!TypeOK /\ Ingest!KeepsCurrent /\ Ingest!DeletedIsForgotten
=============================================================================
