SPECIFICATION SurfacesSpec
CONSTANTS
  Nobody = Nobody
  None = None
  NoKey = NoKey
  Posts = {Request1, Request2}
  RequestKeys = {Key}
  Headers = {Key}
  TTL = 1
  Silence = 2
  Hard = 3
  Sessions = {Session}
  Prompts = {Prompt1, Prompt2}
  Asks = {Ask1, Ask2}
  Pipe = 1
  MaxLines = 2
  Streams = {Tab1, Tab2}
  Timers = {Timer1, Timer2}
  Leftovers = TRUE
  MaxSessions = 3
  Workspaces = {Workspace}
  Documents = {File1}
  Watched = {File1}
  Contents = {LongText, ShortText}
  Long = {LongText}
  Passes = {Pass1, Pass2}
  MaxEdits = 3
  MaxEnds = 1
SYMMETRY SurfacesAlike
INVARIANTS
  RequestsAreSettled
  EditorDecides
  GuiIsPatient
  IndexIsCurrent
PROPERTIES
  RetriesAreReplayed
  TurnsEndForCause
CHECK_DEADLOCK FALSE
