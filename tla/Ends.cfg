SPECIFICATION EndsSpec
CONSTANTS
  Nobody = Nobody
  None = None
  NoKey = NoKey
  Posts = {Request1, Request2}
  RequestKeys = {}
  Headers = {NoKey}
  TTL = 1
  Silence = 1
  Hard = 1
  Sessions = {Session}
  Prompts = {Prompt1}
  Asks = {Ask1, Ask2}
  Pipe = 1
  MaxLines = 1
  Streams = {Tab1, Tab2}
  Timers = {Timer1, Timer2}
  Leftovers = FALSE
  MaxSessions = 2
  Workspaces = {Workspace}
  Documents = {}
  Watched = {}
  Contents = {LongText, ShortText}
  Long = {LongText}
  Passes = {Pass1}
  MaxEdits = 0
  MaxEnds = 0
  NoOne = NoOne
  Callers = {Caller1}
  App = App
  Servers = {Server}
  Kinds = {"symbol"}
  FaultsOfServers = {"missing", "ends", "garbles"}
  ServerPipe = 1
  MaxAsks = 1
  MaxChanges = 0
  MaxServerFaults = 1
  Sources = {}
  PlainSources = {}
  Tools = {Tool, BuiltinTool}
  Builtin = {BuiltinTool}
  Offers = {}
  Operators = {}
  ToolCallers = {}
  Processes = {}
  MaxOps = 0
  Plugins = {Plugin1, Plugin2}
  PluginFaults = {"ends"}
  MaxPluginCalls = 1
  MaxPluginFaults = 2
  Calls = {Call1}
  Embedders = {}
  MaxIssues = 2
  KeyCount = 1
  RPM = 2
  MaxAttempts = 2
  BaseDelay = 1
  MaxDelay = 2
  Minute = 2
  Hints = {0, 2}
  DefaultHold = 1
  Cooldown = 1
  Release = 3
PROPERTIES
  NobodyIsLeftWaiting
CHECK_DEADLOCK FALSE
