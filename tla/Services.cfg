SPECIFICATION ServicesSpec
CONSTANTS
  NoOne = NoOne
  Callers = {Caller1, Caller2}
  App = App
  Servers = {Server}
  Kinds = {"symbol"}
  FaultsOfServers = {"missing", "ends", "hangs", "garbles"}
  ServerPipe = 1
  MaxAsks = 1
  MaxChanges = 0
  MaxServerFaults = 1
  Sources = {Source, PlainSource}
  PlainSources = {PlainSource}
  Tools = {Tool, BuiltinTool}
  Builtin = {BuiltinTool}
  Offers = {{Tool, BuiltinTool}}
  Operators = {Operator1, Operator2}
  ToolCallers = {ToolCaller}
  Processes = {Process1, Process2}
  MaxOps = 3
  Plugins = {Plugin1, Plugin2}
  PluginFaults = {"ends", "hangs", "chats"}
  MaxPluginCalls = 1
  MaxPluginFaults = 1
  Calls = {Call1, Call2}
  Embedders = {}
  MaxIssues = 1
  KeyCount = 1
  RPM = 2
  MaxAttempts = 2
  BaseDelay = 1
  MaxDelay = 2
  Minute = 2
  Hints = {0, 2}
  DefaultHold = 1
  Cooldown = 1
  Release = 3
SYMMETRY ServicesAlike
INVARIANTS
  AnswersReachTheirCaller
  SourcesAreWhole
  NothingIsLeft
  ProviderIsHeeded
  PaceIsKept
PROPERTIES
  HandshakeFirst
CHECK_DEADLOCK FALSE
