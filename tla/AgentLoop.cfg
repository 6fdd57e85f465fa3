SPECIFICATION FairSpec
CONSTANTS
  EditA = EditA
  EditB = EditB
  Client = Client
  Edit = Edit
  Sigs = {EditA, EditB}
  Tools = {Edit}
  ToolOf <- MCToolOf
  MaxBatch = 2
  Slots = 1
  Threshold = 2
  BaseBackoff = 1
  MaxBackoff = 2
  Clients = {Client}
  Idle = Idle
  MaxLoops = 2
  MaxCorrections = 2
  MaxEvalFailures = 1
  StuckNudge = 1
  StuckAbort = 2
INVARIANTS
  QuarantineIsEarned
  ResultAgreesWithContract
PROPERTIES
  LoopEnds
CHECK_DEADLOCK FALSE
