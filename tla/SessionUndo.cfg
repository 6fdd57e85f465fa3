SPECIFICATION Spec
CONSTANTS
  Batches = {Batch}
  NumFiles = 2
  Contents = {"a"}
  MaxFiles = 2
  MaxCheckpoints = 1
  StmMax = 2
  KeepRecent = 1
  MaxSays = 2
  MaxIds = 2
  MaxEvents = 2
INVARIANTS
  RollbackRestores
  UndoPointSurvives
PROPERTIES
  RewoundConversation
CHECK_DEADLOCK FALSE
