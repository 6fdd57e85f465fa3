SPECIFICATION FairSpec
CONSTANTS
  Models = {Small, Large}
  MaxProcs = 3
  MaxCalls = 2
  MaxMisses = 2
  MaxTries = 2
  User = User
  None = None
INVARIANTS
  SupervisedUnlessGivenUp
PROPERTIES
  CrashIsNoticed
  ManagerIsReleased
CHECK_DEADLOCK FALSE
