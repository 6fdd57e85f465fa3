SPECIFICATION FairSpec
CONSTANTS
  T1 = T1
  T2 = T2
  T3 = T3
  T4 = T4
  Nodes <- MCNodes
  Deps <- MCDeps
  Checkable = {T3}
  HasArtifacts = TRUE
  MaxRepairRounds = 2
  MaxAttempts = 3
INVARIANTS
  BlockedByFailureOnly
  JournalledWorkIsOnDisk
  GreenTickHasNoFailingProof
PROPERTIES
  NoTaskPaidTwice
  AttemptEnds
  ImplementsTaskGraph
CHECK_DEADLOCK FALSE
