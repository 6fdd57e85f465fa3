SPECIFICATION MemorySpec
CONSTANTS
  J1 = J1
  J2 = J2
  NoJob = NoJob
  Jobs = {J1, J2}
  MaxChanges = 2
  MaxCalls = 1
  MaxFailures = 1
  Key1 = Key1
  Key2 = Key2
  A = A
  B = B
  Keys = {Key1}
  Texts = {A, B}
  NoText = NoText
INVARIANTS
  NoWakeUpLost
  LoneShutdownSavesAll
  AwaitedVectorsAreSaved
CHECK_DEADLOCK FALSE
