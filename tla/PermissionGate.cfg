SPECIFICATION FairSpec
CONSTANTS
  write = write
  terminal = terminal
  read = read
  editLeaf = editLeaf
  editCore = editCore
  runTests = runTests
  readFile = readFile
  banned = banned
  Tools <- MCTools
  Calls <- MCCalls
  ToolOf <- MCToolOf
  Ruled = {banned}
  Dangerous = {editLeaf, editCore, runTests}
  Central = {editCore}
  Judgeable = {runTests}
  MaxChecks = 2
INVARIANTS
  ConsentBehindEveryRisk
PROPERTIES
  
  EveryCheckDecides
CHECK_DEADLOCK FALSE
