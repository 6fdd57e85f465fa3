SPECIFICATION Spec
CONSTANTS
  A = A
  B = B
  C = C
  Requests = {A, B}
  Values = {"base", "override"}
  Default = "base"
  NoOverride = "none"
  MaxReloads = 1
SYMMETRY Symmetry
INVARIANTS
  BaseKeptOutsideTheWindow
  SavedBaseIsConfigured
CHECK_DEADLOCK FALSE
