SPECIFICATION Spec
CONSTANTS
  A = A
  B = B
  C = C
  Requests = {A, B}
  Values = {"base", "override"}
  Default = "base"
  NoOverride = "none"
  MaxReloads = 0
SYMMETRY Symmetry
INVARIANT
  BaseRestoredWhenAllFinish
CHECK_DEADLOCK FALSE
