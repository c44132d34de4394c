SPECIFICATION Spec
CONSTANTS
  x = x
  Types = {x}
  MaxDepth = 4
  MaxBranches = 2
  CallersMay <- NoUses
PROPERTIES
  RevertedUnsetsReachJump
CHECK_DEADLOCK FALSE
