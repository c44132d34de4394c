SPECIFICATION Spec
CONSTANTS
  x = x
  Types = {x}
  MaxDepth = 4
  MaxBranches = 2
  CallersMay <- NoUses
INVARIANTS
  TypeOK
  HistoryBalanced
  NoAssertionFails
  TopJumpIsInnermost
PROPERTIES
  BranchPopRestores
  ImprovementsAreScoped
  MergeIsSound
  JumpIsPessimistic
CHECK_DEADLOCK FALSE
