SPECIFICATION Spec
CONSTANTS
  x = x
  y = y
  Types = {x}
  Globals = {}
  Dialects <- LoopCondition
  Shapes = {}
INVARIANTS
  LoopConditionIsSound
CHECK_DEADLOCK FALSE
