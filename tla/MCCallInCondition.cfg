SPECIFICATION Spec
CONSTANTS
  x = x
  y = y
  Types = {x}
  Globals = {x}
  Dialects <- CallInCondition
  Shapes = {"call_in_condition"}
INVARIANTS
  AnalysisNeverAborts
CHECK_DEADLOCK FALSE
