SPECIFICATION Spec
CONSTANTS
  x = x
  y = y
  Types = {x, y}
  Globals = {x}
  Dialects <- Sound
  Shapes = {}
INVARIANTS
  FlowAnalysisTypeOK
  InferenceIsSound
  AnalysisNeverAborts
  NothingLeaksFromProcedure
PROPERTIES
  ReanalysisOnlyLoses
CHECK_DEADLOCK FALSE
