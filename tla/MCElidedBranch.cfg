SPECIFICATION Spec
CONSTANTS
  x = x
  y = y
  Types = {x}
  Globals = {}
  Dialects <- ElidedBranch
  Shapes = {"jump_after_negative"}
INVARIANTS
  InferenceIsSound
CHECK_DEADLOCK FALSE
