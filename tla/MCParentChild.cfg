SPECIFICATION Spec
CONSTANTS
  ka = ka
  kb = kb
  Keys = {ka, kb}
  NoKey = NoKey
  NChildren = 2
  MaxRows = 2
INVARIANTS CountsMatchHolders JoinIsExact
SYMMETRY Symmetric
CHECK_DEADLOCK FALSE
