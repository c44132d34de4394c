CONSTANTS
  Programs <- MCPrograms
  MaxEvents = 6
SPECIFICATION Spec
INVARIANTS
  StatementsStartReady
CHECK_DEADLOCK FALSE
