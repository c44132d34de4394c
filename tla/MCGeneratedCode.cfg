CONSTANTS
  Programs <- MCPrograms
  MaxEvents = 12
SPECIFICATION Spec
INVARIANTS
  CompiledAsMeant
  SavepointsUnwound
CHECK_DEADLOCK FALSE
