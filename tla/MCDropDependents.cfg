SPECIFICATION Spec
CONSTANTS
  TableOrder <- MCTableOrder
  IndexOrder <- MCIndexOrder
  IndexTable <- MCIndexTable
  ViewOrder <- MCViewOrder
  TriggerOrder <- MCTriggerOrder
  TriggerTable <- MCTriggerTable
  Schemas <- DependentSchemas
  Practices = {"drop_dependents"}
  MaxReleases = 2
  MaxInstalls = 1
  MaxCrashes = 0
PROPERTY PreciousDataSurvives
CHECK_DEADLOCK FALSE
