SPECIFICATION Spec
CONSTANTS
  TableOrder <- MCTableOrder
  IndexOrder <- MCIndexOrder
  IndexTable <- MCIndexTable
  ViewOrder <- MCViewOrder
  TriggerOrder <- MCTriggerOrder
  TriggerTable <- MCTriggerTable
  Schemas <- RevertSchemas
  Practices = {"revert"}
  MaxReleases = 3
  MaxInstalls = 2
  MaxCrashes = 1
INVARIANT UpgradeIsComplete
CHECK_DEADLOCK FALSE
