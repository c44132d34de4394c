SPECIFICATION Spec
CONSTANTS
  TableOrder <- MCTableOrder
  IndexOrder <- MCIndexOrder
  IndexTable <- MCIndexTable
  ViewOrder <- MCViewOrder
  TriggerOrder <- MCTriggerOrder
  TriggerTable <- MCTriggerTable
  Schemas <- IndexInGroupSchemas
  Practices = {"index_in_group"}
  MaxReleases = 2
  MaxInstalls = 1
  MaxCrashes = 0
INVARIANT UpgradeIsComplete
CHECK_DEADLOCK FALSE
