SPECIFICATION Spec
CONSTANTS
  TableOrder <- MCTableOrder
  IndexOrder <- MCIndexOrder
  IndexTable <- MCIndexTable
  ViewOrder <- MCViewOrder
  TriggerOrder <- MCTriggerOrder
  TriggerTable <- MCTriggerTable
  Schemas <- DeletedBaseSchemas
  Practices = {"migrate_deleted_base"}
  MaxReleases = 2
  MaxInstalls = 1
  MaxCrashes = 0
INVARIANT MigrationsSeeTheirTable
CHECK_DEADLOCK FALSE
