SPECIFICATION Spec
CONSTANTS
  TableOrder <- MCTableOrder
  IndexOrder <- MCIndexOrder
  IndexTable <- MCIndexTable
  ViewOrder <- MCViewOrder
  TriggerOrder <- MCTriggerOrder
  TriggerTable <- MCTriggerTable
  Schemas <- MCSchemas
  Practices = {}
  MaxReleases = 3
  MaxInstalls = 2
  MaxCrashes = 1
INVARIANTS
  UpgradeTypeOK
  UpgradeIsComplete
  NoStatementFails
  MigrationsSeeTheirTable
  ReportIsComplete
PROPERTIES
  PreciousDataSurvives
  DowngradeRefused
  UpgradeCompletes
CHECK_DEADLOCK FALSE
