SPECIFICATION Spec
CONSTANTS
  Tables <- MCTables
  Ids <- MCIds
  TableOf <- MCTableOf
  Keys <- MCKeys
  Shapes <- MCShapes
  Sources <- MCSources
  Schemas <- MCSchemas
  SeedShapes <- MCSeedShapes
  Counts <- MCCounts
  MaxRows = 4
  MaxChanges = 1
  MaxCommands = 3
  MaxRuns = 1
  MaxMeddling = 1
INVARIANTS
  TypeOK
  ReferencesFaithful
  ReportHonest
  TrackingSound
CHECK_DEADLOCK FALSE
