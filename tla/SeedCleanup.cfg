SPECIFICATION Spec
CONSTANTS
  Tables <- MCTables
  Ids <- MCIds
  TableOf <- MCTableOf
  Keys <- MCKeys
  Shapes <- MCShapes
  Sources <- MCSources
  Schemas <- MCSchemas
  SeedShapes <- MCSeedShapes
  Counts <- MCCounts
  MaxRows = 4
  MaxChanges = 0
  MaxCommands = 2
  MaxRuns = 1
  MaxMeddling = 0
INVARIANT PartialRunsCleanable
CHECK_DEADLOCK FALSE
