SPECIFICATION Spec
CONSTANTS
  p1 = p1
  p2 = p2
  Procs = {p1, p2}
  Names = {"a", "b"}
  Instances = {"i1"}
  Methods = {"basic", "code"}
  Configs <- InitialConfigs
  Aliases <- InitialAliases
  MaxCommands = 1
INVARIANTS TypeOK FailureLeavesNoTrace DefaultIsAProfile
PROPERTIES DeletedIsClean
SYMMETRY Interchangeable
CHECK_DEADLOCK FALSE
