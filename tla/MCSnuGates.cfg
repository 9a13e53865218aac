SPECIFICATION Spec
CONSTANTS
  p1 = p1
  f1 = f1
  f2 = f2
  Clients = {f1, f2}
  Protocol <- ProtocolOf
  Permitted = {"approve"}
  MaxGen = 2
  MaxLoad = 3
  MaxRev = 1
  MaxInbox = 1
SYMMETRY Same
INVARIANTS TypeOK GatesOfOwnTab LegacySerialized
PROPERTIES StatusOnlyLearns LearnedNeverLegacy
CHECK_DEADLOCK FALSE
