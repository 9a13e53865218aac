SPECIFICATION Spec
CONSTANTS
  c1 = c1
  c2 = c2
  Origins = {"o1"}
  Clients = {c1, c2}
  Requests = {"wait", "action"}
  MaxToken = 2
  MaxPushes = 2
  MaxRequests = 2
  MaxBoots = 1
PROPERTY EvictsOnlyProbedToken
CHECK_DEADLOCK FALSE
