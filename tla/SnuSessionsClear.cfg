SPECIFICATION Spec
CONSTANTS
  c1 = c1
  c2 = c2
  Origins = {"o1"}
  Clients = {c1}
  Requests = {"wait", "clear"}
  MaxToken = 1
  MaxPushes = 1
  MaxRequests = 1
  MaxBoots = 1
INVARIANT ClearClearsDisk
CHECK_DEADLOCK FALSE
