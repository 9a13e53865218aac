SPECIFICATION Spec
CONSTANTS
  c1 = c1
  c2 = c2
  Origins = {"o1", "o2"}
  Clients = {c1}
  Requests = {"wait"}
  MaxToken = 1
  MaxPushes = 2
  MaxRequests = 1
  MaxBoots = 1
INVARIANT WritesAreAtomic
CHECK_DEADLOCK FALSE
