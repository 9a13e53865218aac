SPECIFICATION Spec
CONSTANTS
  c1 = c1
  c2 = c2
  Origins = {"o1", "o2"}
  Clients = {c1}
  Requests = {"wait", "freshWait", "action", "refresh", "verify", "clear"}
  MaxToken = 2
  MaxPushes = 2
  MaxRequests = 2
  MaxBoots = 2
INVARIANTS TypeOK LatestIsCached VerifiedThisLifetime
PROPERTY SessionsKeptApart
CHECK_DEADLOCK FALSE
