SPECIFICATION Spec
CONSTANTS
  p1 = p1
  f1 = f1
  f2 = f2
  Clients = {f1}
  Protocol <- ProtocolOf
  Permitted = {"approve"}
  MaxGen = 1
  MaxLoad = 3
  MaxRev = 0
  MaxInbox = 1
INVARIANT AdvertisedNeverLegacy
CHECK_DEADLOCK FALSE
