SPECIFICATION Spec
CONSTANTS
  r1 = r1
  r2 = r2
  a1 = a1
  s1 = s1
  Callers = {r1, s1}
  Kind <- KindOf
  MaxGen = 2
  MaxCalls = 1
  MaxInbox = 1
  MaxTokens = 1
INVARIANTS TypeOK GoneWaitersFailing NoBannerStranded SessionWaitSurvives
PROPERTIES HealthyConnectionKept ImplementsCalls
CHECK_DEADLOCK FALSE
