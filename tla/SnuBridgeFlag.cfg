SPECIFICATION Spec
CONSTANTS
  r1 = r1
  r2 = r2
  a1 = a1
  s1 = s1
  Callers = {r1}
  Kind <- KindOf
  MaxGen = 2
  MaxCalls = 1
  MaxInbox = 1
  MaxTokens = 0
INVARIANT ConnectedReflectsSocket
CHECK_DEADLOCK FALSE
