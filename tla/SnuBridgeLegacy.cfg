SPECIFICATION Spec
CONSTANTS
  r1 = r1
  r2 = r2
  a1 = a1
  s1 = s1
  Callers = {a1}
  Kind <- KindOf
  MaxGen = 1
  MaxCalls = 2
  MaxInbox = 1
  MaxTokens = 0
INVARIANT ActionReplyIsOwn
CHECK_DEADLOCK FALSE
