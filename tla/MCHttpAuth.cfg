SPECIFICATION Spec
CONSTANTS
  p1 = p1
  p2 = p2
  Procs = {p1, p2}
  Methods = {"client_credentials", "password", "authorization_code", "static"}
  Answers = {"repeat", "rotate", "omit"}
  MaxTokens = 4
  MaxCalls = 1
INVARIANTS TypeOK EffectAtMostOnce RetryWithNewToken LiveGrantKept
SYMMETRY Interchangeable
CHECK_DEADLOCK FALSE
