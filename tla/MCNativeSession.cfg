SPECIFICATION Spec
CONSTANTS
  i1 = i1
  i2 = i2
  n1 = n1
  p1 = p1
  p2 = p2
  Procs = {p1, p2}
  Ids <- MCIds
  ScopeName <- MCScopeName
  None = None
  Operations = {"show", "options", "switch", "form", "basic", "login", "attach", "forget"}
  MaxCookies = 2
  MaxCommands = 1
SYMMETRY Same
INVARIANTS TypeOK HonestSwitch SessionKept
CHECK_DEADLOCK FALSE
