SPECIFICATION Spec
CONSTANTS
  c1 = c1
  c2 = c2
  o1 = o1
  o2 = o2
  None = None
  Clients = {}
  Operators = {o1}
  Faults = {"slow_start"}
  MonitorProfile = FALSE
INVARIANT NoUnattestedInput
\* A session ends: nothing is left to do once it is released.
CHECK_DEADLOCK FALSE
