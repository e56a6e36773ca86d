SPECIFICATION FairSpec
CONSTANTS
  c1 = c1
  c2 = c2
  o1 = o1
  o2 = o2
  None = None
  Clients = {}
  Operators = {o1, o2}
  Faults = {"kill_request", "kill_supervisor", "kill_operator"}
  MonitorProfile = TRUE
INVARIANTS TypeOK NoUnattestedInput PhaseIsStopping
PROPERTIES ResetIsConfirmed ContractKept StopAnswered StartingEnds
\* A session ends: nothing is left to do once it is released.
CHECK_DEADLOCK FALSE
