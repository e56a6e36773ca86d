SPECIFICATION Spec
CONSTANTS
  c1 = c1
  c2 = c2
  o1 = o1
  o2 = o2
  None = None
  Clients = {c1, c2}
  Operators = {}
  Faults = {"hang_up", "slow_start", "early_reconcile", "kill_request",
            "slow_client", "flood", "full_input"}
  MonitorProfile = FALSE
INVARIANTS OneConsole ActiveMeansAttached MarkerWithinReachWins
PROPERTY FailureIsNotOverwritten
SYMMETRY Symmetry
\* A session ends: nothing is left to do once it is released.
CHECK_DEADLOCK FALSE
