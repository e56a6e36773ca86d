SPECIFICATION Spec
CONSTANTS
  o1 = o1
  Operators = {o1}
  Timeout = 2
  Grace = 1
  Delay = 1
  MaxKeys = 4
  MaxOut = 3
INVARIANTS TypeOK QuitReachesMonitor EvidenceStaysTrue StopIsBounded
           TimelyStopSucceeds RecoveryAnswerIsNew
\* A session ends: nothing is left to do once it is released.
CHECK_DEADLOCK FALSE
