SPECIFICATION Spec
CONSTANTS
  v7 = v7
  bsd = bsd
  p1 = p1
  p2 = p2
  None = None
  Procs = {p1, p2}
  Systems = {v7, bsd}
  Explicit <- SecondOfV7
  MaxNumber = 2
  MaxTotal = 2
  M1Paths <- FirstOfV7
  Limit <- OneForBsd
INVARIANTS TypeOK WithinLimits RunningHasDisks ExclusivePreparation ForeignDisksKept
PROPERTIES NumbersIssuedOnce LifecycleKept
SYMMETRY ProcSymmetry
\* The ids are bounded: once all are released, nothing is left to do.
CHECK_DEADLOCK FALSE
