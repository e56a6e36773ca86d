SPECIFICATION Spec
CONSTANTS
  s1 = s1
  s2 = s2
  t1 = t1
  r1 = r1
  None = None
  Starts = {s1, s2}
  Stops = {t1}
  Readies = {r1}
  MaxOut = 2
INVARIANTS TypeOK RecordedEndsAreTrue TranscriptComplete ReadyIsOfItsRun
SYMMETRY Symmetry
\* Every command runs once and ends.
CHECK_DEADLOCK FALSE
