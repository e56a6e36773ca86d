SPECIFICATION Spec
CONSTANTS
  rp0 = rp0
  rp1 = rp1
  i1 = i1
  i2 = i2
  p1 = p1
  p2 = p2
  s1 = s1
  None = None
  Disks = {rp0, rp1}
  Importers = {i1, i2}
  Preparers = {p1, p2}
  Sessions = {s1}
  MaxChanges = 2
INVARIANTS TypeOK GoldenIsWhole SessionIsOneGolden
PROPERTY PublishedOnce
SYMMETRY Symmetry
\* Every command runs once and ends.
CHECK_DEADLOCK FALSE
