SPECIFICATION Spec
CONSTANTS
  boot = boot
  member = member
  index = index
  miniroot = miniroot
  i1 = i1
  p1 = p1
  n1 = n1
  n2 = n2
  w1 = w1
  None = None
  Floppies = {boot}
  Tape = {member}
  Index = index
  Miniroot = miniroot
  TapeAttached = FALSE
  Inventories = {i1}
  Preparers = {p1}
  Installers = {n1, n2}
  Destinations = {w1}
  MaxChanges = 2
INVARIANTS TypeOK StagedIsRecorded StagedIsOneSet
PROPERTY StagingIsOwned
SYMMETRY Symmetry
\* Every command runs once and ends.
CHECK_DEADLOCK FALSE
