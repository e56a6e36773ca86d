SPECIFICATION Spec
CONSTANTS
  stand = stand
  miniroot = miniroot
  boot42 = boot42
  uue = uue
  b1 = b1
  b2 = b2
  None = None
  TapeFiles <- TwoFiles
  Contents <- FewContents
  Miniroot = miniroot
  Boots = {boot42, uue}
  Builders = {b1, b2}
  MaxChanges = 1
INVARIANTS TypeOK TapeReadsBack MinirootIsOnTape
PROPERTY MediaPublishedOnce
SYMMETRY Symmetry
\* Every command runs once and ends.
CHECK_DEADLOCK FALSE
