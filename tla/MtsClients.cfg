SPECIFICATION FairSpec
CONSTANTS
  MaxSeq = 4
  ForceMts = FALSE
  MaxRotate = 1
CHECK_DEADLOCK FALSE
INVARIANTS LCSound DependencyHonoured SeparateAlone
PROPERTIES RotateQuiet EntryHandedOut
