SPECIFICATION Spec
CONSTANTS
  IntBits = 28
  BigBits = 30
  Base = 8
CHECK_DEADLOCK FALSE
INVARIANTS  RoundTrip  ColumnsMerged
