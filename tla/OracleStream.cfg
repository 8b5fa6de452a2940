CONSTANTS
  Redo <- MCRedo
  Switches = {7}
  ConfigScns = {0, 1}
  Interval = 4
  RecordsCap = 2
  PipeCap = 1
  MaxRestarts = 2
  Seen = {2, 5, 10, 15}
SPECIFICATION FairSpec
INVARIANTS Recoverable 
PROPERTY AllApplied
CHECK_DEADLOCK FALSE
