SPECIFICATION FairSpec
CONSTANTS
  Fwd = "fwd"
  Rev = "rev"
  Operators = {"o1"}
  Kinds = {"create", "update", "pause", "resume", "delete", "reverse", "reverse_start"}
  Paused = {"fwd"}
  Scenarios <- MCScenarios
  MaxRequests = 4
  MaxFails = 1
INVARIANTS  ReverseAfterFinish
PROPERTIES Resumed Reversed
CHECK_DEADLOCK FALSE
