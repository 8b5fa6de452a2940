SPECIFICATION FairSpec
CONSTANTS
  Dump <- OneEntry
  Stream <- DdlDml
  Run = {1, 2}
  ChanCap = 1
  GroupMax = 2
  MaxBatch = 2
  KeepOrder = FALSE
  MaxFault = 1
CHECK_DEADLOCK FALSE
INVARIANTS SavedSent FullExecuted SchemaFresh
PROPERTY Delivered
