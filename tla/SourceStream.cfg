CONSTANTS
  Jobs <- MCJobs
  Stream <- MCStream
  BigTxSrcQueue = 0
  BigTxMaxJobs = 1
  GroupMaxSize = 2
  ChanCap = 1
  Scenarios <- MCScenarios
SPECIFICATION FairSpec
INVARIANTS BigTxCounted TargetQueued
PROPERTIES Arrive Delivered ShutdownEnds
CHECK_DEADLOCK FALSE
