SPECIFICATION Spec
CONSTANTS
  NatsMaxMsg = 2
  IndexLen = 2
  NoMsg <- MCNoMsg
  MsgLen <- MCMsgLen
  Rows <- TwoTables
  HasUniqueKey = {1}
  ChunkSize = 2
  DumpEntryLimit = 1
  ResultsCap = 1
  DropTableIfExists = TRUE
  FullQueueCap = 1
  DumpQueueCap = 1
  InitTx = {0}
  MaxTx = 1
  SrcCrashes = 1
  DstCrashes = 1
  LateRequests = FALSE
  MaxFail = 0
CHECK_DEADLOCK FALSE
INVARIANTS ConsulCovered StreamCovered OneRound QueuesExact
