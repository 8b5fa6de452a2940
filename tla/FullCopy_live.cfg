SPECIFICATION FairSpec
CONSTANTS
  NatsMaxMsg = 2
  IndexLen = 2
  NoMsg <- MCNoMsg
  MsgLen <- MCMsgLen
  Rows <- OneRow
  HasUniqueKey = {1}
  ChunkSize = 2
  DumpEntryLimit = 1
  ResultsCap = 1
  DropTableIfExists = TRUE
  FullQueueCap = 1
  DumpQueueCap = 1
  InitTx = {1}
  MaxTx = 1
  SrcCrashes = 1
  DstCrashes = 0
  LateRequests = FALSE
  MaxFail = 1
CHECK_DEADLOCK FALSE
PROPERTY CopyCompletes
