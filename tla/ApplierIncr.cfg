SPECIFICATION FairSpec
CONSTANTS
  r1 = r1
  r2 = r2
  r3 = r3
  k1 = k1
  k2 = k2
  k3 = k3
  Row <- MCRow
  Key <- MCKey
  RowKeys <- MCRowKeys
  FKParentRow = {}
  FKRef = {}
  DependencyHistorySize = 100
  MaxSeq = 5
  ForceMts = FALSE
  Cases <- MCCases
  ParallelWorkers = 2
  MtsQueueCap = 2
  BigTxQueueCap = 2
  ResendInFlight = FALSE
CHECK_DEADLOCK FALSE
INVARIANTS DDLIsolated BooksExact
PROPERTIES Replayed AllReplayed ShutdownCompletes
