SPECIFICATION Spec
CONSTANTS
  r1 = r1
  r2 = r2
  n1 = n1
  p1 = p1
  r3 = r3
  k3 = k3
  k1 = k1
  k2 = k2
  kp = kp
  Row <- MCRow
  Key <- MCKey
  RowKeys <- MCRowKeys
  FKParentRow <- MCFKParentRow
  FKRef <- MCFKRef
  DependencyHistorySize = 3
  MaxSeq = 3
  MaxRows = 2
  MixedTx = FALSE
INVARIANTS DependencySound Remembered
