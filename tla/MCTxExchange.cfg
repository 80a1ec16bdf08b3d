SPECIFICATION MCSpec

CONSTANTS
  Total = 7
  WholeTotal = 6
  BatchSize = 3
  MaxCredit = 3
  MaxBreaks = 2
  Expected = 5
  WholeExpected = 6
  RecvBatchSize = 2
  MaxRecvBreaks = 2

\* The programs end, or wait for what does not come.
CHECK_DEADLOCK FALSE

INVARIANTS
  WholeBatches
  AlwaysInTransaction
  TakesWholeBatches
PROPERTIES
  FullBatchesCommitted
  ReceiversEnd
