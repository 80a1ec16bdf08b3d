SPECIFICATION MCSpec

CONSTANTS
  SrcCapacity = 2
  SrcIds = {1, 2}
  Target = 2
  MaxCredit = 1
  MaxBreaks = 1
  MaxCrashes = 1
  PeerReleases = TRUE
  Capacity = 1
  Rows = {1, 2, 3}
  MaxLog = 4
  Expected = 2
  MaxLinks = 1
  MaxRestarts = 2

\* The programs end, or the log of the receiver's node does.
CHECK_DEADLOCK FALSE

INVARIANTS
  NeverIdle
  ThreadSurvives
  InsertedIsCommitted
  NothingLost
  ExpectedInserted
PROPERTIES
  AllDeleted
  AllInserted
