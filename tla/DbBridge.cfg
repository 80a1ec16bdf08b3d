SPECIFICATION Spec
CONSTANTS
  Capacity = 1
  Ids = {1, 2}
  Target = 2
  MaxCredit = 1
  MaxBreaks = 0
  MaxCrashes = 1
  PeerReleases = FALSE
  Expected = 0
  MaxLinks = 0
  MaxRestarts = 1
\* The programs end, or wait for what does not come.
CHECK_DEADLOCK FALSE

INVARIANTS
  NoRecordLost
  TargetDeleted
