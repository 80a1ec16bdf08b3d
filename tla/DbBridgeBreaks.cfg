SPECIFICATION Spec
CONSTANTS
  Capacity = 1
  Ids = {1, 2}
  Target = 0
  MaxCredit = 1
  MaxBreaks = 1
  MaxCrashes = 0
  PeerReleases = FALSE
  Expected = 0
  MaxLinks = 0
  MaxRestarts = 0
INVARIANTS
  NoRecordLost
