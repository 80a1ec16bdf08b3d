SPECIFICATION Spec
CONSTANTS
  Total = 3
  MaxCredit = 2
  MaxAttempts = 2
  Expected = 0
CHECK_DEADLOCK FALSE
INVARIANTS
  DuplicatesIgnored
