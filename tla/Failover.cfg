SPECIFICATION Spec
CONSTANTS
  Nodes = {n1, n2}
  None = None
  Total = 3
  Expected = 0
  MaxCredit = 2
  MaxBreaks = 2
\* The programs wait when everything is confirmed.
CHECK_DEADLOCK FALSE
INVARIANTS
  IgnoresOnlyDuplicates
