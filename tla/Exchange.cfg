SPECIFICATION Spec

CONSTANTS
  Total = 3
  MaxCredit = 2
  MaxAttempts = 3
  Expected = 3

\* The sender ends when everything is confirmed, the receiver when it has
\* printed what it expects.
CHECK_DEADLOCK FALSE

INVARIANTS
  Window
  NothingMissed
  AtMostOneDuplicate
PROPERTIES
  ImplementsAtLeastOnce
  AllConfirmed
  EndsWhenPrinted
