SPECIFICATION Spec
CONSTANTS
  Limit = 2
  WindowMs = 4
  Grace = 1
  MaxDelay = 0
  MaxTime = 8
  MaxSends = 3
INVARIANT RequestsBounded
CHECK_DEADLOCK FALSE
