SPECIFICATION Spec
CONSTANTS
  Limit = 2
  WindowMs = 4
  Grace = 1
  MaxDelay = 2
  MaxTime = 8
  MaxSends = 5
INVARIANTS TypeOK MillisecondsBounded DeniedByRivals
\* The clock and the number of EVALs are bounded: a behaviour ends there.
CHECK_DEADLOCK FALSE
