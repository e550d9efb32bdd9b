SPECIFICATION Spec
CONSTANTS
  Limit = 1
  WindowMs = 5
  Burst = 0
  Grace = 2
  MaxTries = 2
  MaxTime = 10
  MaxSends = 3
INVARIANTS TypeOK ConstantRate
PROPERTY ImplementsIdeal
\* The clock and the number of EVALs are bounded: a behaviour ends there.
CHECK_DEADLOCK FALSE
