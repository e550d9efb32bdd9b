SPECIFICATION Spec
CONSTANTS
  Limit = 1
  WindowMs = 3
  Burst = 2
  Callers = {c1}
  MaxSkew = 1
  MaxTries = 2
  MaxTime = 7
  MaxSends = 4
INVARIANTS TypeOK AdmissionBound
PROPERTIES ImplementsIdeal LatenessIsDelay RetryHintTight
\* The clock and the number of EVALs are bounded: a behaviour ends there.
CHECK_DEADLOCK FALSE
