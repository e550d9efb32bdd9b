SPECIFICATION QuotaSpec
CONSTANTS
  PerHour = 2
  PerDay = 3
  HourLen = 2
  DayLen = 4
  HourGrace = 2
  DayGrace = 2
  Offset = 1
  MaxSkew = 1
  MaxDelay = 1
  MaxTime = 6
  MaxSends = 3
  t1 = t1  t2 = t2  t3 = t3
  Threads = {t1, t2, t3}
  MinRequests = 3
  Threshold = 2
  RetryTicks = 2
  PromptOpening = TRUE
INVARIANTS TypeOK QuotaBound DeniedWhenUsedUp HintExact BreakerTypeOK NeverShutForGood
PROPERTY Recovers
\* The clock and the number of requests are bounded: the counters' behaviours end.
CHECK_DEADLOCK FALSE
