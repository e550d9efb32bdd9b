------------------------------ MODULE MCQuota ------------------------------
(* QuotaCounters and QuotaBreaker for TLC in one run: while Redis works and the     *)
(* breaker rests the counters are used; until they are, the breaker's requests run. *)
(* The two share no state, so that the behaviours of either are all there.          *)
EXTENDS QuotaCounters, QuotaBreaker

CONSTANTS t1, t2, t3

QuotaInit == Init /\ BreakerInit

QuotaNext ==
  \/ BreakerInit /\ redisUp /\ Next /\ UNCHANGED breakerVars
  \/ Init /\ BreakerNext /\ UNCHANGED vars

\* Fairness of QuotaBreaker, for as long as the breaker's requests run.
QuotaFairness ==
  /\ \A t \in Threads : WF_breakerVars(Init /\ Continue(t))
  /\ WF_breakerVars(Init /\ \E t \in Threads : Entry(t))
  /\ WF_breakerVars(Init /\ FiveSeconds)

QuotaSpec == QuotaInit /\ [][QuotaNext]_<<vars, breakerVars>> /\ QuotaFairness
=============================================================================
