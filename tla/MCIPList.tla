------------------------------ MODULE MCIPList -----------------------------
(* IPList on small instances: all requests on one instance. *)
EXTENDS IPList, TLC

CONSTANTS i1, i2, t1, t2

OneInstance == [t \in Threads |-> i1]

ThreadSymmetry == Permutations(Threads)

\* A decision is read by no later step: states that differ in past ones only are one.
ButDecisions ==
  <<redisVars, cache, clearing, message, since,
    [t \in Threads |-> [thread[t] EXCEPT !.dec = "none", !.l1 = "none"]]>>
=============================================================================
