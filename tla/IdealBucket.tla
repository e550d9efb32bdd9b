---------------------------- MODULE IdealBucket ----------------------------
(***************************************************************************)
(* What the bucket limiters promise: a bucket that holds at most Capacity, *)
(* gains Rate per millisecond and pays Cost for every request it grants.   *)
(* Its time never runs backwards, it serves one request per step, and it   *)
(* grants exactly when it can pay.  It may be forgotten, but only when     *)
(* nobody has come for Forget milliseconds: it is a full one then.  That   *)
(* is nothing given away if Rate * Forget >= Capacity.  All amounts are    *)
(* integers in one unit.                                                   *)
(***************************************************************************)
EXTENDS Arith

CONSTANTS Capacity, Rate, Cost, Forget

VARIABLES
  tokens,     \* what the bucket holds
  time,       \* the time it has been refilled up to
  granted     \* the requests it has granted

idealVars == <<tokens, time, granted>>

IdealInit == /\ tokens = Capacity
             /\ time = 0
             /\ granted = 0

\* What a request that comes dt milliseconds after the previous one may find.
Found(dt) ==
  {LesserOf(Capacity, tokens + Rate * dt)} \cup (IF dt >= Forget THEN {Capacity} ELSE {})

Serve(dt) ==
  /\ dt >= 0
  /\ time' = time + dt
  /\ \E found \in Found(dt) :
       \/ found >= Cost /\ tokens' = found - Cost /\ granted' = granted + 1
       \/ found < Cost /\ tokens' = found /\ granted' = granted

IdealNext == Serve(time' - time)

IdealSpec == IdealInit /\ [][IdealNext]_idealVars
=============================================================================
