------------------------- MODULE LeakyBucketProofs -------------------------
(* Theorems about LeakyBucket, for every rule and every number of requests. *)
EXTENDS LeakyBucket, TLAPS

-----------------------------------------------------------------------------
(* The integers that the script computes with. *)

LEMMA FloorDivision ==
  ASSUME NEW a \in Nat, NEW b \in Nat \ {0}
  PROVE  /\ a \div b \in Nat
         /\ b * (a \div b) <= a
         /\ a < b * ((a \div b) + 1)
  OBVIOUS

LEMMA ConstantTypes ==
  /\ Limit \in Nat \ {0} /\ Cost \in Nat \ {0} /\ Grace \in Nat \ {0}
  /\ MaxQueue \in Nat \ {0} /\ MaxQueue * Cost \in Nat
  /\ Full \in Nat /\ Full = MaxQueue * Cost + Cost - 1
  /\ TtlMs \in Nat /\ Forget \in Nat \ {0} /\ Forget <= TtlMs
<1>1. /\ Limit \in Nat \ {0} /\ Cost \in Nat \ {0} /\ Grace \in Nat \ {0} /\ Burst \in Int
      /\ Cost = WindowMs
  BY RuleAssumption DEF Cost
<1>2. MaxQueue \in Nat \ {0}
  BY <1>1 DEF MaxQueue
<1>3. MaxQueue * Cost \in Nat
  BY <1>1, <1>2
<1>4. Full \in Nat /\ Full = MaxQueue * Cost + Cost - 1
  BY <1>1, <1>3 DEF Full
<1>5. (MaxQueue * WindowMs) \div Limit \in Nat
  BY <1>1, <1>3, FloorDivision
<1>6. TtlMs \in Nat /\ Forget \in Nat \ {0} /\ Forget <= TtlMs
  BY <1>1, <1>5 DEF TtlMs, Forget, GreaterOf
<1> QED
  BY <1>1, <1>2, <1>3, <1>4, <1>6

LEMMA ProductMonotone ==
  ASSUME NEW a \in Nat, NEW b \in Nat, NEW c \in Nat, b <= c
  PROVE  a * b \in Nat /\ a * b <= a * c
<1>1. a * (c - b) \in Nat
  OBVIOUS
<1>2. a * c = a * b + a * (c - b)
  OBVIOUS
<1> QED
  BY <1>1, <1>2

\* What an overflowing queue still holds when its key expires.
LEMMA LeftAtExpiry ==
  Shortfall \in Nat /\ Limit * Forget \in Nat /\ Full <= Limit * Forget + Shortfall
<1>1. Limit * Forget \in Nat /\ Full \in Nat
  BY ConstantTypes
<1> QED
  BY <1>1 DEF Shortfall, GreaterOf

\* What leaks never takes the level below zero or lets it rise.
LEMMA LeakedRange ==
  ASSUME NEW now \in Int, level \in 0..Full, last \in Int
  PROVE  /\ Leaked(now) \in 0..Full
         /\ Granted(Leaked(now)) => Leaked(now) + Cost \in 0..Full
<1>1. Full \in Nat /\ Cost \in Nat \ {0} /\ Limit \in Nat /\ MaxQueue * Cost \in Nat
      /\ Full = MaxQueue * Cost + Cost - 1
  BY ConstantTypes
<1>2. GreaterOf(0, now - last) \in Nat
  BY DEF GreaterOf
<1>3. Limit * GreaterOf(0, now - last) \in Nat
  BY <1>1, <1>2
<1>4. Leaked(now) \in 0..Full
  BY <1>1, <1>3 DEF Leaked, GreaterOf
<1> QED
  BY <1>1, <1>4 DEF Granted

LEMMA LatenessType ==
  ASSUME NEW now \in Int, last \in Int
  PROVE  Lateness(now) \in Nat
  BY ConstantTypes DEF Lateness, GreaterOf

-----------------------------------------------------------------------------
(* Type correctness. *)

LEMMA InitType == Init => TypeOK
  BY ConstantTypes DEF Init, TypeOK

LEMMA EvalType ==
  ASSUME TypeOK, NEW m \in wire, Eval(m)
  PROVE  TypeOK'
<1>1. /\ m \in [id : Nat, now : Nat, copies : 1..MaxTries] /\ m.now \in Nat
      /\ level \in 0..Full /\ last \in Nat /\ granted \in Nat /\ late \in Nat
      /\ clock \in Nat /\ sent \in Nat
  BY DEF TypeOK
<1>2. level' \in 0..Full /\ granted' \in Nat
  BY <1>1, LeakedRange DEF Eval
<1>3. last' \in Nat /\ expireAt' \in Int /\ clock' \in Nat /\ sent' \in Nat
  BY <1>1, ConstantTypes DEF Eval
<1>4. late' \in Nat
  BY <1>1, LatenessType DEF Eval
<1>5. m.copies # 1 => [m EXCEPT !.copies = @ - 1]
                        \in [id : Nat, now : Nat, copies : 1..MaxTries]
  BY <1>1, BoundsAssumption
<1>6. wire' \subseteq [id : Nat, now : Nat, copies : 1..MaxTries]
  BY <1>5 DEF Eval, TypeOK
<1>7. Full' = Full
  BY DEF Full, MaxQueue, Cost
<1> QED
  BY <1>2, <1>3, <1>4, <1>6, <1>7 DEF TypeOK

LEMMA StepType == TypeOK /\ [Next]_vars => TypeOK'
<1> SUFFICES ASSUME TypeOK, [Next]_vars
             PROVE  TypeOK'
  OBVIOUS
<1>1. CASE Allow
  <2>1. PICK n \in 1..MaxTries :
          wire' = wire \cup {[id |-> sent, now |-> clock, copies |-> n]}
    BY <1>1 DEF Allow
  <2>2. wire' \subseteq [id : Nat, now : Nat, copies : 1..MaxTries]
    BY <2>1 DEF TypeOK
  <2> QED
    BY <1>1, <2>2 DEF Allow, TypeOK, Full, MaxQueue, Cost
<1>2. ASSUME NEW m \in wire, Eval(m)
      PROVE  TypeOK'
  BY <1>2, EvalType
<1>3. CASE Tick
  BY <1>3 DEF Tick, TypeOK, Full, MaxQueue, Cost
<1>4. CASE UNCHANGED vars
  BY <1>4 DEF vars, TypeOK, Full, MaxQueue, Cost
<1> QED
  BY <1>1, <1>2, <1>3, <1>4 DEF Next

\* Every value the limiter computes and stores keeps its type: in particular the
\* level is never negative and never a whole request above the queue, whatever is
\* late, repeated or lost.
THEOREM TypeCorrect == Spec => []TypeOK
<1>1. Init => TypeOK
  BY InitType
<1>2. TypeOK /\ [Next]_vars => TypeOK'
  BY StepType
<1> QED
  BY <1>1, <1>2, PTL DEF Spec

-----------------------------------------------------------------------------
(* The queue of the code is the ideal bucket, seen as what there is room for. *)

\* The state an execution leaves, as the ideal bucket does it: dt milliseconds after
\* the previous one, more room, and a request that takes its share of it if it fits.
LEMMA EvalServes ==
  ASSUME TypeOK, NEW m \in wire, Eval(m)
  PROVE  Ideal!Serve((last + late)' - (last + late))
<1> DEFINE dt   == (last + late)' - (last + late)
           left == LesserOf(Full, (Full - level) + Limit * dt)
           room == Full - Leaked(m.now)
<1>1. m.now \in Int /\ last \in Int /\ late \in Nat /\ level \in 0..Full
      /\ granted \in Nat
  BY DEF TypeOK
<1>2. Full \in Nat /\ Cost \in Nat \ {0} /\ TtlMs \in Nat /\ Limit \in Nat \ {0}
      /\ MaxQueue * Cost \in Nat /\ Full = MaxQueue * Cost + Cost - 1
      /\ Forget \in Nat /\ Forget <= TtlMs
  BY ConstantTypes
<1>3. last' = m.now /\ late' = late + Lateness(m.now) /\ Lateness(m.now) \in Nat
  BY <1>1, LatenessType DEF Eval
<1>4. dt = m.now - last + Lateness(m.now) /\ dt \in Int
  BY <1>1, <1>3
<1>5. (last + late)' = (last + late) + dt
  BY <1>1, <1>3
<1> HIDE DEF dt
<1>6. /\ dt \in Nat
      /\ \/ room = left
         \/ dt >= Forget /\ room = Full
  <2>1. CASE Exists
    <3>1. dt = GreaterOf(0, m.now - last) /\ dt \in Nat
      BY <1>1, <1>4, <2>1 DEF Lateness, GreaterOf
    <3>2. Limit * dt \in Nat
      BY <1>2, <3>1
    <3>3. Leaked(m.now) = GreaterOf(0, level - Limit * dt)
      BY <2>1, <3>1 DEF Leaked
    <3> QED
      BY <1>1, <1>2, <3>1, <3>2, <3>3 DEF GreaterOf, LesserOf
  <2>2. CASE ~Exists /\ level = 0
    <3>1. dt \in Nat
      BY <1>1, <1>4, <2>2 DEF Lateness, GreaterOf
    <3>2. Limit * dt \in Nat
      BY <1>2, <3>1
    <3> QED
      BY <1>2, <2>2, <3>1, <3>2 DEF Leaked, LesserOf
  <2>3. CASE ~Exists /\ level # 0
    <3>1. dt \in Nat /\ dt >= Forget
      BY <1>1, <1>2, <1>4, <2>3 DEF Lateness, GreaterOf
    <3> QED
      BY <1>2, <2>3, <3>1 DEF Leaked
  <2> QED
    BY <2>1, <2>2, <2>3
<1>7. Leaked(m.now) \in 0..Full
  BY <1>1, LeakedRange
<1>8. Granted(Leaked(m.now)) <=> room >= Cost
  BY <1>2, <1>7 DEF Granted
<1>9. \/ room >= Cost /\ Full - level' = room - Cost /\ granted' = granted + 1
      \/ room < Cost /\ Full - level' = room /\ granted' = granted
  <2>1. CASE Granted(Leaked(m.now))
    BY <1>2, <1>7, <1>8, <2>1 DEF Eval
  <2>2. CASE ~Granted(Leaked(m.now))
    <3>1. level' = Leaked(m.now) /\ granted' = granted
      BY <2>2 DEF Eval
    <3>2. room < Cost
      BY <1>2, <1>7, <1>8, <2>2
    <3> QED
      BY <3>1, <3>2
  <2> QED
    BY <2>1, <2>2
<1>10. Full' = Full
  BY DEF Full, MaxQueue, Cost
<1>11. room \in Ideal!Found(dt)
  <2>1. Ideal!LesserOf(Full, (Full - level) + Limit * dt) = left
    BY DEF Ideal!LesserOf, LesserOf
  <2> HIDE DEF left, room
  <2> QED
    BY <1>6, <2>1 DEF Ideal!Found
<1> HIDE DEF room
<1>12. Ideal!Serve(dt)
  BY <1>5, <1>6, <1>9, <1>10, <1>11 DEF Ideal!Serve
<1> QED
  BY <1>12 DEF dt

LEMMA InitIdeal == Init => Ideal!IdealInit
  BY ConstantTypes DEF Init, Ideal!IdealInit

LEMMA StepIdeal == TypeOK /\ [Next]_vars => [Ideal!IdealNext]_(Ideal!idealVars)
<1> SUFFICES ASSUME TypeOK, [Next]_vars
             PROVE  [Ideal!IdealNext]_(Ideal!idealVars)
  OBVIOUS
<1>1. ASSUME NEW m \in wire, Eval(m)
      PROVE  Ideal!IdealNext
  BY <1>1, EvalServes DEF Ideal!IdealNext
<1>2. ASSUME UNCHANGED <<level, last, granted, late>>
      PROVE  UNCHANGED Ideal!idealVars
  BY <1>2 DEF Ideal!idealVars, Full, MaxQueue, Cost
<1>3. Allow \/ Tick \/ UNCHANGED vars => UNCHANGED <<level, last, granted, late>>
  BY DEF Allow, Tick, vars
<1> QED
  BY <1>1, <1>2, <1>3 DEF Next

\* EVALs that are late, repeated or lost and expiries of the key implement one bucket
\* that is forgotten only when nobody came for the time in which its queue drains.
THEOREM RefinesIdeal == Spec => ImplementsIdeal
<1>1. Init => Ideal!IdealInit
  BY InitIdeal
<1>2. TypeOK /\ [Next]_vars => [Ideal!IdealNext]_(Ideal!idealVars)
  BY StepIdeal
<1> QED
  BY <1>1, <1>2, TypeCorrect, PTL DEF Spec, ImplementsIdeal, Ideal!IdealSpec

-----------------------------------------------------------------------------
(* What the callers are granted. *)

LEMMA InitRate == Init => ConstantRate
<1> SUFFICES ASSUME Init PROVE ConstantRate
  OBVIOUS
<1>1. /\ Limit * (0 + 0) = 0 /\ 0 * Cost = 0 /\ Shortfall \in Nat
      /\ (0 + 0) \div Forget = 0
  BY ConstantTypes, LeftAtExpiry
<1>2. Shortfall * 0 = 0
  BY <1>1
<1> QED
  BY <1>1, <1>2 DEF Init, ConstantRate

\* How often a bucket can have been forgotten in its time grows with its time.
LEMMA ForgottenMonotone ==
  ASSUME NEW f \in Nat \ {0}, NEW u \in Int, NEW v \in Int, u <= v
  PROVE  /\ u \div f \in Int /\ v \div f \in Int
         /\ u \div f <= v \div f
         /\ u + f <= v => (u \div f) + 1 <= v \div f
  OBVIOUS

\* g requests are granted so far, l units are in the queue at time u and it can have
\* been forgotten n times; then, with k units found, one request is served at time v,
\* which makes them g2, l2 and n2.
Step(g, l, u, n, v, k, g2, l2, n2) ==
  /\ g \in Nat /\ l \in 0..Full /\ u \in Int /\ n \in Int
  /\ v \in Int /\ k \in Int /\ g2 \in Nat /\ l2 \in Nat /\ n2 \in Int
  /\ v - u \in Nat
  /\ \/ n <= n2 /\ k >= l - Limit * (v - u)
     \/ n + 1 <= n2 /\ v - u >= Forget /\ k >= 0
  /\ \/ g2 = g + 1 /\ l2 = k + Cost
     \/ g2 = g /\ l2 = k
  /\ g * Cost - l <= Limit * u + Shortfall * n

\* One step of the ideal bucket keeps the rate.
LEMMA ServeArithmetic ==
  ASSUME NEW g, NEW l, NEW u, NEW n, NEW v, NEW k, NEW g2, NEW l2, NEW n2,
         Step(g, l, u, n, v, k, g2, l2, n2)
  PROVE  g2 * Cost - l2 <= Limit * v + Shortfall * n2
<1> USE DEF Step
<1>1. Full \in Nat /\ Cost \in Nat \ {0} /\ Limit \in Nat \ {0} /\ Forget \in Nat
      /\ Shortfall \in Nat
  BY ConstantTypes, LeftAtExpiry
<1>2. Limit * (v - u) \in Nat /\ Limit * v = Limit * u + Limit * (v - u)
      /\ Limit * u \in Int
  BY <1>1
<1>3. g * Cost \in Nat /\ (g + 1) * Cost = g * Cost + Cost
  BY <1>1
<1>4. g2 * Cost - l2 = g * Cost - k
  BY <1>1, <1>3
<1>5. Shortfall * n \in Int /\ Shortfall * n2 \in Int
  BY <1>1
<1>6. CASE n <= n2 /\ k >= l - Limit * (v - u)
  <2>1. PICK d \in Nat : n2 = n + d
    <3>1. n2 - n \in Nat /\ n2 = n + (n2 - n)
      BY <1>6
    <3> QED
      BY <3>1
  <2>2. Shortfall * (n + d) = Shortfall * n + Shortfall * d /\ Shortfall * d \in Nat
    BY <1>1
  <2> QED
    BY <1>1, <1>2, <1>3, <1>4, <1>5, <1>6, <2>1, <2>2
<1>7. CASE n + 1 <= n2 /\ v - u >= Forget /\ k >= 0
  <2>1. PICK d \in Nat : n2 = n + 1 + d
    <3>1. n2 - (n + 1) \in Nat /\ n2 = n + 1 + (n2 - (n + 1))
      BY <1>7
    <3> QED
      BY <3>1
  <2>2. /\ Shortfall * (n + 1 + d) = Shortfall * n + Shortfall + Shortfall * d
        /\ Shortfall * d \in Nat
    BY <1>1
  <2>3. Limit * Forget <= Limit * (v - u) /\ Limit * Forget \in Nat
    BY <1>1, <1>7, ProductMonotone
  <2>4. l <= Limit * (v - u) + Shortfall
    BY <1>1, <1>2, <2>3, LeftAtExpiry
  <2> QED
    BY <1>1, <1>2, <1>3, <1>4, <1>5, <1>7, <2>1, <2>2, <2>4
<1> QED
  BY <1>6, <1>7

LEMMA ServeRate ==
  ASSUME TypeOK, ConstantRate, NEW m \in wire, Eval(m)
  PROVE  ConstantRate'
<1> DEFINE time == last + late
           left == LesserOf(Full, (Full - level) + Limit * (time' - time))
<1>1. /\ level \in 0..Full /\ granted \in Nat /\ time \in Int /\ time' \in Int
      /\ level' \in Nat /\ granted' \in Nat /\ Full \in Nat /\ Full' = Full
  <2>1. TypeOK'
    BY EvalType
  <2>2. Full' = Full
    BY DEF Full, MaxQueue, Cost
  <2> QED
    BY <2>1, <2>2, ConstantTypes DEF TypeOK
<1>2. Cost \in Nat \ {0} /\ Limit \in Nat \ {0} /\ Forget \in Nat \ {0}
  BY ConstantTypes
<1>3. Ideal!Serve(time' - time)
  BY EvalServes
<1>4. PICK room \in Ideal!Found(time' - time) :
        /\ time' - time \in Nat
        /\ \/ granted' = granted + 1 /\ Full - level' = room - Cost
           \/ granted' = granted /\ Full - level' = room
  BY <1>1, <1>3 DEF Ideal!Serve
<1>5. Limit * (time' - time) \in Nat
  BY <1>2, <1>4
<1>6. /\ room \in Int
      /\ \/ room <= (Full - level) + Limit * (time' - time)
         \/ time' - time >= Forget /\ room <= Full
  <2>1. left \in Int /\ left <= (Full - level) + Limit * (time' - time)
    BY <1>1, <1>5 DEF LesserOf
  <2>2. \/ room = left
        \/ time' - time >= Forget /\ room = Full
    BY <1>4 DEF Ideal!Found, Ideal!LesserOf, LesserOf
  <2> QED
    BY <1>1, <2>1, <2>2
<1>7. granted * Cost - level <= Limit * time + Shortfall * (time \div Forget)
  BY DEF ConstantRate
<1> HIDE DEF time, left
<1>8. granted' * Cost - level' <= Limit * time' + Shortfall * (time' \div Forget)
  <2>1. PICK g \in Nat, l \in 0..Full, g2 \in Nat, l2 \in Nat :
          g = granted /\ l = level /\ g2 = granted' /\ l2 = level'
    BY <1>1
  <2>2. PICK u \in Int, v \in Int, k \in Int :
          u = time /\ v = time' /\ k = Full - room
    BY <1>1, <1>6
  <2>3. v - u \in Nat /\ u <= v
    <3>1. v - u \in Nat
      BY <1>4, <2>2
    <3>2. u \in Int /\ v \in Int
      BY <2>2
    <3> QED
      BY <3>1, <3>2
  <2>4. \/ k >= l - Limit * (v - u)
        \/ v - u >= Forget /\ k >= 0
    <3>1. PICK d \in Nat : d = Limit * (v - u) /\ d = Limit * (time' - time)
      BY <1>5, <2>2
    <3>2. \/ room <= (Full - l) + d
          \/ v - u >= Forget /\ room <= Full
      BY <1>6, <2>1, <2>2, <3>1
    <3>3. k >= l - d \/ (v - u >= Forget /\ k >= 0)
      BY <1>1, <1>6, <2>1, <2>2, <3>2
    <3> QED
      BY <3>1, <3>3
  <2>5. PICK n \in Int, n2 \in Int :
          /\ n = u \div Forget /\ n2 = v \div Forget /\ n <= n2
          /\ v - u >= Forget => n + 1 <= n2
    <3>1. v - u >= Forget => u + Forget <= v
      BY <1>2
    <3> QED
      BY <1>2, <2>3, <3>1, ForgottenMonotone
  <2>6. \/ g2 = g + 1 /\ l2 = k + Cost
        \/ g2 = g /\ l2 = k
    <3>1. \/ g2 = g + 1 /\ Full - l2 = room - Cost
          \/ g2 = g /\ Full - l2 = room
      BY ONLY <1>4, <2>1
    <3>2. Full \in Int /\ room \in Int /\ Cost \in Int /\ k = Full - room
      BY ONLY <1>1, <1>2, <1>6, <2>2
    <3> QED
      BY ONLY <3>1, <3>2, l2 \in Nat
  <2>7. g * Cost - l <= Limit * u + Shortfall * n
    BY <1>7, <2>1, <2>2, <2>5
  <2>8. Step(g, l, u, n, v, k, g2, l2, n2)
    BY ONLY <2>1, <2>2, <2>3, <2>4, <2>5, <2>6, <2>7 DEF Step
  <2>9. g2 * Cost - l2 <= Limit * v + Shortfall * n2
    BY ONLY <2>8, ServeArithmetic
  <2> QED
    BY <2>1, <2>2, <2>5, <2>9
<1>9. Cost' = Cost /\ Shortfall' = Shortfall /\ Forget' = Forget
  BY DEF Cost, Shortfall, Forget, Full, MaxQueue, GreaterOf
<1> QED
  BY <1>8, <1>9 DEF ConstantRate, time

\* What all callers were granted and the queue does not hold any more has leaked at
\* the rule's rate over the time the bucket has lived, or was still in an overflowing
\* queue of a slow rule when its key expired.
THEOREM RateIsKept == Spec => []ConstantRate
<1>1. Init => ConstantRate
  BY InitRate
<1>2. TypeOK /\ ConstantRate /\ [Next]_vars => ConstantRate'
  <2> SUFFICES ASSUME TypeOK, ConstantRate, [Next]_vars
               PROVE  ConstantRate'
    OBVIOUS
  <2>1. ASSUME NEW m \in wire, Eval(m)
        PROVE  ConstantRate'
    BY <2>1, ServeRate
  <2>2. ASSUME UNCHANGED <<level, last, granted, late>>
        PROVE  ConstantRate'
    BY <2>2 DEF ConstantRate, Cost, Shortfall, Forget, Full, MaxQueue, GreaterOf
  <2>3. Allow \/ Tick \/ UNCHANGED vars => UNCHANGED <<level, last, granted, late>>
    BY DEF Allow, Tick, vars
  <2> QED
    BY <2>1, <2>2, <2>3 DEF Next
<1> QED
  BY <1>1, <1>2, TypeCorrect, PTL DEF Spec

\* What one expiry forgets is less than a request and a millisecond's leak, less what
\* leaks in the grace: of the rules with about a request per grace or more, nothing.
THEOREM ForgottenIsLittle == Shortfall <= GreaterOf(0, Cost + Limit - 2 - Limit * Grace)
<1> DEFINE q == (MaxQueue * WindowMs) \div Limit
<1>1. Limit \in Nat \ {0} /\ Cost \in Nat \ {0} /\ Grace \in Nat /\ Cost = WindowMs
      /\ MaxQueue * Cost \in Nat /\ Full = MaxQueue * Cost + Cost - 1
  BY ConstantTypes DEF Cost
<1>2. q \in Nat /\ MaxQueue * Cost < Limit * (q + 1) /\ Forget = q + Grace
  BY <1>1, FloorDivision DEF Forget
<1> HIDE DEF q
<1>3. /\ Limit * (q + Grace) = Limit * q + Limit * Grace
      /\ Limit * (q + 1) = Limit * q + Limit
      /\ Limit * q \in Nat /\ Limit * Grace \in Nat
  BY <1>1, <1>2
<1>4. Full - Limit * Forget <= Cost + Limit - 2 - Limit * Grace
  BY <1>1, <1>2, <1>3
<1>5. Full \in Int /\ Limit * Forget \in Int
  BY ConstantTypes
<1> QED
  BY <1>1, <1>3, <1>4, <1>5 DEF Shortfall, GreaterOf
=============================================================================
