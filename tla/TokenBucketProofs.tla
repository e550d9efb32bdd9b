------------------------- MODULE TokenBucketProofs -------------------------
(* Theorems about TokenBucket, for every rule and every number of callers. *)
EXTENDS TokenBucket, TLAPS

\* The integers that the script computes with, and their order.
LEMMA ConstantTypes ==
  /\ Capacity \in Nat /\ Cost \in Nat \ {0} /\ TtlMs \in Nat /\ TtlMs = 2 * WindowMs
  /\ Limit \in Nat \ {0} /\ Forget \in Nat \ {0} /\ Forget = TtlMs /\ Shortfall \in Nat
<1>1. /\ Limit \in Nat \ {0} /\ WindowMs \in Nat \ {0}
      /\ Limit + Burst \in Nat /\ Burst \in Int
  BY RuleAssumption
<1>2. (Limit + Burst) * WindowMs \in Nat
  BY <1>1
<1>3. GreaterOf(0, Burst - Limit) \in Nat
  BY <1>1 DEF GreaterOf
<1>4. Shortfall \in Nat
  BY <1>1, <1>3 DEF Shortfall
<1> QED
  BY <1>1, <1>2, <1>4 DEF Capacity, Cost, TtlMs, TtlFactor, Forget

\* A refill keeps the bucket between empty and full and takes nothing away.
LEMMA RefillRange ==
  ASSUME NEW now \in Int, tokens \in 0..Capacity, last \in Int
  PROVE  /\ Refilled(now) \in 0..Capacity
         /\ Left(now) \in 0..Capacity
         /\ Left(now) < Cost => Left(now) >= 0 /\ Left(now) \in Nat
<1>1. Capacity \in Nat /\ Cost \in Nat \ {0} /\ Limit \in Nat
  BY ConstantTypes
<1>2. Limit * GreaterOf(0, now - last) \in Nat
  <2>1. GreaterOf(0, now - last) \in Nat
    BY DEF GreaterOf
  <2> QED
    BY <1>1, <2>1
<1>3. Refilled(now) \in 0..Capacity
  BY <1>1, <1>2 DEF Refilled, LesserOf
<1> QED
  BY <1>1, <1>3 DEF Left, Granted

\* Dividing what is missing by the rate rounds the waiting time down.
LEMMA FloorDivision ==
  ASSUME NEW a \in Nat, NEW b \in Nat \ {0}
  PROVE  /\ a \div b \in Nat
         /\ b * (a \div b) <= a
         /\ a < b * ((a \div b) + 1)
  OBVIOUS

LEMMA DecisionType ==
  ASSUME NEW now \in Int, tokens \in 0..Capacity, last \in Int
  PROVE  Decision(now) \in [allowed : BOOLEAN, remaining : Nat, retryAfterMs : Nat]
<1>1. Left(now) \in Nat /\ Cost \in Nat \ {0} /\ Limit \in Nat \ {0}
  BY ConstantTypes, RefillRange
<1>2. Left(now) \div Cost \in Nat
  BY <1>1, FloorDivision
<1>3. ResetDelay(Left(now)) \in Nat
  <2>1. CASE Left(now) < Cost
    <3>1. Cost - Left(now) \in Nat
      BY <1>1, <2>1
    <3> QED
      BY <1>1, <2>1, <3>1, FloorDivision DEF ResetDelay
  <2>2. CASE ~(Left(now) < Cost)
    BY <2>2 DEF ResetDelay
  <2> QED
    BY <2>1, <2>2
<1>4. Granted(now) \in BOOLEAN
  BY DEF Granted
<1> QED
  BY <1>2, <1>3, <1>4 DEF Decision

LEMMA LatenessType ==
  ASSUME NEW now \in Int, last \in Int
  PROVE  Lateness(now) \in Nat
  BY ConstantTypes DEF Lateness, GreaterOf

-----------------------------------------------------------------------------
(* Type correctness. *)

LEMMA InitType == Init => TypeOK
  BY ConstantTypes, RuleAssumption, BoundsAssumption DEF Init, TypeOK, Idle, NoDecision

LEMMA StepType == TypeOK /\ [Next]_vars => TypeOK'
<1> SUFFICES ASSUME TypeOK, [Next]_vars
             PROVE  TypeOK'
  OBVIOUS
<1> USE DEF TypeOK
<1>1. ASSUME NEW c \in Callers, Allow(c)
      PROVE  TypeOK'
  <2>1. PICK now \in NowMs :
          /\ Send(c, now)
          /\ call' = [call EXCEPT ![c] = [st |-> "waiting", now |-> now, tries |-> 1,
                                          first |-> sent, dec |-> NoDecision]]
    BY <1>1 DEF Allow
  <2>2. now \in Int
    BY BoundsAssumption DEF NowMs
  <2>3. wire' \subseteq [id : Nat, caller : Callers, now : Int] /\ sent' \in Nat
    BY <2>1, <2>2 DEF Send
  <2>4. call' \in [Callers -> [st : {"idle", "waiting"}, now : Int, tries : Nat, first : Nat,
                               dec : [allowed : BOOLEAN, remaining : Nat,
                                      retryAfterMs : Nat]]]
    BY <2>1, <2>2 DEF NoDecision
  <2> QED
    BY <1>1, <2>3, <2>4 DEF Allow
<1>2. ASSUME NEW c \in Callers, Retry(c)
      PROVE  TypeOK'
  <2>1. wire' \subseteq [id : Nat, caller : Callers, now : Int] /\ sent' \in Nat
    BY <1>2 DEF Retry, Send
  <2> QED
    BY <1>2, <2>1 DEF Retry
<1>3. ASSUME NEW c \in Callers, GiveUp(c)
      PROVE  TypeOK'
  BY <1>3 DEF GiveUp, Idle, NoDecision
<1>4. ASSUME NEW m \in wire, Eval(m)
      PROVE  TypeOK'
  <2>1. m.now \in Int /\ m.caller \in Callers
    OBVIOUS
  <2>2. tokens' \in 0..Capacity /\ last' \in Int /\ granted' \in Nat
    BY <1>4, <2>1, RefillRange DEF Eval
  <2>3. expireAt' \in Int /\ clock' \in Nat /\ sent' \in Nat
    BY <1>4, ConstantTypes DEF Eval
  <2>4. late' \in Nat
    BY <1>4, <2>1, LatenessType DEF Eval
  <2>5. call' \in [Callers -> [st : {"idle", "waiting"}, now : Int, tries : Nat, first : Nat,
                               dec : [allowed : BOOLEAN, remaining : Nat,
                                      retryAfterMs : Nat]]]
    <3>1. Decision(m.now) \in [allowed : BOOLEAN, remaining : Nat, retryAfterMs : Nat]
      BY <2>1, DecisionType
    <3> QED
      BY <1>4, <2>1, <3>1 DEF Eval, Idle
  <2>6. wire' \subseteq [id : Nat, caller : Callers, now : Int]
    BY <1>4 DEF Eval
  <2> QED
    BY <2>2, <2>3, <2>4, <2>5, <2>6
<1>5. CASE Tick
  BY <1>5 DEF Tick
<1>6. CASE UNCHANGED vars
  BY <1>6 DEF vars
<1> QED
  BY <1>1, <1>2, <1>3, <1>4, <1>5, <1>6 DEF Next

\* Every value the limiter computes and stores keeps its type: in particular the
\* bucket stays between empty and full whatever now_ms the callers send.
THEOREM TypeCorrect == Spec => []TypeOK
<1>1. Init => TypeOK
  BY InitType
<1>2. TypeOK /\ [Next]_vars => TypeOK'
  BY StepType
<1> QED
  BY <1>1, <1>2, PTL DEF Spec

-----------------------------------------------------------------------------
(* The bucket of the code is the ideal one. *)

LEMMA ProductMonotone ==
  ASSUME NEW a \in Nat, NEW b \in Nat, NEW c \in Nat, b <= c
  PROVE  a * b \in Nat /\ a * b <= a * c
<1>1. a * (c - b) \in Nat
  OBVIOUS
<1>2. a * c = a * b + a * (c - b)
  OBVIOUS
<1> QED
  BY <1>1, <1>2

\* What an empty bucket lacks when its key expires.
LEMMA LackAtExpiry == Capacity <= Limit * Forget + Shortfall
<1>1. Limit \in Nat /\ WindowMs \in Nat /\ Burst \in Int /\ Limit + Burst \in Nat
  BY RuleAssumption
<1>2. PICK g \in Nat : g = GreaterOf(0, Burst - Limit) /\ Burst - Limit <= g
  BY <1>1 DEF GreaterOf
<1>3. WindowMs * (Limit + Burst) <= WindowMs * (2 * Limit + g)
  <2>1. Limit + Burst <= 2 * Limit + g /\ 2 * Limit + g \in Nat
    BY <1>1, <1>2
  <2> QED
    BY <1>1, <2>1, ProductMonotone
<1>4. /\ WindowMs * (2 * Limit + g) = Limit * (2 * WindowMs) + g * WindowMs
      /\ WindowMs * (Limit + Burst) = (Limit + Burst) * WindowMs
  BY <1>1, <1>2
<1> QED
  BY <1>2, <1>3, <1>4 DEF Capacity, Forget, Shortfall

\* One execution of the script, wherever in time its caller is, serves one request
\* of the ideal bucket.
LEMMA EvalServes ==
  ASSUME TypeOK, NEW m \in wire, Eval(m)
  PROVE  Ideal!Serve((last + late)' - (last + late))
<1> DEFINE dt == (last + late)' - (last + late)
<1>1. m.now \in Int /\ last \in Int /\ late \in Nat /\ tokens \in 0..Capacity
      /\ granted \in Nat
  BY DEF TypeOK
<1>2. Capacity \in Nat /\ Cost \in Nat \ {0} /\ Forget = TtlMs /\ Forget \in Nat
      /\ Limit \in Nat \ {0}
  BY ConstantTypes
<1>3. last' = m.now /\ late' = late + Lateness(m.now) /\ Lateness(m.now) \in Nat
  BY <1>1, LatenessType DEF Eval
<1>4. dt = m.now - last + Lateness(m.now) /\ dt \in Int
  BY <1>1, <1>3
<1> HIDE DEF dt
<1>5. /\ dt \in Nat
      /\ \/ Refilled(m.now) = LesserOf(Capacity, tokens + Limit * dt)
         \/ dt >= Forget /\ Refilled(m.now) = Capacity
  <2>1. CASE Exists
    <3>1. dt = GreaterOf(0, m.now - last)
      BY <1>1, <1>4, <2>1 DEF Lateness, GreaterOf
    <3> QED
      BY <1>1, <2>1, <3>1 DEF Refilled, GreaterOf
  <2>2. CASE ~Exists /\ tokens = Capacity
    <3>1. dt \in Nat
      BY <1>1, <1>4, <2>2 DEF Lateness, GreaterOf
    <3>2. Limit * dt \in Nat
      BY <1>2, <3>1
    <3> QED
      BY <1>2, <2>2, <3>1, <3>2 DEF Refilled, LesserOf
  <2>3. CASE ~Exists /\ tokens # Capacity
    <3>1. dt \in Nat /\ dt >= Forget
      BY <1>1, <1>2, <1>4, <2>3 DEF Lateness, GreaterOf
    <3> QED
      BY <2>3, <3>1 DEF Refilled
  <2> QED
    BY <2>1, <2>2, <2>3
<1>6. (last + late)' = (last + late) + dt
  BY <1>1, <1>3 DEF dt
<1>7. Refilled(m.now) \in Ideal!Found(dt)
  <2>1. Ideal!LesserOf(Capacity, tokens + Limit * dt) = LesserOf(Capacity, tokens + Limit * dt)
    BY DEF Ideal!LesserOf, LesserOf
  <2> QED
    BY <1>5, <2>1 DEF Ideal!Found
<1>8. Ideal!Serve(dt)
  <2>1. Refilled(m.now) \in Int
    BY <1>1, <1>2, RefillRange
  <2>2. \/ /\ Refilled(m.now) >= Cost
           /\ tokens' = Refilled(m.now) - Cost /\ granted' = granted + 1
        \/ /\ Refilled(m.now) < Cost
           /\ tokens' = Refilled(m.now) /\ granted' = granted
    BY <1>2, <2>1 DEF Eval, Left, Granted
  <2> QED
    BY <1>5, <1>6, <1>7, <2>2 DEF Ideal!Serve
<1> QED
  BY <1>8 DEF dt

LEMMA InitIdeal == Init => Ideal!IdealInit
  BY DEF Init, Ideal!IdealInit

LEMMA StepIdeal == TypeOK /\ [Next]_vars => [Ideal!IdealNext]_(Ideal!idealVars)
<1> SUFFICES ASSUME TypeOK, [Next]_vars
             PROVE  [Ideal!IdealNext]_(Ideal!idealVars)
  OBVIOUS
<1>1. ASSUME NEW m \in wire, Eval(m)
      PROVE  Ideal!IdealNext
  BY <1>1, EvalServes DEF Ideal!IdealNext
<1>2. ASSUME UNCHANGED <<tokens, last, granted, late>>
      PROVE  UNCHANGED Ideal!idealVars
  BY <1>2 DEF Ideal!idealVars
<1>3. ASSUME NEW c \in Callers, Allow(c) \/ Retry(c) \/ GiveUp(c)
      PROVE  UNCHANGED <<tokens, last, granted, late>>
  BY <1>3 DEF Allow, Retry, GiveUp
<1>4. Tick \/ UNCHANGED vars => UNCHANGED <<tokens, last, granted, late>>
  BY DEF Tick, vars
<1> QED
  BY <1>1, <1>2, <1>3, <1>4 DEF Next

\* Any number of callers with skewed clocks, late and repeated EVALs and expiries of
\* the key implement one bucket that is forgotten only after two windows in which
\* nobody came.
THEOREM RefinesIdeal == Spec => ImplementsIdeal
<1>1. Init => Ideal!IdealInit
  BY InitIdeal
<1>2. TypeOK /\ [Next]_vars => [Ideal!IdealNext]_(Ideal!idealVars)
  BY StepIdeal
<1> QED
  BY <1>1, <1>2, TypeCorrect, PTL DEF Spec, ImplementsIdeal, Ideal!IdealSpec

-----------------------------------------------------------------------------
(* What the callers are granted. *)

LEMMA InitBound == Init => AdmissionBound
<1> SUFFICES ASSUME Init PROVE AdmissionBound
  OBVIOUS
<1>1. /\ Limit * (0 + 0) = 0 /\ 0 * Cost = 0 /\ Capacity \in Nat /\ Shortfall \in Nat
      /\ (0 + 0) \div Forget = 0
  BY ConstantTypes
<1>2. Shortfall * 0 = 0
  BY <1>1
<1> QED
  BY <1>1, <1>2 DEF Init, AdmissionBound

\* How often a bucket can have been forgotten in its time grows with its time.
LEMMA ForgottenMonotone ==
  ASSUME NEW f \in Nat \ {0}, NEW u \in Int, NEW v \in Int, u <= v
  PROVE  /\ u \div f \in Int /\ v \div f \in Int
         /\ u \div f <= v \div f
         /\ u + f <= v => (u \div f) + 1 <= v \div f
  OBVIOUS

\* g requests are granted so far, t units are held at time u and the bucket can have
\* been forgotten n times; then r units are found and one request is served at time v,
\* which makes them g2, t2 and n2.
Step(g, t, u, n, v, r, g2, t2, n2) ==
  /\ g \in Nat /\ t \in Nat /\ u \in Int /\ n \in Int
  /\ v \in Int /\ r \in Int /\ g2 \in Nat /\ t2 \in Nat /\ n2 \in Int
  /\ v - u \in Nat
  /\ \/ n <= n2 /\ r <= t + Limit * (v - u)
     \/ n + 1 <= n2 /\ v - u >= Forget /\ r <= Capacity
  /\ \/ g2 = g + 1 /\ t2 = r - Cost
     \/ g2 = g /\ t2 = r
  /\ g * Cost + t <= Capacity + Limit * u + Shortfall * n

\* One step of the ideal bucket keeps its bound.
LEMMA ServeArithmetic ==
  ASSUME NEW g, NEW t, NEW u, NEW n, NEW v, NEW r, NEW g2, NEW t2, NEW n2,
         Step(g, t, u, n, v, r, g2, t2, n2)
  PROVE  g2 * Cost + t2 <= Capacity + Limit * v + Shortfall * n2
<1> USE DEF Step
<1>1. Capacity \in Nat /\ Cost \in Nat \ {0} /\ Limit \in Nat \ {0} /\ Forget \in Nat
      /\ Shortfall \in Nat
  BY ConstantTypes
<1>2. Limit * (v - u) \in Nat /\ Limit * v = Limit * u + Limit * (v - u)
      /\ Limit * u \in Int
  BY <1>1
<1>3. g * Cost \in Nat /\ (g + 1) * Cost = g * Cost + Cost
  BY <1>1
<1>4. g2 * Cost + t2 = g * Cost + r
  BY <1>1, <1>3
<1>5. Shortfall * n \in Int /\ Shortfall * n2 \in Int
  BY <1>1
<1>6. CASE n <= n2 /\ r <= t + Limit * (v - u)
  <2>1. PICK d \in Nat : n2 = n + d
    <3>1. n2 - n \in Nat /\ n2 = n + (n2 - n)
      BY <1>6
    <3> QED
      BY <3>1
  <2>2. Shortfall * (n + d) = Shortfall * n + Shortfall * d /\ Shortfall * d \in Nat
    BY <1>1
  <2> QED
    BY <1>1, <1>2, <1>3, <1>4, <1>5, <1>6, <2>1, <2>2
<1>7. CASE n + 1 <= n2 /\ v - u >= Forget /\ r <= Capacity
  <2>1. PICK d \in Nat : n2 = n + 1 + d
    <3>1. n2 - (n + 1) \in Nat /\ n2 = n + 1 + (n2 - (n + 1))
      BY <1>7
    <3> QED
      BY <3>1
  <2>2. /\ Shortfall * (n + 1 + d) = Shortfall * n + Shortfall + Shortfall * d
        /\ Shortfall * d \in Nat
    BY <1>1
  <2>3. Limit * Forget <= Limit * (v - u) /\ Limit * Forget \in Nat
    BY <1>1, <1>7, ProductMonotone
  <2>4. r <= Limit * (v - u) + Shortfall
    BY <1>1, <1>2, <1>7, <2>3, LackAtExpiry
  <2> QED
    BY <1>1, <1>2, <1>3, <1>4, <1>5, <2>1, <2>2, <2>4
<1> QED
  BY <1>6, <1>7

LEMMA ServeBound ==
  ASSUME TypeOK, AdmissionBound, NEW m \in wire, Eval(m)
  PROVE  AdmissionBound'
<1> DEFINE time == last + late
           refilled == LesserOf(Capacity, tokens + Limit * (time' - time))
<1>1. /\ tokens \in Nat /\ granted \in Nat /\ time \in Int /\ time' \in Int
      /\ tokens' \in Nat /\ granted' \in Nat
  BY StepType DEF TypeOK, Next
<1>2. Capacity \in Nat /\ Cost \in Nat \ {0} /\ Limit \in Nat \ {0} /\ Forget \in Nat \ {0}
  BY ConstantTypes
<1>3. Ideal!Serve(time' - time)
  BY EvalServes
<1>4. PICK found \in Ideal!Found(time' - time) :
        /\ time' - time \in Nat
        /\ \/ granted' = granted + 1 /\ tokens' = found - Cost
           \/ granted' = granted /\ tokens' = found
  BY <1>1, <1>3 DEF Ideal!Serve
<1>5. Limit * (time' - time) \in Nat
  BY <1>2, <1>4
<1>6. /\ found \in Int
      /\ \/ found <= tokens + Limit * (time' - time)
         \/ time' - time >= Forget /\ found <= Capacity
  <2>1. refilled \in Int /\ refilled <= tokens + Limit * (time' - time)
    BY <1>1, <1>2, <1>5 DEF LesserOf
  <2>2. \/ found = refilled
        \/ time' - time >= Forget /\ found = Capacity
    BY <1>4 DEF Ideal!Found, Ideal!LesserOf, LesserOf
  <2> QED
    BY <1>2, <2>1, <2>2
<1>7. granted * Cost + tokens <= Capacity + Limit * time + Shortfall * (time \div Forget)
  BY DEF AdmissionBound
<1>8. granted' * Cost + tokens'
        <= Capacity + Limit * time' + Shortfall * (time' \div Forget)
  <2>1. PICK g \in Nat, t \in Nat, g2 \in Nat, t2 \in Nat :
          g = granted /\ t = tokens /\ g2 = granted' /\ t2 = tokens'
    BY <1>1
  <2>2. PICK u \in Int, v \in Int, r \in Int :
          u = time /\ v = time' /\ r = found
    BY <1>1, <1>6
  <2>3. v - u \in Nat /\ u <= v
    BY <1>4, <2>2
  <2>4. \/ r <= t + Limit * (v - u)
        \/ v - u >= Forget /\ r <= Capacity
    BY <1>6, <2>1, <2>2
  <2>5. PICK n \in Int, n2 \in Int :
          /\ n = u \div Forget /\ n2 = v \div Forget /\ n <= n2
          /\ v - u >= Forget => n + 1 <= n2
    <3>1. v - u >= Forget => u + Forget <= v
      BY <1>2
    <3> QED
      BY <1>2, <2>3, <3>1, ForgottenMonotone
  <2>6. \/ g2 = g + 1 /\ t2 = r - Cost
        \/ g2 = g /\ t2 = r
    BY <1>4, <2>1, <2>2
  <2>7. g * Cost + t <= Capacity + Limit * u + Shortfall * n
    BY <1>7, <2>1, <2>2, <2>5
  <2>8. Step(g, t, u, n, v, r, g2, t2, n2)
    BY ONLY <2>1, <2>2, <2>3, <2>4, <2>5, <2>6, <2>7 DEF Step
  <2>9. g2 * Cost + t2 <= Capacity + Limit * v + Shortfall * n2
    BY ONLY <2>8, ServeArithmetic
  <2> QED
    BY <2>1, <2>2, <2>5, <2>9
<1>9. Capacity' = Capacity /\ Cost' = Cost /\ Shortfall' = Shortfall /\ Forget' = Forget
  BY DEF Capacity, Cost, Shortfall, Forget, GreaterOf
<1> QED
  BY <1>8, <1>9 DEF AdmissionBound

\* The grants of all callers together stay within one full bucket and the refill of
\* the time the bucket has lived, whatever is delayed, repeated or lost; a burst above
\* the limit adds what the bucket lacks when it expires, once in two windows.
THEOREM Bounded == Spec => []AdmissionBound
<1>1. Init => AdmissionBound
  BY InitBound
<1>2. TypeOK /\ AdmissionBound /\ [Next]_vars => AdmissionBound'
  <2> SUFFICES ASSUME TypeOK, AdmissionBound, [Next]_vars
               PROVE  AdmissionBound'
    OBVIOUS
  <2>1. ASSUME NEW m \in wire, Eval(m)
        PROVE  AdmissionBound'
    BY <2>1, ServeBound
  <2>2. ASSUME UNCHANGED <<tokens, last, granted, late>>
        PROVE  AdmissionBound'
    BY <2>2 DEF AdmissionBound, Capacity, Cost, Shortfall, Forget, GreaterOf
  <2>3. ASSUME NEW c \in Callers, Allow(c) \/ Retry(c) \/ GiveUp(c)
        PROVE  UNCHANGED <<tokens, last, granted, late>>
    BY <2>3 DEF Allow, Retry, GiveUp
  <2>4. Tick \/ UNCHANGED vars => UNCHANGED <<tokens, last, granted, late>>
    BY DEF Tick, vars
  <2> QED
    BY <2>1, <2>2, <2>3, <2>4 DEF Next
<1> QED
  BY <1>1, <1>2, TypeCorrect, PTL DEF Spec

-----------------------------------------------------------------------------
(* Lateness. *)

\* No now_ms is ahead of Redis by more than the skew, and a bucket that is not full
\* expires no earlier, by the skew, than TtlMs after the time it was refilled up to.
DelayInv ==
  /\ \A m \in wire : m.now <= clock + MaxSkew
  /\ \A c \in Callers : call[c].st = "waiting" => call[c].now <= clock + MaxSkew
  /\ last <= clock + MaxSkew
  /\ tokens # Capacity => last + TtlMs <= expireAt + MaxSkew

LEMMA InitDelay == Init => DelayInv
  BY BoundsAssumption DEF Init, Idle, DelayInv

LEMMA StepDelay == TypeOK /\ DelayInv /\ [Next]_vars => DelayInv'
<1> SUFFICES ASSUME TypeOK, DelayInv, [Next]_vars
             PROVE  DelayInv'
  OBVIOUS
<1>1. /\ MaxSkew \in Nat /\ TtlMs \in Nat /\ clock \in Nat /\ last \in Int
      /\ \A m \in wire : m.now \in Int /\ m.caller \in Callers
      /\ \A c \in Callers : call[c].now \in Int
  BY BoundsAssumption, ConstantTypes DEF TypeOK
<1>2. ASSUME NEW c \in Callers, NEW now \in Int, now <= clock + MaxSkew, Send(c, now),
             UNCHANGED <<clock, tokens, last, expireAt>>,
             \A d \in Callers : call'[d].st = "waiting" => call'[d].now <= clock + MaxSkew
      PROVE  DelayInv'
  <2>1. \A m \in wire' : m.now <= clock + MaxSkew
    BY <1>2 DEF Send, DelayInv
  <2> QED
    BY <1>2, <2>1 DEF DelayInv, Capacity, TtlMs, TtlFactor
<1>3. ASSUME NEW c \in Callers, Allow(c)
      PROVE  DelayInv'
  <2>1. PICK now \in NowMs :
          /\ Send(c, now)
          /\ call' = [call EXCEPT ![c] = [st |-> "waiting", now |-> now, tries |-> 1,
                                          first |-> sent, dec |-> NoDecision]]
    BY <1>3 DEF Allow
  <2>2. now \in Int /\ now <= clock + MaxSkew
    BY <1>1 DEF NowMs
  <2>3. \A d \in Callers : call'[d].st = "waiting" => call'[d].now <= clock + MaxSkew
    BY <2>1, <2>2 DEF DelayInv, TypeOK
  <2> QED
    BY <1>2, <1>3, <2>1, <2>2, <2>3 DEF Allow
<1>4. ASSUME NEW c \in Callers, Retry(c)
      PROVE  DelayInv'
  <2>1. Send(c, call[c].now) /\ call[c].now <= clock + MaxSkew /\ call[c].now \in Int
    BY <1>1, <1>4 DEF Retry, DelayInv
  <2>2. call' = [call EXCEPT ![c].tries = @ + 1]
    BY <1>4 DEF Retry
  <2>3. \A d \in Callers : call'[d].st = call[d].st /\ call'[d].now = call[d].now
    BY <2>2 DEF TypeOK
  <2>4. \A d \in Callers : call'[d].st = "waiting" => call'[d].now <= clock + MaxSkew
    BY <2>3 DEF DelayInv
  <2> QED
    BY <1>2, <1>4, <2>1, <2>4 DEF Retry
<1>5. ASSUME NEW c \in Callers, GiveUp(c)
      PROVE  DelayInv'
  BY <1>5 DEF GiveUp, Idle, DelayInv, TypeOK, Capacity, TtlMs, TtlFactor
<1>6. ASSUME NEW m \in wire, Eval(m)
      PROVE  DelayInv'
  <2>1. last' = m.now /\ clock' = clock /\ expireAt' = clock + TtlMs
        /\ m.now <= clock + MaxSkew /\ \A n \in wire' : n.now <= clock + MaxSkew
    BY <1>6 DEF Eval, DelayInv
  <2>2. \A d \in Callers : call'[d].st = "waiting" => call'[d].now <= clock + MaxSkew
    BY <1>1, <1>6 DEF Eval, Idle, DelayInv, TypeOK
  <2>3. last' + TtlMs <= expireAt' + MaxSkew
    BY <1>1, <2>1
  <2> QED
    BY <2>1, <2>2, <2>3 DEF DelayInv, TtlMs, TtlFactor
<1>7. CASE Tick
  <2>1. clock' = clock + 1
    BY <1>7 DEF Tick
  <2>2. \A m \in wire : m.now <= clock + 1 + MaxSkew
    BY <1>1 DEF DelayInv
  <2>3. \A c \in Callers : call[c].st = "waiting" => call[c].now <= clock + 1 + MaxSkew
    BY <1>1 DEF DelayInv
  <2>4. last <= clock + 1 + MaxSkew
    BY <1>1 DEF DelayInv
  <2> QED
    BY <1>7, <2>1, <2>2, <2>3, <2>4 DEF Tick, DelayInv, Capacity, TtlMs, TtlFactor
<1>8. CASE UNCHANGED vars
  BY <1>8 DEF vars, DelayInv, Capacity, TtlMs, TtlFactor
<1> QED
  BY <1>3, <1>4, <1>5, <1>6, <1>7, <1>8 DEF Next

\* What one execution adds to the lateness is its own delay and the skew.
LEMMA StepLateness ==
  ASSUME TypeOK, DelayInv, [Next]_vars, late' # late
  PROVE  \E m \in wire \ wire' : late' - late <= (clock - m.now) + MaxSkew
<1>1. PICK m \in wire : Eval(m)
  BY DEF Next, Allow, Retry, GiveUp, Tick, vars
<1>2. m \in wire \ wire'
  BY <1>1 DEF Eval
<1>3. /\ m.now \in Int /\ last \in Int /\ late \in Nat /\ clock \in Nat
      /\ expireAt \in Int /\ MaxSkew \in Nat /\ TtlMs \in Nat
  BY BoundsAssumption, ConstantTypes DEF TypeOK
<1>4. late' - late = Lateness(m.now) /\ Lateness(m.now) # 0
  BY <1>1, <1>3, LatenessType DEF Eval
<1>5. Lateness(m.now) <= (clock - m.now) + MaxSkew
  <2>1. CASE Exists \/ tokens = Capacity
    BY <1>3, <1>4, <2>1 DEF Lateness, GreaterOf, DelayInv
  <2>2. CASE ~(Exists \/ tokens = Capacity)
    BY <1>3, <1>4, <2>2 DEF Lateness, GreaterOf, DelayInv, Exists
  <2> QED
    BY <2>1, <2>2
<1> QED
  BY <1>2, <1>4, <1>5

\* A request executed in order and at once is charged exactly: what the bucket may
\* grant beyond its rate is bounded by the delays of the requests themselves.
THEOREM LatenessBounded == Spec => LatenessIsDelay
<1>1. Init => DelayInv
  BY InitDelay
<1>2. TypeOK /\ DelayInv /\ [Next]_vars => DelayInv'
  BY StepDelay
<1>3. TypeOK /\ DelayInv /\ [Next]_vars
        => [late' # late => \E m \in wire \ wire' :
                               late' - late <= (clock - m.now) + MaxSkew]_vars
  BY StepLateness
<1> QED
  BY <1>1, <1>2, <1>3, TypeCorrect, PTL DEF Spec, LatenessIsDelay

-----------------------------------------------------------------------------
(* The retry hint. *)

LEMMA HintTight ==
  ASSUME NEW left \in Nat, left < Cost
  PROVE  /\ left + Limit * (ResetDelay(left) + 1) >= Cost
         /\ left + Limit * ResetDelay(left) <= Cost
<1>1. Cost \in Nat \ {0} /\ Limit \in Nat \ {0} /\ Cost - left \in Nat
  BY ConstantTypes
<1>2. ResetDelay(left) = (Cost - left) \div Limit
  BY DEF ResetDelay
<1>3. /\ Limit * ((Cost - left) \div Limit) <= Cost - left
      /\ Cost - left < Limit * (((Cost - left) \div Limit) + 1)
      /\ (Cost - left) \div Limit \in Nat
  BY <1>1, FloorDivision
<1>4. \A q \in Nat : Limit * q \in Nat
  BY <1>1
<1> QED
  BY <1>1, <1>2, <1>3, <1>4

\* A caller that is denied learns, to the millisecond, when the bucket it saw will
\* hold a token.
THEOREM HintIsTight == Spec => RetryHintTight
<1>1. ASSUME TypeOK, Next, NEW c \in Callers, call[c].st = "waiting", wire' # wire,
             call'[c].st = "idle", ~call'[c].dec.allowed
      PROVE  /\ tokens' + Limit * (call'[c].dec.retryAfterMs + 1) >= Cost
             /\ tokens' + Limit * call'[c].dec.retryAfterMs <= Cost
  <2>1. ASSUME NEW d \in Callers, Allow(d)
        PROVE  FALSE
    BY <1>1, <2>1 DEF Allow, TypeOK
  <2>2. ASSUME NEW d \in Callers, Retry(d)
        PROVE  FALSE
    <3>1. call' = [call EXCEPT ![d].tries = @ + 1]
      BY <2>2 DEF Retry
    <3>2. call'[c].st = call[c].st
      BY <3>1 DEF TypeOK
    <3> QED
      BY <1>1, <3>2
  <2>3. ASSUME NEW d \in Callers, GiveUp(d)
        PROVE  FALSE
    BY <1>1, <2>3 DEF GiveUp
  <2>4. ~Tick
    BY <1>1 DEF Tick
  <2>5. PICK m \in wire : Eval(m)
    BY <1>1, <2>1, <2>2, <2>3, <2>4 DEF Next
  <2>6. m.now \in Int /\ last \in Int /\ tokens \in 0..Capacity /\ m.caller \in Callers
    BY <1>1 DEF TypeOK
  <2>7. call'[c].dec = Decision(m.now)
    BY <1>1, <2>5, <2>6 DEF Eval, Idle, TypeOK
  <2>8. Left(m.now) \in Nat /\ Left(m.now) < Cost
    <3>1. ~Granted(m.now)
      BY <1>1, <2>7 DEF Decision
    <3>2. Left(m.now) = Refilled(m.now) /\ ~(Refilled(m.now) >= Cost)
      BY <3>1 DEF Left, Granted
    <3>3. Left(m.now) \in 0..Capacity /\ Capacity \in Nat /\ Cost \in Nat
      BY <2>6, RefillRange, ConstantTypes
    <3> QED
      BY <3>2, <3>3
  <2>9. tokens' = Left(m.now) /\ call'[c].dec.retryAfterMs = ResetDelay(Left(m.now))
    BY <2>5, <2>7 DEF Eval, Decision
  <2> QED
    BY <2>8, <2>9, HintTight
<1>2. TypeOK /\ [Next]_vars =>
        [\A c \in Callers :
           LET d == call'[c].dec IN
           (call[c].st = "waiting" /\ wire' # wire /\ call'[c].st = "idle" /\ ~d.allowed)
             => /\ tokens' + Limit * (d.retryAfterMs + 1) >= Cost
                /\ tokens' + Limit * d.retryAfterMs <= Cost]_vars
  BY <1>1
<1> QED
  BY <1>2, TypeCorrect, PTL DEF Spec, RetryHintTight
=============================================================================
