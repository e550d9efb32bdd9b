------------------------- MODULE SlidingWindowProofs ------------------------
(* Theorems about SlidingWindow, for any limit, window, delay and requests.   *)
EXTENDS SlidingWindow, FiniteSetTheorems, TLAPS

-----------------------------------------------------------------------------
(* Types. *)

\* What the script still finds when Redis's clock is clock.
Live == {s \in members : clock <= expireAt}

\* The EVALs on their way are those of about now, and so are the members.
OnTime ==
  /\ \A m \in wire : m.now <= clock /\ clock <= m.now + MaxDelay
  /\ \A s \in members : s <= clock
  /\ expireAt <= clock + TtlMs

TypeInv == TypeOK /\ OnTime

LEMMA ConstantTypes ==
  /\ WindowMs \in Nat \ {0} /\ Limit \in Nat \ {0} /\ Grace \in Nat /\ TtlMs \in Nat
  /\ MaxDelay \in Nat /\ MaxTime \in Nat /\ MaxSends \in Nat
  BY RuleAssumption, BoundsAssumption DEF TtlMs

LEMMA InitType == Init => TypeInv
  BY ConstantTypes DEF Init, TypeInv, TypeOK, OnTime, Millis

LEMMA MemberStep ==
  ASSUME TypeInv, NEW m \in wire
  PROVE  /\ m \in Requests /\ m.now \in Millis
         /\ \A s \in Kept(m.now) \cup {m.now} :
              s \in Millis /\ s <= clock /\ m.now - WindowMs < s
         /\ \A s1, s2 \in Kept(m.now) \cup {m.now} : s1 - s2 < WindowMs + MaxDelay
<1>1. m \in Requests /\ m.now \in Millis /\ m.now <= clock /\ clock <= m.now + MaxDelay
  BY DEF TypeInv, TypeOK, OnTime, Requests
<1>2. \A s \in Kept(m.now) \cup {m.now} :
        s \in Millis /\ s <= clock /\ m.now - WindowMs < s
  BY <1>1, ConstantTypes DEF Kept, TypeInv, TypeOK, OnTime, Millis
<1> QED
  BY <1>1, <1>2, ConstantTypes DEF Millis, TypeInv, TypeOK

LEMMA StepType == TypeInv /\ [Next]_vars => TypeInv'
<1> SUFFICES ASSUME TypeInv, [Next]_vars
             PROVE  TypeInv'
  OBVIOUS
<1>0. /\ clock \in Nat /\ clock <= MaxTime /\ expireAt \in Int
      /\ wire \subseteq Requests /\ \A m \in wire : m.now \in Nat
  BY DEF TypeInv, TypeOK, Requests, Millis
<1>1. CASE Allow
  <2>1. PICK e : e = [id |-> sent, now |-> clock]
    OBVIOUS
  <2>2. e \in Requests /\ e.now = clock
    BY <1>1, <2>1, ConstantTypes DEF Allow, TypeInv, TypeOK, Requests
  <2>3. wire' = wire \cup {e} /\ sent' \in 0..MaxSends
    BY <1>1, <2>1, ConstantTypes DEF Allow, TypeInv, TypeOK
  <2> QED
    BY <1>0, <1>1, <2>2, <2>3, ConstantTypes DEF Allow, TypeInv, TypeOK, OnTime
<1>2. ASSUME NEW m \in wire, Eval(m)
      PROVE  TypeInv'
  <2>1. wire' \subseteq wire /\ UNCHANGED <<clock, sent>>
    BY <1>2 DEF Eval
  <2>2. members' = Kept(m.now) \cup {m.now} /\ expireAt' = clock + TtlMs
    BY <1>2 DEF Eval
  <2>3. admitted' \subseteq Requests /\ denied' \subseteq Requests
    BY <1>0, <1>2 DEF Eval, TypeInv, TypeOK
  <2>4. /\ members' \subseteq Millis
        /\ \A s1, s2 \in members' : s1 - s2 < WindowMs + MaxDelay
        /\ \A s \in members' : s <= clock'
    BY <2>1, <2>2, MemberStep
  <2>5. expireAt' \in Int /\ expireAt' <= clock' + TtlMs
    BY <1>0, <2>1, <2>2, ConstantTypes
  <2> QED
    BY <2>1, <2>3, <2>4, <2>5 DEF TypeInv, TypeOK, OnTime
<1>3. CASE Tick
  <2>1. clock' = clock + 1 /\ clock' \in Millis /\ wire' \subseteq wire
        /\ UNCHANGED <<members, expireAt, sent, admitted, denied>>
    BY <1>0, <1>3, ConstantTypes DEF Tick, Millis
  <2>2. \A m \in wire' : m.now <= clock' /\ clock' <= m.now + MaxDelay
    BY <1>0, <1>3, <2>1, ConstantTypes DEF Tick, TypeInv, OnTime
  <2>3. \A s \in members : s \in Nat /\ s <= clock
    BY DEF TypeInv, TypeOK, OnTime, Millis
  <2>4. expireAt' <= clock' + TtlMs
    BY <1>0, <2>1, ConstantTypes DEF TypeInv, OnTime
  <2> QED
    BY <1>0, <2>1, <2>2, <2>3, <2>4 DEF TypeInv, TypeOK, OnTime
<1>4. CASE UNCHANGED vars
  BY <1>4 DEF vars, TypeInv, TypeOK, OnTime
<1> QED
  BY <1>1, <1>2, <1>3, <1>4 DEF Next

LEMMA TypeInvariance == Spec => []TypeInv
  BY InitType, StepType, PTL DEF Spec

\* Everything keeps its type, and the sorted set spans no more than the window and the
\* delay: it does not grow with the age of the key.
THEOREM TypeCorrect == Spec => []TypeOK
  BY TypeInvariance, PTL DEF TypeInv

-----------------------------------------------------------------------------
(* Denied requests have rivals. *)

Nows == {m.now : m \in admitted \cup denied}

RivalInv ==
  /\ members \subseteq Nows
  /\ DeniedByRivals

LEMMA FiniteMillis ==
  ASSUME NEW S \in SUBSET Millis
  PROVE  IsFiniteSet(S) /\ Cardinality(S) \in Nat
<1>1. IsFiniteSet(Millis)
  BY FS_Interval, ConstantTypes DEF Millis
<1> QED
  BY <1>1, FS_Subset, FS_CardinalityType

LEMMA Smaller ==
  ASSUME NEW T \in SUBSET Millis, NEW S \in SUBSET T
  PROVE  /\ Cardinality(S) \in Nat /\ Cardinality(T) \in Nat
         /\ Cardinality(S) <= Cardinality(T)
  BY FiniteMillis, FS_Subset

\* Rivals stay.
LEMMA RivalsGrow ==
  ASSUME TypeOK', admitted \subseteq admitted', denied \subseteq denied',
         NEW m, Cardinality(Rivals(m)) >= Limit
  PROVE  Cardinality(Rivals(m)') >= Limit
<1>1. Rivals(m) \subseteq Rivals(m)' /\ Rivals(m)' \subseteq Millis
  BY DEF Rivals, TypeOK, Requests
<1> QED
  BY <1>1, Smaller, ConstantTypes

LEMMA StepRival == TypeInv /\ TypeInv' /\ RivalInv /\ [Next]_vars => RivalInv'
<1> SUFFICES ASSUME TypeInv, TypeInv', RivalInv, [Next]_vars
             PROVE  RivalInv'
  OBVIOUS
<1>0. TypeOK /\ TypeOK'
  BY DEF TypeInv
<1>1. ASSUME NEW m \in wire, Eval(m)
      PROVE  RivalInv'
  <2>1. /\ admitted \subseteq admitted' /\ denied \subseteq denied'
        /\ m \in admitted' \cup denied' /\ members' = Kept(m.now) \cup {m.now}
        /\ denied' # denied => denied' = denied \cup {m} /\ ~Granted(Kept(m.now), m.now)
    BY <1>1 DEF Eval
  <2>2. members' \subseteq Nows'
    BY <2>1 DEF RivalInv, Nows, Kept
  <2>3. ASSUME ~Granted(Kept(m.now), m.now)
        PROVE  Cardinality(Rivals(m)') >= Limit
    <3>1. PICK K \in SUBSET Millis : K = Kept(m.now)
      BY MemberStep
    <3>3. IsFiniteSet(K \ {m.now}) /\ Cardinality(K \ {m.now}) \in Nat
      <4>1. K \ {m.now} \in SUBSET Millis
        OBVIOUS
      <4> QED
        BY <4>1, FiniteMillis
    <3>4. Cardinality((K \ {m.now}) \cup {m.now}) = Cardinality(K \ {m.now}) + 1
      BY <3>3, FS_AddElement
    <3>5. (K \ {m.now}) \cup {m.now} = K \cup {m.now}
      OBVIOUS
    <3>6. Cardinality(K \ {m.now}) >= Limit
      BY <2>3, <3>1, <3>3, <3>4, <3>5, ConstantTypes DEF Granted
    <3>7. K \ {m.now} \subseteq Rivals(m)'
      <4>1. ASSUME NEW s \in K \ {m.now}
            PROVE  s \in Rivals(m)'
        <5>1. s \in members /\ m.now - WindowMs < s
          BY <3>1 DEF Kept
        <5>2. PICK n \in admitted \cup denied : n.now = s
          BY <5>1 DEF RivalInv, Nows
        <5>3. s <= m.now + MaxDelay
          BY <1>0, <5>1, ConstantTypes DEF TypeInv, TypeOK, OnTime, Millis, Requests
        <5> QED
          BY <2>1, <5>1, <5>2, <5>3 DEF Rivals
      <4> QED
        BY <4>1
    <3>8. Rivals(m)' \subseteq Millis
      BY <1>0 DEF Rivals, TypeOK, Requests
    <3> QED
      BY <3>6, <3>7, <3>8, Smaller, ConstantTypes
  <2>4. ASSUME NEW d \in denied'
        PROVE  Cardinality(Rivals(d)') >= Limit
    <3>1. CASE d \in denied
      BY <1>0, <2>1, <3>1, RivalsGrow DEF RivalInv, DeniedByRivals
    <3>2. CASE d \notin denied
      BY <2>1, <2>3, <2>4, <3>2
    <3> QED
      BY <3>1, <3>2
  <2> QED
    BY <2>2, <2>4 DEF RivalInv, DeniedByRivals
<1>2. CASE UNCHANGED <<members, admitted, denied>>
  BY <1>2 DEF RivalInv, Nows, DeniedByRivals, Rivals
<1> QED
  BY <1>1, <1>2 DEF Next, Allow, Tick, vars

\* Whoever is denied shares his window with Limit other milliseconds that were asked for.
THEOREM DenialNeedsRivals == Spec => []DeniedByRivals
<1>1. Init => RivalInv
  BY DEF Init, RivalInv, DeniedByRivals, Nows
<1>2. RivalInv => DeniedByRivals
  BY DEF RivalInv
<1> QED
  BY <1>1, <1>2, StepRival, TypeInvariance, PTL DEF Spec

-----------------------------------------------------------------------------
(* What is let through in a window. *)

\* What was admitted is counted until its window is over.  In the last millisecond of
\* the window the script may have dropped it, but only for a request of that
\* millisecond, which is counted in its place.
Remembered(n) ==
  \/ n \in Live
  \/ clock > n + WindowMs
  \/ clock = n + WindowMs /\ clock \in Live

AdmittedInv ==
  /\ \A n \in admitted : n.now <= clock /\ n.now + WindowMs <= expireAt
  /\ \A n \in admitted : Remembered(n.now)

LEMMA StepAdmitted == TypeInv /\ AdmittedInv /\ [Next]_vars => AdmittedInv'
<1> SUFFICES ASSUME TypeInv, AdmittedInv, [Next]_vars
             PROVE  AdmittedInv'
  OBVIOUS
<1>0. /\ clock \in Nat /\ expireAt \in Int
      /\ \A n \in admitted : n.now \in Nat /\ n.now <= clock /\ n.now + WindowMs <= expireAt
      /\ \A s \in members : s \in Nat /\ s <= clock
  BY DEF TypeInv, TypeOK, OnTime, AdmittedInv, Millis, Requests
<1>1. ASSUME NEW m \in wire, Eval(m)
      PROVE  AdmittedInv'
  <2>1. /\ m.now \in Nat /\ m.now <= clock /\ UNCHANGED clock
        /\ members' = Kept(m.now) \cup {m.now} /\ expireAt' = clock + TtlMs
        /\ admitted' \subseteq admitted \cup {m}
    BY <1>1 DEF Eval, TypeInv, TypeOK, OnTime, Millis, Requests
  <2>2. Live' = members'
    BY <1>0, <2>1, ConstantTypes DEF Live
  <2>3. ASSUME NEW n \in admitted'
        PROVE  n.now <= clock' /\ n.now + WindowMs <= expireAt'
    BY <1>0, <2>1, ConstantTypes DEF TtlMs
  <2>4. ASSUME NEW n \in admitted
        PROVE  Remembered(n.now)'
    <3>1. CASE n.now \in Live /\ n.now > m.now - WindowMs
      BY <2>1, <2>2, <3>1 DEF Remembered, Live, Kept
    <3>2. CASE n.now <= m.now - WindowMs
      BY <1>0, <2>1, <2>2, <3>2, ConstantTypes DEF Remembered
    <3>3. CASE clock > n.now + WindowMs
      BY <2>1, <3>3 DEF Remembered
    <3>4. CASE clock = n.now + WindowMs /\ clock \in Live
      <4>1. clock \in Kept(m.now)
        BY <1>0, <2>1, <3>4, ConstantTypes DEF Live, Kept
      <4> QED
        BY <2>1, <2>2, <3>4, <4>1 DEF Remembered
    <3> QED
      BY <1>0, <2>1, <3>1, <3>2, <3>3, <3>4, ConstantTypes DEF AdmittedInv, Remembered
  <2>5. Remembered(m.now)'
    BY <2>1, <2>2 DEF Remembered
  <2> QED
    BY <2>1, <2>3, <2>4, <2>5 DEF AdmittedInv
<1>2. CASE Tick
  <2>1. clock' = clock + 1 /\ UNCHANGED <<members, expireAt, admitted>>
    BY <1>2 DEF Tick
  <2>2. ASSUME NEW n \in admitted
        PROVE  Remembered(n.now)'
    <3>1. CASE n.now \in Live
      BY <1>0, <2>1, <3>1, ConstantTypes DEF Remembered, Live
    <3>2. CASE clock > n.now + WindowMs \/ clock = n.now + WindowMs
      BY <1>0, <2>1, <3>2, ConstantTypes DEF Remembered
    <3> QED
      BY <3>1, <3>2 DEF AdmittedInv, Remembered
  <2> QED
    BY <1>0, <2>1, <2>2 DEF AdmittedInv
<1>3. CASE UNCHANGED <<clock, members, expireAt, admitted>>
  BY <1>3 DEF AdmittedInv, Remembered, Live
<1> QED
  BY <1>1, <1>2, <1>3 DEF Next, Allow, vars

\* The milliseconds that were let through in the window after t.
Through(t) == {m.now : m \in AdmittedIn(t, Guaranteed)}

LEMMA GuaranteedType ==
  /\ Guaranteed \in Int /\ Guaranteed <= WindowMs
  /\ MaxDelay > 0 => Guaranteed = WindowMs - MaxDelay + 1
  BY ConstantTypes DEF Guaranteed

\* What the script has counted when it lets m through is no less than what a window
\* around m has let through.
LEMMA CountedAtLeast ==
  ASSUME TypeInv, AdmittedInv, NEW m \in wire, NEW t \in Int,
         t < m.now, m.now <= t + Guaranteed
  PROVE  Cardinality(Through(t) \cup {m.now}) <= Cardinality(Kept(m.now) \cup {m.now})
<1>1. /\ m.now \in Nat /\ m.now <= clock /\ clock <= m.now + MaxDelay /\ clock \in Nat
      /\ clock <= MaxTime
  BY DEF TypeInv, TypeOK, OnTime, Millis, Requests
<1>2. PICK A, K : A = Through(t) \cup {m.now} /\ K = Kept(m.now) \cup {m.now}
  OBVIOUS
<1>3. A \subseteq Millis /\ K \subseteq Millis
  BY <1>2, MemberStep DEF Through, AdmittedIn, TypeInv, TypeOK, Requests
<1>4. \A a \in A : a \in Int /\ t < a /\ a <= t + Guaranteed
  BY <1>1, <1>2 DEF Through, AdmittedIn, TypeInv, TypeOK, Requests, Millis
<1>5. ASSUME NEW a \in A, a \notin K
      PROVE  a = clock - WindowMs /\ clock \in K
  <2>1. a \in Int /\ a > m.now - WindowMs /\ Remembered(a)
    <3>1. PICK n \in admitted : n.now = a
      BY <1>2, <1>5 DEF Through, AdmittedIn
    <3>2. a \in Int /\ a > m.now - WindowMs
      BY <1>1, <1>4, GuaranteedType, ConstantTypes
    <3> QED
      BY <3>1, <3>2 DEF AdmittedInv
  <2>2. a \notin Live
    BY <1>2, <1>5, <2>1 DEF Live, Kept
  <2>3. ~(clock > a + WindowMs)
    <3>1. CASE MaxDelay = 0
      BY <1>1, <2>1, <3>1, ConstantTypes
    <3>2. CASE MaxDelay > 0
      BY <1>1, <1>4, <2>1, <3>2, GuaranteedType, ConstantTypes
    <3> QED
      BY <3>1, <3>2, ConstantTypes
  <2>4. clock = a + WindowMs /\ clock \in Live
    BY <2>1, <2>2, <2>3 DEF Remembered
  <2>5. clock \in Kept(m.now)
    BY <1>1, <2>4, ConstantTypes DEF Live, Kept
  <2> QED
    BY <1>1, <1>2, <2>1, <2>4, <2>5, ConstantTypes
<1>6. CASE A \subseteq K
  BY <1>2, <1>3, <1>6, Smaller
<1>7. CASE ~(A \subseteq K)
  <2>1. PICK a \in A : a \notin K /\ a = clock - WindowMs /\ clock \in K
    BY <1>5, <1>7
  <2>2. clock \notin A
    BY <1>1, <1>4, <2>1, GuaranteedType, ConstantTypes
  <2>3. A \ {a} \subseteq K \ {clock}
    BY <1>5, <2>1, <2>2
  <2>4. /\ IsFiniteSet(A) /\ Cardinality(A) \in Nat
        /\ IsFiniteSet(K) /\ Cardinality(K) \in Nat
    BY <1>3, FiniteMillis
  <2>5. /\ Cardinality(A \ {a}) = Cardinality(A) - 1
        /\ Cardinality(K \ {clock}) = Cardinality(K) - 1
    BY <2>1, <2>4, FS_RemoveElement
  <2>6. K \ {clock} \subseteq Millis
    BY <1>3
  <2>7. Cardinality(A \ {a}) <= Cardinality(K \ {clock})
    BY <2>3, <2>6, Smaller
  <2> QED
    BY <1>2, <2>4, <2>5, <2>7
<1> QED
  BY <1>6, <1>7

LEMMA StepBounded ==
  TypeInv /\ AdmittedInv /\ MillisecondsBounded /\ [Next]_vars => MillisecondsBounded'
<1> SUFFICES ASSUME TypeInv, AdmittedInv, MillisecondsBounded, [Next]_vars,
                    NEW t \in -1..MaxTime
             PROVE  Cardinality(Through(t)') <= Limit
  BY DEF MillisecondsBounded, Through
<1>1. Cardinality(Through(t)) <= Limit
  BY DEF MillisecondsBounded, Through
<1>2. ASSUME NEW m \in wire, Eval(m)
      PROVE  Cardinality(Through(t)') <= Limit
  <2>1. CASE ~(t < m.now /\ m.now <= t + Guaranteed) \/ UNCHANGED admitted
    <3>1. Through(t)' = Through(t)
      BY <1>2, <2>1 DEF Eval, Through, AdmittedIn, Guaranteed
    <3> QED
      BY <1>1, <3>1
  <2>2. CASE /\ t < m.now /\ m.now <= t + Guaranteed
             /\ Granted(Kept(m.now), m.now) /\ admitted' = admitted \cup {m}
    <3>1. Through(t)' = Through(t) \cup {m.now}
      BY <2>2 DEF Through, AdmittedIn, Guaranteed
    <3>2. Cardinality(Through(t) \cup {m.now}) <= Cardinality(Kept(m.now) \cup {m.now})
      BY <2>2, CountedAtLeast, ConstantTypes
    <3>3. /\ Through(t) \cup {m.now} \subseteq Millis
          /\ Kept(m.now) \cup {m.now} \subseteq Millis
      BY MemberStep DEF Through, AdmittedIn, TypeInv, TypeOK, Requests
    <3>4. /\ Cardinality(Through(t) \cup {m.now}) \in Nat
          /\ Cardinality(Kept(m.now) \cup {m.now}) \in Nat
      BY <3>3, FiniteMillis
    <3> QED
      BY <2>2, <3>1, <3>2, <3>4, ConstantTypes DEF Granted
  <2> QED
    BY <1>2, <2>1, <2>2 DEF Eval
<1>3. CASE UNCHANGED admitted
  <2>1. Through(t)' = Through(t)
    BY <1>3 DEF Through, AdmittedIn, Guaranteed
  <2> QED
    BY <1>1, <2>1
<1> QED
  BY <1>2, <1>3 DEF Next, Allow, Tick, vars

\* The guarantee of the sliding window: no window, shortened by what EVALs may be late,
\* lets requests through in more than Limit milliseconds, for any limit, window, delay
\* and number of requests.
THEOREM WindowIsKept == Spec => []MillisecondsBounded
<1>1. Init => AdmittedInv
  BY DEF Init, AdmittedInv
<1>2. Init => MillisecondsBounded
  <2> SUFFICES ASSUME Init, NEW t \in -1..MaxTime
               PROVE  Cardinality(Through(t)) <= Limit
    BY DEF MillisecondsBounded, Through
  <2>1. Through(t) = {}
    BY DEF Init, Through, AdmittedIn
  <2> QED
    BY <2>1, FS_EmptySet, ConstantTypes
<1> QED
  BY <1>1, <1>2, StepAdmitted, StepBounded, TypeInvariance, PTL DEF Spec
=============================================================================
