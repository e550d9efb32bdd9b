----------------------------- MODULE QuotaProofs ----------------------------
(* Theorems about the two halves of Quota: the counters (QuotaCounters), for  *)
(* any quota, lengths, delays and requests, and the circuit breaker           *)
(* (QuotaBreaker), for any number of requests at the same time.               *)
EXTENDS QuotaCounters, QuotaBreaker, TLAPS

-----------------------------------------------------------------------------
(* Periods. *)

LEMMA DivMod ==
  ASSUME NEW x \in Int, NEW l \in Nat \ {0}
  PROVE  /\ x \div l \in Int /\ x % l \in 0..(l - 1)
         /\ x = l * (x \div l) + (x % l)
  OBVIOUS

LEMMA ModRange ==
  ASSUME NEW x \in Int, NEW l \in Nat \ {0}
  PROVE  x % l \in 0..(l - 1)
  OBVIOUS

LEMMA DivUnique ==
  ASSUME NEW x \in Int, NEW l \in Nat \ {0}, NEW q \in Int, NEW r \in 0..(l - 1),
         x = l * q + r
  PROVE  x \div l = q /\ x % l = r
  OBVIOUS

\* Two times of one period are less than its length apart.
LEMMA SamePeriod ==
  ASSUME NEW x \in Int, NEW y \in Int, NEW l \in Nat \ {0}, x \div l = y \div l
  PROVE  x - y < l
  BY DivMod

-----------------------------------------------------------------------------
(* Types. *)

CounterSet ==
  [n : Nat, expireAt : 0..(MaxTime + DayLen + HourLen + HourGrace + DayGrace)]

DenialSet == [scope : Scopes, now : Times, until : Nat]

LEMMA KeyFields ==
  ASSUME NEW s \in Scopes, NEW t \in Times
  PROVE  KeyOf(s, t) \in Keys /\ KeyOf(s, t)[1] = s
  BY DEF KeyOf, Keys

LEMMA ScopeTypes ==
  ASSUME NEW s \in Scopes
  PROVE  /\ Length(s) \in Nat \ {0} /\ Limit(s) \in Nat
         /\ Ttl(s) \in Nat /\ Ttl(s) <= DayLen + HourLen + HourGrace + DayGrace
  BY QuotaAssumption DEF Scopes, Length, Limit, Ttl

LEMMA RetryAfterType ==
  ASSUME NEW s \in Scopes, NEW t \in Times
  PROVE  t + RetryAfter(s, t) \in Nat
<1>1. t \in Nat /\ t + Offset \in Int /\ HourLen \in Nat \ {0} /\ DayLen \in Nat \ {0}
  BY QuotaAssumption, BoundsAssumption DEF Times
<1>2. t % HourLen \in 0..(HourLen - 1) /\ (t + Offset) % DayLen \in 0..(DayLen - 1)
  <2>1. t % HourLen \in 0..(HourLen - 1)
    BY ONLY <1>1, ModRange
  <2>2. (t + Offset) % DayLen \in 0..(DayLen - 1)
    <3>1. PICK x \in Int : x = t + Offset
      BY ONLY <1>1
    <3>2. x % DayLen \in 0..(DayLen - 1)
      BY ONLY <1>1, <3>1, ModRange
    <3> QED
      BY ONLY <3>1, <3>2
  <2> QED
    BY ONLY <2>1, <2>2
<1>3. RetryAfter(s, t) \in Nat
  BY <1>1, <1>2 DEF RetryAfter
<1> QED
  BY <1>1, <1>3

\* The EVALs on their way are those of about now.
OnTime == \A m \in wire : m.now <= clock + MaxSkew /\ clock <= m.now + MaxDelay

TypeInv == TypeOK /\ OnTime

LEMMA IncrementedType ==
  ASSUME TypeOK, NEW k \in Keys
  PROVE  Current(k) \in Nat /\ Incremented(k) \in CounterSet
<1>1. counter[k] \in CounterSet /\ clock \in 0..MaxTime
  BY DEF TypeOK, CounterSet
<1>2. k[1] \in Scopes
  BY DEF Keys, KeyOf
<1>3. clock + Ttl(k[1]) \in 0..(MaxTime + DayLen + HourLen + HourGrace + DayGrace)
  BY <1>1, <1>2, ScopeTypes, QuotaAssumption, BoundsAssumption
<1>4. Current(k) \in Nat
  BY <1>1 DEF Current, CounterSet
<1> QED
  BY <1>1, <1>3, <1>4 DEF Incremented, CounterSet

LEMMA GrantType ==
  ASSUME TypeOK, NEW now \in Times, Grant(now)
  PROVE  counter' \in [Keys -> CounterSet] /\ granted' \in [Keys -> Nat]
<1>1. counter \in [Keys -> CounterSet] /\ granted \in [Keys -> Nat]
  BY DEF TypeOK, CounterSet
<1> QED
  BY <1>1, IncrementedType DEF Grant

LEMMA DenyType ==
  ASSUME TypeOK, NEW now \in Times, NEW s \in Scopes, Deny(s, now)
  PROVE  denied' \subseteq DenialSet
<1>1. now + RetryAfter(s, now) \in Nat
  BY RetryAfterType
<1> QED
  BY <1>1 DEF Deny, TypeOK, DenialSet

LEMMA InitType == Init => TypeInv
<1> SUFFICES ASSUME Init PROVE TypeInv
  OBVIOUS
<1>1. NoKey \in CounterSet
  BY QuotaAssumption, BoundsAssumption DEF NoKey, CounterSet
<1>2. clock \in 0..MaxTime /\ sent \in 0..MaxSends
  BY BoundsAssumption DEF Init
<1>3. counter \in [Keys -> CounterSet] /\ granted \in [Keys -> Nat]
  BY <1>1 DEF Init
<1>4. wire = {} /\ denied = {}
  BY DEF Init
<1> QED
  BY <1>2, <1>3, <1>4 DEF TypeInv, TypeOK, OnTime, CounterSet

LEMMA StepType == TypeInv /\ [Next]_vars => TypeInv'
<1> SUFFICES ASSUME TypeInv, [Next]_vars
             PROVE  TypeInv'
  OBVIOUS
<1>0. TypeOK /\ clock \in Nat /\ MaxSkew \in Nat /\ MaxDelay \in Nat
  BY BoundsAssumption DEF TypeInv, TypeOK
<1>1. CASE CheckAndIncr
  <2>1. PICK s \in 0..MaxSkew : wire' = wire \cup {[id |-> sent, now |-> clock + s]}
    BY <1>1 DEF CheckAndIncr
  <2>2. sent \in 0..(MaxSends - 1) /\ sent' \in 0..MaxSends /\ clock + s \in Times
    BY <1>1, <2>1, BoundsAssumption DEF CheckAndIncr, TypeInv, TypeOK, Times
  <2>3. wire' \subseteq [id : 0..(MaxSends - 1), now : Times]
    BY <2>1, <2>2 DEF TypeInv, TypeOK
  <2>4. OnTime'
    BY <1>0, <1>1, <2>1 DEF CheckAndIncr, TypeInv, OnTime
  <2> QED
    BY <1>1, <2>2, <2>3, <2>4 DEF CheckAndIncr, TypeInv, TypeOK
<1>2. ASSUME NEW m \in wire, Eval(m)
      PROVE  TypeInv'
  <2>1. m.now \in Times
    BY DEF TypeInv, TypeOK
  <2>2. wire' \subseteq wire /\ UNCHANGED <<clock, sent>>
    BY <1>2 DEF Eval
  <2>3. \/ Deny("hour", m.now) \/ Deny("day", m.now)
        \/ Grant(m.now)
    BY <1>2 DEF Eval
  <2>4. counter' \in [Keys -> CounterSet] /\ granted' \in [Keys -> Nat]
    BY <1>0, <2>1, <2>3, GrantType DEF Deny, TypeOK, CounterSet
  <2>5. denied' \subseteq DenialSet
    BY <1>0, <2>1, <2>3, DenyType DEF Grant, TypeOK, DenialSet, Scopes
  <2>6. OnTime'
    BY <2>2 DEF TypeInv, OnTime
  <2> QED
    BY <2>2, <2>4, <2>5, <2>6 DEF TypeInv, TypeOK, CounterSet, DenialSet
<1>3. CASE Tick
  <2>1. clock' = clock + 1 /\ clock' \in 0..MaxTime
    BY <1>3, BoundsAssumption DEF Tick, TypeInv, TypeOK
  <2>2. wire' \subseteq wire /\ \A m \in wire' : m.now + MaxDelay >= clock'
    BY <1>3 DEF Tick
  <2>3. \A m \in wire : m.now \in Nat
    BY BoundsAssumption DEF TypeInv, TypeOK, Times
  <2>4. OnTime'
    BY <1>0, <2>1, <2>2, <2>3 DEF TypeInv, OnTime
  <2> QED
    BY <1>3, <2>1, <2>2, <2>4 DEF Tick, TypeInv, TypeOK
<1>4. CASE UNCHANGED vars
  BY <1>4 DEF vars, TypeInv, TypeOK, OnTime
<1> QED
  BY <1>1, <1>2, <1>3, <1>4 DEF Next

LEMMA TypeInvariance == Spec => []TypeInv
  BY InitType, StepType, PTL DEF Spec

\* Counters, expiries, hints and EVALs keep their types.
THEOREM TypeCorrect == Spec => []TypeOK
  BY TypeInvariance, PTL DEF TypeInv

-----------------------------------------------------------------------------
(* What denials say. *)

\* A counter never counts what was not let through.
DenialInv ==
  /\ \A k \in Keys : counter[k].n <= granted[k]
  /\ DeniedWhenUsedUp
  /\ \A d \in denied : d.until = d.now + RetryAfter(d.scope, d.now)

LEMMA InitDenial == Init => DenialInv
  BY DEF Init, DenialInv, NoKey, DeniedWhenUsedUp

LEMMA CurrentAtMost ==
  ASSUME TypeOK, NEW k \in Keys
  PROVE  Current(k) \in Nat /\ Current(k) <= counter[k].n
  BY DEF TypeOK, Current

\* The script denies when the counter it reads is full.
LEMMA DeniedStep ==
  ASSUME TypeOK, DenialInv, NEW now \in Times, NEW s \in Scopes,
         Exceeds(s, Current(KeyOf(s, now))), Deny(s, now)
  PROVE  DenialInv'
<1>1. KeyOf(s, now) \in Keys /\ Limit(s) \in Nat
  BY KeyFields, ScopeTypes
<1>2. /\ granted[KeyOf(s, now)] \in Nat /\ counter[KeyOf(s, now)].n \in Nat
      /\ counter[KeyOf(s, now)].n <= granted[KeyOf(s, now)]
      /\ Current(KeyOf(s, now)) \in Nat
      /\ Current(KeyOf(s, now)) <= counter[KeyOf(s, now)].n
  BY <1>1, CurrentAtMost DEF TypeOK, DenialInv
<1>3. granted[KeyOf(s, now)] >= Limit(s)
  BY <1>1, <1>2 DEF Exceeds
<1>4. UNCHANGED <<counter, granted>>
  BY DEF Deny
<1>5. PICK e : e = [scope |-> s, now |-> now, until |-> now + RetryAfter(s, now)]
  OBVIOUS
<1>6. /\ denied' = denied \cup {e} /\ e.scope = s /\ e.now = now
      /\ e.until = now + RetryAfter(s, now)
  BY <1>5 DEF Deny
<1> QED
  BY <1>3, <1>4, <1>6 DEF DenialInv, DeniedWhenUsedUp

\* What a request that is let through adds.
LEMMA GrantFields ==
  ASSUME TypeOK, NEW now \in Times, Grant(now), NEW k \in Keys
  PROVE  \/ /\ k # KeyOf(k[1], now)
            /\ counter'[k] = counter[k] /\ granted'[k] = granted[k]
         \/ /\ k = KeyOf(k[1], now) /\ k[1] \in Scopes
            /\ counter'[k].n = Current(k) + 1 /\ granted'[k] = granted[k] + 1
            /\ counter'[k].expireAt = IF Current(k) = 0 THEN clock + Ttl(k[1])
                                                        ELSE counter[k].expireAt
<1>1. k[1] \in Scopes /\ k = <<k[1], k[2]>>
  BY DEF Keys, KeyOf
<1>2. k \in {KeyOf(s, now) : s \in Scopes} <=> k = KeyOf(k[1], now)
  BY <1>1 DEF KeyOf
<1> QED
  BY <1>1, <1>2 DEF Grant, Incremented

LEMMA StepDenial == TypeInv /\ DenialInv /\ [Next]_vars => DenialInv'
<1> SUFFICES ASSUME TypeInv, DenialInv, [Next]_vars
             PROVE  DenialInv'
  OBVIOUS
<1>0. TypeOK
  BY DEF TypeInv
<1>1. ASSUME NEW m \in wire, Eval(m)
      PROVE  DenialInv'
  <2>1. m.now \in Times
    BY <1>0 DEF TypeOK
  <2>2. CASE Grant(m.now)
    <3>1. \A k \in Keys : /\ granted[k] \in Nat /\ counter[k].n \in Nat
                         /\ Current(k) \in Nat /\ Current(k) <= counter[k].n
      BY <1>0, CurrentAtMost DEF TypeOK
    <3>2. \A k \in Keys : /\ counter'[k].n <= granted'[k]
                         /\ granted'[k] >= granted[k] /\ granted'[k] \in Nat
      BY <1>0, <2>1, <2>2, <3>1, GrantFields DEF DenialInv
    <3>3. UNCHANGED denied
      BY <2>2 DEF Grant
    <3>4. \A d \in denied : granted'[KeyOf(d.scope, d.now)] >= Limit(d.scope)
      <4>1. ASSUME NEW d \in denied
            PROVE  granted'[KeyOf(d.scope, d.now)] >= Limit(d.scope)
        <5>1. KeyOf(d.scope, d.now) \in Keys /\ Limit(d.scope) \in Nat
          BY <1>0, KeyFields, ScopeTypes DEF TypeOK
        <5>2. granted[KeyOf(d.scope, d.now)] >= Limit(d.scope)
          BY DEF DenialInv, DeniedWhenUsedUp
        <5> QED
          BY <3>1, <3>2, <5>1, <5>2
      <4> QED
        BY <4>1
    <3> QED
      BY <3>2, <3>3, <3>4 DEF DenialInv, DeniedWhenUsedUp
  <2>3. \/ Grant(m.now)
        \/ \E s \in Scopes : Exceeds(s, Current(KeyOf(s, m.now))) /\ Deny(s, m.now)
    BY <1>1 DEF Eval, Scopes
  <2> QED
    BY <1>0, <2>1, <2>2, <2>3, DeniedStep
<1>2. CASE UNCHANGED <<counter, granted, denied>>
  BY <1>2 DEF DenialInv, DeniedWhenUsedUp
<1> QED
  BY <1>1, <1>2 DEF Next, CheckAndIncr, Tick, vars

LEMMA DenialInvariance == Spec => []DenialInv
  BY InitDenial, StepDenial, TypeInvariance, PTL DEF Spec

\* Nobody is denied before the quota of the hour, or the day, has been given to
\* requests that were let through: whatever expires, arrives late or twice.
THEOREM NoEarlyDenial == Spec => []DeniedWhenUsedUp
  BY DenialInvariance, PTL DEF DenialInv

\* Where the end of the period and the hint lie: t is q periods and r in UTC, the
\* offset is p periods and o, and the hint leads to the end of t's period in UTC.
LEMMA HintOfHour ==
  ASSUME NEW l \in Nat \ {0}, NEW t \in Int, NEW z \in Int
  PROVE  (t + (l - (t % l))) - ((((t + z) \div l) + 1) * l - z) \in {z % l, (z % l) - l}
<1>1. PICK q \in Int, r \in 0..(l - 1) : t = l * q + r /\ r = t % l
  BY DivMod
<1>2. PICK p \in Int, o \in 0..(l - 1) : z = l * p + o /\ o = z % l
  BY DivMod
<1>3. PICK a \in Int, b \in Int : a = l * q /\ b = l * p
  <2>1. l * q \in Int /\ l * p \in Int
    OBVIOUS
  <2> QED
    BY <2>1
<1>4. /\ l * (q + p) = a + b /\ l * (q + p + 1) = a + b + l
      /\ (q + p + 1) * l = a + b + l /\ (q + p + 2) * l = a + b + l + l
  BY <1>3
<1>5. /\ t = a + r /\ z = b + o
      /\ l \in Int /\ r \in Int /\ o \in Int /\ a \in Int /\ b \in Int
  BY <1>1, <1>2, <1>3
<1>6. CASE r + o < l
  <2>1. t + z = l * (q + p) + (r + o) /\ r + o \in 0..(l - 1) /\ t + z \in Int /\ q + p \in Int
    BY <1>1, <1>2, <1>3, <1>4, <1>6
  <2>2. (t + z) \div l = q + p
    BY <2>1, DivUnique
  <2>3. (t + (l - r)) - ((a + b + l) - z) = o
    BY <1>5
  <2> QED
    BY <1>1, <1>2, <1>4, <2>2, <2>3
<1>7. CASE ~(r + o < l)
  <2>1. /\ t + z = l * (q + p + 1) + (r + o - l) /\ r + o - l \in 0..(l - 1)
        /\ t + z \in Int /\ q + p + 1 \in Int
    BY <1>1, <1>2, <1>3, <1>4, <1>7
  <2>2. (t + z) \div l = q + p + 1
    BY <2>1, DivUnique
  <2>3. ((q + p + 1) + 1) * l = a + b + l + l
    BY <1>4
  <2>4. (t + (l - r)) - ((a + b + l + l) - z) = o - l
    BY <1>5
  <2> QED
    BY <1>1, <1>2, <2>2, <2>3, <2>4
<1> QED
  BY <1>6, <1>7

LEMMA HintOfDay ==
  ASSUME NEW l \in Nat \ {0}, NEW t \in Int, NEW z \in Int
  PROVE  (t + (l - ((t + z) % l))) - ((((t + z) \div l) + 1) * l - z) = 0
<1>1. PICK x \in Int : x = t + z
  OBVIOUS
<1>2. PICK q \in Int, r \in 0..(l - 1) : x = l * q + r /\ q = x \div l /\ r = x % l
  BY DivMod
<1>3. PICK a \in Int : a = l * q /\ (q + 1) * l = a + l
  <2>1. l * q \in Int /\ (q + 1) * l = l * q + l
    OBVIOUS
  <2> QED
    BY <2>1
<1>4. (t + (l - r)) - ((a + l) - z) = 0
  BY <1>1, <1>2, <1>3
<1> QED
  BY <1>1, <1>2, <1>3, <1>4

\* A client that comes when a denial told it to finds the counter of the next hour, or
\* day, and not earlier; in a zone with a fraction of an hour it is off by that.
THEOREM HintIsExact == Spec => []HintExact
<1>1. TypeInv /\ DenialInv => HintExact
  <2> SUFFICES ASSUME TypeInv, DenialInv, NEW d \in denied
               PROVE  /\ d.now < d.until
                      /\ d.until - ((Period(d.scope, d.now) + 1) * Length(d.scope) - Offset)
                           \in {ZoneFraction(d.scope),
                                ZoneFraction(d.scope) - Length(d.scope)}
    BY DEF HintExact
  <2>1. d.scope \in Scopes /\ d.until = d.now + RetryAfter(d.scope, d.now)
    BY DEF TypeInv, TypeOK, DenialInv
  <2>2. PICK t \in Int : t = d.now
    BY BoundsAssumption DEF TypeInv, TypeOK, Times
  <2>3. PICK z \in Int : z = Offset
    BY QuotaAssumption
  <2>4. CASE d.scope = "hour"
    <3>1. PICK l \in Nat \ {0} : l = HourLen
      BY QuotaAssumption
    <3>2. d.until = t + (l - (t % l))
      BY <2>1, <2>2, <2>4, <3>1 DEF RetryAfter
    <3>3. t % l \in 0..(l - 1)
      BY ModRange
    <3>4. d.now < d.until
      BY <2>2, <3>2, <3>3
    <3>5. (t + (l - (t % l))) - ((((t + z) \div l) + 1) * l - z) \in {z % l, (z % l) - l}
      BY ONLY HintOfHour
    <3> QED
      BY <2>2, <2>3, <2>4, <3>1, <3>2, <3>4, <3>5 DEF Period, Length, ZoneFraction
  <2>5. CASE d.scope = "day"
    <3>1. PICK l \in Nat \ {0} : l = DayLen
      BY QuotaAssumption
    <3>2. d.until = t + (l - ((t + z) % l))
      BY <2>1, <2>2, <2>3, <2>5, <3>1 DEF RetryAfter
    <3>3. (t + z) % l \in 0..(l - 1)
      BY ModRange
    <3>4. d.now < d.until
      BY <2>2, <3>2, <3>3
    <3>5. (t + (l - ((t + z) % l))) - ((((t + z) \div l) + 1) * l - z) = 0
      BY ONLY HintOfDay
    <3> QED
      BY <2>2, <2>3, <2>5, <3>1, <3>2, <3>4, <3>5 DEF Period, Length, ZoneFraction
  <2> QED
    BY <2>1, <2>4, <2>5 DEF Scopes
<1> QED
  BY <1>1, DenialInvariance, TypeInvariance, PTL

-----------------------------------------------------------------------------
(* The quota.  ClockBound is what the TTLs are for: the code leaves ten minutes  *)
(* after the hour and an hour after the day.                                     *)

ClockBound == MaxSkew + MaxDelay <= HourGrace /\ MaxSkew + MaxDelay <= DayGrace

\* A counter that has let something through counts all of it, and outlives the last
\* EVAL that can name it.
Outlives(k) ==
  granted[k] > 0 => /\ counter[k].n = granted[k]
                    /\ \A t \in Times : KeyOf(k[1], t) = k => t + MaxDelay < counter[k].expireAt

QuotaInv == QuotaBound /\ \A k \in Keys : Outlives(k)

LEMMA InitQuota == Init => QuotaInv
<1> SUFFICES ASSUME Init, NEW k \in Keys
             PROVE  (Limit(k[1]) > 0 => granted[k] <= Limit(k[1])) /\ Outlives(k)
  BY DEF QuotaInv, QuotaBound
<1>1. granted[k] = 0
  BY DEF Init
<1>2. k[1] \in Scopes
  BY DEF Keys, KeyOf
<1> QED
  BY <1>1, <1>2, ScopeTypes DEF Outlives

\* The first request of an hour sets an expiry that is late enough.
LEMMA FirstExpiry ==
  ASSUME ClockBound, TypeInv, NEW m \in wire, NEW s \in Scopes, NEW t \in Times,
         KeyOf(s, t) = KeyOf(s, m.now)
  PROVE  t + MaxDelay < clock + Ttl(s)
<1>1. t \in Nat /\ m.now \in Nat /\ clock \in Nat /\ Offset \in Int
      /\ MaxDelay \in Nat /\ MaxSkew \in Nat /\ HourGrace \in Nat /\ DayGrace \in Nat
  BY QuotaAssumption, BoundsAssumption DEF TypeInv, TypeOK, Times
<1>2. m.now <= clock + MaxSkew
  BY DEF TypeInv, OnTime
<1>3. PICK l \in Nat \ {0} : l = Length(s)
  BY ScopeTypes
<1>4. PICK x \in Int, y \in Int : x = t + Offset /\ y = m.now + Offset
  BY <1>1
<1>5. x \div l = y \div l
  BY <1>3, <1>4 DEF KeyOf, Period
<1>6. x - y < l
  BY <1>5, SamePeriod
<1>7. PICK g \in Nat : Ttl(s) = l + g /\ MaxSkew + MaxDelay <= g
  BY <1>1, <1>3 DEF ClockBound, Ttl, Scopes
<1> QED
  BY <1>1, <1>2, <1>4, <1>6, <1>7

LEMMA GrantQuota ==
  ASSUME ClockBound, TypeInv, DenialInv, QuotaInv, NEW m \in wire, NEW k \in Keys, Grant(m.now),
         ~Exceeds(k[1], Current(KeyOf(k[1], m.now)))
  PROVE  /\ Limit(k[1]) > 0 => granted'[k] <= Limit(k[1])
         /\ Outlives(k)'
<1>1. /\ m.now \in Times /\ m.now \in Nat /\ clock \in Nat /\ MaxDelay \in Nat
      /\ granted[k] \in Nat /\ counter[k].n \in Nat /\ counter[k].expireAt \in Nat
      /\ clock <= m.now + MaxDelay
  BY BoundsAssumption, QuotaAssumption DEF TypeInv, TypeOK, OnTime, Times
<1>2. TypeOK /\ k[1] \in Scopes /\ Limit(k[1]) \in Nat
  BY ScopeTypes DEF TypeInv, Keys, KeyOf
<1>3. CASE k # KeyOf(k[1], m.now)
  <2>1. counter'[k] = counter[k] /\ granted'[k] = granted[k]
    BY <1>1, <1>2, <1>3, GrantFields
  <2> QED
    BY <2>1 DEF QuotaInv, QuotaBound, Outlives
<1>4. CASE k = KeyOf(k[1], m.now)
  <2>1. /\ counter'[k].n = Current(k) + 1 /\ granted'[k] = granted[k] + 1
        /\ counter'[k].expireAt = IF Current(k) = 0 THEN clock + Ttl(k[1])
                                                    ELSE counter[k].expireAt
    BY <1>1, <1>2, <1>4, GrantFields
  <2>2. Current(k) = granted[k]
    <3>1. CASE granted[k] = 0
      BY <1>1, <3>1 DEF Current, DenialInv
    <3>2. CASE granted[k] > 0
      <4>1. counter[k].n = granted[k] /\ m.now + MaxDelay < counter[k].expireAt
        BY <1>1, <1>4, <3>2 DEF QuotaInv, Outlives
      <4> QED
        BY <1>1, <4>1 DEF Current
    <3> QED
      BY <1>1, <3>1, <3>2
  <2>3. Limit(k[1]) > 0 => granted'[k] <= Limit(k[1])
    BY <1>1, <1>2, <1>4, <2>1, <2>2 DEF Exceeds
  <2>4. ASSUME NEW t \in Times, KeyOf(k[1], t) = k
        PROVE  t + MaxDelay < counter'[k].expireAt
    <3>1. CASE granted[k] = 0
      BY <1>2, <1>4, <2>1, <2>2, <2>4, <3>1, FirstExpiry
    <3>2. CASE granted[k] > 0
      BY <1>1, <2>1, <2>2, <2>4, <3>2 DEF QuotaInv, Outlives
    <3> QED
      BY <1>1, <3>1, <3>2
  <2> QED
    BY <2>1, <2>2, <2>3, <2>4 DEF Outlives
<1> QED
  BY <1>3, <1>4

LEMMA StepQuota ==
  ClockBound /\ TypeInv /\ DenialInv /\ QuotaInv /\ [Next]_vars => QuotaInv'
<1> SUFFICES ASSUME ClockBound, TypeInv, DenialInv, QuotaInv, [Next]_vars
             PROVE  QuotaInv'
  OBVIOUS
<1>1. ASSUME NEW m \in wire, Eval(m)
      PROVE  QuotaInv'
  <2>1. CASE UNCHANGED <<counter, granted>>
    BY <2>1 DEF QuotaInv, QuotaBound, Outlives
  <2>2. CASE Grant(m.now) /\ \A s \in Scopes : ~Exceeds(s, Current(KeyOf(s, m.now)))
    <3>1. \A k \in Keys : k[1] \in Scopes
      BY DEF Keys, KeyOf
    <3>2. \A k \in Keys : /\ Limit(k[1]) > 0 => granted'[k] <= Limit(k[1])
                         /\ Outlives(k)'
      BY <2>2, <3>1, GrantQuota
    <3> QED
      BY <3>2 DEF QuotaInv, QuotaBound
  <2> QED
    BY <1>1, <2>1, <2>2 DEF Eval, Deny
<1>2. CASE UNCHANGED <<counter, granted>>
  BY <1>2 DEF QuotaInv, QuotaBound, Outlives
<1> QED
  BY <1>1, <1>2 DEF Next, CheckAndIncr, Tick, vars

\* No hour and no day ever grants more than its quota, although each caller names its
\* counter by its own clock and the counter expires by that of Redis.
THEOREM QuotaIsKept == ClockBound => (Spec => []QuotaBound)
<1> SUFFICES ASSUME ClockBound PROVE Spec => []QuotaBound
  OBVIOUS
<1>1. TypeInv /\ DenialInv /\ QuotaInv /\ [Next]_vars => QuotaInv'
  BY StepQuota
<1>2. QuotaInv => QuotaBound
  BY DEF QuotaInv
<1> QED
  BY <1>1, <1>2, InitQuota, DenialInvariance, TypeInvariance, PTL DEF Spec

-----------------------------------------------------------------------------
(* The circuit breaker. *)

LEMMA BreakerInitType == BreakerInit => BreakerTypeOK
  BY BreakerAssumption DEF BreakerInit, BreakerTypeOK, Idle, FullAfter

Pcs == {"idle", "ratio", "time", "redis", "exit", "onHalfOpen", "onOpen",
        "timeHalfOpen", "timeOpen", "onClosed"}

LEMMA GotoType ==
  ASSUME BreakerTypeOK, NEW t \in Threads, NEW pc \in Pcs, Goto(t, pc)
  PROVE  /\ req' \in [Threads -> [pc : Pcs, err : BOOLEAN]]
         /\ req'[t].pc = pc
         /\ \A u \in Threads \ {t} : req'[u] = req[u]
  BY DEF BreakerTypeOK, Goto, Pcs

LEMMA IdleType ==
  ASSUME BreakerTypeOK, NEW t \in Threads, req' = [req EXCEPT ![t] = Idle]
  PROVE  /\ req' \in [Threads -> [pc : Pcs, err : BOOLEAN]]
         /\ req'[t].pc = "idle"
         /\ \A u \in Threads \ {t} : req'[u] = req[u]
  BY DEF BreakerTypeOK, Idle, Pcs

LEMMA RedisType ==
  ASSUME BreakerTypeOK, NEW t \in Threads, Redis(t)
  PROVE  /\ req' \in [Threads -> [pc : Pcs, err : BOOLEAN]]
         /\ req'[t].pc = "exit"
         /\ \A u \in Threads \ {t} : req'[u] = req[u]
<1>1. PICK e : e = [pc |-> "exit", err |-> ~redisUp]
  OBVIOUS
<1>2. (~redisUp) \in BOOLEAN
  BY DEF BreakerTypeOK
<1>3. e \in [pc : Pcs, err : BOOLEAN] /\ e.pc = "exit"
  BY <1>1, <1>2 DEF Pcs
<1>4. req' = [req EXCEPT ![t] = e]
  BY <1>1 DEF Redis
<1> QED
  BY <1>3, <1>4 DEF BreakerTypeOK, Pcs

\* The request that takes a step, and the others.
LEMMA RequestMoves ==
  ASSUME BreakerTypeOK, NEW t \in Threads, Entry(t) \/ Continue(t)
  PROVE  /\ req' \in [Threads -> [pc : Pcs, err : BOOLEAN]]
         /\ \A u \in Threads \ {t} : req'[u] = req[u]
<1> USE GotoType, IdleType, RedisType DEF Pcs
<1>1. CASE Entry(t)
  BY <1>1 DEF Entry
<1>2. CASE ReadState(t)
  BY <1>2 DEF ReadState
<1>3. CASE ReadTime(t)
  BY <1>3 DEF ReadTime
<1>4. CASE Redis(t)
  BY <1>4
<1>5. CASE Exit(t)
  BY <1>5 DEF Exit
<1>6. CASE StoreState(t)
  BY <1>6 DEF StoreState
<1>7. CASE StoreTime(t)
  BY <1>7 DEF StoreTime
<1>8. CASE OnClosed(t)
  BY <1>8 DEF OnClosed
<1> QED
  BY <1>1, <1>2, <1>3, <1>4, <1>5, <1>6, <1>7, <1>8 DEF Continue

\* The state and the statistics of Sentinel, and Quota's copy.
LEMMA StateMoves ==
  ASSUME BreakerTypeOK, NEW t \in Threads, Entry(t) \/ Continue(t)
  PROVE  /\ redisUp' \in BOOLEAN
         /\ breaker' \in {"closed", "open", "halfopen"}
         /\ state' \in {"closed", "open", "halfopen"}
         /\ retry' \in 0..RetryTicks /\ elapsed' \in 0..FullAfter
         /\ total' \in 0..MinRequests /\ errors' \in 0..Threshold /\ errors' <= total'
<1> USE BreakerAssumption DEF BreakerTypeOK, FullAfter
<1>1. CASE Entry(t)
  BY <1>1 DEF Entry, quota
<1>2. CASE ReadState(t) \/ ReadTime(t) \/ Redis(t)
  BY <1>2 DEF ReadState, ReadTime, Redis, sentinel, quota
<1>3. CASE Exit(t)
  <2>1. /\ total' = LesserOf(MinRequests, total + 1)
        /\ errors' \in {LesserOf(Threshold, errors), LesserOf(Threshold, errors + 1)}
    BY <1>3 DEF Exit
  <2>2. total' \in 0..MinRequests /\ errors' \in 0..Threshold /\ errors' <= total'
    BY <2>1 DEF LesserOf
  <2>3. breaker' \in {"closed", "open", "halfopen"} /\ retry' \in 0..RetryTicks
        /\ UNCHANGED <<redisUp, state, elapsed>>
    BY <1>3 DEF Exit, quota
  <2> QED
    BY <2>2, <2>3
<1>4. CASE StoreState(t)
  BY <1>4 DEF StoreState, sentinel
<1>5. CASE StoreTime(t)
  BY <1>5 DEF StoreTime, sentinel
<1>6. CASE OnClosed(t)
  BY <1>6 DEF OnClosed
<1> QED
  BY <1>1, <1>2, <1>3, <1>4, <1>5, <1>6 DEF Continue

LEMMA BreakerStepType == BreakerTypeOK /\ [BreakerNext]_breakerVars => BreakerTypeOK'
<1> SUFFICES ASSUME BreakerTypeOK, [BreakerNext]_breakerVars
             PROVE  BreakerTypeOK'
  OBVIOUS
<1>1. ASSUME NEW t \in Threads, Entry(t) \/ Continue(t)
      PROVE  BreakerTypeOK'
  BY <1>1, RequestMoves, StateMoves DEF BreakerTypeOK, Pcs
<1>2. CASE Fluctuate
  <2>1. redisUp' \in BOOLEAN
    BY <1>2 DEF Fluctuate, BreakerTypeOK
  <2> QED
    BY <1>2, <2>1 DEF Fluctuate, sentinel, quota, BreakerTypeOK
<1>3. CASE NewWindow
  BY <1>3, BreakerAssumption DEF NewWindow, quota, BreakerTypeOK
<1>4. CASE FiveSeconds
  BY <1>4, BreakerAssumption DEF FiveSeconds, RetryLeft, GreaterOf, LesserOf, FullAfter,
              BreakerTypeOK
<1>5. CASE UNCHANGED breakerVars
  BY <1>5 DEF breakerVars, BreakerTypeOK
<1> QED
  BY <1>1, <1>2, <1>3, <1>4, <1>5 DEF BreakerNext

\* Breaker, statistics and requests keep their types.
THEOREM BreakerTypeCorrect == BreakerSpec => []BreakerTypeOK
<1>1. BreakerInit => BreakerTypeOK
  BY BreakerInitType
<1>2. BreakerTypeOK /\ [BreakerNext]_breakerVars => BreakerTypeOK'
  BY BreakerStepType
<1> QED
  BY <1>1, <1>2, PTL DEF BreakerSpec

\* An opening is announced while the breaker is open, and only an announcement that
\* it has closed makes up for a copy that says open behind a closed breaker.
ShutInv ==
  /\ \A t \in Threads : req[t].pc = "onOpen" => breaker = "open"
  /\ breaker = "closed" /\ state = "open" => \E t \in Threads : req[t].pc = "onClosed"

LEMMA InitShut == BreakerInit => ShutInv
  BY DEF BreakerInit, ShutInv, Idle

LEMMA ExitShut ==
  ASSUME BreakerTypeOK, ShutInv, NEW t \in Threads, Exit(t)
  PROVE  ShutInv'
<1>1. \A u \in Threads \ {t} : req'[u] = req[u]
  BY RequestMoves DEF Continue
<1>2. req[t].pc = "exit" /\ UNCHANGED state
  BY DEF Exit, quota
<1>3. CASE req' = [req EXCEPT ![t] = Idle] /\ UNCHANGED breaker
  <2>1. req'[t].pc = "idle"
    BY <1>3, IdleType
  <2> QED
    BY <1>1, <1>2, <1>3, <2>1 DEF ShutInv
<1>4. CASE breaker = "halfopen" /\ breaker' = "closed" /\ Goto(t, "onClosed")
  <2>1. req'[t].pc = "onClosed"
    BY <1>4, GotoType DEF Pcs
  <2> QED
    BY <1>1, <1>4, <2>1 DEF ShutInv
<1>5. CASE breaker' = "open"
  BY <1>5 DEF ShutInv
<1> QED
  BY <1>3, <1>4, <1>5 DEF Exit

LEMMA StepShut ==
  PromptOpening = TRUE /\ BreakerTypeOK /\ ShutInv /\ [BreakerNext]_breakerVars => ShutInv'
<1> SUFFICES ASSUME PromptOpening = TRUE, BreakerTypeOK, ShutInv, [BreakerNext]_breakerVars
             PROVE  ShutInv'
  OBVIOUS
<1>1. ASSUME NEW t \in Threads, Entry(t) \/ Continue(t)
      PROVE  ShutInv'
  <2>0. \A u \in Threads \ {t} : req'[u] = req[u]
    BY <1>1, RequestMoves
  <2>1. CASE Entry(t)
    <3>1. CASE breaker = "closed" /\ Goto(t, "ratio") /\ UNCHANGED breaker
      <4>1. req'[t].pc = "ratio" /\ UNCHANGED state /\ req[t].pc = "idle"
        BY <2>1, <3>1, GotoType DEF Entry, quota, Pcs
      <4> QED
        BY <2>0, <3>1, <4>1 DEF ShutInv
    <3>2. CASE RetryTimeoutArrived /\ breaker' = "halfopen" /\ Goto(t, "onHalfOpen")
      <4>1. req'[t].pc = "onHalfOpen"
        BY <3>2, GotoType DEF Pcs
      <4>2. \A u \in Threads : req[u].pc # "onOpen"
        BY <3>2 DEF RetryTimeoutArrived
      <4> QED
        BY <2>0, <3>2, <4>1, <4>2 DEF ShutInv
    <3> QED
      BY <2>1, <3>1, <3>2 DEF Entry
  <2>2. CASE ReadState(t) \/ ReadTime(t) \/ Redis(t)
    <3>1. /\ req[t].pc \in {"ratio", "time", "redis"} /\ req'[t].pc \in {"redis", "exit", "time"}
          /\ UNCHANGED <<breaker, state>>
      BY <2>2, GotoType, RedisType
         DEF ReadState, ReadTime, Redis, sentinel, quota, Pcs
    <3> QED
      BY <2>0, <3>1 DEF ShutInv
  <2>3. CASE Exit(t)
    BY <2>3, ExitShut
  <2>4. CASE StoreState(t)
    <3>1. /\ req'[t].pc \in {"timeHalfOpen", "timeOpen"} /\ UNCHANGED breaker
          /\ state' = "halfopen" \/ breaker = "open"
      BY <2>4, GotoType DEF StoreState, sentinel, ShutInv, Pcs
    <3> QED
      BY <2>0, <3>1 DEF ShutInv
  <2>5. CASE StoreTime(t)
    <3>1. /\ req[t].pc \in {"timeHalfOpen", "timeOpen"} /\ req'[t].pc \in {"ratio", "idle"}
          /\ UNCHANGED <<breaker, state>>
      BY <2>5, GotoType, IdleType DEF StoreTime, sentinel, Pcs
    <3> QED
      BY <2>0, <3>1 DEF ShutInv
  <2>6. CASE OnClosed(t)
    <3>1. state' = "closed" /\ UNCHANGED breaker /\ req'[t].pc = "idle"
      BY <2>6, IdleType DEF OnClosed
    <3> QED
      BY <2>0, <3>1 DEF ShutInv
  <2> QED
    BY <1>1, <2>1, <2>2, <2>3, <2>4, <2>5, <2>6 DEF Continue
<1>2. CASE UNCHANGED <<breaker, state, req>>
  BY <1>2 DEF ShutInv
<1> QED
  BY <1>1, <1>2
     DEF BreakerNext, Fluctuate, NewWindow, FiveSeconds, sentinel, quota, breakerVars

\* Quota is not left shut behind a closed breaker, in whatever order the callbacks of
\* any number of requests are executed, if that of an opening does not take as long as
\* the retry timeout.
THEOREM NotShutForGood == PromptOpening => (BreakerSpec => []NeverShutForGood)
<1> SUFFICES ASSUME PromptOpening PROVE BreakerSpec => []NeverShutForGood
  OBVIOUS
<1>1. BreakerTypeOK /\ ShutInv /\ [BreakerNext]_breakerVars => ShutInv'
  BY StepShut, BreakerAssumption
<1>2. ShutInv => NeverShutForGood
  BY DEF ShutInv, NeverShutForGood, InCallback
<1>3. BreakerSpec => []BreakerTypeOK
  BY BreakerTypeCorrect
<1> QED
  BY <1>1, <1>2, <1>3, InitShut, PTL DEF BreakerSpec
=============================================================================
