--------------------------- MODULE QuotaCounters ---------------------------
(***************************************************************************)
(* The hour and day counters of Quota: one rule and one dimension key, the *)
(* Lua script of quota.go, and the hint of a denied request.  The names of *)
(* the keys are made from the caller's local time, their expiry runs by    *)
(* the clock of Redis.  EVALs are delayed, reordered and repeated.         *)
(***************************************************************************)
EXTENDS Integers

CONSTANTS
  PerHour, PerDay,   \* the rule's quota (config.QuotaCfg); 0: not limited
  HourLen, DayLen,   \* ticks in an hour and in a day
  HourGrace,         \* 600 s in the code: what the hour key outlives its hour by
  DayGrace,          \* 3600 s in the code, for the day key
  Offset,            \* the time zone of the callers: local time - UTC
  MaxSkew,           \* how far a caller's clock may be ahead of Redis's
  MaxDelay,          \* how long after its now an EVAL is executed
  MaxTime,           \* bound of the model: the clock stops here
  MaxSends           \* bound of the model: requests in all

ASSUME QuotaAssumption ==
  /\ PerHour \in Nat /\ PerDay \in Nat
  /\ HourLen \in Nat \ {0} /\ DayLen \in Nat \ {0}
  /\ HourGrace \in Nat /\ DayGrace \in Nat
  /\ Offset \in Int

ASSUME BoundsAssumption ==
  /\ MaxSkew \in Nat /\ MaxDelay \in Nat
  /\ MaxTime \in Nat /\ MaxSends \in Nat

VARIABLES
  clock,      \* Redis's clock
  counter,    \* the keys: INCRed to n, there until expireAt
  wire,       \* EVALs sent that may still be executed
  sent,       \* requests so far, which numbers them
  granted,    \* history: for each key, the executions that let a request through
  denied      \* history: the denials, with the time each hint led to

vars == <<clock, counter, wire, sent, granted, denied>>

Times == 0..(MaxTime + MaxSkew)

Scopes == {"hour", "day"}

Length(scope) == IF scope = "hour" THEN HourLen ELSE DayLen
Limit(scope)  == IF scope = "hour" THEN PerHour ELSE PerDay

-----------------------------------------------------------------------------
(* Bodies a bug could have given the definitions below. *)

TtlOfOnePeriod(scope) == Length(scope)

TtlInMilliseconds(scope) == 1000 * Length(scope)

ExceedsAtOne(scope, n) == Limit(scope) > 0 /\ n + 2 > Limit(scope)

HintFromUtc(scope, now) == Length(scope) - (now % Length(scope))

-----------------------------------------------------------------------------
(* runLua: the keys and their TTLs. *)

\* now.Format: the hour, or the day, of the caller's local time.
Period(scope, now) == (now + Offset) \div Length(scope)

KeyOf(scope, now) == <<scope, Period(scope, now)>>

Keys == {KeyOf(s, t) : s \in Scopes, t \in Times}

Ttl(scope) == Length(scope) + (IF scope = "hour" THEN HourGrace ELSE DayGrace)

NoKey == [n |-> 0, expireAt |-> 0]

Init ==
  /\ clock = 0
  /\ counter = [k \in Keys |-> NoKey]
  /\ wire = {} /\ sent = 0
  /\ granted = [k \in Keys |-> 0]
  /\ denied = {}

\* CheckAndIncr with a healthy breaker: the caller reads its clock and sends.
CheckAndIncr ==
  /\ sent < MaxSends
  /\ sent' = sent + 1
  /\ \E s \in 0..MaxSkew : wire' = wire \cup {[id |-> sent, now |-> clock + s]}
  /\ UNCHANGED <<clock, counter, granted, denied>>

-----------------------------------------------------------------------------
(* quotaScript. *)

\* GET of a key that has expired finds nothing.
Current(k) == IF clock < counter[k].expireAt THEN counter[k].n ELSE 0

Exceeds(scope, n) == Limit(scope) > 0 /\ n + 1 > Limit(scope)

\* INCR, and EXPIRE of a key that was not there.
Incremented(k) ==
  [n |-> Current(k) + 1,
   expireAt |-> IF Current(k) = 0 THEN clock + Ttl(k[1]) ELSE counter[k].expireAt]

\* calcRetryAfter: the hour ends where now.Truncate(time.Hour) says, which knows no
\* time zone; the day ends at local midnight.
RetryAfter(scope, now) ==
  IF scope = "hour" THEN HourLen - (now % HourLen)
                    ELSE DayLen - ((now + Offset) % DayLen)

\* parseDecision of a denial.
Deny(scope, now) ==
  /\ denied' = denied \cup
                 {[scope |-> scope, now |-> now, until |-> now + RetryAfter(scope, now)]}
  /\ UNCHANGED <<counter, granted>>

Grant(now) ==
  LET ks == {KeyOf(s, now) : s \in Scopes} IN
  /\ counter' = [k \in Keys |-> IF k \in ks THEN Incremented(k) ELSE counter[k]]
  /\ granted' = [k \in Keys |-> IF k \in ks THEN granted[k] + 1 ELSE granted[k]]
  /\ UNCHANGED denied

\* Redis executes the script; the client may have sent the EVAL again.
Eval(m) ==
  LET full == {s \in Scopes : Exceeds(s, Current(KeyOf(s, m.now)))} IN
  /\ wire' \in {wire, wire \ {m}}
  /\ \/ "hour" \in full /\ Deny("hour", m.now)
     \/ full = {"day"} /\ Deny("day", m.now)
     \/ full = {} /\ Grant(m.now)
  /\ UNCHANGED <<clock, sent>>

\* No EVAL is executed later than MaxDelay.
Tick ==
  /\ clock < MaxTime
  /\ clock' = clock + 1
  /\ wire' = {m \in wire : m.now + MaxDelay >= clock'}
  /\ UNCHANGED <<counter, sent, granted, denied>>

Next == CheckAndIncr \/ (\E m \in wire : Eval(m)) \/ Tick

Spec == Init /\ [][Next]_vars

-----------------------------------------------------------------------------
(* Properties.  They need MaxSkew + MaxDelay <= the grace of the TTLs: the code *)
(* leaves ten minutes and an hour for what takes at most some seconds.          *)

\* Every variable has the values its field in the code can have.
TypeOK ==
  /\ clock \in 0..MaxTime /\ sent \in 0..MaxSends
  /\ counter \in [Keys -> [n : Nat, expireAt : 0..(MaxTime + DayLen + HourLen + HourGrace
                                                                     + DayGrace)]]
  /\ wire \subseteq [id : 0..(MaxSends - 1), now : Times]
  /\ granted \in [Keys -> Nat]
  /\ denied \subseteq [scope : Scopes, now : Times, until : Nat]

\* No hour and no day grants more than its quota: neither an EVAL that arrives after
\* its hour has ended, nor one sent ahead of time, nor a repeated one finds a
\* counter that has expired or that was not created yet.
QuotaBound == \A k \in Keys : Limit(k[1]) > 0 => granted[k] <= Limit(k[1])

\* A request is denied only when the quota of its own hour, or day, has been used up
\* by requests that were let through: denied ones are not counted.
DeniedWhenUsedUp ==
  \A d \in denied : granted[KeyOf(d.scope, d.now)] >= Limit(d.scope)

\* What the time zone has beyond whole hours: half an hour in India.
ZoneFraction(scope) == IF scope = "hour" THEN Offset % HourLen ELSE 0

\* A client that comes when it is told to finds the next hour's, or day's, counter;
\* one that comes earlier finds the one that is used up.  The hours of a zone with a
\* fraction are the exception, and by no more than the fraction: the hint is late by
\* it, or early by the rest of the hour (now.Truncate cuts hours of UTC).
HintExact ==
  \A d \in denied :
    LET end   == (Period(d.scope, d.now) + 1) * Length(d.scope) - Offset
        error == ZoneFraction(d.scope) IN
    /\ d.now < d.until
    /\ d.until - end \in {error, error - Length(d.scope)}
=============================================================================
