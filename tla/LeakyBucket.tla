---------------------------- MODULE LeakyBucket ----------------------------
(***************************************************************************)
(* The leaky bucket limiter: one Redis key and the Lua script that drains  *)
(* it and adds a request, with the now_ms of callers whose EVALs are       *)
(* delayed, reordered, repeated or lost on the way (see TokenBucket).      *)
(*                                                                         *)
(* Amounts are integers in units of 1/WindowMs request: a millisecond      *)
(* drains Limit units, a request adds WindowMs units.                      *)
(***************************************************************************)
EXTENDS Arith

CONSTANTS
  Limit, WindowMs, Burst,   \* the rule (config.Rule)
  Grace,      \* 1000 in the code: the least TTL and what is added to it, in ms
  MaxTries,   \* sends of one EVAL: the first and the Redis client's retries
  MaxTime,    \* bound of the model: the clock stops here
  MaxSends    \* bound of the model: requests in all

\* Allow refuses a rule with WindowMs <= 0 or Limit <= 0.
ASSUME RuleAssumption ==
  /\ Limit \in Nat \ {0}
  /\ WindowMs \in Nat \ {0}
  /\ Burst \in Int
  /\ Grace \in Nat \ {0}

ASSUME BoundsAssumption ==
  /\ MaxTries \in Nat \ {0}
  /\ MaxTime \in Nat
  /\ MaxSends \in Nat

VARIABLES
  clock,      \* Redis's clock, in ms
  level,      \* hash field "level" of the key
  last,       \* hash field "last_ts" of the key
  expireAt,   \* the time up to which the key exists (PEXPIRE)
  wire,       \* EVALs sent, or to be sent again, and not executed yet
  sent,       \* requests so far, which numbers them
  granted,    \* executions of the script that granted the request
  late        \* history: by how much executions were behind the bucket's time

vars == <<clock, level, last, expireAt, wire, sent, granted, late>>

MaxQueue == IF Burst <= 0 THEN Limit ELSE Burst

Cost == WindowMs

\* Redis drops a key when its clock has passed the expiry.  The variables level and
\* last keep the fields of the dropped key for the history variable only.
Exists == clock <= expireAt

-----------------------------------------------------------------------------
(* Bodies a bug could have given the definitions below. *)

TtlNotExtended == GreaterOf(Grace, (MaxQueue * WindowMs) \div Limit)

LeakedBelowZero(now) ==
  IF Exists THEN level - Limit * GreaterOf(0, now - last) ELSE 0

GrantedWhenFull(leaked) == leaked <= MaxQueue * Cost

-----------------------------------------------------------------------------
(* Allow. *)

\* The time a full queue takes to drain, and the grace.
TtlMs == GreaterOf(Grace, (MaxQueue * WindowMs) \div Limit) + Grace

Init ==
  /\ clock = 0 /\ level = 0 /\ last = 0 /\ expireAt = -1
  /\ wire = {}
  /\ sent = 0 /\ granted = 0 /\ late = 0

\* A caller reads its clock and sends the script, and sends it again as often as it
\* sees no answer.
Allow ==
  /\ sent < MaxSends
  /\ sent' = sent + 1
  /\ \E n \in 1..MaxTries :
       wire' = wire \cup {[id |-> sent, now |-> clock, copies |-> n]}
  /\ UNCHANGED <<clock, level, last, expireAt, granted, late>>

-----------------------------------------------------------------------------
(* The script (lua.go, ScriptLeaky). *)

\* The level after what has leaked until now_ms = now.
Leaked(now) ==
  IF Exists THEN GreaterOf(0, level - Limit * GreaterOf(0, now - last)) ELSE 0

\* The request is added as long as the queue is not full, also when it then
\* overflows by a fraction.
Granted(leaked) == leaked < MaxQueue * Cost

\* As in TokenBucket.
Lateness(now) ==
  IF Exists \/ level = 0 THEN GreaterOf(0, last - now)
                         ELSE GreaterOf(0, last + TtlMs - now)

\* Redis executes the script.
Eval(m) ==
  LET leaked == Leaked(m.now) IN
  /\ wire' = (wire \ {m}) \cup
             (IF m.copies = 1 THEN {} ELSE {[m EXCEPT !.copies = @ - 1]})
  /\ level' = IF Granted(leaked) THEN leaked + Cost ELSE leaked
  /\ granted' = IF Granted(leaked) THEN granted + 1 ELSE granted
  /\ last' = m.now
  /\ expireAt' = clock + TtlMs
  /\ late' = late + Lateness(m.now)
  /\ UNCHANGED <<clock, sent>>

Tick ==
  /\ clock < MaxTime
  /\ clock' = clock + 1
  /\ UNCHANGED <<level, last, expireAt, wire, sent, granted, late>>

Next == Allow \/ (\E m \in wire : Eval(m)) \/ Tick

Spec == Init /\ [][Next]_vars

-----------------------------------------------------------------------------
(* Properties. *)

\* The level is below one request more than the queue holds.
Full == MaxQueue * Cost + Cost - 1

\* Every variable has the values its field in the code can have.
TypeOK ==
  /\ clock \in Nat
  /\ level \in 0..Full
  /\ last \in Nat /\ expireAt \in Int
  /\ wire \subseteq [id : Nat, now : Nat, copies : 1..MaxTries]
  /\ sent \in Nat /\ granted \in Nat /\ late \in Nat

\* The promise of the TTL: a queue is forgotten only after the time it takes to drain,
\* and the grace.
Forget == (MaxQueue * WindowMs) \div Limit + Grace

\* The key behaves as a bucket whose time never runs backwards, if the time that late
\* executions make it live twice is counted, and that is forgotten only when nobody
\* came for so long.  Seen as what there is room for, it is a token bucket that holds
\* one request, less the least fraction, more than its queue.
Ideal == INSTANCE IdealBucket WITH Capacity <- Full, Rate <- Limit,
                                   tokens <- Full - level, time <- last + late

ImplementsIdeal == Ideal!IdealSpec

\* What is still in an overflowing queue when it is forgotten: the TTL does not count
\* the overflow, and the grace makes up for it only if the rule is fast enough.
Shortfall == GreaterOf(0, Full - Limit * Forget)

\* docs/API.md, choice of an algorithm: a leaky bucket works at a constant rate.
\* What was let in and is not in the queue any more is no more than what leaks at
\* that rate over the time the bucket has lived, late executions counted, and what
\* a slow rule forgets of its queue, once in the life of a key at most.
ConstantRate ==
  LET time == last + late IN
  granted * Cost - level <= Limit * time + Shortfall * (time \div Forget)
=============================================================================
