---------------------------- MODULE TokenBucket ----------------------------
(***************************************************************************)
(* The token bucket limiter: one Redis key, the Lua script that refills    *)
(* and charges it, and the RLS callers that send the script over a network *)
(* that may delay, reorder or lose what it carries.                        *)
(*                                                                         *)
(* The script trusts the now_ms of its caller, which is read when the      *)
(* request is handled and not when the script runs; the key's time to live *)
(* is counted by Redis.  Amounts are integers in units of 1/WindowMs       *)
(* token, which makes the script's rate of limit / window_ms exact: a      *)
(* millisecond is worth Limit units, a request costs WindowMs units.       *)
(***************************************************************************)
EXTENDS Arith

CONSTANTS
  Limit, WindowMs, Burst,   \* the rule (config.Rule)
  Callers,    \* goroutines of all RLS instances that handle requests
  MaxSkew,    \* how far an instance's clock may be from that of Redis, in ms
  MaxTries,   \* sends of one EVAL: the first and the Redis client's retries
  MaxTime,    \* bound of the model: the clock stops here
  MaxSends    \* bound of the model: EVALs sent in all

\* Allow refuses a rule with WindowMs <= 0 or Limit <= 0.  Burst is not checked
\* by the code; the assumption leaves out the buckets of negative capacity.
ASSUME RuleAssumption ==
  /\ Limit \in Nat \ {0}
  /\ WindowMs \in Nat \ {0}
  /\ Burst \in Int
  /\ Limit + Burst >= 0

ASSUME BoundsAssumption ==
  /\ MaxSkew \in Nat
  /\ MaxTries \in Nat \ {0}
  /\ MaxTime \in Nat
  /\ MaxSends \in Nat

VARIABLES
  clock,      \* Redis's clock, in ms
  tokens,     \* hash field "tokens" of the key
  last,       \* hash field "last_refill" of the key
  expireAt,   \* the time up to which the key exists (PEXPIRE)
  wire,       \* EVALs sent to Redis and not executed yet
  call,       \* what each caller is doing
  sent,       \* EVALs sent so far, which numbers them
  granted,    \* executions of the script that granted the request
  late        \* history: by how much executions were behind the bucket's time

vars == <<clock, tokens, last, expireAt, wire, call, sent, granted, late>>

Capacity == (Limit + Burst) * WindowMs

Cost == WindowMs

\* Redis drops a key when its clock has passed the expiry.  The variables tokens
\* and last keep the fields of the dropped key for the history variable only.
Exists == clock <= expireAt

-----------------------------------------------------------------------------
(* Bodies a bug could have given the definitions below. *)

TtlFactorTooShort == 1

NowMsRounded == {4 * ((clock + 3) \div 4)}

RefilledUnclamped(now) ==
  IF Exists THEN tokens + Limit * GreaterOf(0, now - last) ELSE Capacity

RefilledIntoThePast(now) ==
  IF Exists THEN LesserOf(Capacity, tokens + Limit * (now - last)) ELSE Capacity

ResetDelayTruncatedRate(left) ==
  IF left < Cost THEN (Cost - left) * (WindowMs \div Limit) ELSE 0

-----------------------------------------------------------------------------
(* The script (script.lua). *)

\* Allow gives the key two windows to live after every execution.
TtlFactor == 2

TtlMs == WindowMs * TtlFactor

\* What the bucket holds after the refill of an execution with ARGV now_ms = now.
Refilled(now) ==
  IF Exists THEN LesserOf(Capacity, tokens + Limit * GreaterOf(0, now - last))
            ELSE Capacity

\* The script charges one token if there is one.
Granted(now) == Refilled(now) >= Cost

Left(now) == IF Granted(now) THEN Refilled(now) - Cost ELSE Refilled(now)

\* reset_ms - now_ms.
ResetDelay(left) == IF left < Cost THEN (Cost - left) \div Limit ELSE 0

\* The decision TokenBucket.Allow makes of the script's answer.
Decision(now) == [allowed      |-> Granted(now),
                  remaining    |-> Left(now) \div Cost,
                  retryAfterMs |-> ResetDelay(Left(now))]

\* How far an execution is behind the time the bucket was already refilled up to:
\* the script refills nothing for it and moves last_refill back to its own now_ms.
\* After an expiry the bucket was refilled up to last + TtlMs, unless it was full.
Lateness(now) ==
  IF Exists \/ tokens = Capacity THEN GreaterOf(0, last - now)
                                 ELSE GreaterOf(0, last + TtlMs - now)

-----------------------------------------------------------------------------
(* The callers. *)

NoDecision == [allowed |-> FALSE, remaining |-> 0, retryAfterMs |-> 0]

\* Between requests a caller keeps only the last decision.
Idle(dec) == [st |-> "idle", now |-> 0, tries |-> 0, first |-> 0, dec |-> dec]

\* What time.Now() may read on an RLS instance.
NowMs == (clock - MaxSkew)..(clock + MaxSkew)

Init ==
  /\ clock = 0 /\ tokens = Capacity /\ last = 0 /\ expireAt = -1
  /\ wire = {}
  /\ call = [c \in Callers |-> Idle(NoDecision)]
  /\ sent = 0 /\ granted = 0 /\ late = 0

Send(c, now) ==
  /\ sent < MaxSends
  /\ sent' = sent + 1
  /\ wire' = wire \cup {[id |-> sent, caller |-> c, now |-> now]}

\* Allow: the caller reads its clock and sends the script.
Allow(c) ==
  /\ call[c].st = "idle"
  /\ \E now \in NowMs :
       /\ Send(c, now)
       /\ call' = [call EXCEPT ![c] = [st |-> "waiting", now |-> now, tries |-> 1,
                                       first |-> sent, dec |-> NoDecision]]
  /\ UNCHANGED <<clock, tokens, last, expireAt, granted, late>>

\* The Redis client saw no answer in time and sends the same arguments again; the
\* first copy may still be executed.
Retry(c) ==
  /\ call[c].st = "waiting" /\ call[c].tries < MaxTries
  /\ Send(c, call[c].now)
  /\ call' = [call EXCEPT ![c].tries = @ + 1]
  /\ UNCHANGED <<clock, tokens, last, expireAt, granted, late>>

\* The caller's Eval fails (timeout, no connection): Allow returns an error.
GiveUp(c) ==
  /\ call[c].st = "waiting"
  /\ call' = [call EXCEPT ![c] = Idle(NoDecision)]
  /\ UNCHANGED <<clock, tokens, last, expireAt, wire, sent, granted, late>>

\* Redis executes the script.  The answer reaches the caller if it still waits in
\* the call that sent this EVAL, and may be lost.
Eval(m) ==
  /\ wire' = wire \ {m}
  /\ tokens' = Left(m.now)
  /\ last' = m.now
  /\ expireAt' = clock + TtlMs
  /\ granted' = IF Granted(m.now) THEN granted + 1 ELSE granted
  /\ late' = late + Lateness(m.now)
  /\ \/ UNCHANGED call
     \/ /\ call[m.caller].st = "waiting" /\ m.id >= call[m.caller].first
        /\ call' = [call EXCEPT ![m.caller] = Idle(Decision(m.now))]
  /\ UNCHANGED <<clock, sent>>

Tick ==
  /\ clock < MaxTime
  /\ clock' = clock + 1
  /\ UNCHANGED <<tokens, last, expireAt, wire, call, sent, granted, late>>

Next ==
  \/ \E c \in Callers : Allow(c) \/ Retry(c) \/ GiveUp(c)
  \/ \E m \in wire : Eval(m)
  \/ Tick

Spec == Init /\ [][Next]_vars

-----------------------------------------------------------------------------
(* Properties. *)

\* Every variable has the values its field in the code can have.
TypeOK ==
  /\ clock \in Nat
  /\ tokens \in 0..Capacity
  /\ last \in Int /\ expireAt \in Int
  /\ wire \subseteq [id : Nat, caller : Callers, now : Int]
  /\ call \in [Callers -> [st : {"idle", "waiting"}, now : Int, tries : Nat, first : Nat,
                           dec : [allowed : BOOLEAN, remaining : Nat,
                                  retryAfterMs : Nat]]]
  /\ sent \in Nat /\ granted \in Nat /\ late \in Nat

\* The promise of the TTL: a bucket is forgotten only after two windows.
Forget == 2 * WindowMs

\* The key behaves as a token bucket whose time never runs backwards, if the time
\* that late executions make it live twice is counted: every EVAL, retried or late
\* or first after an expiry, is one step of it, and it is forgotten only after two
\* windows without a request.  This is what script.lua and the TTL of
\* TokenBucket.Allow have to achieve together.
Ideal == INSTANCE IdealBucket WITH Rate <- Limit, time <- last + late

ImplementsIdeal == Ideal!IdealSpec

\* What an empty bucket still lacks when it is forgotten: nothing if Burst <= Limit.
Shortfall == GreaterOf(0, Burst - Limit) * WindowMs

\* The grants of any number of callers, retries included, never exceed the full
\* bucket plus what Limit per window yields over the time the bucket has lived: the
\* time of its last execution plus the lateness of the late ones.  A burst above the
\* limit adds its shortfall, once in two windows at most: a key that expires before
\* its bucket is full gives away no more than that.
AdmissionBound ==
  LET time == last + late IN
  granted * Cost + tokens <= Capacity + Limit * time + Shortfall * (time \div Forget)

\* An execution adds to the lateness no more than its own delay between reading
\* the clock and running the script, plus the clocks' disagreement: executed in
\* order and at once, requests are charged exactly.
LatenessIsDelay ==
  [][late' # late => \E m \in wire \ wire' :
                        late' - late <= (clock - m.now) + MaxSkew]_vars

\* The retryAfterMs of a denial (script.lua's reset_ms) is the exact waiting time
\* rounded down: one millisecond later a token is there if nobody else took it,
\* and never much earlier.
RetryHintTight ==
  [][\A c \in Callers :
       LET d == call'[c].dec IN
       (call[c].st = "waiting" /\ wire' # wire /\ call'[c].st = "idle" /\ ~d.allowed)
         => /\ tokens' + Limit * (d.retryAfterMs + 1) >= Cost
            /\ tokens' + Limit * d.retryAfterMs <= Cost]_vars
=============================================================================
