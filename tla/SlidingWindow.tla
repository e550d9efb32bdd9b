--------------------------- MODULE SlidingWindow ---------------------------
(***************************************************************************)
(* The sliding window limiter: one Redis key, a sorted set whose members   *)
(* and scores are the now_ms of requests, and the Lua script that cleans,  *)
(* fills and counts it.  EVALs are delayed, reordered or repeated on their *)
(* way, for at most MaxDelay.                                              *)
(***************************************************************************)
EXTENDS Integers, FiniteSets

CONSTANTS
  Limit, WindowMs,   \* the rule (config.Rule)
  Grace,      \* 1000 in the code: what is added to the TTL, in ms
  MaxDelay,   \* how long after its now_ms an EVAL is executed, in ms
  MaxTime,    \* bound of the model: the clock stops here
  MaxSends    \* bound of the model: requests in all

\* Allow refuses a rule with WindowMs <= 0 or Limit <= 0.
ASSUME RuleAssumption ==
  /\ Limit \in Nat \ {0}
  /\ WindowMs \in Nat \ {0}
  /\ Grace \in Nat

ASSUME BoundsAssumption ==
  /\ MaxDelay \in Nat
  /\ MaxTime \in Nat
  /\ MaxSends \in Nat

VARIABLES
  clock,      \* Redis's clock, in ms
  members,    \* the sorted set of the key
  expireAt,   \* the time up to which the key exists (PEXPIRE)
  wire,       \* EVALs sent that may still be executed
  sent,       \* requests so far, which numbers them
  admitted,   \* history: the requests that an execution let through
  denied      \* history: the requests that an execution denied

vars == <<clock, members, expireAt, wire, sent, admitted, denied>>

Millis == 0..MaxTime

Init ==
  /\ clock = 0
  /\ members = {} /\ expireAt = -1
  /\ wire = {}
  /\ sent = 0
  /\ admitted = {} /\ denied = {}

-----------------------------------------------------------------------------
(* Bodies a bug could have given the definitions below. *)

RemovesTooMuch(now) == {s \in members : clock <= expireAt /\ s > now - WindowMs + 1}

KeepsTheBoundary(now) == {s \in members : clock <= expireAt /\ s >= now - WindowMs}

RemovesNothing(now) == {s \in members : clock <= expireAt}

-----------------------------------------------------------------------------
(* Allow. *)

\* A caller reads its clock and sends the script.
Allow ==
  /\ sent < MaxSends
  /\ sent' = sent + 1
  /\ wire' = wire \cup {[id |-> sent, now |-> clock]}
  /\ UNCHANGED <<clock, members, expireAt, admitted, denied>>

-----------------------------------------------------------------------------
(* The script (lua.go, ScriptSliding). *)

TtlMs == WindowMs + Grace

\* ZREMRANGEBYSCORE 0 now-window.
Kept(now) == {s \in members : clock <= expireAt /\ s > now - WindowMs}

\* The count is taken after the ZADD, which adds nothing if the millisecond is a
\* member already.
Granted(kept, now) == Cardinality(kept \cup {now}) <= Limit

\* Redis executes the script, denied requests are members like the others; the
\* caller may send the EVAL again.
Eval(m) ==
  LET kept == Kept(m.now) IN
  /\ wire' \in {wire, wire \ {m}}
  /\ members' = kept \cup {m.now}
  /\ expireAt' = clock + TtlMs
  /\ \/ Granted(kept, m.now) /\ admitted' = admitted \cup {m} /\ denied' = denied
     \/ ~Granted(kept, m.now) /\ denied' = denied \cup {m} /\ admitted' = admitted
  /\ UNCHANGED <<clock, sent>>

\* No EVAL is executed later than MaxDelay.
Tick ==
  /\ clock < MaxTime
  /\ clock' = clock + 1
  /\ wire' = {m \in wire : m.now + MaxDelay >= clock'}
  /\ UNCHANGED <<members, expireAt, sent, admitted, denied>>

Next == Allow \/ (\E m \in wire : Eval(m)) \/ Tick

Spec == Init /\ [][Next]_vars

-----------------------------------------------------------------------------
(* Properties. *)

Requests == [id : 0..(MaxSends - 1), now : Millis]

\* Every variable has the values its field in the code can have; the sorted set
\* never spans more than the window and the delay.
TypeOK ==
  /\ clock \in Millis
  /\ members \subseteq Millis
  /\ \A s1, s2 \in members : s1 - s2 < WindowMs + MaxDelay
  /\ expireAt \in Int
  /\ wire \subseteq Requests /\ admitted \subseteq Requests /\ denied \subseteq Requests
  /\ sent \in 0..MaxSends

\* The requests let through whose now_ms is in the len ms after t.
AdmittedIn(t, len) == {m \in admitted : t < m.now /\ m.now <= t + len}

\* A late EVAL finds cleaned what an earlier one, with a later now_ms, cleaned: but
\* that one counts against it.
Guaranteed == IF MaxDelay = 0 THEN WindowMs ELSE WindowMs - (MaxDelay - 1)

\* "Number of requests in the window" (lua.go): a window lets through no more than
\* Limit requests.  It does, when they come in the same millisecond: their members
\* are the same, and ZCARD counts milliseconds.
RequestsBounded == \A t \in -1..MaxTime : Cardinality(AdmittedIn(t, Guaranteed)) <= Limit

\* What is left of it, in milliseconds: in any window, shortened by the delay of
\* EVALs, requests are let through in no more than Limit different ones.  Neither a
\* late nor a repeated execution, nor the expiry of the key, makes the script forget
\* one that it has to count.
MillisecondsBounded ==
  \A t \in -1..MaxTime :
    Cardinality({m.now : m \in AdmittedIn(t, Guaranteed)}) <= Limit

\* The milliseconds that were asked for, granted or not, in the window of m or while
\* m was on its way, but for m's own.
Rivals(m) == {n.now : n \in {n \in admitted \cup denied :
                /\ n.now # m.now
                /\ m.now - WindowMs < n.now /\ n.now <= m.now + MaxDelay}}

\* Denied requests count like the others, so a client that keeps asking may stay
\* denied; but what is denied had Limit rivals in its own window.  One that comes
\* back when fewer ask is let through, however often the EVALs before were repeated.
DeniedByRivals == \A m \in denied : Cardinality(Rivals(m)) >= Limit
=============================================================================
