------------------------------- MODULE Engine ------------------------------
(***************************************************************************)
(* The engine: AllowRules of concurrent requests, each with its list of    *)
(* rules and its dimensions, over limiters that they share.  A limiter is  *)
(* what its callers see of it: it charges a request if it has anything     *)
(* left, and fails with or without having charged it (a lost answer).  The *)
(* IP lists are what CheckIP can return (see IPList).                      *)
(***************************************************************************)
EXTENDS Integers, Sequences, FiniteSets, Arith

CONSTANTS
  Requests,
  Rules,        \* what is used of config.Rule: [id, enabled, algo, dims]
  RuleLists,    \* the lists of rules that requests come with
  Inputs,       \* their dimensions: each maps names to values; a value is the sequence
                \* of what stands between its blanks
  Tokens        \* what each limiter may grant

ASSUME EngineAssumption ==
  /\ \A r \in Rules : r.enabled \in BOOLEAN /\ r.dims \in Seq(STRING)
  /\ RuleLists \subseteq Seq(Rules)
  /\ \A d \in Inputs : \A n \in DOMAIN d : d[n] \in Seq(STRING) \ {<<>>}
  /\ Tokens \in Nat

VARIABLES
  failPolicy,   \* after normalizeFailPolicy; fixed in the configuration
  hasRepo,      \* whether the engine was given a Redis repository; fixed likewise
  left,         \* what each limiter may still grant
  req           \* where each request is

vars == <<failPolicy, hasRepo, left, req>>

config == <<failPolicy, hasRepo>>

-----------------------------------------------------------------------------
(* Bodies a bug could have given the definitions below. *)

AfterDisabledStop(r) == Len(r.rules) + 1

LastRemaining(r, n) == n

DenyUnderFailOpen(r) == [r EXCEPT !.pc = "done", !.resp = "deny", !.reason = "fail_closed"]

RemainingUnset(r) == r.minRemaining

FirstDimension(rule, dims) == IF rule.dims = <<>> THEN <<>> ELSE dims[rule.dims[1]]

GoesOnAfterDenial(r) == [r EXCEPT !.next = @ + 1]

-----------------------------------------------------------------------------
(* The limiter of a rule for given dimensions (util.HashDims, Mux.Allow). *)

Algorithms == {"token_bucket", "sliding_window", "leaky_bucket"}

ValidateDims(rule, dims) == \A n \in DOMAIN rule.dims : rule.dims[n] \in DOMAIN dims

\* The values in the order of the rule, joined by blanks and then hashed: what tells
\* them apart afterwards is the sequence of all their words.  FNV-1a is taken to have
\* no collisions.
HashDims(rule, dims) ==
  LET joined[n \in 0..Len(rule.dims)] ==
        IF n = 0 THEN <<>> ELSE joined[n - 1] \o dims[rule.dims[n]]
  IN  joined[Len(rule.dims)]

\* An empty algorithm is the default, in the engine as in the mux.
NormalizeAlgo(algo) == IF algo = "" THEN "token_bucket" ELSE algo

Key(rule, dims) == <<NormalizeAlgo(rule.algo), rule.id, HashDims(rule, dims)>>

Keys == {Key(p[1], p[2]) : p \in {rd \in Rules \X Inputs : ValidateDims(rd[1], rd[2])}}

\* Whether allowRule gets as far as the limiter.
HasLimiter(rule, dims) ==
  hasRepo /\ ValidateDims(rule, dims) /\ NormalizeAlgo(rule.algo) \in Algorithms

-----------------------------------------------------------------------------

NoMinimum == -1

\* rules, dims, next: the arguments and the index of the rule to evaluate; anyRule,
\* anyError and minRemaining as in the code; resp: the answer, with its reason;
\* history: ip: what the lists said, charged: the rules (indices) that charged the
\* request and reported it, with what they had left, failed: the rules whose limiter
\* failed, refused: those that denied.
Idle == [pc |-> "idle", rules |-> <<>>, dims |-> <<>>, next |-> 1, anyRule |-> FALSE,
         anyError |-> FALSE, minRemaining |-> NoMinimum, resp |-> "none", reason |-> "none",
         remaining |-> 0, ip |-> "none", charged |-> {}, failed |-> {}, refused |-> {}]

Init ==
  /\ failPolicy \in {"fail-open", "fail-closed"}
  /\ hasRepo \in BOOLEAN
  /\ left = [k \in Keys |-> Tokens]
  /\ req = [q \in Requests |-> Idle]

Answer(r, resp, reason) == [r EXCEPT !.pc = "done", !.resp = resp, !.reason = reason]

-----------------------------------------------------------------------------
(* checkIPLists.  CheckIP denies by itself on an error of Redis; only without a  *)
(* repository does it return an error to AllowRules.                             *)

IPAnswers(dims) ==
  CASE "ip" \notin DOMAIN dims            -> {"no_ip"}
    [] "ip" \in DOMAIN dims /\ hasRepo    -> {"unlisted", "denied", "error", "whitelisted"}
    [] "ip" \in DOMAIN dims /\ ~hasRepo   -> {"no_repo"}

AfterIP(r, a) ==
  CASE a \in {"unlisted", "no_ip"}                   -> [r EXCEPT !.pc = "rules"]
    [] a \in {"denied", "error"}                     -> Answer(r, "deny", "iplist")
    [] a = "whitelisted"                             -> Answer(r, "allow", "iplist")
    [] a = "no_repo"                                 ->
         LET e == [r EXCEPT !.anyError = TRUE] IN
         IF failPolicy = "fail-open" THEN [e EXCEPT !.pc = "rules"]
                                     ELSE Answer(e, "deny", "fail_closed")

\* AllowRules up to the loop.
AllowRules(q, rules, dims) ==
  LET r == [Idle EXCEPT !.rules = rules, !.dims = dims] IN
  /\ req[q].pc = "idle"
  /\ \/ rules = <<>> /\ req' = [req EXCEPT ![q] = Answer(r, "allow", "no_rules")]
     \/ /\ rules # <<>>
        /\ \E a \in IPAnswers(dims) :
             req' = [req EXCEPT ![q] = AfterIP([r EXCEPT !.ip = a], a)]
  /\ UNCHANGED <<config, left>>

Begin(q) == \E rules \in RuleLists, dims \in Inputs : AllowRules(q, rules, dims)

-----------------------------------------------------------------------------
(* The loop. *)

Rule(r) == r.rules[r.next]

InLoop(r) == r.pc = "rules" /\ r.next <= Len(r.rules)

AfterDisabled(r) == r.next + 1

SkipDisabled(q) ==
  LET r == req[q] IN
  /\ InLoop(r) /\ ~Rule(r).enabled
  /\ req' = [req EXCEPT ![q] =
               IF Len(r.rules) = 1 THEN Answer(r, "error", "rule_disabled")
                                   ELSE [r EXCEPT !.next = AfterDisabled(r)]]
  /\ UNCHANGED <<config, left>>

\* The request asks the limiter of key k.
Asks(q, k) ==
  LET r == req[q] IN
  /\ InLoop(r) /\ Rule(r).enabled /\ HasLimiter(Rule(r), r.dims)
  /\ k = Key(Rule(r), r.dims)

Charge(k) == left[k] > 0 /\ left' = [left EXCEPT ![k] = @ - 1]

Least(r, n) == IF r.minRemaining = NoMinimum THEN n ELSE LesserOf(r.minRemaining, n)

\* The limiter charges the request and says so.
Granted(q) ==
  LET r == req[q] IN
  \E k \in Keys :
    /\ Asks(q, k) /\ Charge(k)
    /\ req' = [req EXCEPT ![q] =
                 [r EXCEPT !.anyRule = TRUE, !.next = @ + 1,
                           !.minRemaining = Least(r, left'[k]),
                           !.charged = @ \cup {<<r.next, left'[k]>>}]]
    /\ UNCHANGED config

\* A denial ends AllowRules: what was charged so far is not given back.
AfterDenial(r) == Answer(r, "deny", "limited")

\* The limiter denies; RecordDeny, which follows, does not change the answer.
Denied(q) ==
  LET r == req[q] IN
  \E k \in Keys :
    /\ Asks(q, k) /\ left[k] = 0
    /\ req' = [req EXCEPT ![q] =
                 [AfterDenial(r) EXCEPT !.anyRule = TRUE, !.refused = @ \cup {r.next}]]
    /\ UNCHANGED <<config, left>>

\* What AllowRules makes of an error of allowRule.
AfterError(r) == IF failPolicy = "fail-open" THEN [r EXCEPT !.next = @ + 1]
                                             ELSE Answer(r, "deny", "fail_closed")

\* There is no limiter for the rule, or it fails; one that fails may have charged the
\* request.
Fails(q) ==
  LET r == req[q] IN
  /\ InLoop(r) /\ Rule(r).enabled
  /\ \/ UNCHANGED left
     \/ \E k \in Keys : Asks(q, k) /\ Charge(k)
  /\ req' = [req EXCEPT ![q] =
               AfterError([r EXCEPT !.anyRule = TRUE, !.anyError = TRUE,
                                    !.failed = @ \cup {r.next}])]
  /\ UNCHANGED config

\* No rule reported a remaining count if all of them failed.
Remaining(r) == GreaterOf(0, r.minRemaining)

\* The end of AllowRules.
Finish(q) ==
  LET r == req[q] IN
  /\ r.pc = "rules" /\ r.next > Len(r.rules)
  /\ req' = [req EXCEPT ![q] =
       IF ~r.anyRule
       THEN Answer(r, "allow", "no_enabled_rules")
       ELSE [Answer(r, "allow", IF r.anyError /\ failPolicy = "fail-open"
                                THEN "fail_open" ELSE "allowed")
               EXCEPT !.remaining = Remaining(r)]]
  /\ UNCHANGED <<config, left>>

\* Limiters refill.
Refill ==
  /\ \E k \in Keys : left[k] < Tokens /\ left' = [left EXCEPT ![k] = @ + 1]
  /\ UNCHANGED <<config, req>>

\* A request's goroutine goes on to the next one.
Done(q) ==
  /\ req[q].pc = "done"
  /\ req' = [req EXCEPT ![q] = Idle]
  /\ UNCHANGED <<config, left>>

Evaluate(q) == SkipDisabled(q) \/ Granted(q) \/ Denied(q) \/ Fails(q) \/ Finish(q)

Next == (\E q \in Requests : Begin(q) \/ Evaluate(q) \/ Done(q)) \/ Refill

Spec == Init /\ [][Next]_vars

-----------------------------------------------------------------------------
(* Properties. *)

\* Every variable has the values its field in the code can have.
TypeOK ==
  /\ failPolicy \in {"fail-open", "fail-closed"} /\ hasRepo \in BOOLEAN
  /\ left \in [Keys -> 0..Tokens]
  /\ \A q \in Requests :
       /\ req[q].pc \in {"idle", "rules", "done"}
       /\ req[q].rules \in Seq(Rules)
       /\ req[q].next \in 1..(Len(req[q].rules) + 1)
       /\ req[q].resp \in {"none", "allow", "deny", "error"}
       /\ req[q].minRemaining >= NoMinimum /\ req[q].remaining \in Nat

EnabledBefore(r, n) == {m \in 1..(n - 1) : r.rules[m].enabled}

Charged(r) == {p[1] : p \in r.charged}

\* A request that is let through by the rules was charged by every enabled rule of
\* its list; under fail-open a rule whose limiter failed is the only exception, and
\* the answer says fail_open.
AllowedIsPaid ==
  \A q \in Requests :
    LET r == req[q] IN
    r.resp = "allow" /\ r.reason # "iplist"
      => /\ EnabledBefore(r, Len(r.rules) + 1) = Charged(r) \cup r.failed
         /\ r.failed # {} => failPolicy = "fail-open" /\ r.reason = "fail_open"

\* What a request that is denied by a rule costs: the enabled rules before that one,
\* which have charged it, or failed, and nothing from there on.
DeniedCost ==
  \A q \in Requests :
    LET r == req[q] IN
    \A n \in r.refused : EnabledBefore(r, n) = Charged(r) \cup r.failed

\* The remaining count of an allowed request is the least that any rule reported:
\* the strictest rule decides.
StrictestRemaining ==
  \A q \in Requests :
    LET r == req[q] IN
    r.resp = "allow" /\ r.charged # {}
      => /\ \E p \in r.charged : r.remaining = p[2]
         /\ \A p \in r.charged : r.remaining <= p[2]

\* A denial has a cause: a list, a rule without tokens, or an error under
\* fail-closed; never an error of a limiter under fail-open.
DeniedForCause ==
  \A q \in Requests :
    LET r == req[q] IN
    r.resp = "deny" => \/ r.ip \in {"denied", "error"}
                       \/ r.refused # {}
                       \/ failPolicy = "fail-closed" /\ r.anyError

Values(rule, dims) == [n \in DOMAIN rule.dims |-> dims[rule.dims[n]]]

\* Between the two lists of values a blank has moved from one dimension to another, as
\* between "a b", "c" and "a", "b c".
BlankMoved(v1, v2) == \E n \in DOMAIN v1 : Len(v1[n]) # Len(v2[n])

\* Requests that differ in a dimension of a rule do not spend each other's tokens: the
\* limiter that one of them was charged by is not the other's.  The one exception is
\* what HashDims, which joins the values by blanks, cannot tell apart.
OwnLimiter ==
  \A q1, q2 \in Requests : \A n1 \in Charged(req[q1]), n2 \in Charged(req[q2]) :
    LET r1 == req[q1].rules[n1]  v1 == Values(r1, req[q1].dims)
        r2 == req[q2].rules[n2]  v2 == Values(r2, req[q2].dims) IN
    /\ r1.dims = r2.dims
    /\ Key(r1, req[q1].dims) = Key(r2, req[q2].dims)
    => v1 = v2 \/ BlankMoved(v1, v2)
=============================================================================
