---------------------------- MODULE EngineProofs ----------------------------
(* Theorems about the engine under the HTTP server (Api), for any rules,     *)
(* requests, dimensions and limiters.                                        *)
EXTENDS Api, SequenceTheorems, WellFoundedInduction, TLAPS

-----------------------------------------------------------------------------
(* One request. *)

Reasons == {"none", "no_rules", "iplist", "fail_closed", "rule_disabled", "limited",
            "no_enabled_rules", "fail_open", "allowed"}

IPAnswerSet == {"unlisted", "denied", "error", "whitelisted", "no_ip", "no_repo"}

\* Indices of rules with what the rule reported.
Reports == Nat \X Nat

RequestSet ==
  [pc : {"idle", "rules", "done"}, rules : Seq(Rules), dims : Inputs \cup {<<>>},
   next : Nat \ {0}, anyRule : BOOLEAN, anyError : BOOLEAN,
   minRemaining : Nat \cup {NoMinimum}, resp : {"none", "allow", "deny", "error"},
   reason : Reasons, remaining : Nat, ip : IPAnswerSet \cup {"none"}, charged : SUBSET Reports,
   failed : SUBSET Nat, refused : SUBSET Nat]

\* The enabled rules up to the next one are those that charged the request or failed.
Accounted(r, n) == EnabledBefore(r, n) = Charged(r) \cup r.failed

LeastReported(r, n) ==
  /\ \E p \in r.charged : n = p[2]
  /\ \A p \in r.charged : n <= p[2]

\* The loop's invariant.
Looping(r) ==
  /\ r.resp = "none" /\ r.refused = {}
  /\ Accounted(r, r.next)
  /\ r.failed # {} => failPolicy = "fail-open" /\ r.anyError
  /\ ~r.anyRule => r.charged = {} /\ r.failed = {}
  /\ r.charged = {} => r.minRemaining = NoMinimum
  /\ r.charged # {} => LeastReported(r, r.minRemaining)

\* What an answer is worth.
PaidFor(r) ==
  r.resp = "allow" /\ r.reason # "iplist"
    => /\ Accounted(r, Len(r.rules) + 1)
       /\ r.failed # {} => failPolicy = "fail-open" /\ r.reason = "fail_open"

HasCause(r) ==
  r.resp = "deny" => \/ r.ip \in {"denied", "error"}
                     \/ r.refused # {}
                     \/ failPolicy = "fail-closed" /\ r.anyError

Answered(r) ==
  /\ r.resp # "none"
  /\ PaidFor(r)
  /\ \A n \in r.refused : Accounted(r, n)
  /\ r.resp = "allow" /\ r.charged # {} => LeastReported(r, r.remaining)
  /\ HasCause(r)

Sound(r) ==
  /\ r \in RequestSet
  /\ r.next <= Len(r.rules) + 1
  /\ r.pc = "idle" => r = Idle
  /\ r.pc = "rules" => Looping(r)
  /\ r.pc = "done" => Answered(r)

\* What is more for a request by HTTP: its only rule was enabled when it was read.
HttpSound(r) ==
  /\ r.pc = "rules" => Len(r.rules) = 1 /\ r.rules[1].enabled
  /\ r.pc = "done" => r.resp # "error"

ApiInv ==
  /\ failPolicy \in {"fail-open", "fail-closed"} /\ hasRepo \in BOOLEAN
  /\ left \in [Keys -> 0..Tokens]
  /\ req \in [Requests -> RequestSet]
  /\ \A q \in Requests : Sound(req[q])
  /\ \A q \in HttpRequests : HttpSound(req[q])
  /\ \A i \in DOMAIN snapshot : snapshot[i] \in Rules

-----------------------------------------------------------------------------
(* The record updates. *)

LEMMA IdleSound == Sound(Idle) /\ Idle \in RequestSet /\ Idle.pc = "idle"
<1>1. <<>> \in Seq(Rules) /\ Len(<<>>) = 0
  OBVIOUS
<1>2. Idle \in RequestSet
  BY <1>1 DEF Idle, RequestSet, NoMinimum, Reasons
<1>3. Idle.pc = "idle" /\ Idle.next = 1 /\ Idle.rules = <<>>
  BY DEF Idle
<1> QED
  BY <1>1, <1>2, <1>3 DEF Sound

LEMMA AnswerFields ==
  ASSUME NEW r \in RequestSet, NEW resp \in {"allow", "deny", "error"},
         NEW reason \in Reasons
  PROVE  LET a == Answer(r, resp, reason) IN
         /\ a \in RequestSet
         /\ a.pc = "done" /\ a.resp = resp /\ a.reason = reason
         /\ a.rules = r.rules /\ a.next = r.next /\ a.anyError = r.anyError
         /\ a.anyRule = r.anyRule /\ a.remaining = r.remaining /\ a.ip = r.ip
         /\ a.minRemaining = r.minRemaining
         /\ a.charged = r.charged /\ a.failed = r.failed /\ a.refused = r.refused
  BY DEF Answer, RequestSet

\* One more rule has been looked at.
LEMMA EnabledStep ==
  ASSUME NEW r \in RequestSet, r.next <= Len(r.rules)
  PROVE  /\ r.rules[r.next] \in Rules /\ r.rules[r.next].enabled \in BOOLEAN
         /\ EnabledBefore(r, r.next + 1) =
              EnabledBefore(r, r.next) \cup (IF r.rules[r.next].enabled THEN {r.next} ELSE {})
<1>1. r.next \in 1..Len(r.rules) /\ r.rules \in Seq(Rules)
  BY DEF RequestSet
<1>2. r.rules[r.next] \in Rules
  BY <1>1
<1>3. 1..((r.next + 1) - 1) = (1..(r.next - 1)) \cup {r.next}
  BY <1>1
<1> QED
  BY <1>2, <1>3, EngineAssumption DEF EnabledBefore

-----------------------------------------------------------------------------
(* What each step makes of a request. *)

\* Nothing has charged the request yet, or denied it.
Fresh(r) ==
  /\ r \in RequestSet /\ r.next = 1 /\ r.resp = "none"
  /\ r.charged = {} /\ r.failed = {} /\ r.refused = {} /\ r.minRemaining = NoMinimum

Begun(rules, dims) == [Idle EXCEPT !.rules = rules, !.dims = dims]

LEMMA BegunFields ==
  ASSUME NEW rules \in Seq(Rules), NEW dims \in Inputs
  PROVE  Fresh(Begun(rules, dims)) /\ Begun(rules, dims).rules = rules
<1>1. Begun(rules, dims) \in RequestSet
  BY IdleSound DEF Begun, RequestSet
<1>2. /\ Idle.next = 1 /\ Idle.resp = "none" /\ Idle.charged = {} /\ Idle.failed = {}
      /\ Idle.refused = {} /\ Idle.minRemaining = NoMinimum
  BY DEF Idle
<1> QED
  BY <1>1, <1>2, IdleSound DEF Begun, Fresh, RequestSet

LEMMA NotedFields ==
  ASSUME NEW r, Fresh(r), NEW a \in IPAnswerSet
  PROVE  /\ Fresh([r EXCEPT !.ip = a])
         /\ [r EXCEPT !.ip = a].rules = r.rules /\ [r EXCEPT !.ip = a].ip = a
         /\ Fresh([r EXCEPT !.anyError = TRUE])
         /\ [r EXCEPT !.anyError = TRUE].rules = r.rules
         /\ [r EXCEPT !.anyError = TRUE].ip = r.ip
         /\ [r EXCEPT !.anyError = TRUE].anyError
         /\ Fresh([r EXCEPT !.pc = "rules"])
         /\ [r EXCEPT !.pc = "rules"].rules = r.rules
         /\ [r EXCEPT !.pc = "rules"].pc = "rules"
  BY DEF Fresh, RequestSet

LEMMA FreshAccounted == ASSUME NEW r, Fresh(r) PROVE Accounted(r, 1)
<1>1. 1..(1 - 1) = {}
  OBVIOUS
<1>2. EnabledBefore(r, 1) = {} /\ Charged(r) = {}
  BY <1>1 DEF EnabledBefore, Charged, Fresh
<1> QED
  BY <1>2 DEF Accounted, Fresh

\* Such a request may go into the loop, or be answered for a reason that is not a rule.
LEMMA FreshLooping ==
  ASSUME NEW r, Fresh(r), r.pc = "rules"
  PROVE  Sound(r)
<1>1. r.rules \in Seq(Rules) /\ r.next <= Len(r.rules) + 1
  BY DEF Fresh, RequestSet
<1> QED
  BY <1>1, FreshAccounted DEF Sound, Looping, Fresh

LEMMA FreshAnswered ==
  ASSUME NEW r, Fresh(r), NEW resp \in {"allow", "deny"}, NEW reason \in Reasons,
         resp = "allow" => reason = "iplist" \/ r.rules = <<>>,
         resp = "deny" => \/ r.ip \in {"denied", "error"}
                          \/ failPolicy = "fail-closed" /\ r.anyError
  PROVE  Sound(Answer(r, resp, reason))
<1> DEFINE x == Answer(r, resp, reason)
<1>1. /\ x \in RequestSet /\ x.rules = r.rules /\ x.next = 1 /\ x.resp = resp
      /\ x.pc = "done" /\ x.reason = reason /\ x.ip = r.ip /\ x.anyError = r.anyError
      /\ x.charged = {} /\ x.failed = {} /\ x.refused = {}
  BY AnswerFields DEF Fresh
<1> HIDE DEF x
<1>2. x.rules \in Seq(Rules) /\ x.next <= Len(x.rules) + 1
  BY <1>1 DEF RequestSet
<1>3. PaidFor(x)
  <2>1. CASE r.rules = <<>>
    <3>1. Len(x.rules) + 1 = 1
      BY <1>1, <2>1
    <3>2. EnabledBefore(x, 1) = EnabledBefore(r, 1) /\ Charged(x) = Charged(r)
          /\ x.failed = r.failed
      BY <1>1 DEF EnabledBefore, Charged, Fresh
    <3> QED
      BY <1>1, <3>1, <3>2, FreshAccounted DEF PaidFor, Accounted
  <2>2. CASE r.rules # <<>>
    BY <1>1, <2>2 DEF PaidFor
  <2> QED
    BY <2>1, <2>2
<1>4. Sound(x)
  BY <1>1, <1>2, <1>3 DEF Sound, Answered, HasCause
<1> QED
  BY <1>4 DEF x

\* What AllowRules makes of the answer of the IP lists.
LEMMA AfterIPSound ==
  ASSUME NEW r, Fresh(r), NEW dims, NEW a \in IPAnswers(dims), r.ip = a,
         failPolicy \in {"fail-open", "fail-closed"}
  PROVE  /\ Sound(AfterIP(r, a)) /\ AfterIP(r, a).rules = r.rules
         /\ AfterIP(r, a).pc # "idle" /\ AfterIP(r, a).resp # "error"
<1> DEFINE x == AfterIP(r, a)
<1> DEFINE e == [r EXCEPT !.anyError = TRUE]
<1>1. a \in IPAnswerSet
  BY DEF IPAnswers, IPAnswerSet
<1>2. Fresh(e) /\ e.rules = r.rules /\ e.ip = a /\ e.anyError
  BY <1>1, NotedFields
<1> HIDE DEF e
<1>3. ASSUME NEW b \in {r, e}, x = [b EXCEPT !.pc = "rules"]
      PROVE  Sound(x) /\ x.rules = r.rules /\ x.pc # "idle" /\ x.resp # "error"
  <2>1. Fresh(b) /\ b.rules = r.rules
    BY <1>2, <1>3
  <2>2. PICK y : y = [b EXCEPT !.pc = "rules"]
    OBVIOUS
  <2>3. Fresh(y) /\ y.rules = b.rules /\ y.pc = "rules"
    BY ONLY <1>1, <2>1, <2>2, NotedFields
  <2>4. Fresh(x) /\ x.rules = r.rules /\ x.pc = "rules"
    BY ONLY <1>3, <2>1, <2>2, <2>3
  <2> QED
    BY <2>4, FreshLooping DEF Fresh
<1>4. ASSUME NEW b \in {r, e}, NEW resp \in {"allow", "deny"}, NEW reason \in Reasons,
             x = Answer(b, resp, reason),
             resp = "allow" => reason = "iplist",
             resp = "deny" => \/ a \in {"denied", "error"}
                              \/ failPolicy = "fail-closed" /\ b.anyError
      PROVE  Sound(x) /\ x.rules = r.rules /\ x.pc # "idle" /\ x.resp # "error"
  <2>1. Fresh(b) /\ b.rules = r.rules /\ b.ip = a
    BY <1>2, <1>4
  <2>2. Sound(x)
    BY <1>4, <2>1, FreshAnswered
  <2>3. x.rules = r.rules /\ x.pc = "done" /\ x.resp = resp
    BY <1>4, <2>1, AnswerFields DEF Fresh
  <2> QED
    BY <1>4, <2>2, <2>3
<1>5. CASE a \in {"unlisted", "no_ip"}
  <2>1. x = [r EXCEPT !.pc = "rules"]
    BY <1>5 DEF AfterIP
  <2> QED
    BY <1>3, <2>1
<1>6. CASE a \in {"denied", "error"}
  <2>1. x = Answer(r, "deny", "iplist")
    BY <1>6 DEF AfterIP
  <2>2. "iplist" \in Reasons /\ "deny" # "allow"
    BY DEF Reasons
  <2> QED
    BY <1>4, <1>6, <2>1, <2>2
<1>7. CASE a = "whitelisted"
  <2>1. x = Answer(r, "allow", "iplist")
    BY <1>7 DEF AfterIP
  <2> QED
    BY <1>4, <2>1 DEF Reasons
<1>8. CASE a = "no_repo"
  <2>1. x = IF failPolicy = "fail-open" THEN [e EXCEPT !.pc = "rules"]
                                        ELSE Answer(e, "deny", "fail_closed")
    BY <1>8 DEF AfterIP, e
  <2>2. CASE failPolicy = "fail-open"
    BY <1>3, <2>1, <2>2
  <2>3. CASE failPolicy = "fail-closed"
    BY <1>2, <1>4, <2>1, <2>3 DEF Reasons
  <2> QED
    BY <2>2, <2>3
<1> QED
  BY <1>1, <1>5, <1>6, <1>7, <1>8 DEF IPAnswerSet

-----------------------------------------------------------------------------
(* The loop. *)

LEMMA SkippedSound ==
  ASSUME NEW r, Sound(r), InLoop(r), ~Rule(r).enabled
  PROVE  /\ Sound(Answer(r, "error", "rule_disabled"))
         /\ Sound([r EXCEPT !.next = AfterDisabled(r)])
         /\ [r EXCEPT !.next = AfterDisabled(r)].pc = "rules"
         /\ [r EXCEPT !.next = AfterDisabled(r)].rules = r.rules
<1>1. r \in RequestSet /\ Looping(r) /\ r.next \in Nat /\ r.next <= Len(r.rules)
      /\ r.rules \in Seq(Rules) /\ r.pc = "rules"
  BY DEF Sound, InLoop, RequestSet
<1>2. ASSUME NEW x, x = Answer(r, "error", "rule_disabled")
      PROVE  Sound(x)
  <2>1. /\ x \in RequestSet /\ x.pc = "done" /\ x.resp = "error"
        /\ x.rules = r.rules /\ x.next = r.next /\ x.refused = r.refused
    BY <1>1, <1>2, AnswerFields DEF Reasons
  <2> QED
    BY <1>1, <2>1 DEF Sound, Answered, PaidFor, HasCause, Looping
<1>3. ASSUME NEW x, x = [r EXCEPT !.next = AfterDisabled(r)]
      PROVE  Sound(x) /\ x.pc = "rules" /\ x.rules = r.rules
  <2>1. /\ x \in RequestSet /\ x.pc = "rules" /\ x.next = r.next + 1
        /\ x.rules = r.rules /\ x.resp = r.resp /\ x.refused = r.refused
        /\ x.charged = r.charged /\ x.failed = r.failed /\ x.anyRule = r.anyRule
        /\ x.anyError = r.anyError /\ x.minRemaining = r.minRemaining
    BY <1>1, <1>3 DEF RequestSet, AfterDisabled
  <2>2. EnabledBefore(x, x.next) = EnabledBefore(r, r.next)
    <3>1. EnabledBefore(x, x.next) = EnabledBefore(r, r.next + 1)
      BY <2>1 DEF EnabledBefore
    <3> QED
      BY <1>1, <3>1, EnabledStep DEF Rule
  <2>3. Accounted(x, x.next)
    BY <1>1, <2>1, <2>2 DEF Accounted, Looping, Charged
  <2> QED
    BY <1>1, <2>1, <2>3 DEF Sound, Looping, LeastReported
<1> QED
  BY <1>2, <1>3

LEMMA ChargedSound ==
  ASSUME NEW r, Sound(r), InLoop(r), Rule(r).enabled, NEW n \in Nat
  PROVE  LET x == [r EXCEPT !.anyRule = TRUE, !.next = @ + 1,
                            !.minRemaining = Least(r, n),
                            !.charged = @ \cup {<<r.next, n>>}] IN
         Sound(x) /\ x.pc = "rules" /\ x.rules = r.rules
<1>1. r \in RequestSet /\ Looping(r) /\ r.next \in Nat /\ r.next <= Len(r.rules)
      /\ r.rules \in Seq(Rules) /\ r.pc = "rules"
  BY DEF Sound, InLoop, RequestSet
<1>2. /\ \A p \in r.charged : p[2] \in Nat
      /\ r.minRemaining \in Nat \cup {NoMinimum} /\ NoMinimum \notin Nat
  BY <1>1 DEF RequestSet, Reports, NoMinimum
<1>3. Least(r, n) \in Nat
  BY <1>2 DEF Least, LesserOf
<1>4. SUFFICES ASSUME NEW x, x = [r EXCEPT !.anyRule = TRUE, !.next = @ + 1,
                                           !.minRemaining = Least(r, n),
                                           !.charged = @ \cup {<<r.next, n>>}]
               PROVE  Sound(x) /\ x.pc = "rules" /\ x.rules = r.rules
  OBVIOUS
<1>5. /\ x \in RequestSet /\ x.pc = "rules" /\ x.next = r.next + 1
      /\ x.rules = r.rules /\ x.resp = r.resp /\ x.refused = r.refused
      /\ x.charged = r.charged \cup {<<r.next, n>>} /\ x.failed = r.failed
      /\ x.anyRule /\ x.anyError = r.anyError /\ x.minRemaining = Least(r, n)
  <2>1. r.charged \cup {<<r.next, n>>} \in SUBSET Reports
    BY <1>1 DEF RequestSet, Reports
  <2>2. PICK l \in Nat, C \in SUBSET Reports :
          l = Least(r, n) /\ C = r.charged \cup {<<r.next, n>>}
    BY <1>3, <2>1
  <2>3. x = [r EXCEPT !.anyRule = TRUE, !.next = @ + 1, !.minRemaining = l, !.charged = C]
    BY <1>4, <2>2
  <2>4. /\ x \in RequestSet /\ x.pc = "rules" /\ x.next = r.next + 1
        /\ x.rules = r.rules /\ x.resp = r.resp /\ x.refused = r.refused
        /\ x.charged = C /\ x.failed = r.failed
        /\ x.anyRule /\ x.anyError = r.anyError /\ x.minRemaining = l
    <3>1. PICK i \in Nat \ {0} : i = r.next + 1
      BY <1>1
    <3>2. x = [r EXCEPT !.anyRule = TRUE, !.next = i, !.minRemaining = l, !.charged = C]
      BY <1>1, <2>3, <3>1 DEF RequestSet
    <3>3. PICK m \in Nat \cup {NoMinimum} : m = l
      OBVIOUS
    <3> QED
      BY <1>1, <3>1, <3>2, <3>3 DEF RequestSet
  <2> QED
    BY <2>2, <2>4
<1>6. Accounted(x, x.next)
  <2>1. EnabledBefore(x, x.next) = EnabledBefore(r, r.next + 1)
    BY <1>5 DEF EnabledBefore
  <2>2. EnabledBefore(r, r.next + 1) = EnabledBefore(r, r.next) \cup {r.next}
    BY <1>1, EnabledStep DEF Rule
  <2>3. Charged(x) = Charged(r) \cup {r.next}
    <3>1. <<r.next, n>>[1] = r.next
      OBVIOUS
    <3> QED
      BY <1>5, <3>1, Zenon DEF Charged
  <2> QED
    BY <1>1, <1>5, <2>1, <2>2, <2>3 DEF Accounted, Looping
<1>7. LeastReported(x, x.minRemaining)
  <2>1. CASE r.charged = {}
    <3>1. x.minRemaining = n /\ x.charged = {<<r.next, n>>}
      BY <1>1, <1>5, <2>1 DEF Least, Looping
    <3> QED
      BY <3>1 DEF LeastReported
  <2>2. CASE r.charged # {}
    <3>1. LeastReported(r, r.minRemaining)
      BY <1>1, <2>2 DEF Looping
    <3>2. r.minRemaining \in Nat
      BY <1>2, <3>1 DEF LeastReported
    <3>3. x.minRemaining = LesserOf(r.minRemaining, n)
      BY <1>2, <1>5, <3>2 DEF Least
    <3>4. PICK p \in r.charged : r.minRemaining = p[2]
      BY <3>1 DEF LeastReported
    <3>5. /\ p \in x.charged /\ <<r.next, n>> \in x.charged
          /\ x.minRemaining = p[2] \/ x.minRemaining = <<r.next, n>>[2]
      BY <1>5, <3>3, <3>4 DEF LesserOf
    <3>6. ASSUME NEW p2 \in x.charged
          PROVE  x.minRemaining <= p2[2]
      <4>1. CASE p2 \in r.charged
        <5>1. r.minRemaining <= p2[2] /\ p2[2] \in Nat
          BY <1>2, <3>1, <4>1 DEF LeastReported
        <5> QED
          BY <3>2, <3>3, <5>1 DEF LesserOf
      <4>2. CASE p2 = <<r.next, n>>
        BY <3>2, <3>3, <4>2 DEF LesserOf
      <4> QED
        BY <1>5, <3>6, <4>1, <4>2
    <3> QED
      BY <3>5, <3>6 DEF LeastReported
  <2> QED
    BY <2>1, <2>2
<1>8. x.charged # {}
  BY <1>5
<1> QED
  BY <1>1, <1>5, <1>6, <1>7, <1>8 DEF Sound, Looping

LEMMA DeniedSound ==
  ASSUME NEW r, Sound(r), InLoop(r)
  PROVE  LET x == [AfterDenial(r) EXCEPT !.anyRule = TRUE, !.refused = @ \cup {r.next}] IN
         Sound(x) /\ x.pc = "done" /\ x.resp = "deny"
<1>1. r \in RequestSet /\ Looping(r) /\ r.next \in Nat /\ r.next <= Len(r.rules)
      /\ r.rules \in Seq(Rules)
  BY DEF Sound, InLoop, RequestSet
<1>2. SUFFICES ASSUME NEW a, a = AfterDenial(r), NEW x,
                      x = [a EXCEPT !.anyRule = TRUE, !.refused = @ \cup {r.next}]
               PROVE  Sound(x) /\ x.pc = "done" /\ x.resp = "deny"
  OBVIOUS
<1>3. /\ a \in RequestSet /\ a.pc = "done" /\ a.resp = "deny" /\ a.next = r.next
      /\ a.rules = r.rules /\ a.charged = r.charged /\ a.failed = r.failed
      /\ a.refused = r.refused
  BY <1>1, <1>2, AnswerFields DEF AfterDenial, Reasons
<1>4. /\ x \in RequestSet /\ x.pc = "done" /\ x.resp = "deny" /\ x.next = r.next
      /\ x.rules = r.rules /\ x.charged = r.charged /\ x.failed = r.failed
      /\ x.refused = {r.next}
  BY <1>1, <1>2, <1>3 DEF RequestSet, Looping
<1>5. Accounted(x, r.next)
  BY <1>1, <1>4 DEF Accounted, EnabledBefore, Charged, Looping
<1> QED
  BY <1>1, <1>4, <1>5 DEF Sound, Answered, PaidFor, HasCause

LEMMA FailedSound ==
  ASSUME NEW r, Sound(r), InLoop(r), Rule(r).enabled,
         failPolicy \in {"fail-open", "fail-closed"}
  PROVE  LET e == [r EXCEPT !.anyRule = TRUE, !.anyError = TRUE,
                            !.failed = @ \cup {r.next}]
             x == AfterError(e) IN
         /\ Sound(x) /\ x.pc \in {"rules", "done"} /\ x.resp # "error"
         /\ x.pc = "rules" => x.rules = r.rules
<1>1. r \in RequestSet /\ Looping(r) /\ r.next \in Nat /\ r.next <= Len(r.rules)
      /\ r.rules \in Seq(Rules) /\ r.pc = "rules"
  BY DEF Sound, InLoop, RequestSet
<1>2. SUFFICES ASSUME NEW e, e = [r EXCEPT !.anyRule = TRUE, !.anyError = TRUE,
                                           !.failed = @ \cup {r.next}],
                      NEW x, x = AfterError(e)
               PROVE  /\ Sound(x) /\ x.pc \in {"rules", "done"} /\ x.resp # "error"
                      /\ x.pc = "rules" => x.rules = r.rules
  OBVIOUS
<1>3. /\ e \in RequestSet /\ e.pc = "rules" /\ e.resp = "none" /\ e.next = r.next
      /\ e.rules = r.rules /\ e.charged = r.charged /\ e.failed = r.failed \cup {r.next}
      /\ e.refused = {} /\ e.anyRule /\ e.anyError /\ e.minRemaining = r.minRemaining
  BY <1>1, <1>2 DEF RequestSet, Looping
<1>4. CASE failPolicy = "fail-open"
  <2>1. x = [e EXCEPT !.next = @ + 1]
    BY <1>2, <1>4 DEF AfterError
  <2>2. /\ x \in RequestSet /\ x.pc = "rules" /\ x.resp = "none" /\ x.next = r.next + 1
        /\ x.rules = r.rules /\ x.charged = r.charged /\ x.failed = r.failed \cup {r.next}
        /\ x.refused = {} /\ x.anyRule /\ x.anyError /\ x.minRemaining = r.minRemaining
    BY <1>1, <1>3, <2>1 DEF RequestSet
  <2>3. Accounted(x, x.next)
    <3>1. EnabledBefore(x, x.next) = EnabledBefore(r, r.next + 1)
      BY <2>2 DEF EnabledBefore
    <3>2. EnabledBefore(r, r.next + 1) = EnabledBefore(r, r.next) \cup {r.next}
      BY <1>1, EnabledStep DEF Rule
    <3>3. Charged(x) = Charged(r)
      BY <2>2 DEF Charged
    <3> QED
      BY <1>1, <2>2, <3>1, <3>2, <3>3 DEF Accounted, Looping
  <2> QED
    BY <1>1, <1>4, <2>2, <2>3 DEF Sound, Looping, LeastReported
<1>5. CASE failPolicy = "fail-closed"
  <2>1. x = Answer(e, "deny", "fail_closed")
    BY <1>2, <1>5 DEF AfterError
  <2>2. /\ x \in RequestSet /\ x.pc = "done" /\ x.resp = "deny" /\ x.next = r.next
        /\ x.rules = r.rules /\ x.refused = {} /\ x.anyError
    BY <1>3, <2>1, AnswerFields DEF Reasons
  <2> QED
    BY <1>1, <1>5, <2>2 DEF Sound, Answered, PaidFor, HasCause
<1> QED
  BY <1>4, <1>5

LEMMA FinishedSound ==
  ASSUME NEW r, Sound(r), r.pc = "rules", r.next > Len(r.rules)
  PROVE  LET x == IF ~r.anyRule
                  THEN Answer(r, "allow", "no_enabled_rules")
                  ELSE [Answer(r, "allow", IF r.anyError /\ failPolicy = "fail-open"
                                           THEN "fail_open" ELSE "allowed")
                          EXCEPT !.remaining = Remaining(r)] IN
         Sound(x) /\ x.pc = "done" /\ x.resp = "allow"
<1>1. /\ r \in RequestSet /\ Looping(r) /\ r.next \in Nat /\ r.next = Len(r.rules) + 1
      /\ r.rules \in Seq(Rules) /\ r.minRemaining \in Nat \cup {NoMinimum}
      /\ r.anyError \in BOOLEAN
  <2>1. r \in RequestSet /\ r.next <= Len(r.rules) + 1 /\ Looping(r)
    BY DEF Sound
  <2>2. r.rules \in Seq(Rules) /\ r.next \in Nat /\ Len(r.rules) \in Nat
    BY <2>1 DEF RequestSet
  <2> QED
    BY <2>1, <2>2 DEF RequestSet
<1>2. Remaining(r) \in Nat /\ (r.charged # {} => Remaining(r) = r.minRemaining)
  <2>1. Remaining(r) \in Nat
    BY <1>1 DEF Remaining, GreaterOf, NoMinimum
  <2>2. ASSUME r.charged # {}
        PROVE  Remaining(r) = r.minRemaining
    <3>1. PICK p \in r.charged : r.minRemaining = p[2]
      BY <1>1, <2>2 DEF Looping, LeastReported
    <3>2. r.minRemaining \in Nat
      BY <1>1, <3>1 DEF RequestSet, Reports
    <3> QED
      BY <3>2 DEF Remaining, GreaterOf
  <2> QED
    BY <2>1, <2>2
<1>3. ASSUME NEW x, x \in RequestSet, x.pc = "done", x.resp = "allow", x.rules = r.rules,
             x.next = r.next, x.charged = r.charged, x.failed = r.failed,
             x.refused = r.refused,
             r.failed # {} => x.reason = "fail_open",
             r.charged # {} => x.remaining = r.minRemaining
      PROVE  Sound(x)
  <2>1. Accounted(x, Len(x.rules) + 1)
    BY <1>1, <1>3 DEF Looping, Accounted, EnabledBefore, Charged
  <2>2. PaidFor(x)
    BY <1>1, <1>3, <2>1 DEF Looping, PaidFor
  <2>3. x.refused = {} /\ HasCause(x)
    BY <1>1, <1>3 DEF Looping, HasCause
  <2>4. x.charged # {} => LeastReported(x, x.remaining)
    BY <1>1, <1>3 DEF Looping, LeastReported
  <2> QED
    BY <1>1, <1>3, <2>2, <2>3, <2>4 DEF Sound, Answered
<1>4. CASE ~r.anyRule
  <2> DEFINE x == Answer(r, "allow", "no_enabled_rules")
  <2>1. /\ x \in RequestSet /\ x.pc = "done" /\ x.resp = "allow" /\ x.rules = r.rules
        /\ x.next = r.next /\ x.charged = r.charged /\ x.failed = r.failed
        /\ x.refused = r.refused
    BY <1>1, AnswerFields DEF Reasons
  <2>2. r.charged = {} /\ r.failed = {}
    BY <1>1, <1>4 DEF Looping
  <2> QED
    BY <1>3, <1>4, <2>1, <2>2
<1>5. CASE r.anyRule
  <2> DEFINE reason == IF r.anyError /\ failPolicy = "fail-open"
                       THEN "fail_open" ELSE "allowed"
             a == Answer(r, "allow", reason)
             x == [a EXCEPT !.remaining = Remaining(r)]
  <2>1. reason \in Reasons /\ (r.failed # {} => reason = "fail_open")
    BY <1>1 DEF Reasons, Looping
  <2> HIDE DEF reason
  <2>2. /\ a \in RequestSet /\ a.pc = "done" /\ a.resp = "allow" /\ a.rules = r.rules
        /\ a.next = r.next /\ a.charged = r.charged /\ a.failed = r.failed
        /\ a.refused = r.refused /\ a.reason = reason
    BY <1>1, <2>1, AnswerFields
  <2> HIDE DEF a
  <2>3. /\ x \in RequestSet /\ x.pc = "done" /\ x.resp = "allow" /\ x.rules = r.rules
        /\ x.next = r.next /\ x.charged = r.charged /\ x.failed = r.failed
        /\ x.refused = r.refused /\ x.reason = reason /\ x.remaining = Remaining(r)
    BY <1>2, <2>2 DEF RequestSet
  <2>4. Sound(x) /\ x.pc = "done" /\ x.resp = "allow"
    BY <1>2, <1>3, <2>1, <2>3
  <2> QED
    BY <1>5, <2>4 DEF a, reason
<1> QED
  BY <1>1, <1>4, <1>5

-----------------------------------------------------------------------------
(* The steps. *)

\* The configuration is fixed, so what is sound stays so.
LEMMA SoundStable ==
  ASSUME NEW r, Sound(r), failPolicy' = failPolicy
  PROVE  Sound(r)'
  BY DEF Sound, Looping, LeastReported, Accounted, EnabledBefore, Charged, Answered, PaidFor,
         HasCause

\* A step replaces one request by a sound one.
LEMMA RequestStep ==
  ASSUME ApiInv, NEW q \in Requests, NEW e, Sound(e), q \in HttpRequests => HttpSound(e),
         req' = [req EXCEPT ![q] = e], UNCHANGED config,
         left' \in [Keys -> 0..Tokens], UNCHANGED snapshot
  PROVE  ApiInv'
<1>1. e \in RequestSet
  BY DEF Sound
<1>2. req' \in [Requests -> RequestSet]
  BY <1>1 DEF ApiInv
<1>3. ASSUME NEW p \in Requests
      PROVE  Sound(req[p])' /\ (p \in HttpRequests => HttpSound(req[p])')
  <2>1. PICK r : r = req'[p]
    OBVIOUS
  <2>2. Sound(r) /\ (p \in HttpRequests => HttpSound(r))
    BY <2>1 DEF ApiInv
  <2>3. Sound(r)'
    BY <2>2, SoundStable DEF config
  <2> QED
    BY <2>1, <2>2, <2>3 DEF HttpSound
<1> QED
  BY <1>2, <1>3, ApiAssumption DEF ApiInv, config

\* What AllowRules does before the loop; by HTTP it gets one enabled rule.
LEMMA AllowRulesStep ==
  ASSUME ApiInv, NEW q \in Requests, NEW rules \in Seq(Rules), NEW dims \in Inputs,
         AllowRules(q, rules, dims), UNCHANGED snapshot,
         q \in HttpRequests => Len(rules) = 1 /\ rules[1].enabled
  PROVE  ApiInv'
<1> DEFINE r == Begun(rules, dims)
<1>1. Fresh(r) /\ r.rules = rules
  BY BegunFields
<1>2. ASSUME rules = <<>>, req' = [req EXCEPT ![q] = Answer(r, "allow", "no_rules")]
      PROVE  ApiInv'
  <2>1. PICK e : e = Answer(r, "allow", "no_rules")
    OBVIOUS
  <2>2. Sound(e)
    BY <1>1, <1>2, <2>1, FreshAnswered DEF Reasons
  <2>3. e.pc = "done" /\ e.resp = "allow"
    BY <1>1, <2>1, AnswerFields DEF Reasons, Fresh
  <2>4. HttpSound(e)
    BY <2>3 DEF HttpSound
  <2>5. req' = [req EXCEPT ![q] = e]
    BY <1>2, <2>1
  <2> QED
    BY <2>2, <2>4, <2>5, RequestStep DEF AllowRules, ApiInv
<1>3. ASSUME NEW a \in IPAnswers(dims),
             req' = [req EXCEPT ![q] = AfterIP([r EXCEPT !.ip = a], a)]
      PROVE  ApiInv'
  <2>1. PICK b : b = [r EXCEPT !.ip = a]
    OBVIOUS
  <2>2. PICK e : e = AfterIP(b, a)
    OBVIOUS
  <2>3. a \in IPAnswerSet
    BY DEF IPAnswers, IPAnswerSet
  <2>4. Fresh(b) /\ b.rules = rules /\ b.ip = a
    BY <1>1, <2>1, <2>3, NotedFields
  <2>5. failPolicy \in {"fail-open", "fail-closed"}
    BY DEF ApiInv
  <2>6. Sound(e) /\ e.rules = rules /\ e.resp # "error"
    BY <2>2, <2>4, <2>5, AfterIPSound
  <2>7. q \in HttpRequests => HttpSound(e)
    BY <2>6 DEF HttpSound
  <2>8. req' = [req EXCEPT ![q] = e]
    BY <1>3, <2>1, <2>2
  <2> QED
    BY <2>6, <2>7, <2>8, RequestStep DEF AllowRules, ApiInv
<1> QED
  BY <1>2, <1>3 DEF AllowRules, Begun

LEMMA ChargeType ==
  ASSUME ApiInv, NEW k \in Keys, Charge(k)
  PROVE  left' \in [Keys -> 0..Tokens] /\ left'[k] \in Nat
  BY EngineAssumption DEF ApiInv, Charge

LEMMA EvaluateStep ==
  ASSUME ApiInv, NEW q \in Requests, Evaluate(q), UNCHANGED snapshot
  PROVE  ApiInv'
<1> DEFINE r == req[q]
<1>1. Sound(r) /\ r \in RequestSet /\ failPolicy \in {"fail-open", "fail-closed"}
      /\ (q \in HttpRequests => HttpSound(r))
  BY DEF ApiInv
<1>2. CASE SkipDisabled(q)
  <2>1. InLoop(r) /\ ~Rule(r).enabled /\ r.pc = "rules"
    BY <1>2 DEF SkipDisabled, InLoop
  <2>2. q \notin HttpRequests
    <3>1. r.next = 1 \/ r.next > 1
      BY <1>1 DEF RequestSet
    <3>2. ASSUME Len(r.rules) = 1
          PROVE  r.next = 1
      <4>1. r.next <= 1
        BY <2>1, <3>2 DEF InLoop
      <4>2. r.next \in Nat \ {0}
        BY <1>1 DEF RequestSet
      <4> QED
        BY <4>1, <4>2
    <3> QED
      BY <1>1, <2>1, <3>2 DEF HttpSound, Rule
  <2>3. PICK e : e = IF Len(r.rules) = 1 THEN Answer(r, "error", "rule_disabled")
                                         ELSE [r EXCEPT !.next = AfterDisabled(r)]
    OBVIOUS
  <2>4. Sound(e)
    BY <1>1, <2>1, <2>3, SkippedSound
  <2>5. req' = [req EXCEPT ![q] = e]
    BY <1>2, <2>3 DEF SkipDisabled
  <2> QED
    BY <1>2, <2>2, <2>4, <2>5, RequestStep DEF SkipDisabled, ApiInv
<1>3. CASE Granted(q)
  <2>1. PICK k \in Keys :
          /\ Asks(q, k) /\ Charge(k)
          /\ req' = [req EXCEPT ![q] =
                       [r EXCEPT !.anyRule = TRUE, !.next = @ + 1,
                                 !.minRemaining = Least(r, left'[k]),
                                 !.charged = @ \cup {<<r.next, left'[k]>>}]]
          /\ UNCHANGED config
    BY <1>3 DEF Granted
  <2>2. PICK n \in Nat : n = left'[k]
    BY <2>1, ChargeType
  <2>3. PICK e : e = [r EXCEPT !.anyRule = TRUE, !.next = @ + 1,
                               !.minRemaining = Least(r, n),
                               !.charged = @ \cup {<<r.next, n>>}]
    OBVIOUS
  <2>4. InLoop(r) /\ Rule(r).enabled
    BY <2>1 DEF Asks
  <2>5. Sound(e) /\ e.pc = "rules" /\ e.rules = r.rules
    BY <1>1, <2>3, <2>4, ChargedSound
  <2>6. q \in HttpRequests => HttpSound(e)
    BY <1>1, <2>4, <2>5 DEF HttpSound, InLoop
  <2>7. req' = [req EXCEPT ![q] = e]
    BY <2>1, <2>2, <2>3
  <2>8. left' \in [Keys -> 0..Tokens]
    BY <2>1, ChargeType
  <2> QED
    BY <2>1, <2>5, <2>6, <2>7, <2>8, RequestStep
<1>4. CASE Denied(q)
  <2>1. PICK e : e = [AfterDenial(r) EXCEPT !.anyRule = TRUE, !.refused = @ \cup {r.next}]
    OBVIOUS
  <2>2. InLoop(r) /\ req' = [req EXCEPT ![q] = e] /\ UNCHANGED <<config, left>>
    BY <1>4, <2>1 DEF Denied, Asks
  <2>3. Sound(e) /\ e.pc = "done" /\ e.resp = "deny"
    BY <1>1, <2>1, <2>2, DeniedSound
  <2> QED
    BY <2>2, <2>3, RequestStep DEF HttpSound, ApiInv
<1>5. CASE Fails(q)
  <2>1. PICK e : e = AfterError([r EXCEPT !.anyRule = TRUE, !.anyError = TRUE,
                                          !.failed = @ \cup {r.next}])
    OBVIOUS
  <2>2. InLoop(r) /\ Rule(r).enabled /\ req' = [req EXCEPT ![q] = e] /\ UNCHANGED config
    BY <1>5, <2>1 DEF Fails
  <2>3. left' \in [Keys -> 0..Tokens]
    BY <1>5, ChargeType DEF Fails, ApiInv
  <2>4. /\ Sound(e) /\ e.pc \in {"rules", "done"} /\ e.resp # "error"
        /\ e.pc = "rules" => e.rules = r.rules
    BY <1>1, <2>1, <2>2, FailedSound
  <2>5. q \in HttpRequests => HttpSound(e)
    BY <1>1, <2>2, <2>4 DEF HttpSound, InLoop
  <2> QED
    BY <2>2, <2>3, <2>4, <2>5, RequestStep
<1>6. CASE Finish(q)
  <2>1. PICK e : e = IF ~r.anyRule
                     THEN Answer(r, "allow", "no_enabled_rules")
                     ELSE [Answer(r, "allow", IF r.anyError /\ failPolicy = "fail-open"
                                              THEN "fail_open" ELSE "allowed")
                             EXCEPT !.remaining = Remaining(r)]
    OBVIOUS
  <2>2. /\ r.pc = "rules" /\ r.next > Len(r.rules) /\ req' = [req EXCEPT ![q] = e]
        /\ UNCHANGED <<config, left>>
    BY <1>6, <2>1 DEF Finish
  <2>3. Sound(e) /\ e.pc = "done" /\ e.resp = "allow"
    BY <1>1, <2>1, <2>2, FinishedSound
  <2> QED
    BY <2>2, <2>3, RequestStep DEF HttpSound, ApiInv
<1> QED
  BY <1>2, <1>3, <1>4, <1>5, <1>6 DEF Evaluate

LEMMA ApiInitInv == ApiInit => ApiInv
<1> SUFFICES ASSUME ApiInit PROVE ApiInv
  OBVIOUS
<1>1. req \in [Requests -> RequestSet] /\ \A q \in Requests : req[q] = Idle
  BY IdleSound DEF ApiInit, Init
<1>2. left \in [Keys -> 0..Tokens]
  BY EngineAssumption DEF ApiInit, Init
<1>3. \A i \in DOMAIN snapshot : snapshot[i] \in Rules
  BY DEF ApiInit
<1> QED
  BY <1>1, <1>2, <1>3, IdleSound, ApiAssumption DEF ApiInv, ApiInit, Init, HttpSound

LEMMA ApiStepInv == ApiInv /\ [ApiNext]_apiVars => ApiInv'
<1> SUFFICES ASSUME ApiInv, [ApiNext]_apiVars
             PROVE  ApiInv'
  OBVIOUS
<1>1. ASSUME NEW q \in HttpRequests, AllowLogic(q)
      PROVE  ApiInv'
  <2>1. PICK i \in Ids, d \in Given :
          Passes(i) /\ AllowRules(q, <<snapshot[i]>>, Completed(d))
    BY <1>1 DEF AllowLogic
  <2>2. PICK rules, dims : rules = <<snapshot[i]>> /\ dims = Completed(d)
    OBVIOUS
  <2>3. snapshot[i] \in Rules /\ snapshot[i].enabled
    BY <2>1 DEF Passes, ApiInv
  <2>4. rules \in Seq(Rules) /\ Len(rules) = 1 /\ rules[1].enabled /\ dims \in Inputs
    BY <2>2, <2>3 DEF Given
  <2> QED
    BY <1>1, <2>1, <2>2, <2>4, AllowRulesStep, ApiAssumption DEF AllowLogic
<1>2. ASSUME NEW q \in Requests \ HttpRequests, Begin(q), UNCHANGED snapshot
      PROVE  ApiInv'
  <2>1. PICK rules \in RuleLists, dims \in Inputs : AllowRules(q, rules, dims)
    BY <1>2 DEF Begin
  <2> QED
    BY <1>2, <2>1, AllowRulesStep, EngineAssumption
<1>3. ASSUME NEW q \in Requests, Evaluate(q), UNCHANGED snapshot
      PROVE  ApiInv'
  BY <1>3, EvaluateStep
<1>4. ASSUME NEW q \in Requests, Done(q), UNCHANGED snapshot
      PROVE  ApiInv'
  BY <1>4, IdleSound, RequestStep DEF Done, HttpSound, ApiInv
<1>5. ASSUME UNCHANGED <<config, req, snapshot>>, left' \in [Keys -> 0..Tokens]
      PROVE  ApiInv'
  <2>1. ASSUME NEW q \in Requests
        PROVE  Sound(req[q])'
    <3>1. PICK r : r = req[q]
      OBVIOUS
    <3>2. Sound(r)'
      BY <1>5, <3>1, SoundStable DEF ApiInv, config
    <3> QED
      BY <1>5, <3>1, <3>2
  <2> QED
    BY <1>5, <2>1 DEF ApiInv, config, HttpSound
<1>6. CASE Refill /\ UNCHANGED snapshot
  BY <1>5, <1>6, EngineAssumption DEF Refill, ApiInv
<1>7. CASE UpsertRule
  <2>1. PICK rule \in Rules : snapshot' = Upserted(rule)
    BY <1>7 DEF UpsertRule
  <2>2. \A i \in DOMAIN snapshot' : snapshot'[i] \in Rules
    BY <2>1 DEF Upserted, ApiInv
  <2>3. UNCHANGED <<config, req, left>>
    BY <1>7 DEF UpsertRule, vars, config
  <2>4. ASSUME NEW q \in Requests
        PROVE  Sound(req[q])'
    <3>1. PICK r : r = req[q]
      OBVIOUS
    <3>2. Sound(r)'
      BY <2>3, <3>1, SoundStable DEF ApiInv, config
    <3> QED
      BY <2>3, <3>1, <3>2
  <2> QED
    BY <2>2, <2>3, <2>4 DEF ApiInv, config, HttpSound
<1>8. CASE UNCHANGED apiVars
  BY <1>5, <1>8 DEF apiVars, vars, config, ApiInv
<1> QED
  BY <1>1, <1>2, <1>3, <1>4, <1>6, <1>7, <1>8 DEF ApiNext, EngineStep

LEMMA ApiInvariance == ApiSpec => []ApiInv
  BY ApiInitInv, ApiStepInv, PTL DEF ApiSpec

-----------------------------------------------------------------------------
(* The words of a request's dimensions. *)

LEMMA LeastNatural ==
  ASSUME NEW T, T \subseteq Nat, T # {}
  PROVE  \E x \in T : \A y \in T : x <= y
<1>1. PICK x \in T : \A y \in T : ~ (<<y, x>> \in OpToRel(<, Nat))
  BY WFMin, NatLessThanWellFounded, Zenon
<1>2. \A y \in T : ~ (y < x)
  BY <1>1, Zenon DEF OpToRel
<1> QED
  BY <1>2

JoinedWords(names, dims) ==
  CHOOSE f : f = [n \in 0..Len(names) |-> IF n = 0 THEN <<>> ELSE f[n - 1] \o dims[names[n]]]

LEMMA HashIsJoined ==
  ASSUME NEW rule, NEW dims
  PROVE  HashDims(rule, dims) = JoinedWords(rule.dims, dims)[Len(rule.dims)]
  BY Zenon DEF HashDims, JoinedWords

\* f joins the first m names' values.
Joins(f, m, names, dims, Word) ==
  /\ f \in [0..m -> Seq(Word)]
  /\ f[0] = <<>>
  /\ \A n \in 1..m : f[n] = f[n - 1] \o dims[names[n]]

LEMMA JoinsOne ==
  ASSUME NEW Word, NEW names, NEW dims
  PROVE  \E f : Joins(f, 0, names, dims, Word)
<1> DEFINE g == [n \in 0..0 |-> <<>>]
<1>1. g \in [0..0 -> Seq(Word)] /\ g[0] = <<>> /\ 1..0 = {}
  OBVIOUS
<1> QED
  BY <1>1 DEF Joins

LEMMA JoinsNext ==
  ASSUME NEW Word, NEW names, NEW dims, NEW m \in Nat \ {0}, NEW f,
         Joins(f, m - 1, names, dims, Word), dims[names[m]] \in Seq(Word)
  PROVE  \E g : Joins(g, m, names, dims, Word)
<1> DEFINE last == f[m - 1] \o dims[names[m]]
           g == [n \in 0..m |-> IF n = m THEN last ELSE f[n]]
<1>1. /\ f \in [0..(m - 1) -> Seq(Word)] /\ f[0] = <<>>
      /\ \A n \in 1..(m - 1) : f[n] = f[n - 1] \o dims[names[n]]
  BY Zenon DEF Joins
<1>2. last \in Seq(Word)
  <2>1. m - 1 \in 0..(m - 1)
    OBVIOUS
  <2> QED
    BY <1>1, <2>1, ConcatProperties
<1>3. last = f[m - 1] \o dims[names[m]]
  OBVIOUS
<1> HIDE DEF last
<1>4. g \in [0..m -> Seq(Word)] /\ g[0] = <<>>
  BY <1>1, <1>2
<1>5. ASSUME NEW n \in 1..m
      PROVE  g[n] = g[n - 1] \o dims[names[n]]
  <2>1. CASE n = m
    <3>1. g[n] = last /\ g[n - 1] = f[m - 1]
      BY <2>1
    <3> QED
      BY <1>3, <2>1, <3>1
  <2>2. CASE n # m
    <3>1. n \in 1..(m - 1) /\ g[n] = f[n] /\ g[n - 1] = f[n - 1]
      BY <2>2
    <3> QED
      BY <1>1, <3>1
  <2> QED
    BY <2>1, <2>2
<1> QED
  BY <1>4, <1>5 DEF Joins

LEMMA JoinsAll ==
  ASSUME NEW Word, NEW names, NEW dims, NEW N \in Nat,
         \A n \in 1..N : dims[names[n]] \in Seq(Word)
  PROVE  \E f : Joins(f, N, names, dims, Word)
<1> DEFINE T == {m \in 0..N : ~ \E f : Joins(f, m, names, dims, Word)}
<1>1. \A m : m \in T <=> m \in 0..N /\ ~ \E f : Joins(f, m, names, dims, Word)
  OBVIOUS
<1> HIDE DEF T
<1>2. T = {}
  <2>1. SUFFICES ASSUME T # {} PROVE FALSE
    OBVIOUS
  <2>2. T \subseteq Nat
    BY <1>1
  <2>3. PICK m \in T : \A y \in T : m <= y
    BY <2>1, <2>2, LeastNatural
  <2>4. m # 0
    BY <1>1, <2>3, JoinsOne
  <2>5. m \in 1..N /\ m - 1 \in 0..N /\ m - 1 \notin T
    BY <1>1, <2>2, <2>3, <2>4
  <2>6. PICK f : Joins(f, m - 1, names, dims, Word)
    BY <1>1, <2>5
  <2>7. m \in Nat \ {0} /\ dims[names[m]] \in Seq(Word)
    BY <2>5
  <2>8. \E g : Joins(g, m, names, dims, Word)
    BY <2>6, <2>7, JoinsNext
  <2> QED
    BY <1>1, <2>3, <2>8
<1> QED
  BY <1>1, <1>2

LEMMA JoinedJoins ==
  ASSUME NEW Word, NEW names \in Seq(STRING), NEW dims,
         \A n \in 1..Len(names) : dims[names[n]] \in Seq(Word)
  PROVE  Joins(JoinedWords(names, dims), Len(names), names, dims, Word)
<1> DEFINE N == Len(names)
           Is(f) == f = [n \in 0..N |-> IF n = 0 THEN <<>> ELSE f[n - 1] \o dims[names[n]]]
<1>1. N \in Nat
  OBVIOUS
<1>2. PICK f : Joins(f, N, names, dims, Word)
  BY <1>1, JoinsAll
<1>3. ASSUME NEW n \in 0..N
      PROVE  f[n] = IF n = 0 THEN <<>> ELSE f[n - 1] \o dims[names[n]]
  <2>1. CASE n = 0
    BY <1>2, <2>1 DEF Joins
  <2>2. CASE n # 0
    <3>1. n \in 1..N
      BY <1>1, <2>2
    <3> QED
      BY <1>2, <2>2, <3>1 DEF Joins
  <2> QED
    BY <2>1, <2>2
<1>4. Is(f)
  BY <1>2, <1>3 DEF Joins
<1>5. Is(JoinedWords(names, dims))
  BY <1>4, Zenon DEF JoinedWords
<1> DEFINE g == JoinedWords(names, dims)
<1> HIDE DEF g
<1>6. /\ DOMAIN g = 0..N
      /\ \A n \in 0..N : g[n] = IF n = 0 THEN <<>> ELSE g[n - 1] \o dims[names[n]]
  BY <1>5 DEF g
<1>7. \A n \in 0..N : g[n] = f[n]
  <2> DEFINE T == {n \in 0..N : g[n] # f[n]}
  <2>1. SUFFICES ASSUME T # {} PROVE FALSE
    OBVIOUS
  <2>2. T \subseteq Nat
    BY <1>1
  <2>3. PICK m \in T : \A y \in T : m <= y
    BY <2>1, <2>2, LeastNatural
  <2>4. m # 0
    BY <1>1, <1>3, <1>6, <2>3
  <2>5. m - 1 \in 0..N /\ g[m - 1] = f[m - 1]
    BY <1>1, <2>3, <2>4
  <2> QED
    BY <1>3, <1>6, <2>3, <2>4, <2>5
<1>8. g = f
  BY <1>2, <1>5, <1>7 DEF Joins, g
<1> QED
  BY <1>2, <1>8 DEF g

\* Joined, s1 with t1 and s2 with t2 are the same, and t1 is as long as t2.
JoinAlike(Word, s1, s2, t1, t2) ==
  /\ s1 \in Seq(Word) /\ s2 \in Seq(Word) /\ t1 \in Seq(Word) /\ t2 \in Seq(Word)
  /\ Len(t1) = Len(t2) /\ s1 \o t1 = s2 \o t2

LEMMA ConcatSplits ==
  ASSUME NEW Word, NEW s1, NEW s2, NEW t1, NEW t2, JoinAlike(Word, s1, s2, t1, t2)
  PROVE  s1 = s2 /\ t1 = t2
<1> USE DEF JoinAlike
<1>1. Len(s1) = Len(s2)
  <2>1. Len(s1 \o t1) = Len(s1) + Len(t1) /\ Len(s2 \o t2) = Len(s2) + Len(t2)
    BY ConcatProperties
  <2>2. Len(s1) \in Nat /\ Len(s2) \in Nat /\ Len(t1) \in Nat
    OBVIOUS
  <2> QED
    BY <2>1, <2>2
<1>2. \A i \in 1..Len(s1) : s1[i] = s2[i]
  <2>1. \A i \in 1..Len(s1) : (s1 \o t1)[i] = s1[i] /\ (s2 \o t2)[i] = s2[i]
    BY <1>1
  <2> QED
    BY <2>1
<1>3. \A i \in 1..Len(t1) : t1[i] = t2[i]
  <2> SUFFICES ASSUME NEW i \in 1..Len(t1) PROVE t1[i] = t2[i]
    OBVIOUS
  <2>1. (s1 \o t1)[Len(s1) + i] = t1[i] /\ (s2 \o t2)[Len(s2) + i] = t2[i]
    OBVIOUS
  <2> QED
    BY <1>1, <2>1
<1> QED
  BY <1>1, <1>2, <1>3, SeqEqual

LEMMA JoinedTellsApart ==
  ASSUME NEW Word, NEW names \in Seq(STRING), NEW d1, NEW d2,
         \A n \in 1..Len(names) : /\ d1[names[n]] \in Seq(Word) /\ d2[names[n]] \in Seq(Word)
                                  /\ Len(d1[names[n]]) = Len(d2[names[n]]),
         JoinedWords(names, d1)[Len(names)] = JoinedWords(names, d2)[Len(names)],
         NEW n \in 1..Len(names)
  PROVE  d1[names[n]] = d2[names[n]]
<1> DEFINE N == Len(names)
           f1 == JoinedWords(names, d1)
           f2 == JoinedWords(names, d2)
<1>1. N \in Nat
  OBVIOUS
<1>2. Joins(f1, N, names, d1, Word) /\ Joins(f2, N, names, d2, Word)
  BY JoinedJoins
<1>3. f1[N] = f2[N]
  OBVIOUS
<1> HIDE DEF f1, f2
<1>4. ASSUME NEW m \in 1..N, f1[m] = f2[m]
      PROVE  f1[m - 1] = f2[m - 1] /\ d1[names[m]] = d2[names[m]]
  <2>1. m - 1 \in 0..N
    BY <1>1
  <2>2. f1[m] = f1[m - 1] \o d1[names[m]] /\ f2[m] = f2[m - 1] \o d2[names[m]]
    BY <1>2 DEF Joins
  <2>3. PICK s1 : s1 = f1[m - 1]
    OBVIOUS
  <2>4. PICK s2 : s2 = f2[m - 1]
    OBVIOUS
  <2>5. PICK t1 : t1 = d1[names[m]]
    OBVIOUS
  <2>6. PICK t2 : t2 = d2[names[m]]
    OBVIOUS
  <2>7. s1 \in Seq(Word) /\ s2 \in Seq(Word)
    BY <1>2, <2>1, <2>3, <2>4 DEF Joins
  <2>8. t1 \in Seq(Word) /\ t2 \in Seq(Word) /\ Len(t1) = Len(t2)
    BY <2>5, <2>6
  <2>9. s1 \o t1 = s2 \o t2
    BY <1>4, <2>2, <2>3, <2>4, <2>5, <2>6
  <2>10. JoinAlike(Word, s1, s2, t1, t2)
    BY <2>7, <2>8, <2>9 DEF JoinAlike
  <2>11. s1 = s2 /\ t1 = t2
    BY ONLY <2>10, ConcatSplits
  <2> QED
    BY <2>3, <2>4, <2>5, <2>6, <2>11
<1>5. \A m \in 0..N : f1[m] = f2[m]
  <2> DEFINE T == {k \in 0..N : f1[N - k] # f2[N - k]}
  <2>1. T = {}
    <3>1. SUFFICES ASSUME T # {} PROVE FALSE
      OBVIOUS
    <3>2. T \subseteq Nat
      BY <1>1
    <3>3. PICK k \in T : \A y \in T : k <= y
      BY <3>1, <3>2, LeastNatural
    <3>4. k # 0
      BY <1>1, <1>3, <3>3
    <3>5. k - 1 \in 0..N /\ k - 1 \notin T
      BY <1>1, <3>3, <3>4
    <3>6. f1[N - (k - 1)] = f2[N - (k - 1)] /\ N - (k - 1) \in 1..N
      BY <1>1, <3>3, <3>5
    <3>7. f1[(N - (k - 1)) - 1] = f2[(N - (k - 1)) - 1]
      BY <1>4, <3>6
    <3>8. (N - (k - 1)) - 1 = N - k
      BY <1>1, <3>3
    <3> QED
      BY <3>3, <3>7, <3>8
  <2>2. ASSUME NEW m \in 0..N
        PROVE  f1[m] = f2[m]
    <3>1. N - m \in 0..N /\ N - (N - m) = m
      BY <1>1
    <3> QED
      BY <2>1, <3>1
  <2> QED
    BY <2>2
<1>6. n \in 0..N
  BY <1>1
<1> QED
  BY <1>4, <1>5, <1>6

\* Values that are joined to the same words are the same, if each has as many words.
LEMMA HashTellsApart ==
  ASSUME NEW r1 \in Rules, NEW r2 \in Rules, NEW d1 \in Inputs, NEW d2 \in Inputs,
         ValidateDims(r1, d1), ValidateDims(r2, d2), r1.dims = r2.dims,
         HashDims(r1, d1) = HashDims(r2, d2),
         ~BlankMoved(Values(r1, d1), Values(r2, d2))
  PROVE  Values(r1, d1) = Values(r2, d2)
<1> DEFINE names == r1.dims
<1>1. names \in Seq(STRING) /\ DOMAIN names = 1..Len(names)
  BY EngineAssumption
<1>2. /\ DOMAIN Values(r1, d1) = DOMAIN names
      /\ \A n \in DOMAIN names : /\ Values(r1, d1)[n] = d1[names[n]]
                                /\ Values(r2, d2)[n] = d2[names[n]]
  BY DEF Values
<1>3. PICK Word : Word = STRING
  OBVIOUS
<1>4. ASSUME NEW n \in 1..Len(names)
      PROVE  /\ d1[names[n]] \in Seq(Word) /\ d2[names[n]] \in Seq(Word)
             /\ Len(d1[names[n]]) = Len(d2[names[n]])
  <2>1. names[n] \in DOMAIN d1 /\ names[n] \in DOMAIN d2
    BY <1>1 DEF ValidateDims
  <2>2. d1[names[n]] \in Seq(STRING) /\ d2[names[n]] \in Seq(STRING)
    BY <2>1, EngineAssumption
  <2>3. Len(d1[names[n]]) = Len(d2[names[n]])
    BY <1>1, <1>2 DEF BlankMoved
  <2> QED
    BY <1>3, <2>2, <2>3
<1>5. JoinedWords(names, d1)[Len(names)] = JoinedWords(names, d2)[Len(names)]
  BY HashIsJoined
<1> HIDE DEF names
<1>6. ASSUME NEW n \in 1..Len(names)
      PROVE  d1[names[n]] = d2[names[n]]
  <2>1. names \in Seq(STRING)
    BY <1>1
  <2> QED
    BY ONLY <1>4, <1>5, <1>6, <2>1, JoinedTellsApart
<1> QED
  BY <1>1, <1>6 DEF Values, names

-----------------------------------------------------------------------------
(* Whose limiter a request is charged by. *)

\* The rules that charged a request are of its list, and it names their dimensions.
Named(r) ==
  /\ r.pc # "idle" => r.dims \in Inputs
  /\ \A n \in Charged(r) : n \in 1..Len(r.rules) /\ ValidateDims(r.rules[n], r.dims)

NamedInv == \A q \in Requests : Named(req[q])

LEMMA NamedKept ==
  ASSUME NEW r, Named(r), r.pc # "idle", NEW e,
         e.rules = r.rules, e.dims = r.dims, e.charged = r.charged
  PROVE  Named(e)
  BY DEF Named, Charged

LEMMA NamedStep ==
  ASSUME ApiInv, NamedInv, NEW q \in Requests, NEW e, Named(e),
         req' = [req EXCEPT ![q] = e]
  PROVE  NamedInv'
<1> SUFFICES ASSUME NEW p \in Requests PROVE Named(req[p])'
  BY DEF NamedInv
<1>1. PICK r : r = req'[p]
  OBVIOUS
<1>2. r = e \/ r = req[p]
  BY <1>1 DEF ApiInv
<1>3. Named(r)
  BY <1>2 DEF NamedInv
<1> QED
  BY <1>1, <1>3 DEF Named, Charged

\* Nothing that happens to a request changes its rules or its dimensions.
LEMMA UpdatesKeep ==
  ASSUME NEW r \in RequestSet, NEW a, NEW b, NEW c, NEW d
  PROVE  /\ LET e == Answer(r, a, b) IN
            e.rules = r.rules /\ e.dims = r.dims /\ e.charged = r.charged /\ e.pc # "idle"
         /\ LET e == [r EXCEPT !.next = a] IN
            e.rules = r.rules /\ e.dims = r.dims /\ e.charged = r.charged
         /\ LET e == [r EXCEPT !.pc = a] IN
            e.rules = r.rules /\ e.dims = r.dims /\ e.charged = r.charged
         /\ LET e == [r EXCEPT !.ip = a] IN
            e.rules = r.rules /\ e.dims = r.dims /\ e.charged = r.charged
         /\ LET e == [r EXCEPT !.anyError = a] IN
            e.rules = r.rules /\ e.dims = r.dims /\ e.charged = r.charged
         /\ LET e == [r EXCEPT !.anyRule = a, !.anyError = b, !.failed = c] IN
            e.rules = r.rules /\ e.dims = r.dims /\ e.charged = r.charged
         /\ LET e == [r EXCEPT !.anyRule = a, !.next = b, !.minRemaining = c, !.charged = d] IN
            e.rules = r.rules /\ e.dims = r.dims /\ e.charged = d
  BY DEF RequestSet, Answer

LEMMA AllowRulesNamed ==
  ASSUME ApiInv, NamedInv, NEW q \in Requests, NEW rules \in Seq(Rules), NEW dims \in Inputs,
         AllowRules(q, rules, dims)
  PROVE  NamedInv'
<1> DEFINE r == Begun(rules, dims)
<1>1. r \in RequestSet /\ r.charged = {} /\ r.dims \in Inputs
  <2>1. Fresh(r)
    BY BegunFields
  <2>2. r.dims = dims
    BY IdleSound DEF Begun, RequestSet
  <2> QED
    BY <2>1, <2>2 DEF Fresh
<1> HIDE DEF r
<1>2. ASSUME NEW e, e.charged = {}, e.dims \in Inputs
      PROVE  Named(e)
  BY <1>2 DEF Named, Charged
<1>3. ASSUME req' = [req EXCEPT ![q] = Answer(r, "allow", "no_rules")]
      PROVE  NamedInv'
  <2>1. PICK e : e = Answer(r, "allow", "no_rules")
    OBVIOUS
  <2>2. Named(e)
    BY <1>1, <1>2, <2>1, UpdatesKeep
  <2> QED
    BY <1>3, <2>1, <2>2, NamedStep
<1>4. ASSUME NEW a \in IPAnswers(dims),
             req' = [req EXCEPT ![q] = AfterIP([r EXCEPT !.ip = a], a)]
      PROVE  NamedInv'
  <2>1. PICK b : b = [r EXCEPT !.ip = a]
    OBVIOUS
  <2>2. PICK c : c = [b EXCEPT !.anyError = TRUE]
    OBVIOUS
  <2>3. a \in IPAnswerSet
    BY DEF IPAnswers, IPAnswerSet
  <2>4. b \in RequestSet /\ c \in RequestSet
    BY <1>1, <2>1, <2>2, <2>3 DEF RequestSet
  <2>5. \A x \in {b, c} : x.charged = {} /\ x.dims \in Inputs
    <3>1. b.charged = {} /\ b.dims \in Inputs
      BY <1>1, <2>1, UpdatesKeep
    <3>2. c.charged = {} /\ c.dims \in Inputs
      BY <2>2, <2>4, <3>1, UpdatesKeep
    <3> QED
      BY <3>1, <3>2
  <2>6. PICK e : e = AfterIP(b, a)
    OBVIOUS
  <2>7. \E x \in {b, c} : \/ e = [x EXCEPT !.pc = "rules"]
                         \/ \E resp, reason : e = Answer(x, resp, reason)
    BY <2>2, <2>3, <2>6, Zenon DEF AfterIP, IPAnswerSet
  <2>8. e.charged = {} /\ e.dims \in Inputs
    <3>1. PICK x \in {b, c} : \/ e = [x EXCEPT !.pc = "rules"]
                            \/ \E resp, reason : e = Answer(x, resp, reason)
      BY <2>7
    <3>2. x \in RequestSet /\ x.charged = {} /\ x.dims \in Inputs
      BY <2>4, <2>5
    <3>3. e.charged = x.charged /\ e.dims = x.dims
      BY <3>1, <3>2 DEF Answer, RequestSet
    <3> QED
      BY <3>2, <3>3
  <2>9. Named(e)
    BY <1>2, <2>8
  <2> QED
    BY <1>4, <2>1, <2>6, <2>9, NamedStep
<1> QED
  BY <1>3, <1>4 DEF AllowRules, Begun, r

LEMMA EvaluateNamed ==
  ASSUME ApiInv, NamedInv, NEW q \in Requests, Evaluate(q)
  PROVE  NamedInv'
<1> DEFINE r == req[q]
<1>1. r \in RequestSet /\ Named(r)
  BY DEF ApiInv, NamedInv
<1>2. ASSUME NEW e, e.rules = r.rules, e.dims = r.dims, e.charged = r.charged,
             r.pc = "rules", req' = [req EXCEPT ![q] = e]
      PROVE  NamedInv'
  <2>1. Named(e)
    BY <1>1, <1>2, NamedKept
  <2> QED
    BY <1>2, <2>1, NamedStep
<1>3. CASE SkipDisabled(q)
  <2>1. PICK e : e = IF Len(r.rules) = 1 THEN Answer(r, "error", "rule_disabled")
                                         ELSE [r EXCEPT !.next = AfterDisabled(r)]
    OBVIOUS
  <2>2. e.rules = r.rules /\ e.dims = r.dims /\ e.charged = r.charged
    BY <1>1, <2>1, UpdatesKeep
  <2>3. r.pc = "rules" /\ req' = [req EXCEPT ![q] = e]
    BY <1>3, <2>1 DEF SkipDisabled, InLoop
  <2> QED
    BY <1>2, <2>2, <2>3
<1>4. CASE Granted(q)
  <2>1. PICK k \in Keys :
          /\ Asks(q, k)
          /\ req' = [req EXCEPT ![q] =
                       [r EXCEPT !.anyRule = TRUE, !.next = @ + 1,
                                 !.minRemaining = Least(r, left'[k]),
                                 !.charged = @ \cup {<<r.next, left'[k]>>}]]
    BY <1>4 DEF Granted
  <2>2. PICK i, l, c : i = r.next + 1 /\ l = Least(r, left'[k])
                       /\ c = r.charged \cup {<<r.next, left'[k]>>}
    OBVIOUS
  <2>3. PICK e : e = [r EXCEPT !.anyRule = TRUE, !.next = i, !.minRemaining = l, !.charged = c]
    OBVIOUS
  <2>4. req' = [req EXCEPT ![q] = e]
    BY <1>1, <2>1, <2>2, <2>3 DEF RequestSet
  <2>5. e.rules = r.rules /\ e.dims = r.dims /\ e.charged = c
    BY <1>1, <2>3, UpdatesKeep
  <2>6. Charged(e) = Charged(r) \cup {r.next}
    <3>1. <<r.next, left'[k]>>[1] = r.next
      OBVIOUS
    <3> QED
      BY <2>2, <2>5, <3>1, Zenon DEF Charged
  <2>7. r.next \in 1..Len(r.rules) /\ ValidateDims(r.rules[r.next], r.dims)
    BY <1>1, <2>1 DEF Asks, InLoop, HasLimiter, Rule, RequestSet
  <2>8. r.dims \in Inputs
    BY <1>1, <2>1 DEF Named, Asks, InLoop
  <2>9. Named(e)
    BY <1>1, <2>5, <2>6, <2>7, <2>8 DEF Named
  <2> QED
    BY <2>4, <2>9, NamedStep
<1>5. CASE Denied(q)
  <2>1. PICK c : c = r.refused \cup {r.next}
    OBVIOUS
  <2>2. PICK a : a = AfterDenial(r)
    OBVIOUS
  <2>3. PICK e : e = [a EXCEPT !.anyRule = TRUE, !.refused = c]
    OBVIOUS
  <2>4. /\ a \in RequestSet /\ a.rules = r.rules /\ a.dims = r.dims /\ a.charged = r.charged
        /\ a.refused = r.refused
    <3>1. "limited" \in Reasons
      BY DEF Reasons
    <3> QED
      BY <1>1, <2>2, <3>1, AnswerFields, UpdatesKeep DEF AfterDenial
  <2>5. e.rules = r.rules /\ e.dims = r.dims /\ e.charged = r.charged
    BY <2>3, <2>4 DEF RequestSet
  <2>6. r.pc = "rules" /\ req' = [req EXCEPT ![q] = [AfterDenial(r) EXCEPT !.anyRule = TRUE,
                                                      !.refused = @ \cup {r.next}]]
    BY <1>5 DEF Denied, Asks, InLoop
  <2>7. req' = [req EXCEPT ![q] = e]
    BY <2>1, <2>2, <2>3, <2>4, <2>6 DEF RequestSet
  <2> QED
    BY <1>2, <2>5, <2>6, <2>7
<1>6. CASE Fails(q)
  <2>1. PICK c \in SUBSET Nat : c = r.failed \cup {r.next}
    BY <1>1 DEF RequestSet
  <2>2. PICK f : f = [r EXCEPT !.anyRule = TRUE, !.anyError = TRUE, !.failed = c]
    OBVIOUS
  <2>3. PICK e : e = AfterError(f)
    OBVIOUS
  <2>4. f.rules = r.rules /\ f.dims = r.dims /\ f.charged = r.charged
    BY <1>1, <2>2, UpdatesKeep
  <2>5. f \in RequestSet
    BY <1>1, <2>1, <2>2 DEF RequestSet
  <2>6. PICK i : i = f.next + 1
    OBVIOUS
  <2>7. e = [f EXCEPT !.next = i] \/ e = Answer(f, "deny", "fail_closed")
    BY <2>3, <2>5, <2>6 DEF AfterError, RequestSet
  <2>8. e.rules = r.rules /\ e.dims = r.dims /\ e.charged = r.charged
    BY <2>4, <2>5, <2>7 DEF Answer, RequestSet
  <2>9. r.pc = "rules" /\ req' = [req EXCEPT ![q] = e]
    BY <1>1, <1>6, <2>1, <2>2, <2>3 DEF Fails, InLoop, RequestSet
  <2> QED
    BY <1>2, <2>8, <2>9
<1>7. CASE Finish(q)
  <2>1. PICK reason, e :
          /\ r.pc = "rules" /\ req' = [req EXCEPT ![q] = e]
          /\ \/ e = Answer(r, "allow", reason)
             \/ e = [Answer(r, "allow", reason) EXCEPT !.remaining = Remaining(r)]
    BY <1>7 DEF Finish
  <2>2. PICK a : a = Answer(r, "allow", reason)
    OBVIOUS
  <2>3. /\ a.rules = r.rules /\ a.dims = r.dims /\ a.charged = r.charged
        /\ \A n : LET b == [a EXCEPT !.remaining = n] IN
                 b.rules = a.rules /\ b.dims = a.dims /\ b.charged = a.charged
    BY <1>1, <2>2, UpdatesKeep DEF Answer
  <2>4. e.rules = r.rules /\ e.dims = r.dims /\ e.charged = r.charged
    <3>1. CASE e = a
      BY ONLY <2>3, <3>1
    <3>2. CASE e = [a EXCEPT !.remaining = Remaining(r)]
      BY ONLY <2>3, <3>2
    <3> QED
      BY ONLY <2>1, <2>2, <3>1, <3>2
  <2> QED
    BY <1>2, <2>1, <2>4
<1> QED
  BY <1>3, <1>4, <1>5, <1>6, <1>7 DEF Evaluate

LEMMA NamedInvariance == ApiSpec => []NamedInv
<1>1. Named(Idle)
  BY DEF Named, Charged, Idle
<1>2. ApiInit => NamedInv
  BY <1>1 DEF ApiInit, Init, NamedInv
<1>3. ApiInv /\ NamedInv /\ [ApiNext]_apiVars => NamedInv'
  <2> SUFFICES ASSUME ApiInv, NamedInv, [ApiNext]_apiVars
               PROVE  NamedInv'
    OBVIOUS
  <2>1. ASSUME NEW q \in HttpRequests, AllowLogic(q)
        PROVE  NamedInv'
    <3>1. PICK i \in Ids, d \in Given :
            Passes(i) /\ AllowRules(q, <<snapshot[i]>>, Completed(d))
      BY <2>1 DEF AllowLogic
    <3>2. PICK rules, dims : rules = <<snapshot[i]>> /\ dims = Completed(d)
      OBVIOUS
    <3>3. rules \in Seq(Rules) /\ dims \in Inputs
      BY <3>1, <3>2 DEF Passes, ApiInv, Given
    <3> QED
      BY <3>1, <3>2, <3>3, AllowRulesNamed, ApiAssumption
  <2>2. ASSUME NEW q \in Requests, Begin(q)
        PROVE  NamedInv'
    BY <2>2, AllowRulesNamed, EngineAssumption DEF Begin
  <2>3. ASSUME NEW q \in Requests, Evaluate(q)
        PROVE  NamedInv'
    BY <2>3, EvaluateNamed
  <2>4. ASSUME NEW q \in Requests, Done(q)
        PROVE  NamedInv'
    BY <1>1, <2>4, NamedStep DEF Done
  <2>5. CASE UNCHANGED req
    BY <2>5 DEF NamedInv, Named, Charged
  <2> QED
    BY <2>1, <2>2, <2>3, <2>4, <2>5
       DEF ApiNext, EngineStep, Refill, UpsertRule, apiVars, vars
<1> QED
  BY <1>2, <1>3, ApiInvariance, PTL DEF ApiSpec

-----------------------------------------------------------------------------
(* The theorems.  They hold for requests that come by HTTP and for those that  *)
(* call AllowRules with several rules, together, while rules are replaced.     *)

\* Every field of a request, and every limiter, has the values it can have in the code.
THEOREM TypeCorrect == ApiSpec => []TypeOK
<1>1. ApiInv => TypeOK
  <2> SUFFICES ASSUME ApiInv, NEW q \in Requests
               PROVE  /\ req[q].pc \in {"idle", "rules", "done"}
                      /\ req[q].rules \in Seq(Rules)
                      /\ req[q].next \in 1..(Len(req[q].rules) + 1)
                      /\ req[q].resp \in {"none", "allow", "deny", "error"}
                      /\ req[q].minRemaining >= NoMinimum /\ req[q].remaining \in Nat
    BY DEF ApiInv, TypeOK
  <2>1. req[q] \in RequestSet /\ req[q].next <= Len(req[q].rules) + 1
    BY DEF ApiInv, Sound
  <2> QED
    BY <2>1 DEF RequestSet, NoMinimum
<1> QED
  BY <1>1, ApiInvariance, PTL

\* AllowRules lets nothing through that some enabled rule of its list has not charged,
\* unless its limiter failed under fail-open, and then the answer says so.
THEOREM NoFreePass == ApiSpec => []AllowedIsPaid
<1>1. ApiInv => AllowedIsPaid
  <2> SUFFICES ASSUME ApiInv, NEW q \in Requests
               PROVE  PaidFor(req[q])
    BY DEF AllowedIsPaid, PaidFor, Accounted
  <2>1. Sound(req[q])
    BY DEF ApiInv
  <2> QED
    BY <2>1 DEF Sound, Looping, Answered, PaidFor, RequestSet, Idle
<1> QED
  BY <1>1, ApiInvariance, PTL

\* A denial by a rule costs a token of each enabled rule before it, and no other.
THEOREM CostOfDenial == ApiSpec => []DeniedCost
<1>1. ApiInv => DeniedCost
  <2> SUFFICES ASSUME ApiInv, NEW q \in Requests, NEW n \in req[q].refused
               PROVE  Accounted(req[q], n)
    BY DEF DeniedCost, Accounted
  <2>1. Sound(req[q])
    BY DEF ApiInv
  <2> QED
    BY <2>1 DEF Sound, Looping, Answered, RequestSet, Idle
<1> QED
  BY <1>1, ApiInvariance, PTL

\* The remaining count that AllowRules returns is the least any of its rules reported.
THEOREM StrictestRuleReported == ApiSpec => []StrictestRemaining
<1>1. ApiInv => StrictestRemaining
  <2> SUFFICES ASSUME ApiInv, NEW q \in Requests,
                      req[q].resp = "allow", req[q].charged # {}
               PROVE  LeastReported(req[q], req[q].remaining)
    BY DEF StrictestRemaining, LeastReported
  <2>1. Sound(req[q])
    BY DEF ApiInv
  <2> QED
    BY <2>1 DEF Sound, Looping, Answered, RequestSet, Idle
<1> QED
  BY <1>1, ApiInvariance, PTL

\* No denial without a list, an empty limiter or an error under fail-closed behind it.
THEOREM NoGroundlessDenial == ApiSpec => []DeniedForCause
<1>1. ApiInv => DeniedForCause
  <2> SUFFICES ASSUME ApiInv, NEW q \in Requests
               PROVE  HasCause(req[q])
    BY DEF DeniedForCause, HasCause
  <2>1. Sound(req[q])
    BY DEF ApiInv
  <2> QED
    BY <2>1 DEF Sound, Looping, Answered, HasCause, RequestSet, Idle
<1> QED
  BY <1>1, ApiInvariance, PTL

\* POST /v1/allow never answers 500 for a rule disabled while the request is on its way.
THEOREM DisabledRuleIsNoServerError == ApiSpec => []NoServerError
<1>1. ApiInv => NoServerError
  <2> SUFFICES ASSUME ApiInv, NEW q \in HttpRequests, req[q].pc = "done"
               PROVE  Status(req[q]) # 500
    BY DEF NoServerError
  <2>1. q \in Requests
    BY ApiAssumption
  <2>2. Sound(req[q]) /\ req[q].resp # "error"
    BY <2>1 DEF ApiInv, HttpSound
  <2>3. req[q].resp \in {"allow", "deny"}
    BY <2>2 DEF Sound, Answered, RequestSet
  <2>4. CASE req[q].resp = "allow"
    <3>1. Status(req[q]) = 200
      BY <2>4 DEF Status
    <3> QED
      BY <3>1
  <2>5. CASE req[q].resp = "deny"
    <3>1. Status(req[q]) = 429
      BY <2>5 DEF Status
    <3> QED
      BY <3>1
  <2> QED
    BY <2>3, <2>4, <2>5
<1> QED
  BY <1>1, ApiInvariance, PTL

\* Two requests are charged by the same limiter only if they agree in every dimension of
\* the rule, or if a blank has moved from one dimension to another.
THEOREM NoSharedLimiter == ApiSpec => []OwnLimiter
<1>1. ApiInv /\ NamedInv => OwnLimiter
  <2> DEFINE Own(r1, d1, r2, d2) ==
        r1.dims = r2.dims /\ Key(r1, d1) = Key(r2, d2)
          => \/ Values(r1, d1) = Values(r2, d2)
             \/ BlankMoved(Values(r1, d1), Values(r2, d2))
  <2> SUFFICES ASSUME ApiInv, NamedInv
               PROVE  \A q1, q2 \in Requests :
                        \A n1 \in Charged(req[q1]), n2 \in Charged(req[q2]) :
                          Own(req[q1].rules[n1], req[q1].dims,
                              req[q2].rules[n2], req[q2].dims)
    BY DEF OwnLimiter
  <2> TAKE q1, q2 \in Requests
  <2> TAKE n1 \in Charged(req[q1]), n2 \in Charged(req[q2])
  <2>1. ASSUME NEW q \in Requests, NEW n \in Charged(req[q])
        PROVE  /\ req[q].rules[n] \in Rules /\ req[q].dims \in Inputs
               /\ ValidateDims(req[q].rules[n], req[q].dims)
    <3>1. Named(req[q]) /\ Sound(req[q]) /\ req[q] \in RequestSet
      BY DEF ApiInv, NamedInv
    <3>2. req[q].pc # "idle"
      BY <3>1 DEF Sound, Idle, Charged
    <3> QED
      BY <3>1, <3>2 DEF Named, RequestSet
  <2>2. PICK r1 \in Rules, d1 \in Inputs :
          r1 = req[q1].rules[n1] /\ d1 = req[q1].dims /\ ValidateDims(r1, d1)
    BY <2>1
  <2>3. PICK r2 \in Rules, d2 \in Inputs :
          r2 = req[q2].rules[n2] /\ d2 = req[q2].dims /\ ValidateDims(r2, d2)
    BY <2>1
  <2>4. Own(r1, d1, r2, d2)
    <3> SUFFICES ASSUME r1.dims = r2.dims, Key(r1, d1) = Key(r2, d2),
                        ~BlankMoved(Values(r1, d1), Values(r2, d2))
                 PROVE  Values(r1, d1) = Values(r2, d2)
      OBVIOUS
    <3>1. HashDims(r1, d1) = HashDims(r2, d2)
      BY DEF Key
    <3> QED
      BY <2>2, <2>3, <3>1, HashTellsApart
  <2> QED
    BY <2>2, <2>3, <2>4
<1> QED
  BY <1>1, ApiInvariance, NamedInvariance, PTL
=============================================================================
