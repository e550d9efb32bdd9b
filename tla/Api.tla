-------------------------------- MODULE Api --------------------------------
(***************************************************************************)
(* The HTTP server over the engine and one instance's rule snapshot:       *)
(* POST /v1/allow, and POST and PUT of rules that replace the snapshot     *)
(* while other requests are on their way.  The remaining requests call     *)
(* AllowRules with several rules, as a gateway would.  How an Upsert       *)
(* reaches Redis and other instances is in RuleCache.                      *)
(***************************************************************************)
EXTENDS Engine

CONSTANTS
  HttpRequests,  \* those of Requests that come by HTTP
  Ids,           \* identifiers of rules that requests and administrators name
  RemoteDims     \* what a request says of itself: the ip and the route

ASSUME ApiAssumption ==
  /\ HttpRequests \subseteq Requests
  /\ DOMAIN RemoteDims = {"ip", "route"}

VARIABLE snapshot   \* the rule map that requests read

apiVars == <<vars, snapshot>>

\* The rules that were there at start-up are in the map under their identifiers.
ApiInit ==
  /\ Init
  /\ \E S \in SUBSET Ids :
       snapshot \in {f \in [S -> Rules] : \A i \in S : f[i].id = i}

-----------------------------------------------------------------------------
(* Bodies a bug could have given the definitions below. *)

ChecksPresenceOnly(i) == i \in DOMAIN snapshot

-----------------------------------------------------------------------------
(* allowLogic. *)

\* The ip and the route of the request stand in for dimensions it does not name.
Completed(dims) == [n \in DOMAIN dims \cup DOMAIN RemoteDims |->
                      IF n \in DOMAIN dims THEN dims[n] ELSE RemoteDims[n]]

\* Neither 404 (Rule not found) nor 403 (Rule is disabled).
Passes(i) == i \in DOMAIN snapshot /\ snapshot[i].enabled

\* What requests may name; the engine gets the dimensions completed.
Given == {d \in Inputs : Completed(d) \in Inputs}

\* The rule is read once: the engine works on the copy that was checked.  A request
\* that is refused here, or whose body is bad (400), changes nothing.
AllowLogic(q) ==
  /\ \E i \in Ids, d \in Given :
       Passes(i) /\ AllowRules(q, <<snapshot[i]>>, Completed(d))
  /\ UNCHANGED snapshot

\* The status of the answer.
Status(r) == CASE r.resp = "allow" -> 200
               [] r.resp = "deny"  -> 429
               [] r.resp = "error" -> 500

-----------------------------------------------------------------------------
(* createRuleHandler and updateRuleHandler. *)

\* A rule is stored under its identifier, which POST has in the body and PUT in the
\* path.
Upserted(rule) == [i \in DOMAIN snapshot \cup {rule.id} |->
                     IF i = rule.id THEN rule ELSE snapshot[i]]

UpsertRule ==
  /\ \E rule \in Rules : rule.id \in Ids /\ snapshot' = Upserted(rule)
  /\ UNCHANGED vars

-----------------------------------------------------------------------------

EngineStep ==
  /\ \/ \E q \in Requests \ HttpRequests : Begin(q)
     \/ \E q \in Requests : Evaluate(q) \/ Done(q)
     \/ Refill
  /\ UNCHANGED snapshot

ApiNext ==
  \/ \E q \in HttpRequests : AllowLogic(q)
  \/ EngineStep
  \/ UpsertRule

ApiSpec == ApiInit /\ [][ApiNext]_apiVars

-----------------------------------------------------------------------------
(* Properties. *)

\* The engine's "rule is disabled" is never the answer to an HTTP request, though
\* the rule may be disabled while the request is on its way: the version that was
\* found enabled is the one that is evaluated.
NoServerError ==
  \A q \in HttpRequests : req[q].pc = "done" => Status(req[q]) # 500
=============================================================================
