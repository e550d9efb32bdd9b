------------------------------- MODULE Router ------------------------------
(***************************************************************************)
(* Which rules a request is under: an index of the rules by path (exact,   *)
(* prefix, wildcard) that is built aside and replaces the one in use, and  *)
(* goroutines that match requests, whose client is resolved from their     *)
(* headers, against the index they have loaded.                            *)
(*                                                                         *)
(* Paths and patterns are sequences of letters.  Methods and client kinds  *)
(* stand for what TrimSpace and folding of case make of them.              *)
(***************************************************************************)
EXTENDS Integers, Sequences, FiniteSets

CONSTANTS
  Goroutines,   \* those that call Match
  RuleMaps,     \* the rule maps an index is built from, each a set of
                \* [id, enabled, match, methods, client, priority]
  Requests      \* [path, method, user, apiKey]: the last two say whether the headers
                \* are there

\* BuildRuleMap: a rule has its identifier to itself.
ASSUME RouterAssumption ==
  /\ \A m \in RuleMaps : IsFiniteSet(m) /\ \A r1, r2 \in m : r1.id = r2.id => r1 = r2
  /\ \A m \in RuleMaps : \A r \in m : /\ r.id \in Nat /\ r.priority \in Int
                                    /\ r.enabled \in BOOLEAN /\ r.match \in Seq(STRING)
  /\ \A q \in Requests : q.path \in Seq(STRING)

VARIABLES
  inUse,      \* the index in use (rcu.Snapshot)
  next,       \* the index that is being built
  todo,       \* the rules still to be put into it
  matcher     \* where each Match is

routerVars == <<inUse, next, todo, matcher>>

Prefixes(path) == {SubSeq(path, 1, n) : n \in 0..Len(path)}

\* The lists of an index: one for each path of the map Exact, one for each node of the
\* trie, named by the prefix that leads to it, and the list Wildcard.
Exact(path)  == <<"exact", path>>
Node(prefix) == <<"prefix", prefix>>
Wildcard     == <<"wildcard", <<>>>>

\* History: of, the rules that the index is built from.
NewIndex(rules) == [lists |-> [l \in {Node(<<>>), Wildcard} |-> <<>>], of |-> rules]

Idle == [pc |-> "idle", ctx |-> {}, snap |-> NewIndex({}), found |-> {}, res |-> <<>>]

RouterInit ==
  /\ inUse = NewIndex({}) /\ next = NewIndex({}) /\ todo = {}
  /\ matcher = [g \in Goroutines |-> Idle]

-----------------------------------------------------------------------------
(* Bodies a bug could have given the definitions below. *)

SnapshotInUse(rules) == [inUse EXCEPT !.of = rules]

InnerNodes(lists, path) == {p \in Prefixes(path) \ {path} : Node(p) \in DOMAIN lists}

ByPriority(r1, r2) == r1.priority >= r2.priority

-----------------------------------------------------------------------------
(* BuildRouteSnapshot. *)

IsWildcard(match) == match \in {<<>>, <<"*">>}

IsPrefix(match) == ~IsWildcard(match) /\ match[Len(match)] = "*"

\* The list that a rule belongs to.
Home(match) ==
  CASE IsWildcard(match)                       -> Wildcard
    [] IsPrefix(match)                         -> Node(SubSeq(match, 1, Len(match) - 1))
    [] ~IsWildcard(match) /\ ~IsPrefix(match)  -> Exact(match)

\* The lists that exist afterwards: trieNode.insert makes the nodes on the way.
Made(home) == IF home[1] = "prefix" THEN {Node(p) : p \in Prefixes(home[2])} ELSE {home}

ListAt(lists, l) == IF l \in DOMAIN lists THEN lists[l] ELSE <<>>

Inserted(lists, home, rule) ==
  [l \in DOMAIN lists \cup Made(home) |->
     IF l = home THEN Append(ListAt(lists, l), rule) ELSE ListAt(lists, l)]

Indexed(index, rule) ==
  IF rule.enabled
  THEN [lists |-> Inserted(index.lists, Home(rule.match), rule), of |-> index.of]
  ELSE index

\* A new index is begun, never the one in use: requests may be reading that one.
Fresh(rules) == NewIndex(rules)

Begin ==
  /\ todo = {} /\ next = inUse
  /\ \E rules \in RuleMaps : todo' = rules /\ next' = Fresh(rules)
  /\ UNCHANGED <<inUse, matcher>>

\* The rules come in the order of the iteration of a Go map: in any.
Insert ==
  /\ \E rule \in todo : todo' = todo \ {rule} /\ next' = Indexed(next, rule)
  /\ UNCHANGED <<inUse, matcher>>

Replace ==
  /\ todo = {} /\ next # inUse
  /\ inUse' = next
  /\ UNCHANGED <<next, todo, matcher>>

-----------------------------------------------------------------------------
(* Resolver.Resolve: the kind of the client. *)

\* Every request has an address to fall back on (X-Forwarded-For or RemoteAddr); of
\* the client Match uses the kind.
Resolve(request) ==
  CASE request.user                     -> "user"
    [] ~request.user /\ request.apiKey  -> "api_key"
    [] ~request.user /\ ~request.apiKey -> "ip"

-----------------------------------------------------------------------------
(* Match. *)

MatchMethod(methods, method) == methods = {} \/ {"*", method} \cap methods # {}

\* A client that is not empty is trimmed and compared: one of blanks only ("blank") is no
\* kind, so its rule is for nobody, while the empty one is for all.
MatchClient(client, kind) == client \in {"", kind}

\* A place in an index: a list and a position in it.
Places(lists, names) == UNION {{l} \X DOMAIN lists[l] : l \in names \cap DOMAIN lists}

RuleAt(lists, place) == lists[place[1]][place[2]]

FilterRules(lists, names, ctx) ==
  {p \in Places(lists, names) : /\ RuleAt(lists, p).enabled
                                /\ MatchMethod(RuleAt(lists, p).methods, ctx.method)
                                /\ MatchClient(RuleAt(lists, p).client, ctx.kind)}

\* trieNode.match passes the nodes of the prefixes of the path until there is none.
Passed(lists, path) == {p \in Prefixes(path) : Node(p) \in DOMAIN lists}

OfPath(lists, path) == {Exact(path)} \cup {Node(p) : p \in Passed(lists, path)}

\* Priorities fall, identifiers rise.
Before(r1, r2) ==
  \/ r1.priority > r2.priority
  \/ r1.priority = r2.priority /\ r1.id <= r2.id

\* The rules at the places, sorted.  The sort is stable, which makes no difference:
\* rules of one identifier are one rule.
Sorted(lists, places) ==
  LET order == CHOOSE s \in [1..Cardinality(places) -> places] :
                 /\ \A p \in places : \E n \in DOMAIN s : s[n] = p
                 /\ \A m, n \in DOMAIN s :
                      m < n => Before(RuleAt(lists, s[m]), RuleAt(lists, s[n]))
  IN  [n \in 1..Cardinality(places) |-> RuleAt(lists, order[n])]

Load(g) ==
  /\ matcher[g].pc = "idle"
  /\ \E q \in Requests :
       LET ctx == [path |-> q.path, method |-> q.method, kind |-> Resolve(q)] IN
       matcher' = [matcher EXCEPT ![g] =
                     [pc |-> IF ctx.path = <<>> THEN "wildcard" ELSE "path",
                      ctx |-> ctx, snap |-> inUse, found |-> {}, res |-> <<>>]]
  /\ UNCHANGED <<inUse, next, todo>>

\* The rules for the path, unless there is none.
MatchPath(g) ==
  LET m == matcher[g] IN
  /\ m.pc = "path"
  /\ matcher' = [matcher EXCEPT
       ![g].pc = "wildcard",
       ![g].found = FilterRules(m.snap.lists, OfPath(m.snap.lists, m.ctx.path), m.ctx)]
  /\ UNCHANGED <<inUse, next, todo>>

MatchWildcard(g) ==
  LET m == matcher[g] IN
  /\ m.pc = "wildcard"
  /\ matcher' = [matcher EXCEPT
       ![g].pc = "done",
       ![g].res = Sorted(m.snap.lists,
                         m.found \cup FilterRules(m.snap.lists, {Wildcard}, m.ctx))]
  /\ UNCHANGED <<inUse, next, todo>>

Done(g) ==
  /\ matcher[g].pc = "done"
  /\ matcher' = [matcher EXCEPT ![g] = Idle]
  /\ UNCHANGED <<inUse, next, todo>>

RouterNext ==
  \/ Begin \/ Insert \/ Replace
  \/ \E g \in Goroutines : Load(g) \/ MatchPath(g) \/ MatchWildcard(g) \/ Done(g)

RouterSpec == RouterInit /\ [][RouterNext]_routerVars

-----------------------------------------------------------------------------
(* Properties. *)

Listed(rules) == {rules[n] : n \in DOMAIN rules}

\* Every variable has the values its field in the code can have.
RouterTypeOK ==
  /\ inUse.of \in RuleMaps \cup {{}} /\ next.of \in RuleMaps \cup {{}}
  /\ todo \subseteq next.of
  /\ \A index \in {inUse, next} : \A l \in DOMAIN index.lists :
       /\ Listed(index.lists[l]) \subseteq index.of
       /\ Made(l) \subseteq DOMAIN index.lists
  /\ \A g \in Goroutines : matcher[g].pc \in {"idle", "path", "wildcard", "done"}

Covers(match, path) ==
  \/ IsWildcard(match)
  \/ path # <<>> /\ match = path
  \/ path # <<>> /\ IsPrefix(match) /\ SubSeq(match, 1, Len(match) - 1) \in Prefixes(path)

Applies(rule, ctx) ==
  /\ rule.enabled /\ Covers(rule.match, ctx.path)
  /\ MatchMethod(rule.methods, ctx.method) /\ MatchClient(rule.client, ctx.kind)

\* A request is under exactly the rules that apply to it, each once, of one version
\* of the rules: no index and no order of building it loses or repeats one.
RightRules ==
  \A g \in Goroutines :
    LET m == matcher[g] IN
    m.pc = "done" => /\ Listed(m.res) = {r \in m.snap.of : Applies(r, m.ctx)}
                     /\ Len(m.res) = Cardinality(Listed(m.res))

\* The order in which rules are evaluated, and so which of them denies first, is the
\* same on every instance: it does not depend on the order of a Go map.
SameOrderEverywhere ==
  \A g, h \in Goroutines :
    LET m == matcher[g]  n == matcher[h] IN
    m.pc = "done" /\ n.pc = "done" /\ m.ctx = n.ctx /\ m.snap.of = n.snap.of
      => m.res = n.res
=============================================================================
