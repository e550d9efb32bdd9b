# Verification of Pixiu-RLS

TLA+ models of Pixiu-RLS, a rate limit service: an HTTP server answers "may this
request pass?" by rules, with the counters in Redis and the rules in Redis or in a
Nacos document. Each module is translated from the Go and Lua source; `PROJECT.json`
maps every definition to the lines it stands for and lists every hazard with the
properties aimed at it.

## 1. The system

    POST /v1/allow ─► api.allowLogic ─► rules.Cache.Get      (one atomic snapshot load)
                          │
                          └─► core.Engine.AllowRules
                                 ├─ IPListCache.CheckIP      L1 in memory, then Redis
                                 ├─ limiter per rule          EVAL of a Lua script on one key
                                 └─ IPListCache.RecordDeny    INCR, SET, PUBLISH on a denial
    POST/PUT /v1/rules ─► rules.Cache.Upsert                  SET, copy the snapshot, PUBLISH

    Redis mode:  Bootstrap, then StartWatcher: reload on a message or after 60 s
    Nacos mode:  SyncOnce, then Poller.Start: fetch at every tick, replace if the MD5 changed

| Component (source) | State | Operations | What makes it correct |
|---|---|---|---|
| Token bucket (`limiter/tokenbucket.go`, `script.lua`) | Redis hash `tokens`, `last_refill`, its expiry | `Allow` = one EVAL with the caller's `now_ms` | no more is granted than a bucket of `limit + burst` refilled at `limit / windowMs` can pay; a hint when to come again |
| Leaky bucket (`limiter/leaky.go`, `ScriptLeaky`) | hash `level`, `last_ts`, expiry | `Allow` | what leaks, leaks at a constant rate |
| Sliding window (`limiter/sliding.go`, `ScriptSliding`) | sorted set of milliseconds, expiry | `Allow` | a bound on any window |
| Rule cache (`rules/cache.go`, `rcu/snapshot.go`) | rules in Redis, a snapshot per instance, a Pub/Sub channel | `Bootstrap`, `ReloadAll`, `StartWatcher`, `Upsert`, `Get` | instances hold what Redis holds, at the latest when writes have ended |
| Poller (`rules/poller.go`, `rules/source/nacos.go`) | the snapshot, `lastVer` | `SyncOnce`, `Start`, `pull`, `handleFailure` | one document at a time; the last good one on errors; the newest one in the end |
| IP lists (`core/iplist_cache.go`) | sets and keys with TTLs in Redis, an L1 map per instance | `CheckIP`, `RecordDeny`, `watchUpdates` | a banned IP does not get through; no cached answer outlives its TTL |
| Engine (`core/engine.go`) | none of its own | `AllowRules` | every enabled rule is asked and charged; errors follow the fail policy |
| Mux, dimensions (`limiter/mux.go`, `util/dim.go`) | none | `Mux.Allow`, `HashDims` | requests that differ in a dimension of a rule have limiters of their own |
| Quota (`core/quota.go`) | hour and day counters in Redis; breaker state and time | `CheckAndIncr`, the breaker's callbacks | no hour and no day grants more than its quota; Quota opens again when Redis works; nothing in `cmd/` builds one |
| Router, identity (`router/`, `identity/`) | index of the rules by path | `BuildRouteSnapshot`, `Replace`, `Match`, `Resolve` | exactly the rules that apply, in the same order everywhere; the server does not use it yet |
| API (`api/`) | none | `allowLogic`, POST, GET and PUT of rules | the version of a rule that was checked is the one that is evaluated |
| Repository, configuration, main | connections | | start-up order, exits |

What is hard here, and why tests hardly reach it:

- the scripts trust `now_ms`, read on an instance before the EVAL is queued, sent,
  retried or overtaken, while Redis expires their keys by its own clock;
- a failed Redis call may have been executed, and the client sends calls again;
- snapshots are read, copied and replaced without a lock by HTTP handlers, the
  watcher and the poller;
- update messages are lost, or arrive during a reload, and replicas lag;
- the L1 is filled after Redis was read, while others clear, expire and fill it;
- the breaker calls Quota back without a lock, so that callbacks of successive changes
  interleave, and a request reads the state and the time they store one after the other;
- keys of hours and days are named by the callers' clocks and expire by Redis's;
- several rules charge a request one after the other, and any of them may fail or deny.

## 2. Modules

| Module | Models |
|---|---|
| `Arith` | `math.min` and `math.max` of the scripts |
| `IdealBucket` | abstract specification of both bucket limiters: one bucket whose time never runs backwards, one request per step, which may be forgotten only when nobody came for `Forget` ms |
| `TokenBucket` | one key, `script.lua`, and the callers of `TokenBucket.Allow` with retries and lost answers |
| `TokenBucketProofs` | theorems about `TokenBucket` |
| `LeakyBucket` | one key, `ScriptLeaky`, and `LeakyBucket.Allow` |
| `SlidingWindow` | one key, `ScriptSliding`, and `SlidingWindow.Allow` |
| `RuleCache` | Redis mode: shards and replicas, Pub/Sub, per instance the main/watcher goroutine and the writers |
| `RulePoller` | Nacos mode: one instance's poller and its writers |
| `IPList` | the lists, ban and counter of one IP in Redis, the L1s, concurrent `CheckIP` and `RecordDeny` |
| `Engine` | concurrent `AllowRules` over shared limiters, which rules and dimensions select |
| `Api` | the HTTP server: `Engine` composed with a rule snapshot that is replaced meanwhile |
| `QuotaCounters` | the hour and day counters, `quotaScript` and the retry hint |
| `QuotaBreaker` | `CheckAndIncr` around Redis, Sentinel's breaker, the listener and the ramp |
| `Router` | the index of rules by path, its replacement, concurrent `Match` |
| `...Proofs` | theorems about the module of that name; `EngineProofs` is about `Api`, which extends `Engine`, `QuotaProofs` about both Quota modules, `RuleProofs` about `RulePoller` and `Router` |
| `MC...` | definitions for TLC only |

`TokenBucket` and `LeakyBucket` instantiate `IdealBucket` and state that they implement
it, for every rule. `Api` extends `Engine` with the snapshot: its requests take their rule from there. `Engine` sees a
limiter as what its callers see of it and CheckIP as the answers it can give, which are
what `TokenBucket` and `IPList` describe in detail. `QuotaBreaker` sees the script of
`QuotaCounters` as a call that succeeds or fails.

### How state and actions correspond to the code

**TokenBucket.** `tokens`, `last`, `expireAt` are the hash and its expiry; `Eval` is the
whole script with its PEXPIRE and the answer, since Redis runs a script atomically.
Amounts are integers in units of 1/WindowMs token: a millisecond refills `Limit` units, a
request costs `WindowMs`. So the script's `limit / window_ms * elapsed` is exact; Lua's
floating point rounding is not modelled. `Allow` reads a clock (`NowMs`, off by up to
`MaxSkew`) and sends; `Retry` is the Redis client's second send of the same arguments;
`GiveUp` is an error of Eval, after which its copies may still be executed. `wire` is a
set: EVALs are executed in any order. `late` is a history variable: by how much
executions were behind the time the bucket had reached already. The script refills
nothing for such an execution (`math.max(0, ...)`), but sets `last_refill` back.

**LeakyBucket, SlidingWindow.** The same, with less detail of the callers: a request is
sent with the number of copies that will be executed, or stays on the wire to be executed
again. In `SlidingWindow` an EVAL is executed within `MaxDelay`, which covers a clock that
is slow as well as a slow network. Neither models the remaining count of the answer.

**RuleCache.** A rule's content is a version number. `watcher[i]` walks through
`BootExists`, `BootSet`, `BootLoad`, `Scan`, `GetRule`, `ReplaceAll`, `Subscribe`, then
`OnMessage` or `Fallback` and again `Scan`...: one step per Redis call, because between any
two of them other instances act. An Upsert is `UpsertSet`, `UpsertLoad`, `UpsertReplace`,
`UpsertPublish`: one step per Redis call or access to the snapshot's atomic pointer.
Failures (`ScanFails`, `GetFails`, `UpsertSetFails`, `UpsertPublishFails`, and `Start` for an exit or
crash with restart) share the budget `MaxFaults`. `Scan` gets the keys of one shard: the
client is a `redis.ClusterClient`, whose SCAN goes to one node, and the code does not
iterate over the masters. One page of SCAN is assumed to hold all keys of the node.
`gap` is a history variable: some message, rule or write went past some instance.

**RulePoller.** A document is its own version. `Fetch` is the HTTP request, `Skip` and `Apply`
the two ways on in `pull`, `FetchFails` an error with `handleFailure`. The first pull (`SyncOnce`
in main) comes before the server is up; the immediate second pull of `Start` is a `Fetch` like
those of the ticker. The Redis side of Upsert is left out, as nothing reads the rules of
Redis in Nacos mode. An Upsert takes any rule: one that no document defines, or one of the
document's own, which then has the API's content until the document changes.
`lost` is a history variable, with three causes: an Upsert wrote back an older copy of the
snapshot, an Upsert wrote a rule that the document defines, or `fail-closed` cleared the rules.

**IPList.** One IP, one step per access to Redis or to the L1's `sync.Map`, with `get`'s
deletion of an expired entry as a second step and `clear()` as one step per key. Times
are counted down, so that the state space is finite without a bound on time. A failed
INCR or SET may have been executed. EXISTS and SISMEMBER are answered by the nearest node
(`RouteByLatency`), which may be a replica that is up to `MaxLag` behind the master: `since`, how
long ago each claim about the lists was true, says what a node may answer (`Answers`) and is
also the history that the properties speak of. A replica that has not heard of a renewed ban
may hold the old one to be over (`BanUnheardOf`, which allows that answer from the renewal on).
`off` is history: the lists the IP was off, for some node, during the check. Clear messages that
wait together are one; the uncertain outcome of `RdSet` also stands for a ban by another instance.

**Engine, Api.** `req[q]` holds `AllowRules`' local variables; a step is one rule. `failPolicy` and
`hasRepo` are variables without a step, so that one run covers all configurations. A limiter
is selected by the normalised algorithm, the rule's identifier and the values of the rule's
dimensions, and counts what it may still grant; one that fails may have charged the
request. A value is a sequence of words, so that `HashDims`, which joins the values by blanks,
is modelled by what it identifies; FNV-1a is taken to have no collisions. `AllowLogic` is
`allowLogic` up to the engine: the ip and route that are filled in, the one read of the
snapshot, 404 and 403. `UpsertRule` is what other requests see of an Upsert on this
instance; its steps are in `RuleCache`. What `charged`, `refused` and `failed` note is history.

**QuotaCounters.** `KeyOf` is the name of the key, made from the caller's local time (`Offset` from
UTC, half hours included); `Eval` is the whole script, executed up to `MaxDelay` after `now` was read from a clock that
is up to `MaxSkew` ahead, and perhaps twice. `granted` and `denied` are history.

**QuotaBreaker.** Sentinel is external: `Entry` and `Exit` are what its breaker does around
`CheckAndIncr` (closed, open with a retry timeout, half open with one probe; whichever entry
exits first decides a half open breaker). A request that changes the breaker's state runs the
listener before it goes on, one step per atomic store (`StoreState`, `StoreTime`, `OnClosed`).
`ReadState` and `ReadTime` are the two loads of `getAllowedRatio`. A step of time is
`FiveSeconds`, the least interval the ramp distinguishes.

**Router.** `Begin`, one `Insert` per rule, in any order, and `Replace` are
`BuildRouteSnapshot` over a Go map and the publication of its result. An index is a function
from names of lists to lists: `Exact(path)` for an entry of the map, `Node(prefix)` for the node
of the trie to which the prefix leads, and `Wildcard`. `Made` are the nodes that `insert`
makes on its way. What `Match` has found so far is a set of places, each a list and a position
in it, so that a rule found twice would be returned twice; `Sorted` enumerates them. `Load`,
`MatchPath` and `MatchWildcard` are `Match` on the index it loaded; the kind of the client comes
from `Resolve`.

## 3. Runs

Everything is checked by TLC on small instances; each passing property has a
mutant in `PROJECT.json`, a plausible bug in one definition that violates it.

| Run | Shows | Bounds, and why they are enough |
|---|---|---|
| `TokenBucketRetries` | `ImplementsIdeal`, `AdmissionBound`, `LatenessIsDelay`, `RetryHintTight`: expiry, retries, lost and late answers give nothing away beyond the lateness and the shortfall, a late execution is charged with its own delay only, the hint is exact | `burst > limit`: capacity 3, rate 1/3 per ms, 4 EVALs: the bucket is emptied and one is denied; 7 ms: the key (TTL 6 ms) expires before it is full and is found full; clocks off by 1 ms; one caller suffices, as EVALs it gave up stay on the wire with later ones. With `Limit = 1` the hint needs no rounding; `HintIsTight` covers the others |
| `LeakyBucketRetries` | `ImplementsIdeal`, `ConstantRate` | a slow rule, one request in 5 ms with a grace of 2: 3 requests of up to 2 copies over 10 ms, the queue overflows by a fraction, drains or, when the key expires first, is forgotten |
| `SlidingWindowDelays` | `MillisecondsBounded`: delays and repetitions do not lose what has to be counted; `DeniedByRivals`: what is denied had as many rivals as the limit, which is what lets a client in again that stops asking | limit 2, window 4 ms, delay 2 ms, 5 requests in 8 ms: a window fills, denies and moves on |
| `SlidingWindowSameMs` | finding 3 | limit 2, no delay, 3 requests |
| `RuleCache` | `NeverInvented`; `QuietConsistent`: with the messages delivered, instances agree with Redis whenever nothing is under way, in spite of lost updates on the way there; `Converges`: the watcher's timer repairs what was lost | 2 instances, replicas that lag, a writer, 2 Upserts, 1 failure anywhere: an Upsert against the reloads of both instances, and both against a restart. One rule and one writer, for the sake of `Converges`. Larger instances pass, too: `Writers = {w1, w2}` without `Converges` (1.3 million states), with `Replicated = FALSE` also with it; `Rules = {r1, r2}`, `BootRules = {r1}`, `MaxWrites = 1`, `Replicated = FALSE`. The theorems of section 5 cover any number of both |
| `RuleCacheShards` | finding 1 | 2 shards with a rule each |
| `RulePollerEdits` | `OneDocument`, `LastGoodKept`, `Converges`, under both fail policies | 2 documents, one with a rule less, 3 edits: also back to the first before anyone noticed; 2 Upserts, of a document's rule or another, 2 failures or restarts |
| `RulePollerFailClosed` | finding 2 | no writers, 1 failure |
| `IPList` | `BannedIsDenied`, `StalenessBounded` for two concurrent requests of one instance | TTLs of 1 and 2 ticks, a store late by up to a tick, replicas behind by up to a tick, one edit of either list from every start: entries live, expire and are renewed; a store is delayed past an edit, a clear and an expiry, and what it stores was behind when it was read; a denial causes a ban, so that two requests renew it |
| `Api` | `AllowedIsPaid`, `DeniedCost`: who is charged, when a request is let through and when a later rule denies it; `StrictestRemaining`, `DeniedForCause`, `OwnLimiter` under both policies, with and without repository; `NoServerError`: a rule that is disabled meanwhile does no harm | a request by HTTP and one with lists of 0 to 3 rules, with a disabled rule alone, first and in the middle and one of an unknown algorithm; a request that names a user and two that do not, those two of the same words once joined (`ip = "x", route = "y z"` and `ip = "x y", route = "z"`); limiters of 2 tokens that refill |
| `Quota` | `QuotaBound`, `DeniedWhenUsedUp`, `HintExact` of the counters; `NeverShutForGood`, `Recovers` of the breaker. The two share no state: `MCQuota` lets one move while the other rests | counters: hours of 2 ticks, days of 4, quotas of 2 and 3, a time zone of half an hour; clocks ahead by 1, EVALs late by 1, 6 ticks: keys expire while late EVALs are still executed, an hour is used up, then the day. Breaker: 3 requests, of which one may change it while another is in a callback and a third reads; 2 errors of 3 open it; ramp and retry timeout in full |
| `Router` | `RightRules`: exactly the rules that apply, each once, of one version; `SameOrderEverywhere` | rules of all kinds of patterns and filters, two of one path, two of one priority, nested prefixes, a disabled one, one whose client is blank and matches nobody; paths shorter, equal and longer than patterns, and none; every order of building; 2 requests |

Symmetry is used in `IPList` and `Router`, which check safety properties only and whose
threads are interchangeable. `IPList.cfg` also has a `VIEW`: a decision is read by no later step, and
states that differ in past decisions only are one; the action properties, which speak of the
decision a step makes, are checked on every step. `CHECK_DEADLOCK FALSE` stands only where
clocks or numbers of requests are bounded by the model.

### Fairness

- `RuleCache`: weak fairness of `Watch(i)` (the goroutine runs and Redis answers; a minute
  passes), of `Continue(w)` (a handler that has begun an Upsert goes on) and of `Replicate`.
  Nobody has to write, and failures, which are bounded, are never forced.
- `RulePoller`: weak fairness of `Pull` (the ticker) and of `UpsertReplace`. Edits, failures and
  new Upserts are not forced.
- `QuotaBreaker`: weak fairness of `Continue(t)` (`runLua` ends after at most 100 ms), of time, and
  of some request's `Entry`: the breaker probes with requests, so it opens again only if they
  keep coming. Redis need not come back; `Recovers` is about the case that it does. In `MCQuota`
  this is required for as long as the counters rest.
- The other modules state safety only and have no fairness.

### Conditions under which the properties hold

The code does not check them. Where a rule, a value or a time zone decides, the property itself
says what is left without it, and its theorem has no hypothesis; the others are assumptions of
a theorem or values in a configuration:

- The token bucket's key lives two windows, in which it gains `2 * limit`. With `Burst > Limit`, as in
  `examples/nacos-rules.json`, it expires before it is full and the next request finds it full:
  `AdmissionBound` allows the difference, `Shortfall`, once in two windows (it is 0 otherwise),
  and `IdealBucket` is allowed to forget what nobody came for in that time.
- The leaky bucket's TTL does not count what an overflowing queue has beyond its length. If one request
  takes longer to leak than the second of grace (limit 1 per minute), the rest of it is
  forgotten: `ConstantRate` allows it, again as `Shortfall`, once in a TTL. `docs/API.md:490` promises a
  constant rate; `ForgottenIsLittle` bounds the difference by less than a request per expiry.
- `AdmissionBound` and `ConstantRate` count by the time the bucket has lived, `last + late`, not by
  the clock: an EVAL that is overtaken sets `last_refill` back, and the time in between is refilled
  twice. `LatenessIsDelay` bounds that for the token bucket by the EVAL's own delay plus the skew.
- In `RuleCache`, an Upsert between a starting instance's EXISTS and SET is overwritten by the
  configured rule; two Upserts that copied the same snapshot undo each other locally
  until the next reload. `QuietConsistent` and `Converges` say what holds nevertheless.
- In `RulePoller`, an Upsert that copied the snapshot before a new document was applied puts
  the old rules back, one of a rule the document defines replaces it, and `lastVer` keeps the
  poller from noticing either (`lost`). With `Writers = {w1}`, `MaxWrites = 1`, `MaxFaults = 0` in
  `RulePollerFailClosed.cfg` this violates `LatencyIsInterval` too.
- `MillisecondsBounded` counts milliseconds, since the script does (finding 3).
- `BannedIsDenied` is about an IP that every node knows to be banned, or blacklisted, during the check.
  For up to the lag of a replica after a ban or an edit, a check that this replica answers lets the IP
  through, and `StalenessBounded` grows by the lag.
- `OwnLimiter` excepts values between which a blank has moved from one dimension to another
  (`BlankMoved`): `HashDims` may join them to the same words. Two of the inputs of `MCApi` are such.
  Where no value has a blank, no two requests are excepted.
- `QuotaBound` needs `MaxSkew + MaxDelay` within the grace of the TTLs (ten minutes and an hour in
  the code); `HourGrace = 1, DayGrace = 1` in `Quota.cfg` violates it.
- `HintExact` excepts a time zone's fraction of an hour: `now.Truncate(time.Hour)` ignores the zone in
  which the key is named, and in India the hint for the hour is half an hour late or early.
- `NeverShutForGood` needs the callback of an opening to be done when its retry timeout (10 s) is:
  `PromptOpening = FALSE` in `Quota.cfg` violates it, and Quota stays shut behind a closed
  breaker until the process is restarted.
- The ramp of Quota, `getAllowedRatio`, is hardly ever used: the first entry that exits without an
  error while the breaker is half open closes it, even one that was throttled and never saw
  Redis, and a closed state has ratio 1 (`core/quota.go:104` speaks of a stepped release).
- POST of a rule reads the fields of the code, `rule_id` and `window_ms` (`api/http.go:19-28`);
  `docs/API.md:141` has `ruleId` and `windowMs`. A rule that is sent as documented is
  stored without an identifier, which no request can name.
- In `Engine`, with a repository every error of CheckIP denies, also under `fail-open`
  (`DeniedForCause` lists it): the fail-open branch for the IP lists is taken without one only.

## 4. Findings

1. `RuleCacheShards`: SCAN covers one node (`rules/cache.go:63`); an instance serves without
   the rules of the other shards.
2. `RulePollerFailClosed`: `handleFailure` clears the rules and keeps `lastVer`
   (`rules/poller.go:99`); when Nacos answers again with the same document it is skipped,
   and the instance has no rules until the next edit or restart.
3. `SlidingWindowSameMs`: the member of the sorted set is `now_ms` (`repo/lua.go:21`), so all requests of
   a key in one millisecond are one member and pass together, however many they are;
   `repo/lua.go:26` calls what ZCARD counts the number of requests, and `docs/API.md:488` calls the
   algorithm exact. `MillisecondsBounded` is what remains of it.

## 5. Proofs

TLAPS proves what follows for every value of the constants: every rule, any number of
callers, instances, writers, requests and failures, and however long it runs. The named
`ASSUME`s of the modules are what the code checks or what the constants mean; they are
evaluated in every run (that there is a rule, `Rules # {}` in `RuleCache`, only excludes a system in which
nothing can be written). Beyond them a theorem assumes what its row says, and section 3
tells what happens otherwise. Each proof has the same shape: the initial states satisfy an
inductive invariant, each action keeps it (a lemma per action where the step is not
obvious), and it implies the property.

`TokenBucketProofs`:

| Theorem | Assumes | Argument |
|---|---|---|
| `TypeCorrect` | | `TypeOK` is inductive: `RefillRange` keeps the bucket in `0..Capacity`, division gives naturals |
| `RefinesIdeal` | | refinement with `time = last + late`: `EvalServes` (an execution is a step of the ideal bucket: after an expiry two windows have passed in which nobody came, so that it may be a full one), all other actions stutter |
| `Bounded` | | each ideal step keeps grants + contents below capacity + rate * time + shortfalls (`ServeArithmetic`): `LackAtExpiry` bounds what one expiry gives away, `ForgottenMonotone` counts the expiries; `TypeOK` and `EvalServes` are the strengthening |
| `LatenessBounded` | | needs the strengthening `DelayInv`: every `now` on the wire, in a call or in the key is at most the clock plus the skew, and the expiry lies within a TTL of it |
| `HintIsTight` | | from `FloorDivision`: `a < b * (a \div b + 1)` and `b * (a \div b) <= a` |

`LeakyBucketProofs`:

| Theorem | Assumes | Argument |
|---|---|---|
| `TypeCorrect` | | `LeakedRange`: the level stays in `0..Full`, since a request is added only below the queue's length |
| `RefinesIdeal` | | the room in the queue, `Full - level`, is what an ideal bucket of capacity `Full` holds; a key that expired was not asked for during its TTL |
| `RateIsKept` | | each ideal step keeps grants - level below rate * time + shortfalls, as for the token bucket |
| `ForgottenIsLittle` | | arithmetic: what one expiry forgets is at most `Cost + Limit - 2 - Limit * Grace`, so nothing for rules with about one request per second or more |

`SlidingWindowProofs`:

| Theorem | Assumes | Argument |
|---|---|---|
| `TypeCorrect` | | with finiteness of the sets of milliseconds |
| `DenialNeedsRivals` | | `RivalInv`: the members of the sorted set are milliseconds that were asked for; what an EVAL counts are rivals of it |
| `WindowIsKept` | | `AdmittedInv`: the key outlives what was let through, and each admitted millisecond is `Remembered`, still a member of the set or out of every window that can still be asked about; `CountedAtLeast` compares cardinalities |

`RuleCacheProofs`:

| Theorem | Assumes | Argument |
|---|---|---|
| `TypeCorrect` | | strengthened by `Announced`: waiting messages and writers under way are no more than the writes |
| `EnforcedWasStored` | | `KnownInv`: also the replicas, what a watcher has collected and what a writer has copied were stored |
| `QuietMeansConsistent` | | `ConsistentInv`: as long as nothing went past an instance, each instance `WillHold` what Redis holds: a writer is under way, a message waits, its watcher has still to scan, has read nothing that is old, or holds it |

`RuleProofs`, about `RulePoller`:

| Theorem | Assumes | Argument |
|---|---|---|
| `TypeCorrect` | | `InHand`: who has fetched has a document, who has begun an Upsert has a rule |
| `OneDocumentAtATime` | | `OneDocumentInv`: also the copies that Upserts will put back are of one document, but for rules the API wrote (`UpsertKeepsDocument`) |
| `LastGoodIsKept` | | inductive with the types: what changes the documents' rules in the snapshot and keeps `lastVer` is a clearing, an old copy or a write of one of them, and raises `lost` |

`RuleProofs`, about `Router`. All three follow from `RouterInv`: the index in use is `Complete`, the one
that is being built has the rules of its version that are not still to be put into it
(`Built`), and a request has loaded a complete index and found its places in it.

| Theorem | Argument |
|---|---|
| `RouterTypeCorrect` | `Built` says what lists an index has and that they hold its rules only |
| `RulesAreRight` | `IndexedBuilt`: putting a rule into an index gives it exactly one place, in the list it belongs to (`HomeName`), and makes no list without the lists on the way to it (`MadeClosed`). `LookedCovers`: a rule covers a path if and only if `Match` looks at its list. So the places found are those of the rules that apply, one for each (`FoundRight`) |
| `OrderIsTheSame` | `BeforeOrders`: no two rules of one version are equal for `Before`. The rule at a position of a sorted enumeration is the one of that rank (`OrderIsRank`), so there is one (`OrderUnique`), and it exists (`OrderExists`) |

`EngineProofs`, over `Api`'s specification, that is with rules replaced meanwhile. All theorems
follow from one invariant, `ApiInv`: a request in the loop is `Looping` (the enabled rules before
`next` are those that charged it or failed, and `minRemaining` is the least they reported), one
that is done is `Answered`, and one by HTTP has the one rule that was enabled when it was read.

| Theorem | Property |
|---|---|
| `TypeCorrect` | `TypeOK` |
| `NoFreePass` | `AllowedIsPaid` |
| `CostOfDenial` | `DeniedCost` |
| `StrictestRuleReported` | `StrictestRemaining` |
| `NoGroundlessDenial` | `DeniedForCause` |
| `DisabledRuleIsNoServerError` | `NoServerError` |
| `NoSharedLimiter` | `OwnLimiter` |

`NoSharedLimiter` needs `NamedInv`: the rules that charged a request are of its list, and the
request names their dimensions. That names tell requests apart is `HashTellsApart`: two lists of values
that are joined to the same words are the same, unless a blank has moved between them. It is
about a fold over the dimensions, and is shown by a least counterexample (`LeastNatural`, from
`WFMin`): before the first dimension in which the values differ, equally many words were joined.

`IPListProofs`. All theorems follow from one invariant, `ListInv`, of which each part is about one
piece of state: a request under way has noted the lists the IP is off and has passed only
such lists (`OffNoted`: what a node may answer is noted); what it is about to store was true at
most `MaxLag` before it was read, and that is no longer ago than it has waited (`ReadLately`); the TTL that an
entry has lost, and the lag, bound its age (`EntryInv`).

| Theorem | Argument |
|---|---|
| `TypeCorrect` | `ListInv` gives the types, too |
| `BansAreKept` | an action property: `WhoDecides` and `ByWhat` find the step that decides, which lets an IP through at the whitelist only, after both other lists |
| `NothingIsStale` | an action property: the same two lemmas, and `EntryInv` of the entry that decides |

`QuotaProofs`:

| Theorem | Assumes | Argument |
|---|---|---|
| `TypeCorrect` | | |
| `NoEarlyDenial` | | a counter never counts more than was let through |
| `HintIsExact` | | an hour of UTC and one of the zone are cut at points that differ by the zone's fraction of an hour (`HintOfHour`); days are cut in the zone (`HintOfDay`) |
| `QuotaIsKept` | `ClockBound`: `MaxSkew + MaxDelay` within both graces | `Outlives`: a counter that let something through counts all of it and expires after the last EVAL that can name it |
| `BreakerTypeCorrect` | | |
| `NotShutForGood` | `PromptOpening` | `ShutInv`: an opening is announced while the breaker is open, and a copy that says open behind a closed breaker has an announcement under way |

Only model-checked is what must happen in the end (`Converges` of `RuleCache` and of `RulePoller`,
`Recovers`): liveness under fairness is out of the prover's reach. Every other property of a
passing run is stated by a theorem. That the code does not satisfy three statements about it
(section 4) is a matter of TLC's counterexamples.

## 6. Not modelled

- Floating point in Lua, key names, hash collisions, log messages, JSON, HTTP headers.
- Failover of Redis that loses acknowledged writes; paging of SCAN.
- `ScriptToken` (an older script nothing calls) and `Cache.Resolve` (called by tests only).
- In `checkIPLists`, the direct use of the repository (lines 194-209): an engine with a
  repository has an `IPListCache`, so it is never reached.
- `QuotaCfg.PerMinute`: `quota.go` ignores it. Changes of a day's length (summer time).
- The identifier that `Resolve` finds, with the parts of `X-Forwarded-For`: only the kind decides
  anything in `src/`.
- Loading of the YAML file, signals and shutdown, `examples/`.

## 7. What could follow

All components that keep state are modelled, and every safety property of the runs is proved.
What a continuation would begin with:

1. Lemmas that two proofs share (`FloorDivision`, `ProductMonotone`, one ideal step's arithmetic)
   in one place.
2. A refinement of `Api`'s `UpsertRule` by the steps of `RuleCache` on one instance.
