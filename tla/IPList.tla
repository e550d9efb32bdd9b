------------------------------- MODULE IPList ------------------------------
(***************************************************************************)
(* The blacklist, the whitelist and the temporary ban of one IP: Redis     *)
(* holds them, every RLS instance caches what it reads of them in memory   *)
(* (IPListCache, the L1), and a clear message empties the L1s.  Requests   *)
(* of the same IP run CheckIP and, when the limiter denies them,           *)
(* RecordDeny, concurrently.                                               *)
(*                                                                         *)
(* Writes go to the master of the key's shard.  The client is made with    *)
(* RouteByLatency, so EXISTS and SISMEMBER go to the nearest node, which   *)
(* may be a replica that is up to MaxLag behind.                           *)
(*                                                                         *)
(* Times are counted down: a TTL is what is left of it, in ticks, and      *)
(* since... is how long ago something last was so.                         *)
(***************************************************************************)
EXTENDS Arith

CONSTANTS
  Instances,
  Threads,      \* goroutines that handle requests of the IP
  InstanceOf,
  ListTTL,      \* defaultTTL: how long the L1 keeps what it read of the lists
  TempTTL,      \* blacklistTTL: length of a ban, in Redis and in the L1
  HotWindow,    \* life of the denial counter
  HotThreshold, \* denials within it that cause a ban
  MaxEdits,     \* bound of the model: edits of the lists by an administrator
  MaxStall,     \* how long a goroutine may take to store in the L1 what it read
  MaxLag        \* how far a replica may be behind its master

ASSUME IPListAssumption ==
  /\ InstanceOf \in [Threads -> Instances]
  /\ ListTTL \in Nat \ {0} /\ TempTTL \in Nat \ {0}
  /\ HotWindow \in Nat \ {0} /\ HotThreshold \in Nat \ {0}
  /\ MaxEdits \in Nat /\ MaxStall \in Nat /\ MaxLag \in Nat

VARIABLES
  black, white, \* whether the sets in Redis' masters contain the IP
  temp,         \* what is left of the ban key in Redis; 0: no key
  hot, hotLeft, \* the denial counter (counted up to HotThreshold) and its TTL
  cache,        \* the L1 of each instance
  clearing,     \* the keys a clear() under way has still to visit
  message,      \* whether a clear message waits in the instance's channel
  thread,       \* where each request is
  edits,        \* how often an administrator has edited the lists
  since         \* how long ago each claim about the lists was true: what a replica
                \* may still answer, and the history the properties speak of

vars == <<black, white, temp, hot, hotLeft, cache, clearing, message, thread, edits,
          since>>

Keys == {"temp", "black", "white"}

TTL(key) == IF key = "temp" THEN TempTTL ELSE ListTTL

\* An L1 entry lives while left >= 0; an expired one stays until a get deletes it.
Expired == -1
NoEntry == [has |-> FALSE, val |-> FALSE, left |-> Expired]

\* A body a bug could have given the next definition.
EntryTtlRoundedUp(key, v) == [has |-> TRUE, val |-> v, left |-> TTL(key) + 1]

Entry(key, v) == [has |-> TRUE, val |-> v, left |-> TTL(key)]

\* That the IP is on a list, and that it is not.
Not == [temp |-> "nottemp", black |-> "notblack", white |-> "notwhite"]
Claims == Keys \cup {Not[k] : k \in Keys}
Claim(key, v) == IF v THEN key ELSE Not[key]

\* Whether a claim is true when Redis holds b, w and left of the lists and the ban.
Holds(claim, b, w, left) == CASE claim = "temp"     -> left > 0
                              [] claim = "nottemp"  -> left = 0
                              [] claim = "black"    -> b
                              [] claim = "notblack" -> ~b
                              [] claim = "white"    -> w
                              [] claim = "notwhite" -> ~w

\* What the node that is asked may answer.
Answers(key) == {v \in BOOLEAN : since[Claim(key, v)] <= MaxLag}

\* How old an answer, and what an L1 says, may be; no L1 says that the IP is not banned
\* or not blacklisted.
Bound(claim) == MaxLag + (CASE claim = "temp"               -> TempTTL + MaxStall
                            [] claim \in {"black", "white", "notwhite"}
                                                            -> ListTTL + MaxStall
                            [] OTHER                        -> 0)

\* A request: pc; the key it works on; what it read of Redis; for how long it has
\* been about to store something; the decision, and the claim an L1 decided on;
\* history: the lists the IP may have been off for a node asked during the check.
Idle == [pc |-> "idle", key |-> "temp", val |-> FALSE, stall |-> 0,
         dec |-> "none", l1 |-> "none", off |-> {}]

Init ==
  /\ black \in BOOLEAN /\ white \in BOOLEAN
  /\ temp = 0 /\ hot = 0 /\ hotLeft = 0
  /\ cache = [i \in Instances |-> [k \in Keys |-> NoEntry]]
  /\ clearing = [i \in Instances |-> {}]
  /\ message = [i \in Instances |-> FALSE]
  /\ thread = [t \in Threads |-> Idle]
  /\ edits = 0
  /\ since = [c \in Claims |-> IF Holds(c, black, white, temp) THEN 0 ELSE Bound(c) + 1]

redisVars == <<black, white, temp, hot, hotLeft, edits>>

\* A replica that has yet to hear of a SET may hold the ban to be over: one is new,
\* or renewed when the replica's copy was to expire within MaxLag (from which moment
\* on the answer is allowed, although the copy still has temp to go).
BanUnheardOf == temp < temp' /\ temp <= MaxLag

\* The claims once d ticks more have passed and Redis is as it will be.
Observe(d) ==
  since' = [c \in Claims |->
    IF Holds(c, black', white', temp') \/ (c = "nottemp" /\ BanUnheardOf)
      THEN 0 ELSE LesserOf(since[c] + d, Bound(c) + 1)]

OffLists(ages) == {k \in {"temp", "black"} : ages[Not[k]] <= MaxLag}

\* Checks under way may find the IP off the lists it is off now.
Checking(t) == thread[t].pc \in {"l1", "l1del", "l2", "fill"}
NoteOff == [t \in Threads |->
  [thread[t] EXCEPT !.off = IF Checking(t) THEN @ \cup OffLists(since') ELSE @]]

Storing(t) == thread[t].pc \in {"fill", "rdfill"}

-----------------------------------------------------------------------------
(* Bodies a bug could have given the definitions below. *)

NotTimed(e) == e.has

IgnoreError(t, next) == thread' = [thread EXCEPT ![t].pc = "l1", ![t].key = next]

-----------------------------------------------------------------------------
(* The L1. *)

Live(e) == e.has /\ e.left >= 0

Store(i, key, v) == cache' = [cache EXCEPT ![i][key] = Entry(key, v)]

Goto(t, pc) == thread' = [thread EXCEPT ![t].pc = pc]

LookUpNext(t, key) == thread' = [thread EXCEPT ![t].pc = "l1", ![t].key = key]

\* CheckIP returns "deny", "allow" (whitelisted) or "pass" (on to the limiter);
\* claim is what an L1 entry said, if one decided.
Decide(t, dec, claim) ==
  thread' = [thread EXCEPT ![t] =
    [Idle EXCEPT !.pc = IF dec = "pass" THEN "limiter" ELSE "idle",
                 !.dec = dec, !.l1 = claim]]

\* get finds an expired entry: it deletes, in a second step, what is there then.
DeleteExpired(t, pc, next) ==
  /\ thread[t].pc = pc
  /\ cache' = [cache EXCEPT ![InstanceOf[t]][thread[t].key] = NoEntry]
  /\ Goto(t, next)
  /\ UNCHANGED <<redisVars, clearing, message, since>>

-----------------------------------------------------------------------------
(* CheckIP. *)

Begin(t) ==
  /\ thread[t].pc = "idle"
  /\ thread' = [thread EXCEPT ![t] = [Idle EXCEPT !.pc = "l1", !.off = OffLists(since)]]
  /\ UNCHANGED <<redisVars, cache, clearing, message, since>>

LookUp(t) ==
  LET key == thread[t].key
      e   == cache[InstanceOf[t]][key] IN
  /\ thread[t].pc = "l1"
  /\ \/ Live(e) /\ e.val /\ Decide(t, IF key = "white" THEN "allow" ELSE "deny", key)
     \/ Live(e) /\ ~e.val /\ key = "white" /\ Decide(t, "pass", "notwhite")
     \/ Live(e) /\ ~e.val /\ key # "white" /\ Goto(t, "l2")
     \/ e.has /\ ~Live(e) /\ Goto(t, "l1del")
     \/ ~e.has /\ Goto(t, "l2")
  /\ UNCHANGED <<redisVars, cache, clearing, message, since>>

NextKey(key) == IF key = "temp" THEN "black" ELSE "white"

\* Any error of Redis denies.
OnError(t, next) == Decide(t, "deny", "none")

ReadRedis(t) ==
  LET key == thread[t].key IN
  /\ thread[t].pc = "l2"
  /\ \/ OnError(t, NextKey(key))
     \/ \E v \in Answers(key) :
          \/ key # "white" /\ ~v /\ LookUpNext(t, NextKey(key))
          \/ /\ key = "white" \/ v
             /\ thread' = [thread EXCEPT ![t].pc = "fill", ![t].val = v]
  /\ UNCHANGED <<redisVars, cache, clearing, message, since>>

Fill(t) ==
  LET key == thread[t].key
      v   == thread[t].val IN
  /\ thread[t].pc = "fill"
  /\ Store(InstanceOf[t], key, v)
  /\ Decide(t, CASE key # "white"       -> "deny"
                 [] key = "white" /\ v  -> "allow"
                 [] key = "white" /\ ~v -> "pass", "none")
  /\ UNCHANGED <<redisVars, clearing, message, since>>

-----------------------------------------------------------------------------
(* The limiter's answer and RecordDeny. *)

Limiter(t) ==
  /\ thread[t].pc = "limiter"
  /\ \E pc \in {"idle", "rd"} : thread' = [thread EXCEPT ![t] = [Idle EXCEPT !.pc = pc]]
  /\ UNCHANGED <<redisVars, cache, clearing, message, since>>

\* Nothing is recorded for an IP that the L1 holds to be banned.
RdLookUp(t) ==
  LET e == cache[InstanceOf[t]]["temp"] IN
  /\ thread[t].pc = "rd"
  /\ \/ Live(e) /\ e.val /\ Goto(t, "idle")
     \/ Live(e) /\ ~e.val /\ Goto(t, "incr")
     \/ e.has /\ ~Live(e) /\ Goto(t, "rddel")
     \/ ~e.has /\ Goto(t, "incr")
  /\ UNCHANGED <<redisVars, cache, clearing, message, since>>

\* INCR, and PEXPIRE for the first: the client may send it twice, and its error says
\* nothing about whether it was executed.
RdIncr(t) ==
  /\ thread[t].pc = "incr"
  /\ \E n \in 0..2 :
       /\ hot' = LesserOf(hot + n, HotThreshold)
       /\ hotLeft' = IF hot = 0 /\ n > 0 THEN HotWindow ELSE hotLeft
       /\ \/ Goto(t, "idle") /\ (n \in 0..1 \/ hot' < HotThreshold)
          \/ Goto(t, "set") /\ n > 0 /\ hot' = HotThreshold
  /\ UNCHANGED <<black, white, temp, cache, clearing, message, edits, since>>

\* SET with the TTL; an error is as uncertain.
RdSet(t) ==
  /\ thread[t].pc = "set"
  /\ UNCHANGED <<black, white, hot, hotLeft, cache, clearing, message, edits>>
  /\ temp' \in {temp, TempTTL}
  /\ Observe(0)
  /\ \E pc \in {"rdfill", "idle"} :
       /\ pc = "rdfill" => temp' = TempTTL
       /\ thread' = [NoteOff EXCEPT ![t].pc = pc]

RdFill(t) ==
  /\ thread[t].pc = "rdfill"
  /\ Store(InstanceOf[t], "temp", TRUE)
  /\ thread' = [thread EXCEPT ![t].pc = "publish", ![t].stall = 0]
  /\ UNCHANGED <<redisVars, clearing, message, since>>

\* The clear message reaches any of the instances.
RdPublish(t) ==
  /\ thread[t].pc = "publish"
  /\ \E R \in SUBSET Instances : message' = [i \in Instances |-> message[i] \/ i \in R]
  /\ Goto(t, "idle")
  /\ UNCHANGED <<redisVars, cache, clearing, since>>

-----------------------------------------------------------------------------
(* watchUpdates, the administrator and time. *)

\* One of the messages that wait is taken; there may be more.
OnMessage(i) ==
  /\ message[i] /\ clearing[i] = {}
  /\ message' \in {message, [message EXCEPT ![i] = FALSE]}
  /\ clearing' = [clearing EXCEPT ![i] = Keys]
  /\ UNCHANGED <<redisVars, cache, thread, since>>

\* clear() deletes one key after the other while others are stored.
ClearKey(i) ==
  /\ \E k \in clearing[i] :
       /\ cache' = [cache EXCEPT ![i][k] = NoEntry]
       /\ clearing' = [clearing EXCEPT ![i] = @ \ {k}]
  /\ UNCHANGED <<redisVars, message, thread, since>>

\* redis-cli SADD and SREM.
Edit ==
  /\ edits < MaxEdits /\ edits' = edits + 1
  /\ \/ black' = ~black /\ white' = white
     \/ white' = ~white /\ black' = black
  /\ UNCHANGED <<temp, hot, hotLeft, cache, clearing, message>>
  /\ Observe(0)
  /\ thread' = NoteOff

\* The TTL of a Redis key: at 0 the key is gone.
Later(left) == GreaterOf(0, left - 1)

Tick ==
  /\ \A t \in Threads : Storing(t) => thread[t].stall < MaxStall
  /\ UNCHANGED <<black, white, clearing, message, edits>>
  /\ temp' = Later(temp)
  /\ hotLeft' = Later(hotLeft)
  /\ hot' = IF hotLeft' = 0 THEN 0 ELSE hot
  /\ cache' = [i \in Instances |-> [k \in Keys |->
                 [cache[i][k] EXCEPT !.left = GreaterOf(Expired, @ - 1)]]]
  /\ Observe(1)
  /\ thread' = [t \in Threads |->
                  [NoteOff[t] EXCEPT !.stall = IF Storing(t) THEN @ + 1 ELSE @]]

Check(t) ==
  Begin(t) \/ LookUp(t) \/ DeleteExpired(t, "l1del", "l2") \/ ReadRedis(t) \/ Fill(t)

RecordDeny(t) ==
  RdLookUp(t) \/ DeleteExpired(t, "rddel", "incr") \/ RdIncr(t) \/ RdSet(t)
    \/ RdFill(t) \/ RdPublish(t)

Next ==
  \/ \E t \in Threads : Check(t) \/ Limiter(t) \/ RecordDeny(t)
  \/ \E i \in Instances : OnMessage(i) \/ ClearKey(i)
  \/ Edit \/ Tick

Spec == Init /\ [][Next]_vars

-----------------------------------------------------------------------------
(* Properties. *)

\* Every variable has the values its field in the code can have.
TypeOK ==
  /\ black \in BOOLEAN /\ white \in BOOLEAN
  /\ temp \in 0..TempTTL /\ hot \in 0..HotThreshold /\ hotLeft \in 0..HotWindow
  /\ \A i \in Instances, k \in Keys :
       cache[i][k] \in [has : BOOLEAN, val : BOOLEAN, left : Expired..TTL(k)]
  /\ clearing \in [Instances -> SUBSET Keys] /\ message \in [Instances -> BOOLEAN]
  /\ thread \in [Threads -> [pc : {"idle", "l1", "l1del", "l2", "fill", "limiter", "rd",
                                   "rddel", "incr", "set", "rdfill", "publish"},
                             key : Keys, val : BOOLEAN, stall : 0..MaxStall,
                             dec : {"none", "deny", "allow", "pass"},
                             l1 : Claims \cup {"none"}, off : SUBSET {"temp", "black"}]]
  /\ edits \in 0..MaxEdits
  /\ \A c \in Claims : since[c] \in 0..(Bound(c) + 1)

Decides(t, decs) == thread[t].pc \in {"l1", "l2", "fill"} /\ thread'[t].dec \in decs

\* An IP that every node has known to be banned, or blacklisted, for as long as a check
\* of it takes (it is so in the masters, and was for MaxLag before the check) is denied
\* by it: neither the L1s, nor a lagging replica, nor the whitelist, nor a clear in
\* between, nor an error of Redis lets it through.
BannedIsDenied ==
  [][\A t \in Threads : Decides(t, {"allow", "pass"})
                          => thread[t].off = {"temp", "black"}]_vars

\* What an L1 decides by was true in the masters at most its TTL, the time a goroutine
\* took to store it and the lag of a replica ago: nothing renews an entry, in particular
\* a ban that Redis has dropped ends everywhere within one more TTL, and a whitelisted
\* IP that was removed is let through, or an added one limited, no longer than that.
StalenessBounded ==
  [][\A t \in Threads : Decides(t, {"deny", "allow", "pass"}) /\ thread'[t].l1 # "none"
                          => since[thread'[t].l1] <= Bound(thread'[t].l1)]_vars
=============================================================================
