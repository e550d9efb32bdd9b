----------------------------- MODULE RuleCache -----------------------------
(***************************************************************************)
(* The rules of the RLS instances in Redis mode: Redis stores them, every  *)
(* instance keeps an immutable snapshot in memory (rules.Cache on          *)
(* rcu.Snapshot), Upsert writes a rule to Redis and copies the local       *)
(* snapshot, and a watcher per instance reloads all rules when a message   *)
(* arrives on the update channel or a minute has passed without one.       *)
(*                                                                         *)
(* A rule's content is a version number, new for every Upsert.  Redis is a *)
(* cluster: a rule lives on one shard, whose replica follows it and may    *)
(* serve reads (RouteByLatency).                                           *)
(***************************************************************************)
EXTENDS Integers, FiniteSets

CONSTANTS
  Instances,
  Rules,
  BootRules,    \* the rules of the configuration file (BootstrapRules)
  Shards, ShardOf,
  Replicated,   \* whether the shards have replicas
  Writers,      \* goroutines that serve POST and PUT of a rule
  InstanceOf,   \* the instance each writer belongs to
  MaxWrites,    \* bound of the model: Upserts in all
  MaxFaults     \* bound of the model: failures of all kinds

ASSUME RuleCacheAssumption ==
  /\ Rules # {} /\ BootRules \subseteq Rules
  /\ ShardOf \in [Rules -> Shards]
  /\ Replicated \in BOOLEAN
  /\ InstanceOf \in [Writers -> Instances]
  /\ MaxWrites \in Nat /\ MaxFaults \in Nat

VARIABLES
  store,        \* the rules on the shards' masters
  replica,      \* the rules on the replicas
  snap,         \* the snapshot of each instance
  watcher,      \* where the instance's main or watcher goroutine is
  subscribed,   \* whether the instance's subscription is active
  pending,      \* messages in its channel
  upsert,       \* where each writer is
  writes, faults,
  stored,       \* history: all <<rule, version>> that Redis ever held
  gap           \* history: an instance missed a message, or a reload a rule

vars == <<store, replica, snap, watcher, subscribed, pending, upsert, writes, faults,
          stored, gap>>

Absent == 0
BootVersion == 1
Versions == 0..(MaxWrites + 1)
NoRules == [r \in Rules |-> Absent]

\* A goroutine in ReloadAll has rules left to GET and those it got.
Watcher(pc, todo, got) == [pc |-> pc, todo |-> todo, got |-> got]

Writer(pc, r, v, seen) == [pc |-> pc, rule |-> r, ver |-> v, seen |-> seen]
IdleWriter == Writer("idle", CHOOSE r \in Rules : TRUE, Absent, NoRules)

Init ==
  /\ store = NoRules /\ replica = NoRules
  /\ snap = [i \in Instances |-> NoRules]
  /\ watcher = [i \in Instances |-> Watcher("exists", BootRules, NoRules)]
  /\ subscribed = [i \in Instances |-> FALSE]
  /\ pending = [i \in Instances |-> 0]
  /\ upsert = [w \in Writers |-> IdleWriter]
  /\ writes = 0 /\ faults = 0
  /\ stored = {} /\ gap = FALSE

\* The HTTP server starts when Bootstrap has returned.
Serving(i) == subscribed[i] \/ watcher[i].pc = "subscribe"

Fault == /\ faults < MaxFaults
         /\ faults' = faults + 1

SetRule(r, v) == /\ store' = [store EXCEPT ![r] = v]
                 /\ stored' = stored \cup {<<r, v>>}

\* A read is served by the master or by the replica.
Views == IF Replicated THEN {store, replica} ELSE {store}

\* The process exits (a fatal error or a crash) and is started again.
Start(i) ==
  /\ Fault
  /\ snap' = [snap EXCEPT ![i] = NoRules]
  /\ watcher' = [watcher EXCEPT ![i] = Watcher("exists", BootRules, NoRules)]
  /\ subscribed' = [subscribed EXCEPT ![i] = FALSE]
  /\ pending' = [pending EXCEPT ![i] = 0]
  /\ upsert' = [w \in Writers |-> IF InstanceOf[w] = i THEN IdleWriter ELSE upsert[w]]
  /\ gap' = (gap \/ \E w \in Writers : InstanceOf[w] = i /\ upsert[w].pc # "idle")
  /\ UNCHANGED <<store, replica, writes, stored>>

-----------------------------------------------------------------------------
(* Bodies a bug could have given the definitions below. *)

OthersOnly(i) == {j \in Instances : subscribed[j] /\ j # i}

TimerOnlyLoops == "idle"

HasMessageOrNot(i) == watcher[i].pc = "idle"

SetErrorIgnored(w, r, v) == [upsert EXCEPT ![w] = Writer("load", r, v, NoRules)]

-----------------------------------------------------------------------------
(* Bootstrap. *)

\* EXISTS of the next rule of the configuration; an error is taken for 0.
BootExists(i) ==
  LET todo == watcher[i].todo
      r == CHOOSE q \in todo : TRUE IN
  /\ watcher[i].pc = "exists" /\ todo # {}
  /\ \/ /\ \E view \in Views : view[r] = Absent
        /\ watcher' = [watcher EXCEPT ![i].pc = "set"]
        /\ UNCHANGED faults
     \/ /\ \E view \in Views : view[r] # Absent
        /\ watcher' = [watcher EXCEPT ![i].todo = @ \ {r}]
        /\ UNCHANGED faults
     \/ /\ Fault
        /\ watcher' = [watcher EXCEPT ![i].pc = "set"]
  /\ UNCHANGED <<store, replica, snap, subscribed, pending, upsert, writes, stored, gap>>

\* SET of a rule EXISTS did not find.  No message announces it.
BootSet(i) ==
  LET todo == watcher[i].todo
      r == CHOOSE q \in todo : TRUE IN
  /\ watcher[i].pc = "set"
  /\ SetRule(r, BootVersion)
  /\ watcher' = [watcher EXCEPT ![i] = Watcher("exists", todo \ {r}, NoRules)]
  /\ gap' = (gap \/ \E j \in Instances : Serving(j) \/ watcher[j].pc = "get")
  /\ UNCHANGED <<replica, snap, subscribed, pending, upsert, writes, faults>>

BootLoad(i) ==
  /\ watcher[i].pc = "exists" /\ watcher[i].todo = {}
  /\ watcher' = [watcher EXCEPT ![i].pc = "scan"]
  /\ UNCHANGED <<store, replica, snap, subscribed, pending, upsert, writes, faults,
                 stored, gap>>

-----------------------------------------------------------------------------
(* ReloadAll, from Bootstrap and from the watcher. *)

\* SCAN goes to one node of the cluster: the keys of one shard come back.
Scan(i) ==
  /\ watcher[i].pc = "scan"
  /\ \E s \in Shards, view \in Views :
       LET found == {r \in Rules : ShardOf[r] = s /\ view[r] # Absent} IN
       /\ watcher' = [watcher EXCEPT ![i] = Watcher("get", found, NoRules)]
       /\ gap' = (gap \/ \E r \in Rules \ found : store[r] # Absent)
  /\ UNCHANGED <<store, replica, snap, subscribed, pending, upsert, writes, faults, stored>>

\* An error of SCAN ends a reload of the watcher (and, in Bootstrap, the process:
\* see Start).
ScanFails(i) ==
  /\ watcher[i].pc = "scan" /\ subscribed[i]
  /\ Fault
  /\ watcher' = [watcher EXCEPT ![i].pc = "idle"]
  /\ gap' = TRUE
  /\ UNCHANGED <<store, replica, snap, subscribed, pending, upsert, writes, stored>>

\* GET of one key.
GetRule(i) ==
  /\ watcher[i].pc = "get"
  /\ \E r \in watcher[i].todo, view \in Views :
       /\ watcher' = [watcher EXCEPT ![i].todo = @ \ {r}, ![i].got[r] = view[r]]
       /\ gap' = (gap \/ view[r] # store[r])
  /\ UNCHANGED <<store, replica, snap, subscribed, pending, upsert, writes, faults, stored>>

\* A GET fails: the reload goes on without the rule.
GetFails(i) ==
  /\ watcher[i].pc = "get"
  /\ Fault
  /\ \E r \in watcher[i].todo : watcher' = [watcher EXCEPT ![i].todo = @ \ {r}]
  /\ gap' = TRUE
  /\ UNCHANGED <<store, replica, snap, subscribed, pending, upsert, writes, stored>>

\* ReplaceAll with what was read.
ReplaceAll(i) ==
  /\ watcher[i].pc = "get" /\ watcher[i].todo = {}
  /\ snap' = [snap EXCEPT ![i] = watcher[i].got]
  /\ watcher' = [watcher EXCEPT ![i] =
                   Watcher(IF subscribed[i] THEN "idle" ELSE "subscribe", {}, NoRules)]
  /\ UNCHANGED <<store, replica, subscribed, pending, upsert, writes, faults, stored, gap>>

-----------------------------------------------------------------------------
(* StartWatcher. *)

Subscribe(i) ==
  /\ watcher[i].pc = "subscribe"
  /\ subscribed' = [subscribed EXCEPT ![i] = TRUE]
  /\ watcher' = [watcher EXCEPT ![i].pc = "idle"]
  /\ UNCHANGED <<store, replica, snap, pending, upsert, writes, faults, stored, gap>>

HasMessage(i) == watcher[i].pc = "idle" /\ pending[i] > 0

OnMessage(i) ==
  /\ HasMessage(i)
  /\ pending' = [pending EXCEPT ![i] = @ - 1]
  /\ watcher' = [watcher EXCEPT ![i].pc = "scan"]
  /\ UNCHANGED <<store, replica, snap, subscribed, upsert, writes, faults, stored, gap>>

\* Sixty seconds without a message: reload.
AfterAMinute == "scan"

Fallback(i) ==
  /\ watcher[i].pc = "idle" /\ pending[i] = 0
  /\ watcher' = [watcher EXCEPT ![i].pc = AfterAMinute]
  /\ UNCHANGED <<store, replica, snap, subscribed, pending, upsert, writes, faults,
                 stored, gap>>

-----------------------------------------------------------------------------
(* Upsert. *)

\* SET of the rule a request carries.
UpsertSet(w, r) ==
  /\ upsert[w].pc = "idle" /\ Serving(InstanceOf[w])
  /\ writes < MaxWrites /\ writes' = writes + 1
  /\ SetRule(r, BootVersion + writes')
  /\ upsert' = [upsert EXCEPT ![w] = Writer("load", r, BootVersion + writes', NoRules)]
  /\ UNCHANGED <<replica, snap, watcher, subscribed, pending, faults, gap>>

\* A SET that fails may have been executed all the same.  What was executed and
\* not announced is a gap.
UncertainSet(r, v) ==
  \/ UNCHANGED <<store, stored>>
  \/ SetRule(r, v)

\* Upsert returns the error.
AfterSetError(w, r, v) == upsert

UpsertSetFails(w, r) ==
  /\ upsert[w].pc = "idle" /\ Serving(InstanceOf[w])
  /\ writes < MaxWrites /\ writes' = writes + 1
  /\ Fault
  /\ UncertainSet(r, BootVersion + writes')
  /\ upsert' = AfterSetError(w, r, BootVersion + writes')
  /\ gap' = TRUE
  /\ UNCHANGED <<replica, snap, watcher, subscribed, pending>>

\* The local snapshot is loaded and copied ...
UpsertLoad(w) ==
  /\ upsert[w].pc = "load"
  /\ upsert' = [upsert EXCEPT ![w].pc = "replace", ![w].seen = snap[InstanceOf[w]]]
  /\ UNCHANGED <<store, replica, snap, watcher, subscribed, pending, writes, faults,
                 stored, gap>>

\* ... and the copy with the new rule replaces whatever is the snapshot by then.
UpsertReplace(w) ==
  /\ upsert[w].pc = "replace"
  /\ snap' = [snap EXCEPT ![InstanceOf[w]] =
                [upsert[w].seen EXCEPT ![upsert[w].rule] = upsert[w].ver]]
  /\ upsert' = [upsert EXCEPT ![w].pc = "publish", ![w].seen = NoRules]
  /\ UNCHANGED <<store, replica, watcher, subscribed, pending, writes, faults, stored, gap>>

Subscribed == {j \in Instances : subscribed[j]}

\* Whom a message of instance i reaches: every watcher reloads on it, that of i too.
Receivers(i) == Subscribed

Deliver(D) ==
  pending' = [j \in Instances |-> IF j \in D THEN pending[j] + 1 ELSE pending[j]]

\* An instance has begun to read the rules and is not among those that a message is
\* delivered to.
MissedBy(D) == \E j \in Instances \ D : Serving(j) \/ watcher[j].pc = "get"

UpsertPublish(w) ==
  /\ upsert[w].pc = "publish"
  /\ Deliver(Receivers(InstanceOf[w]))
  /\ gap' = (gap \/ MissedBy(Subscribed))
  /\ upsert' = [upsert EXCEPT ![w] = IdleWriter]
  /\ UNCHANGED <<store, replica, snap, watcher, subscribed, writes, faults, stored>>

\* The publication fails, or the message does not reach everyone.
UpsertPublishFails(w) ==
  /\ upsert[w].pc = "publish"
  /\ Fault
  /\ \E D \in SUBSET Subscribed : Deliver(D) /\ gap' = (gap \/ MissedBy(D))
  /\ upsert' = [upsert EXCEPT ![w] = IdleWriter]
  /\ UNCHANGED <<store, replica, snap, watcher, subscribed, writes, stored>>

-----------------------------------------------------------------------------
\* The replica of r's shard catches up.
Replicate(r) ==
  /\ Replicated /\ replica[r] # store[r]
  /\ replica' = [replica EXCEPT ![r] = store[r]]
  /\ UNCHANGED <<store, snap, watcher, subscribed, pending, upsert, writes, faults,
                 stored, gap>>

Watch(i) ==
  \/ BootExists(i) \/ BootSet(i) \/ BootLoad(i)
  \/ Scan(i) \/ GetRule(i) \/ ReplaceAll(i)
  \/ Subscribe(i) \/ OnMessage(i) \/ Fallback(i)

Continue(w) == UpsertLoad(w) \/ UpsertReplace(w) \/ UpsertPublish(w)

Next ==
  \/ \E i \in Instances : Watch(i) \/ ScanFails(i) \/ GetFails(i) \/ Start(i)
  \/ \E w \in Writers : \/ Continue(w) \/ UpsertPublishFails(w)
                        \/ \E r \in Rules : UpsertSet(w, r) \/ UpsertSetFails(w, r)
  \/ \E r \in Rules : Replicate(r)

\* Goroutines and replication make progress; nobody has to send a request.
Fairness ==
  /\ \A i \in Instances : WF_vars(Watch(i))
  /\ \A w \in Writers : WF_vars(Continue(w))
  /\ \A r \in Rules : WF_vars(Replicate(r))

Spec == Init /\ [][Next]_vars

FairSpec == Spec /\ Fairness

-----------------------------------------------------------------------------
(* Properties. *)

RuleSets == [Rules -> Versions]

\* Every variable has the values its field in the code can have.
TypeOK ==
  /\ store \in RuleSets /\ replica \in RuleSets
  /\ snap \in [Instances -> RuleSets]
  /\ watcher \in [Instances -> [pc : {"exists", "set", "scan", "get", "subscribe", "idle"},
                                todo : SUBSET Rules, got : RuleSets]]
  /\ subscribed \in [Instances -> BOOLEAN]
  /\ pending \in [Instances -> 0..MaxWrites]
  /\ upsert \in [Writers -> [pc : {"idle", "load", "replace", "publish"}, rule : Rules,
                             ver : Versions, seen : RuleSets]]
  /\ writes \in 0..MaxWrites /\ faults \in 0..MaxFaults
  /\ stored \subseteq Rules \X Versions
  /\ gap \in BOOLEAN

\* An instance never enforces a rule that Redis did not hold at some time: not one
\* whose SET failed, nor a mixture of two versions.
NeverInvented ==
  \A i \in Instances, r \in Rules :
    snap[i][r] # Absent => <<r, snap[i][r]>> \in stored

Quiet ==
  /\ \A i \in Instances : watcher[i].pc = "idle" /\ subscribed[i] /\ pending[i] = 0
  /\ \A w \in Writers : upsert[w].pc = "idle"

\* Pub/Sub alone keeps the instances consistent: when nothing is under way and no
\* message, rule or write went past an instance, all of them hold what Redis holds,
\* whatever their snapshots lost in between to a concurrent Upsert or reload.
QuietConsistent == Quiet /\ ~gap => \A i \in Instances : snap[i] = store

\* Once the writes and the failures are over, every instance ends up with the rules
\* of Redis and keeps them, whatever was lost: the watcher's timer sees to it.
Converges == <>[](\A i \in Instances : Serving(i) /\ snap[i] = store)

\* cache.go, Bootstrap: the rules are loaded in full.  Without a failure, an
\* instance that starts to serve has at least the configured rules, which it has
\* just seen to be in Redis.
LoadsEverything ==
  [][\A i \in Instances :
       (watcher[i].pc = "get" /\ watcher'[i].pc = "subscribe")
         => \A r \in BootRules : snap'[i][r] # Absent]_vars
=============================================================================
