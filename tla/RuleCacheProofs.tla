-------------------------- MODULE RuleCacheProofs --------------------------
(* Theorems about RuleCache, for any instances, rules, shards, writers,      *)
(* failures and restarts.                                                    *)
EXTENDS RuleCache, FiniteSetTheorems, TLAPS

WatcherSet == [pc : {"exists", "set", "scan", "get", "subscribe", "idle"},
               todo : SUBSET Rules, got : RuleSets]

WriterSet == [pc : {"idle", "load", "replace", "publish"}, rule : Rules,
              ver : Versions, seen : RuleSets]

-----------------------------------------------------------------------------
(* Types. *)

Busy == {w \in Writers : upsert[w].pc # "idle"}

\* Every Upsert announces itself at most once: what bounds the channels.
Announced ==
  /\ IsFiniteSet(Busy)
  /\ \A i \in Instances : pending[i] + Cardinality(Busy) <= writes

RedisTypes ==
  /\ store \in RuleSets /\ replica \in RuleSets /\ snap \in [Instances -> RuleSets]
  /\ stored \subseteq Rules \X Versions
  /\ faults \in 0..MaxFaults /\ gap \in BOOLEAN

\* SET is sent for a rule; only a subscriber waits for messages.
WatcherTypes ==
  /\ watcher \in [Instances -> WatcherSet]
  /\ subscribed \in [Instances -> BOOLEAN]
  /\ \A i \in Instances : /\ watcher[i].pc = "set" => watcher[i].todo # {}
                          /\ watcher[i].pc = "idle" => subscribed[i]

UpsertTypes ==
  /\ upsert \in [Writers -> WriterSet]
  /\ pending \in [Instances -> Nat]
  /\ writes \in 0..MaxWrites
  /\ Announced

TypeInv == RedisTypes /\ WatcherTypes /\ UpsertTypes

LEMMA TypeInvImpliesTypeOK == TypeInv => TypeOK
<1> SUFFICES ASSUME TypeInv PROVE TypeOK
  OBVIOUS
<1>1. \A i \in Instances : pending[i] \in 0..MaxWrites
  BY RuleCacheAssumption, FS_CardinalityType DEF TypeInv, UpsertTypes, Announced
<1>2. pending \in [Instances -> 0..MaxWrites]
  BY <1>1 DEF TypeInv, UpsertTypes
<1> QED
  BY <1>2 DEF TypeInv, RedisTypes, WatcherTypes, UpsertTypes, TypeOK, WatcherSet, WriterSet

LEMMA VersionTypes ==
  /\ Absent \in Versions /\ BootVersion \in Versions /\ NoRules \in RuleSets
  /\ \A n \in 0..(MaxWrites - 1) : BootVersion + (n + 1) \in Versions
  BY RuleCacheAssumption DEF Absent, BootVersion, Versions, NoRules, RuleSets

LEMMA WatcherType ==
  ASSUME NEW pc \in {"exists", "set", "scan", "get", "subscribe", "idle"},
         NEW todo \in SUBSET Rules, NEW got \in RuleSets
  PROVE  /\ Watcher(pc, todo, got) \in WatcherSet
         /\ Watcher(pc, todo, got).pc = pc /\ Watcher(pc, todo, got).todo = todo
         /\ Watcher(pc, todo, got).got = got
  BY DEF Watcher, WatcherSet

LEMMA WriterType ==
  ASSUME NEW pc \in {"idle", "load", "replace", "publish"}, NEW r \in Rules,
         NEW v \in Versions, NEW seen \in RuleSets
  PROVE  /\ Writer(pc, r, v, seen) \in WriterSet
         /\ Writer(pc, r, v, seen).pc = pc /\ Writer(pc, r, v, seen).rule = r
         /\ Writer(pc, r, v, seen).ver = v /\ Writer(pc, r, v, seen).seen = seen
  BY DEF Writer, WriterSet

LEMMA IdleWriterType ==
  IdleWriter \in WriterSet /\ IdleWriter.pc = "idle" /\ IdleWriter.seen = NoRules
  BY RuleCacheAssumption, VersionTypes, WriterType DEF IdleWriter

LEMMA InitType == Init => TypeInv
<1> SUFFICES ASSUME Init PROVE TypeInv
  OBVIOUS
<1>1. store \in RuleSets /\ replica \in RuleSets /\ snap \in [Instances -> RuleSets]
  BY VersionTypes DEF Init
<1>2. faults \in 0..MaxFaults /\ stored \subseteq Rules \X Versions
  BY RuleCacheAssumption DEF Init
<1>8. gap \in BOOLEAN
  BY DEF Init
<1>3. /\ watcher \in [Instances -> WatcherSet]
      /\ \A i \in Instances : watcher[i].pc = "exists"
  BY RuleCacheAssumption, VersionTypes, WatcherType DEF Init
<1>4. subscribed \in [Instances -> BOOLEAN]
  BY DEF Init
<1>5. upsert \in [Writers -> WriterSet] /\ Busy = {}
  BY IdleWriterType DEF Init, Busy
<1>6. pending \in [Instances -> Nat] /\ writes \in 0..MaxWrites
  BY RuleCacheAssumption DEF Init
<1>7. Announced
  BY <1>5, FS_EmptySet DEF Announced, Init
<1> QED
  BY <1>1, <1>2, <1>3, <1>4, <1>5, <1>6, <1>7, <1>8
     DEF TypeInv, RedisTypes, WatcherTypes, UpsertTypes

-----------------------------------------------------------------------------
(* Redis and the snapshots. *)

\* What a write of a rule makes of Redis.
LEMMA SetRuleType ==
  ASSUME RedisTypes, NEW r \in Rules, NEW v \in Versions, SetRule(r, v)
  PROVE  store' \in RuleSets /\ stored' \subseteq Rules \X Versions
  BY DEF RedisTypes, RuleSets, SetRule

LEMMA ViewType == ASSUME RedisTypes, NEW view \in Views PROVE view \in RuleSets
  BY DEF RedisTypes, Views

LEMMA FaultType == ASSUME RedisTypes, Fault PROVE faults' \in 0..MaxFaults
  BY RuleCacheAssumption DEF RedisTypes, Fault

\* The version of the next write.
LEMMA NextVersion ==
  ASSUME UpsertTypes, writes < MaxWrites, writes' = writes + 1
  PROVE  writes' \in 0..MaxWrites /\ BootVersion + writes' \in Versions
  BY RuleCacheAssumption DEF UpsertTypes, BootVersion, Versions

LEMMA RedisStep == TypeInv /\ [Next]_vars => RedisTypes'
<1> SUFFICES ASSUME TypeInv, [Next]_vars
             PROVE  RedisTypes'
  OBVIOUS
<1>0. RedisTypes /\ WatcherTypes /\ UpsertTypes
  BY DEF TypeInv
<1>1. ASSUME UNCHANGED <<store, replica, snap, stored, gap>>,
             Fault \/ UNCHANGED faults
      PROVE  RedisTypes'
  BY <1>0, <1>1, FaultType DEF RedisTypes
<1>2. ASSUME NEW i \in Instances, Start(i)
      PROVE  RedisTypes'
  BY <1>0, <1>2, FaultType, VersionTypes DEF RedisTypes, Start
<1>3. ASSUME NEW i \in Instances, BootSet(i)
      PROVE  RedisTypes'
  <2>1. PICK r \in Rules : SetRule(r, BootVersion)
    BY <1>0, <1>3 DEF BootSet, WatcherTypes, WatcherSet
  <2> QED
    BY <1>0, <1>3, <2>1, SetRuleType, VersionTypes DEF BootSet, RedisTypes
<1>4. ASSUME NEW i \in Instances, Scan(i) \/ ScanFails(i) \/ GetRule(i) \/ GetFails(i)
      PROVE  RedisTypes'
  <2>1. gap' \in BOOLEAN
    BY <1>0, <1>4 DEF Scan, ScanFails, GetRule, GetFails, RedisTypes
  <2>2. UNCHANGED <<store, replica, snap, stored>>
    BY <1>4 DEF Scan, ScanFails, GetRule, GetFails
  <2>3. faults' \in 0..MaxFaults
    BY <1>0, <1>4, FaultType DEF Scan, ScanFails, GetRule, GetFails, RedisTypes
  <2> QED
    BY <1>0, <2>1, <2>2, <2>3 DEF RedisTypes
<1>5. ASSUME NEW i \in Instances, ReplaceAll(i)
      PROVE  RedisTypes'
  BY <1>0, <1>5 DEF ReplaceAll, RedisTypes, WatcherTypes, WatcherSet
<1>6. ASSUME NEW w \in Writers, NEW r \in Rules, UpsertSet(w, r) \/ UpsertSetFails(w, r)
      PROVE  RedisTypes'
  <2>1. BootVersion + writes' \in Versions
    BY <1>0, <1>6, NextVersion DEF UpsertSet, UpsertSetFails
  <2>2. store' \in RuleSets /\ stored' \subseteq Rules \X Versions
    BY <1>0, <1>6, <2>1, SetRuleType DEF UpsertSet, UpsertSetFails, UncertainSet, RedisTypes
  <2>3. UNCHANGED <<replica, snap>> /\ gap' \in {TRUE, gap}
    BY <1>6 DEF UpsertSet, UpsertSetFails
  <2>4. faults' \in 0..MaxFaults
    BY <1>0, <1>6, FaultType DEF UpsertSet, UpsertSetFails, RedisTypes
  <2> QED
    BY <1>0, <2>2, <2>3, <2>4 DEF RedisTypes
<1>7. ASSUME NEW w \in Writers, UpsertReplace(w)
      PROVE  RedisTypes'
  <2>1. snap' \in [Instances -> RuleSets]
    BY <1>0, <1>7, RuleCacheAssumption
       DEF UpsertReplace, RedisTypes, UpsertTypes, WriterSet, RuleSets
  <2> QED
    BY <1>0, <1>7, <2>1 DEF UpsertReplace, RedisTypes
<1>8. ASSUME NEW w \in Writers, UpsertPublish(w) \/ UpsertPublishFails(w)
      PROVE  RedisTypes'
  <2>1. gap' \in BOOLEAN
    BY <1>0, <1>8 DEF UpsertPublish, UpsertPublishFails, RedisTypes
  <2>2. faults' \in 0..MaxFaults
    BY <1>0, <1>8, FaultType DEF UpsertPublish, UpsertPublishFails, RedisTypes
  <2> QED
    BY <1>0, <1>8, <2>1, <2>2 DEF UpsertPublish, UpsertPublishFails, RedisTypes
<1>9. ASSUME NEW r \in Rules, Replicate(r)
      PROVE  RedisTypes'
  BY <1>0, <1>9 DEF Replicate, RedisTypes, RuleSets
<1> QED
  BY <1>1, <1>2, <1>3, <1>4, <1>5, <1>6, <1>7, <1>8, <1>9
     DEF Next, Watch, Continue, BootExists, BootLoad, Subscribe, OnMessage, Fallback,
         UpsertLoad, vars

-----------------------------------------------------------------------------
(* The watchers. *)

LEMMA WatcherMoves ==
  ASSUME WatcherTypes, NEW i \in Instances, NEW e \in WatcherSet,
         watcher' = [watcher EXCEPT ![i] = e],
         e.pc = "set" => e.todo # {}, e.pc = "idle" => subscribed'[i],
         subscribed' \in [Instances -> BOOLEAN],
         \A j \in Instances \ {i} : subscribed'[j] = subscribed[j]
  PROVE  WatcherTypes'
  BY DEF WatcherTypes

LEMMA WatcherStep == TypeInv /\ [Next]_vars => WatcherTypes'
<1> SUFFICES ASSUME TypeInv, [Next]_vars
             PROVE  WatcherTypes'
  OBVIOUS
<1>0. RedisTypes /\ WatcherTypes
  BY DEF TypeInv
<1>1. ASSUME UNCHANGED <<watcher, subscribed>>
      PROVE  WatcherTypes'
  BY <1>0, <1>1 DEF WatcherTypes
<1>2. ASSUME NEW i \in Instances, Start(i)
      PROVE  WatcherTypes'
  <2>1. PICK e \in WatcherSet : e = Watcher("exists", BootRules, NoRules) /\ e.pc = "exists"
    BY WatcherType, VersionTypes, RuleCacheAssumption
  <2>2. subscribed' \in [Instances -> BOOLEAN]
    BY <1>0, <1>2 DEF Start, WatcherTypes
  <2> QED
    BY <1>0, <1>2, <2>1, <2>2, WatcherMoves DEF Start, WatcherTypes
<1>3. ASSUME NEW i \in Instances, UNCHANGED subscribed, NEW e \in WatcherSet,
             watcher' = [watcher EXCEPT ![i] = e],
             e.pc = "set" => e.todo # {}, e.pc = "idle" => subscribed[i]
      PROVE  WatcherTypes'
  BY <1>0, <1>3, WatcherMoves DEF WatcherTypes
<1>4. ASSUME NEW i \in Instances
      PROVE  watcher[i] \in WatcherSet
  BY <1>0 DEF WatcherTypes
<1>5. ASSUME NEW i \in Instances, BootExists(i)
      PROVE  WatcherTypes'
  <2>1. CASE watcher' = [watcher EXCEPT ![i].pc = "set"]
    <3>1. PICK e : e = [watcher[i] EXCEPT !.pc = "set"]
      OBVIOUS
    <3>2. e \in WatcherSet /\ e.pc = "set" /\ e.todo = watcher[i].todo
      BY <1>4, <3>1 DEF WatcherSet
    <3>3. watcher' = [watcher EXCEPT ![i] = e] /\ watcher[i].todo # {}
      BY <1>5, <2>1, <3>1 DEF BootExists
    <3> QED
      BY <1>3, <1>5, <3>2, <3>3 DEF BootExists
  <2>2. CASE \E r : watcher' = [watcher EXCEPT ![i].todo = @ \ {r}]
    <3>1. PICK r : watcher' = [watcher EXCEPT ![i].todo = @ \ {r}]
      BY <2>2
    <3>2. PICK e : e = [watcher[i] EXCEPT !.todo = @ \ {r}]
      OBVIOUS
    <3>3. e \in WatcherSet /\ e.pc = watcher[i].pc
      BY <1>4, <3>2 DEF WatcherSet
    <3>4. watcher' = [watcher EXCEPT ![i] = e] /\ e.pc = "exists"
      BY <1>5, <3>1, <3>2, <3>3 DEF BootExists
    <3> QED
      BY <1>3, <1>5, <3>3, <3>4 DEF BootExists
  <2> QED
    BY <1>5, <2>1, <2>2 DEF BootExists
<1>6. ASSUME NEW i \in Instances, BootSet(i)
      PROVE  WatcherTypes'
  <2>1. PICK r : watcher' = [watcher EXCEPT ![i] =
                               Watcher("exists", watcher[i].todo \ {r}, NoRules)]
    BY <1>6 DEF BootSet
  <2>2. watcher[i].todo \ {r} \in SUBSET Rules
    BY <1>4 DEF WatcherSet
  <2>3. PICK e : e = Watcher("exists", watcher[i].todo \ {r}, NoRules)
    OBVIOUS
  <2>4. e \in WatcherSet /\ e.pc = "exists"
    BY <2>2, <2>3, WatcherType, VersionTypes
  <2> QED
    BY <1>3, <1>6, <2>1, <2>3, <2>4 DEF BootSet
<1>7. ASSUME NEW i \in Instances, NEW pc \in {"scan", "idle"},
             UNCHANGED subscribed, watcher' = [watcher EXCEPT ![i].pc = pc],
             subscribed[i] \/ pc # "idle"
      PROVE  WatcherTypes'
  <2>1. PICK e : e = [watcher[i] EXCEPT !.pc = pc]
    OBVIOUS
  <2>2. e \in WatcherSet /\ e.pc = pc
    BY <1>4, <2>1 DEF WatcherSet
  <2>3. watcher' = [watcher EXCEPT ![i] = e]
    BY <1>7, <2>1
  <2> QED
    BY <1>3, <1>7, <2>2, <2>3
<1>8. ASSUME NEW i \in Instances,
             BootLoad(i) \/ ScanFails(i) \/ OnMessage(i) \/ Fallback(i)
      PROVE  WatcherTypes'
  BY <1>7, <1>8 DEF BootLoad, ScanFails, OnMessage, Fallback, AfterAMinute
<1>9. ASSUME NEW i \in Instances, Scan(i)
      PROVE  WatcherTypes'
  <2>1. PICK found \in SUBSET Rules : watcher' = [watcher EXCEPT ![i] = Watcher("get", found, NoRules)]
    BY <1>9 DEF Scan
  <2> QED
    BY <1>3, <1>9, <2>1, WatcherType, VersionTypes DEF Scan
<1>10. ASSUME NEW i \in Instances, GetRule(i)
       PROVE  WatcherTypes'
  <2>1. PICK r \in watcher[i].todo, view \in Views :
          watcher' = [watcher EXCEPT ![i].todo = @ \ {r}, ![i].got[r] = view[r]]
    BY <1>10 DEF GetRule
  <2>2. r \in Rules /\ view[r] \in Versions
    BY <1>0, <1>4, <2>1, ViewType DEF WatcherSet, RuleSets
  <2>3. PICK e : e = [watcher[i] EXCEPT !.todo = @ \ {r}, !.got[r] = view[r]]
    OBVIOUS
  <2>4. e \in WatcherSet /\ e.pc = watcher[i].pc
    <3>1. [watcher[i].got EXCEPT ![r] = view[r]] \in RuleSets
      BY <1>4, <2>2 DEF WatcherSet, RuleSets
    <3> QED
      BY <1>4, <2>3, <3>1 DEF WatcherSet
  <2>5. e.pc = "get"
    BY <1>10, <2>4 DEF GetRule
  <2>6. watcher' = [watcher EXCEPT ![i] = e]
    BY ONLY <2>1, <2>3
  <2> QED
    BY <1>3, <1>10, <2>4, <2>5, <2>6 DEF GetRule
<1>11. ASSUME NEW i \in Instances, GetFails(i)
       PROVE  WatcherTypes'
  <2>1. PICK r \in watcher[i].todo : watcher' = [watcher EXCEPT ![i].todo = @ \ {r}]
    BY <1>11 DEF GetFails
  <2>2. PICK e : e = [watcher[i] EXCEPT !.todo = @ \ {r}]
    OBVIOUS
  <2>3. e \in WatcherSet /\ e.pc = watcher[i].pc
    BY <1>4, <2>2 DEF WatcherSet
  <2>4. watcher' = [watcher EXCEPT ![i] = e] /\ e.pc = "get"
    BY <1>11, <2>1, <2>2, <2>3 DEF GetFails
  <2> QED
    BY <1>3, <1>11, <2>3, <2>4 DEF GetFails
<1>12. ASSUME NEW i \in Instances, ReplaceAll(i)
       PROVE  WatcherTypes'
  <2>1. PICK pc \in {"idle", "subscribe"} : pc = IF subscribed[i] THEN "idle" ELSE "subscribe"
    OBVIOUS
  <2>2. PICK e : e = Watcher(pc, {}, NoRules)
    OBVIOUS
  <2>3. watcher' = [watcher EXCEPT ![i] = e]
    BY <1>12, <2>1, <2>2 DEF ReplaceAll
  <2>4. e \in WatcherSet /\ e.pc = pc
    BY <2>2, WatcherType, VersionTypes
  <2> QED
    BY <1>3, <1>12, <2>1, <2>3, <2>4 DEF ReplaceAll
<1>13. ASSUME NEW i \in Instances, Subscribe(i)
       PROVE  WatcherTypes'
  <2>1. PICK e : e = [watcher[i] EXCEPT !.pc = "idle"]
    OBVIOUS
  <2>2. e \in WatcherSet /\ e.pc = "idle"
    BY <1>4, <2>1 DEF WatcherSet
  <2>3. watcher' = [watcher EXCEPT ![i] = e]
    BY <1>13, <2>1 DEF Subscribe
  <2>4. /\ subscribed' \in [Instances -> BOOLEAN] /\ subscribed'[i]
        /\ \A j \in Instances \ {i} : subscribed'[j] = subscribed[j]
    BY <1>0, <1>13 DEF Subscribe, WatcherTypes
  <2> QED
    BY <1>0, <2>2, <2>3, <2>4, WatcherMoves
<1> QED
  BY <1>1, <1>2, <1>5, <1>6, <1>8, <1>9, <1>10, <1>11, <1>12, <1>13
     DEF Next, Watch, Continue, UpsertSet, UpsertSetFails, UpsertLoad, UpsertReplace,
         UpsertPublish, UpsertPublishFails, Replicate, vars

-----------------------------------------------------------------------------
(* The writers and the channels. *)

LEMMA BusyNat == ASSUME UpsertTypes PROVE IsFiniteSet(Busy) /\ Cardinality(Busy) \in Nat
  BY FS_CardinalityType DEF UpsertTypes, Announced

LEMMA DeliverType ==
  ASSUME UpsertTypes, NEW D, Deliver(D)
  PROVE  /\ pending' \in [Instances -> Nat]
         /\ \A j \in Instances : /\ pending'[j] <= pending[j] + 1
                                 /\ pending'[j] >= pending[j]
                                 /\ j \in D => pending'[j] > 0
  BY DEF Deliver, UpsertTypes

LEMMA UpsertStep == TypeInv /\ [Next]_vars => UpsertTypes'
<1> SUFFICES ASSUME TypeInv, [Next]_vars
             PROVE  UpsertTypes'
  OBVIOUS
<1>0. RedisTypes /\ UpsertTypes
  BY DEF TypeInv
<1>1. \A j \in Instances : pending[j] \in Nat /\ pending[j] + Cardinality(Busy) <= writes
  BY <1>0 DEF UpsertTypes, Announced
<1>2. IsFiniteSet(Busy) /\ Cardinality(Busy) \in Nat /\ writes \in Nat /\ writes <= MaxWrites
  BY <1>0, BusyNat, RuleCacheAssumption DEF UpsertTypes
<1>3. ASSUME UNCHANGED <<upsert, pending, writes>>
      PROVE  UpsertTypes'
  BY <1>0, <1>3 DEF UpsertTypes, Announced, Busy
<1>4. ASSUME NEW i \in Instances, Start(i)
      PROVE  UpsertTypes'
  <2>1. upsert' \in [Writers -> WriterSet] /\ Busy' \subseteq Busy
    BY <1>0, <1>4, IdleWriterType DEF Start, UpsertTypes, Busy
  <2>2. IsFiniteSet(Busy') /\ Cardinality(Busy') <= Cardinality(Busy) /\ Cardinality(Busy') \in Nat
    BY <1>2, <2>1, FS_Subset, FS_CardinalityType
  <2>3. /\ pending' \in [Instances -> Nat]
        /\ \A j \in Instances : pending'[j] <= pending[j] /\ pending'[j] \in Nat
    BY <1>0, <1>4 DEF Start, UpsertTypes
  <2>4. writes' = writes /\ writes' \in 0..MaxWrites
    BY <1>0, <1>4 DEF Start, UpsertTypes
  <2>5. \A j \in Instances : pending'[j] + Cardinality(Busy') <= writes'
    BY <1>1, <1>2, <2>2, <2>3, <2>4
  <2> QED
    BY <2>1, <2>2, <2>3, <2>4, <2>5 DEF UpsertTypes, Announced
<1>5. ASSUME NEW i \in Instances, OnMessage(i)
      PROVE  UpsertTypes'
  <2>1. UNCHANGED <<upsert, writes>> /\ Busy' = Busy
    BY <1>5 DEF OnMessage, Busy
  <2>2. /\ pending' \in [Instances -> Nat]
        /\ \A j \in Instances : pending'[j] <= pending[j] /\ pending'[j] \in Nat
    BY <1>0, <1>5 DEF OnMessage, HasMessage, UpsertTypes
  <2>3. \A j \in Instances : pending'[j] + Cardinality(Busy') <= writes'
    BY <1>1, <1>2, <2>1, <2>2
  <2> QED
    BY <1>0, <1>2, <2>1, <2>2, <2>3 DEF UpsertTypes, Announced
<1>6. ASSUME NEW w \in Writers, NEW r \in Rules, UpsertSet(w, r)
      PROVE  UpsertTypes'
  <2>1. writes' = writes + 1 /\ writes' \in 0..MaxWrites /\ BootVersion + writes' \in Versions
    BY <1>0, <1>6, NextVersion DEF UpsertSet
  <2>2. PICK e : e = Writer("load", r, BootVersion + writes', NoRules)
    OBVIOUS
  <2>3. e \in WriterSet /\ e.pc = "load"
    BY <2>1, <2>2, WriterType, VersionTypes
  <2>4. upsert' = [upsert EXCEPT ![w] = e] /\ UNCHANGED pending
    BY <1>6, <2>2 DEF UpsertSet
  <2>5. upsert' \in [Writers -> WriterSet]
    BY <1>0, <2>3, <2>4 DEF UpsertTypes
  <2>6. Busy' = Busy \cup {w}
    BY <1>0, <2>3, <2>4 DEF UpsertTypes, Busy
  <2>7. /\ IsFiniteSet(Busy') /\ Cardinality(Busy') \in Nat
        /\ Cardinality(Busy') <= Cardinality(Busy) + 1
    <3>1. /\ IsFiniteSet(Busy \cup {w})
          /\ Cardinality(Busy \cup {w}) = Cardinality(Busy)
             \/ Cardinality(Busy \cup {w}) = Cardinality(Busy) + 1
      BY <1>2, FS_AddElement
    <3> QED
      BY <1>2, <2>6, <3>1
  <2>8. \A j \in Instances : pending'[j] + Cardinality(Busy') <= writes'
    BY <1>1, <1>2, <2>1, <2>4, <2>7
  <2> QED
    BY <1>0, <2>1, <2>4, <2>5, <2>7, <2>8 DEF UpsertTypes, Announced
<1>7. ASSUME NEW w \in Writers, NEW r \in Rules, UpsertSetFails(w, r)
      PROVE  UpsertTypes'
  <2>1. writes' = writes + 1 /\ writes' \in 0..MaxWrites
    BY <1>0, <1>7, NextVersion DEF UpsertSetFails
  <2>2. UNCHANGED <<upsert, pending>> /\ Busy' = Busy
    BY <1>7 DEF UpsertSetFails, AfterSetError, Busy
  <2>3. \A j \in Instances : pending'[j] + Cardinality(Busy') <= writes'
    BY <1>1, <1>2, <2>1, <2>2
  <2> QED
    BY <1>0, <1>2, <2>1, <2>2, <2>3 DEF UpsertTypes, Announced
<1>8. ASSUME NEW w \in Writers, UpsertLoad(w) \/ UpsertReplace(w)
      PROVE  UpsertTypes'
  <2>1. PICK pc \in {"replace", "publish"}, seen \in RuleSets :
          upsert' = [upsert EXCEPT ![w].pc = pc, ![w].seen = seen]
    BY <1>0, <1>8, VersionTypes, RuleCacheAssumption DEF UpsertLoad, UpsertReplace, RedisTypes
  <2>2. upsert[w] \in WriterSet /\ upsert[w].pc # "idle"
    BY <1>0, <1>8 DEF UpsertLoad, UpsertReplace, UpsertTypes
  <2>3. PICK e : e = [upsert[w] EXCEPT !.pc = pc, !.seen = seen]
    OBVIOUS
  <2>4. e \in WriterSet /\ e.pc # "idle"
    BY <2>1, <2>2, <2>3 DEF WriterSet
  <2>5. upsert' = [upsert EXCEPT ![w] = e]
    BY <2>1, <2>3
  <2>6. upsert' \in [Writers -> WriterSet] /\ Busy' = Busy
    BY <1>0, <2>2, <2>4, <2>5 DEF UpsertTypes, Busy
  <2>7. UNCHANGED <<pending, writes>>
    BY <1>8 DEF UpsertLoad, UpsertReplace
  <2> QED
    BY <1>0, <2>6, <2>7 DEF UpsertTypes, Announced
<1>9. ASSUME NEW w \in Writers, UpsertPublish(w) \/ UpsertPublishFails(w)
      PROVE  UpsertTypes'
  <2>1. upsert' = [upsert EXCEPT ![w] = IdleWriter] /\ UNCHANGED writes /\ w \in Busy
    BY <1>9 DEF UpsertPublish, UpsertPublishFails, Busy
  <2>2. \E D : Deliver(D)
    BY <1>9 DEF UpsertPublish, UpsertPublishFails
  <2>3. /\ pending' \in [Instances -> Nat]
        /\ \A j \in Instances : pending'[j] <= pending[j] + 1
    BY <1>0, <2>2, DeliverType
  <2>4. upsert' \in [Writers -> WriterSet] /\ Busy' = Busy \ {w}
    BY <1>0, <2>1, IdleWriterType DEF UpsertTypes, Busy
  <2>5. IsFiniteSet(Busy') /\ Cardinality(Busy') = Cardinality(Busy) - 1
    BY <1>2, <2>1, <2>4, FS_RemoveElement
  <2>6. \A j \in Instances : pending'[j] + Cardinality(Busy') <= writes'
    BY <1>1, <1>2, <2>1, <2>3, <2>5
  <2> QED
    BY <1>0, <2>1, <2>3, <2>4, <2>5, <2>6 DEF UpsertTypes, Announced
<1> QED
  BY <1>3, <1>4, <1>5, <1>6, <1>7, <1>8, <1>9
     DEF Next, Watch, Continue, BootExists, BootSet, BootLoad, Scan, ScanFails, GetRule,
         GetFails, ReplaceAll, Subscribe, Fallback, Replicate, vars

LEMMA TypeInvariance == Spec => []TypeInv
<1>1. TypeInv /\ [Next]_vars => TypeInv'
  BY RedisStep, WatcherStep, UpsertStep DEF TypeInv
<1> QED
  BY <1>1, InitType, PTL DEF Spec

\* Every variable keeps its type; in particular no channel ever holds more messages
\* than rules were written.
THEOREM TypeCorrect == Spec => []TypeOK
  BY TypeInvariance, TypeInvImpliesTypeOK, PTL

-----------------------------------------------------------------------------
(* What instances enforce was in Redis. *)

Known(s) == \A r \in Rules : s[r] # Absent => <<r, s[r]>> \in stored

\* It holds of Redis, of what reloads have read and of what Upserts have copied, too.
KnownInv ==
  /\ Known(store) /\ Known(replica)
  /\ \A i \in Instances : Known(snap[i]) /\ Known(watcher[i].got)
  /\ \A w \in Writers :
       /\ Known(upsert[w].seen)
       /\ upsert[w].pc \in {"load", "replace"} => <<upsert[w].rule, upsert[w].ver>> \in stored

LEMMA NothingKnown == Known(NoRules)
  BY DEF Known, NoRules

LEMMA InitKnown == Init => KnownInv
<1> SUFFICES ASSUME Init PROVE KnownInv
  OBVIOUS
<1>1. \A w \in Writers : upsert[w] = IdleWriter
  BY DEF Init
<1>2. \A i \in Instances : watcher[i].got = NoRules /\ snap[i] = NoRules
  BY DEF Init, Watcher
<1> QED
  BY <1>1, <1>2, NothingKnown, IdleWriterType DEF Init, KnownInv

\* A write is known at once.
LEMMA SetRuleKnown ==
  ASSUME RedisTypes, Known(store), NEW r \in Rules, NEW v \in Versions, SetRule(r, v)
  PROVE  Known(store)' /\ <<r, v>> \in stored' /\ stored \subseteq stored'
  BY DEF RedisTypes, RuleSets, SetRule, Known

LEMMA StepKnown == TypeInv /\ KnownInv /\ [Next]_vars => KnownInv'
<1> SUFFICES ASSUME TypeInv, KnownInv, [Next]_vars
             PROVE  KnownInv'
  OBVIOUS
<1>0. RedisTypes /\ WatcherTypes /\ UpsertTypes
  BY DEF TypeInv
<1>1. ASSUME NEW i \in Instances PROVE watcher[i] \in WatcherSet
  BY <1>0 DEF WatcherTypes
<1>2. ASSUME NEW w \in Writers PROVE upsert[w] \in WriterSet
  BY <1>0 DEF UpsertTypes
<1>3. ASSUME UNCHANGED <<store, replica, snap, upsert, stored>>,
             \A i \in Instances : Known(watcher'[i].got)
      PROVE  KnownInv'
  BY <1>3 DEF KnownInv, Known
<1>4. ASSUME UNCHANGED <<store, replica, snap, upsert, stored>>,
             \A i \in Instances : watcher'[i].got \in {watcher[i].got, NoRules}
      PROVE  KnownInv'
  BY <1>3, <1>4, NothingKnown DEF KnownInv
<1>5. ASSUME NEW i \in Instances, Start(i)
      PROVE  KnownInv'
  <2>1. \A j \in Instances : /\ snap'[j] \in {snap[j], NoRules}
                            /\ watcher'[j].got \in {watcher[j].got, NoRules}
    BY <1>0, <1>5 DEF Start, RedisTypes, WatcherTypes, Watcher
  <2>2. \A w \in Writers : upsert'[w] \in {upsert[w], IdleWriter}
    BY <1>5 DEF Start
  <2>3. UNCHANGED <<store, replica, stored>>
    BY <1>5 DEF Start
  <2> QED
    BY <2>1, <2>2, <2>3, NothingKnown, IdleWriterType DEF KnownInv, Known
<1>6. ASSUME NEW i \in Instances,
             \/ BootExists(i) \/ BootLoad(i) \/ ScanFails(i) \/ GetFails(i)
             \/ Subscribe(i) \/ OnMessage(i) \/ Fallback(i)
      PROVE  KnownInv'
  <2>1. UNCHANGED <<store, replica, snap, upsert, stored>>
    BY <1>6 DEF BootExists, BootLoad, ScanFails, GetFails, Subscribe, OnMessage, Fallback
  <2>2. \A j \in Instances : watcher'[j].got = watcher[j].got
    BY <1>0, <1>6, <1>1 DEF BootExists, BootLoad, ScanFails, GetFails, Subscribe, OnMessage,
                       Fallback, WatcherTypes, WatcherSet
  <2> QED
    BY <1>4, <2>1, <2>2
<1>7. ASSUME NEW i \in Instances, BootSet(i)
      PROVE  KnownInv'
  <2>1. PICK r \in Rules : SetRule(r, BootVersion)
    BY <1>0, <1>7 DEF BootSet, WatcherTypes, WatcherSet
  <2>2. Known(store)' /\ stored \subseteq stored'
    BY <1>0, <2>1, SetRuleKnown, VersionTypes DEF KnownInv
  <2>3. \A j \in Instances : watcher'[j].got \in {watcher[j].got, NoRules}
    BY <1>0, <1>7 DEF BootSet, WatcherTypes, Watcher
  <2>4. UNCHANGED <<replica, snap, upsert>>
    BY <1>7 DEF BootSet
  <2> QED
    BY <2>2, <2>3, <2>4, NothingKnown DEF KnownInv, Known
<1>8. ASSUME NEW i \in Instances, Scan(i)
      PROVE  KnownInv'
  <2>1. \A j \in Instances : watcher'[j].got \in {watcher[j].got, NoRules}
    BY <1>0, <1>8 DEF Scan, WatcherTypes, Watcher
  <2> QED
    BY <1>4, <1>8, <2>1 DEF Scan
<1>9. ASSUME NEW i \in Instances, GetRule(i)
      PROVE  KnownInv'
  <2>1. PICK r \in watcher[i].todo, view \in Views :
          watcher' = [watcher EXCEPT ![i].todo = @ \ {r}, ![i].got[r] = view[r]]
    BY <1>9 DEF GetRule
  <2>2. Known(view)
    BY <2>1 DEF Views, KnownInv
  <2>3. watcher[i].got \in RuleSets
    BY <1>1 DEF WatcherSet
  <2>4. \A q \in Rules : watcher'[i].got[q] = IF q = r THEN view[r] ELSE watcher[i].got[q]
    BY <1>0, <1>1, <2>1, <2>3 DEF WatcherTypes, WatcherSet, RuleSets
  <2>5. Known(watcher'[i].got)
    BY <2>2, <2>4 DEF Known, KnownInv
  <2>6. \A j \in Instances \ {i} : watcher'[j] = watcher[j]
    BY <1>0, <2>1 DEF WatcherTypes
  <2>7. \A j \in Instances : Known(watcher'[j].got)
    BY <2>5, <2>6 DEF KnownInv
  <2> QED
    BY <1>3, <1>9, <2>7 DEF GetRule
<1>10. ASSUME NEW i \in Instances, ReplaceAll(i)
       PROVE  KnownInv'
  <2>1. \A j \in Instances : /\ snap'[j] \in {snap[j], watcher[j].got}
                            /\ watcher'[j].got \in {watcher[j].got, NoRules}
    BY <1>0, <1>10 DEF ReplaceAll, RedisTypes, WatcherTypes, Watcher
  <2>2. UNCHANGED <<store, replica, upsert, stored>>
    BY <1>10 DEF ReplaceAll
  <2> QED
    BY <2>1, <2>2, NothingKnown DEF KnownInv, Known
<1>11. ASSUME NEW w \in Writers, NEW r \in Rules, UpsertSet(w, r)
       PROVE  KnownInv'
  <2>1. PICK v \in Versions : v = BootVersion + writes'
    BY <1>0, <1>11, NextVersion DEF UpsertSet
  <2>2. Known(store)' /\ stored \subseteq stored' /\ <<r, v>> \in stored'
    BY <1>0, <1>11, <2>1, SetRuleKnown DEF UpsertSet, KnownInv
  <2>3. PICK e : e = Writer("load", r, v, NoRules)
    OBVIOUS
  <2>4. e.seen = NoRules /\ e.rule = r /\ e.ver = v
    BY <2>3, WriterType, VersionTypes
  <2>5. \A x \in Writers : upsert'[x] = IF x = w THEN e ELSE upsert[x]
    BY <1>0, <1>11, <2>1, <2>3 DEF UpsertSet, UpsertTypes
  <2>6. UNCHANGED <<replica, snap, watcher>>
    BY <1>11 DEF UpsertSet
  <2> QED
    BY <2>2, <2>4, <2>5, <2>6, NothingKnown DEF KnownInv, Known
<1>12. ASSUME NEW w \in Writers, NEW r \in Rules, UpsertSetFails(w, r)
       PROVE  KnownInv'
  <2>1. BootVersion + writes' \in Versions
    BY <1>0, <1>12, NextVersion DEF UpsertSetFails
  <2>2. UNCHANGED <<replica, snap, watcher, upsert>>
    BY <1>12 DEF UpsertSetFails, AfterSetError
  <2>3. Known(store)' /\ stored \subseteq stored'
    <3>1. CASE UNCHANGED <<store, stored>>
      BY <3>1 DEF Known, KnownInv
    <3>2. CASE SetRule(r, BootVersion + writes')
      BY <1>0, <2>1, <3>2, SetRuleKnown DEF KnownInv
    <3> QED
      BY <1>12, <3>1, <3>2 DEF UpsertSetFails, UncertainSet
  <2> QED
    BY <2>2, <2>3 DEF KnownInv, Known
<1>13. ASSUME NEW w \in Writers, UpsertLoad(w)
       PROVE  KnownInv'
  <2>1. UNCHANGED <<store, replica, snap, watcher, stored>>
    BY <1>13 DEF UpsertLoad
  <2>2. \A x \in Writers \ {w} : upsert'[x] = upsert[x]
    BY <1>0, <1>13 DEF UpsertLoad, UpsertTypes
  <2>3. /\ upsert'[w].seen = snap[InstanceOf[w]] /\ upsert'[w].rule = upsert[w].rule
        /\ upsert'[w].ver = upsert[w].ver /\ upsert[w].pc = "load"
    BY <1>0, <1>2, <1>13 DEF UpsertLoad, UpsertTypes, WriterSet
  <2> QED
    BY <2>1, <2>2, <2>3, RuleCacheAssumption DEF KnownInv, Known
<1>14. ASSUME NEW w \in Writers, UpsertReplace(w)
       PROVE  KnownInv'
  <2>1. UNCHANGED <<store, replica, watcher, stored>> /\ upsert[w].pc = "replace"
    BY <1>14 DEF UpsertReplace
  <2>2. \A x \in Writers \ {w} : upsert'[x] = upsert[x]
    BY <1>0, <1>14 DEF UpsertReplace, UpsertTypes
  <2>3. upsert'[w].seen = NoRules /\ upsert'[w].pc = "publish"
    BY <1>0, <1>2, <1>14 DEF UpsertReplace, UpsertTypes, WriterSet
  <2>4. PICK copy : copy = [upsert[w].seen EXCEPT ![upsert[w].rule] = upsert[w].ver]
    OBVIOUS
  <2>5. \A j \in Instances : snap'[j] \in {snap[j], copy}
    BY <1>0, <1>14, <2>4 DEF UpsertReplace, RedisTypes
  <2>6. \A q \in Rules : copy[q] = IF q = upsert[w].rule THEN upsert[w].ver
                                                         ELSE upsert[w].seen[q]
    BY <1>2, <2>4 DEF WriterSet, RuleSets
  <2>7. Known(copy)
    BY <2>1, <2>6 DEF KnownInv, Known
  <2> QED
    BY <2>1, <2>2, <2>3, <2>5, <2>7, NothingKnown DEF KnownInv, Known
<1>15. ASSUME NEW w \in Writers, UpsertPublish(w) \/ UpsertPublishFails(w)
       PROVE  KnownInv'
  <2>1. \A x \in Writers : upsert'[x] \in {upsert[x], IdleWriter}
    BY <1>0, <1>15 DEF UpsertPublish, UpsertPublishFails, UpsertTypes
  <2>2. UNCHANGED <<store, replica, snap, watcher, stored>>
    BY <1>15 DEF UpsertPublish, UpsertPublishFails
  <2> QED
    BY <2>1, <2>2, NothingKnown, IdleWriterType DEF KnownInv, Known
<1>16. ASSUME NEW r \in Rules, Replicate(r)
       PROVE  KnownInv'
  <2>1. \A q \in Rules : replica'[q] \in {replica[q], store[q]}
    BY <1>0, <1>16 DEF Replicate, RedisTypes, RuleSets
  <2> QED
    BY <1>16, <2>1 DEF Replicate, KnownInv, Known
<1>17. CASE UNCHANGED vars
  BY <1>4, <1>17 DEF vars
<1> QED
  BY <1>5, <1>6, <1>7, <1>8, <1>9, <1>10, <1>11, <1>12, <1>13, <1>14, <1>15, <1>16, <1>17
     DEF Next, Watch, Continue

\* No instance ever enforces what Redis has not held: neither a rule whose SET failed,
\* nor what a concurrent reload or Upsert has mixed.
THEOREM EnforcedWasStored == Spec => []NeverInvented
<1>1. KnownInv => NeverInvented
  BY DEF KnownInv, Known, NeverInvented
<1> QED
  BY <1>1, InitKnown, StepKnown, TypeInvariance, PTL DEF Spec

-----------------------------------------------------------------------------
(* Pub/Sub keeps the instances consistent. *)

\* An instance holds what Redis holds, is reading it, or will be told to read it.
WillHold(i) ==
  \/ \E w \in Writers : upsert[w].pc # "idle"
  \/ pending[i] > 0
  \/ watcher[i].pc \in {"exists", "set", "scan"}
  \/ /\ watcher[i].pc = "get"
     /\ \A r \in Rules \ watcher[i].todo : watcher[i].got[r] = store[r]
  \/ watcher[i].pc \in {"subscribe", "idle"} /\ snap[i] = store

ConsistentInv == ~gap => \A i \in Instances : WillHold(i)

LEMMA InitConsistent == Init => ConsistentInv
  BY DEF Init, ConsistentInv, WillHold, Watcher

LEMMA StepConsistent == TypeInv /\ ConsistentInv /\ [Next]_vars => ConsistentInv'
<1> SUFFICES ASSUME TypeInv, ConsistentInv, [Next]_vars, ~gap', NEW j \in Instances
             PROVE  WillHold(j)'
  BY DEF ConsistentInv
<1>0. RedisTypes /\ WatcherTypes /\ UpsertTypes
  BY DEF TypeInv
<1>1. watcher[j] \in WatcherSet
  BY <1>0 DEF WatcherTypes
<1>2. CASE UNCHANGED vars
  BY <1>2 DEF vars, ConsistentInv, WillHold
<1>3. ASSUME ~gap, UNCHANGED <<store, snap, pending, upsert>>, watcher'[j] = watcher[j]
      PROVE  WillHold(j)'
  BY <1>3 DEF ConsistentInv, WillHold
<1>4. ASSUME NEW i \in Instances, Start(i)
      PROVE  WillHold(j)'
  <2>1. CASE j = i
    <3>1. watcher'[j].pc = "exists"
      BY <1>0, <1>4, <2>1 DEF Start, WatcherTypes, Watcher
    <3> QED
      BY <3>1 DEF WillHold
  <2>2. CASE j # i
    <3>1. /\ ~gap /\ store' = store /\ snap'[j] = snap[j] /\ watcher'[j] = watcher[j]
          /\ pending'[j] = pending[j]
          /\ \A w \in Writers : InstanceOf[w] = i => upsert[w].pc = "idle"
      BY <1>0, <1>4, <2>2 DEF Start, RedisTypes, WatcherTypes, UpsertTypes
    <3>2. \A w \in Writers : upsert[w].pc # "idle" => upsert'[w] = upsert[w]
      BY <1>4, <3>1 DEF Start
    <3> QED
      BY <3>1, <3>2 DEF ConsistentInv, WillHold
  <2> QED
    BY <2>1, <2>2
<1>5. ASSUME NEW i \in Instances, BootExists(i) \/ BootLoad(i) \/ Fallback(i)
      PROVE  WillHold(j)'
  <2>1. CASE j = i
    <3>1. watcher'[j].pc \in {"exists", "set", "scan"}
      BY <1>0, <1>1, <1>5, <2>1
         DEF BootExists, BootLoad, Fallback, AfterAMinute, WatcherTypes, WatcherSet
    <3> QED
      BY <3>1 DEF WillHold
  <2>2. CASE j # i
    BY <1>0, <1>3, <1>5, <2>2 DEF BootExists, BootLoad, Fallback, WatcherTypes
  <2> QED
    BY <2>1, <2>2
<1>6. ASSUME NEW i \in Instances, BootSet(i)
      PROVE  WillHold(j)'
  <2>1. ~gap /\ watcher[j].pc \notin {"get", "subscribe"} /\ ~subscribed[j]
    BY <1>6 DEF BootSet, Serving
  <2>2. watcher[j].pc \in {"exists", "set", "scan"}
    BY <1>0, <1>1, <2>1 DEF WatcherTypes, WatcherSet
  <2>3. watcher'[j].pc \in {"exists", "set", "scan"}
    BY <1>0, <1>6, <2>2 DEF BootSet, WatcherTypes, Watcher
  <2> QED
    BY <2>3 DEF WillHold
<1>7. ASSUME NEW i \in Instances, Scan(i)
      PROVE  WillHold(j)'
  <2>1. CASE j = i
    <3>1. PICK found \in SUBSET Rules :
            /\ watcher' = [watcher EXCEPT ![i] = Watcher("get", found, NoRules)]
            /\ gap' = (gap \/ \E r \in Rules \ found : store[r] # Absent)
      BY <1>7 DEF Scan
    <3>2. PICK e : e = Watcher("get", found, NoRules)
      OBVIOUS
    <3>3. e.pc = "get" /\ e.todo = found /\ e.got = NoRules
      BY <3>2, WatcherType, VersionTypes
    <3>4. watcher'[j] = e
      BY <1>0, <2>1, <3>1, <3>2 DEF WatcherTypes
    <3>5. \A r \in Rules \ found : store[r] = Absent /\ NoRules[r] = Absent
      BY <3>1 DEF NoRules
    <3> QED
      BY <1>7, <3>3, <3>4, <3>5 DEF Scan, WillHold
  <2>2. CASE j # i
    BY <1>0, <1>3, <1>7, <2>2 DEF Scan, WatcherTypes
  <2> QED
    BY <2>1, <2>2
<1>8. ASSUME NEW i \in Instances, ScanFails(i) \/ GetFails(i)
      PROVE  WillHold(j)'
  BY <1>8 DEF ScanFails, GetFails
<1>9. ASSUME NEW i \in Instances, GetRule(i)
      PROVE  WillHold(j)'
  <2>1. PICK r \in watcher[i].todo, view \in Views :
          /\ watcher' = [watcher EXCEPT ![i].todo = @ \ {r}, ![i].got[r] = view[r]]
          /\ gap' = (gap \/ view[r] # store[r])
    BY <1>9 DEF GetRule
  <2>2. CASE j = i
    <3>1. watcher[j].got \in [Rules -> Versions]
      BY <1>1 DEF WatcherSet, RuleSets
    <3>2. /\ watcher'[j].pc = "get" /\ watcher'[j].todo = watcher[j].todo \ {r}
          /\ \A q \in Rules : watcher'[j].got[q] = IF q = r THEN view[r] ELSE watcher[j].got[q]
      BY <1>0, <1>1, <1>9, <2>1, <2>2, <3>1 DEF GetRule, WatcherTypes, WatcherSet
    <3>3. ~gap /\ view[r] = store[r] /\ watcher[j].pc = "get"
          /\ UNCHANGED <<store, snap, pending, upsert>>
      BY <1>9, <2>1, <2>2 DEF GetRule
    <3> QED
      BY <3>2, <3>3 DEF ConsistentInv, WillHold
  <2>3. CASE j # i
    BY <1>0, <1>3, <1>9, <2>1, <2>3 DEF GetRule, WatcherTypes
  <2> QED
    BY <2>2, <2>3
<1>10. ASSUME NEW i \in Instances, ReplaceAll(i)
       PROVE  WillHold(j)'
  <2>1. ~gap /\ UNCHANGED <<store, pending, upsert>>
    BY <1>10 DEF ReplaceAll
  <2>2. CASE j = i
    <3>1. watcher[j].pc = "get" /\ watcher[j].todo = {} /\ snap'[j] = watcher[j].got
      BY <1>0, <1>10, <2>2 DEF ReplaceAll, RedisTypes
    <3>2. watcher'[j].pc \in {"subscribe", "idle"}
      BY <1>0, <1>10, <2>2 DEF ReplaceAll, WatcherTypes, Watcher
    <3>3. watcher[j].got \in [Rules -> Versions] /\ store \in [Rules -> Versions]
      BY <1>0, <1>1 DEF RedisTypes, WatcherSet, RuleSets
    <3>4. (\A r \in Rules : watcher[j].got[r] = store[r]) => watcher[j].got = store
      BY <3>3
    <3> QED
      BY <2>1, <3>1, <3>2, <3>4 DEF ConsistentInv, WillHold
  <2>3. CASE j # i
    <3>1. snap'[j] = snap[j] /\ watcher'[j] = watcher[j]
      BY <1>0, <1>10, <2>3 DEF ReplaceAll, RedisTypes, WatcherTypes
    <3> QED
      BY <2>1, <3>1 DEF ConsistentInv, WillHold
  <2> QED
    BY <2>2, <2>3
<1>11. ASSUME NEW i \in Instances, Subscribe(i)
       PROVE  WillHold(j)'
  <2>1. ~gap /\ UNCHANGED <<store, snap, pending, upsert>>
    BY <1>11 DEF Subscribe
  <2>2. CASE j = i
    <3>1. watcher[j].pc = "subscribe" /\ watcher'[j].pc = "idle"
      BY <1>0, <1>1, <1>11, <2>2 DEF Subscribe, WatcherTypes, WatcherSet
    <3> QED
      BY <2>1, <3>1 DEF ConsistentInv, WillHold
  <2>3. CASE j # i
    BY <1>0, <1>3, <1>11, <2>1, <2>3 DEF Subscribe, WatcherTypes
  <2> QED
    BY <2>2, <2>3
<1>12. ASSUME NEW i \in Instances, OnMessage(i)
       PROVE  WillHold(j)'
  <2>1. ~gap /\ UNCHANGED <<store, snap, upsert>>
    BY <1>12 DEF OnMessage
  <2>2. CASE j = i
    <3>1. watcher'[j].pc = "scan"
      BY <1>0, <1>1, <1>12, <2>2 DEF OnMessage, WatcherTypes, WatcherSet
    <3> QED
      BY <3>1 DEF WillHold
  <2>3. CASE j # i
    <3>1. watcher'[j] = watcher[j] /\ pending'[j] = pending[j]
      BY <1>0, <1>12, <2>3 DEF OnMessage, WatcherTypes, UpsertTypes
    <3> QED
      BY <2>1, <3>1 DEF ConsistentInv, WillHold
  <2> QED
    BY <2>2, <2>3
<1>13. ASSUME NEW w \in Writers, NEW r \in Rules, UpsertSet(w, r)
       PROVE  WillHold(j)'
  <2>1. upsert'[w].pc = "load"
    BY <1>0, <1>13 DEF UpsertSet, UpsertTypes, Writer
  <2> QED
    BY <2>1 DEF WillHold
<1>14. ASSUME NEW w \in Writers, NEW r \in Rules, UpsertSetFails(w, r)
       PROVE  WillHold(j)'
  BY <1>14 DEF UpsertSetFails
<1>15. ASSUME NEW w \in Writers, UpsertLoad(w) \/ UpsertReplace(w)
       PROVE  WillHold(j)'
  <2>1. upsert'[w].pc \in {"replace", "publish"}
    BY <1>0, <1>15 DEF UpsertLoad, UpsertReplace, UpsertTypes, WriterSet
  <2> QED
    BY <2>1 DEF WillHold
<1>16. ASSUME NEW w \in Writers, UpsertPublish(w) \/ UpsertPublishFails(w)
       PROVE  WillHold(j)'
  <2>1. PICK D \in SUBSET Subscribed : Deliver(D) /\ gap' = (gap \/ MissedBy(D))
    BY <1>16 DEF UpsertPublish, UpsertPublishFails, Receivers
  <2>2. CASE j \in D
    BY <1>0, <2>1, <2>2, DeliverType DEF WillHold
  <2>3. CASE j \notin D
    <3>1. ~Serving(j) /\ watcher[j].pc # "get"
      BY <2>1, <2>3 DEF MissedBy
    <3>2. watcher[j].pc \in {"exists", "set", "scan"}
      BY <1>0, <1>1, <3>1 DEF Serving, WatcherTypes, WatcherSet
    <3> QED
      BY <1>16, <3>2 DEF UpsertPublish, UpsertPublishFails, WillHold
  <2> QED
    BY <2>2, <2>3
<1>17. ASSUME NEW r \in Rules, Replicate(r)
       PROVE  WillHold(j)'
  BY <1>3, <1>17 DEF Replicate
<1> QED
  BY <1>2, <1>4, <1>5, <1>6, <1>7, <1>8, <1>9, <1>10, <1>11, <1>12, <1>13, <1>14, <1>15,
     <1>16, <1>17 DEF Next, Watch, Continue

\* As long as nothing went past an instance, messages alone bring all of them to what
\* Redis holds, however many instances and writers there are, and whatever a snapshot
\* lost in between.
THEOREM QuietMeansConsistent == Spec => []QuietConsistent
<1>1. ConsistentInv => QuietConsistent
  <2> SUFFICES ASSUME ConsistentInv, Quiet, ~gap, NEW i \in Instances
               PROVE  snap[i] = store
    BY DEF QuietConsistent
  <2>1. watcher[i].pc = "idle" /\ pending[i] = 0 /\ \A w \in Writers : upsert[w].pc = "idle"
    BY DEF Quiet
  <2> QED
    BY <2>1 DEF ConsistentInv, WillHold
<1> QED
  BY <1>1, InitConsistent, StepConsistent, TypeInvariance, PTL DEF Spec
=============================================================================
