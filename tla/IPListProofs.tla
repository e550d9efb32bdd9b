---------------------------- MODULE IPListProofs ---------------------------
(* Theorems about IPList, for every number of instances and requests, all times *)
(* to live, every lag of the replicas and every edit of the lists.               *)
EXTENDS IPList, TLAPS

-----------------------------------------------------------------------------
(* The inductive invariant. *)

Places == {"idle", "l1", "l1del", "l2", "fill", "limiter", "rd", "rddel", "incr", "set",
           "rdfill", "publish"}

Request == [pc : Places, key : Keys, val : BOOLEAN, stall : 0..MaxStall,
            dec : {"none", "deny", "allow", "pass"}, l1 : Claims \cup {"none"},
            off : SUBSET {"temp", "black"}]

\* A request whose check is under way has noted the lists that the IP is off, has left
\* behind those it has passed, and says nothing yet.
OffNoted(r, ago) ==
  r.pc \in {"l1", "l1del", "l2", "fill"} =>
    /\ r.dec = "none"
    /\ OffLists(ago) \subseteq r.off
    /\ r.key # "temp" => "temp" \in r.off
    /\ r.key = "white" => "black" \in r.off

\* What a request is about to store was true when it read it, or within the lag before.
ReadLately(r, ago) ==
  /\ r.pc \notin {"fill", "rdfill"} => r.stall = 0
  /\ r.pc = "fill" => /\ r.val \/ r.key = "white"
                      /\ ago[Claim(r.key, r.val)] <= r.stall + MaxLag
  /\ r.pc = "rdfill" => ago["temp"] <= r.stall

RequestInv(r, ago) ==
  r \in Request /\ OffNoted(r, ago) /\ ReadLately(r, ago)

\* The age of an entry is what its TTL has lost, and what it says was true at most as
\* long before that as the lag and the time to store it.
EntryInv(key, e, ago) ==
  /\ e \in [has : BOOLEAN, val : BOOLEAN, left : Expired..TTL(key)]
  /\ Live(e) /\ (e.val \/ key = "white")
       => ago[Claim(key, e.val)] <= TTL(key) - e.left + MaxStall + MaxLag

RedisTypes ==
  /\ black \in BOOLEAN /\ white \in BOOLEAN
  /\ temp \in 0..TempTTL /\ hot \in 0..HotThreshold /\ hotLeft \in 0..HotWindow
  /\ edits \in 0..MaxEdits

MessageTypes ==
  clearing \in [Instances -> SUBSET Keys] /\ message \in [Instances -> BOOLEAN]

History ==
  /\ since \in [Claims -> Nat]
  /\ \A c \in Claims : since[c] <= Bound(c) + 1
  /\ \A c \in Claims : Holds(c, black, white, temp) => since[c] = 0

Entries ==
  /\ cache \in [Instances -> [Keys -> [has : BOOLEAN, val : BOOLEAN, left : Int]]]
  /\ \A i \in Instances, k \in Keys : EntryInv(k, cache[i][k], since)

Requests ==
  /\ thread \in [Threads -> Request]
  /\ \A t \in Threads : RequestInv(thread[t], since)

ListInv == RedisTypes /\ MessageTypes /\ History /\ Entries /\ Requests

LEMMA ListInvType == ListInv => TypeOK
<1> SUFFICES ASSUME ListInv PROVE TypeOK
  OBVIOUS
<1>1. \A c \in Claims : since[c] \in Nat /\ since[c] <= Bound(c) + 1
  BY DEF ListInv, History
<1>2. \A c \in Claims : Bound(c) \in Nat
  BY IPListAssumption DEF Bound
<1>3. \A c \in Claims : since[c] \in 0..(Bound(c) + 1)
  BY <1>1, <1>2
<1>4. \A i \in Instances, k \in Keys :
        cache[i][k] \in [has : BOOLEAN, val : BOOLEAN, left : Expired..TTL(k)]
  BY DEF ListInv, Entries, EntryInv
<1>5. thread \in [Threads -> Request]
  BY DEF ListInv, Requests
<1> QED
  BY <1>3, <1>4, <1>5
     DEF ListInv, RedisTypes, MessageTypes, TypeOK, Request, Places

-----------------------------------------------------------------------------
(* The history. *)

LEMMA Times ==
  /\ ListTTL \in Nat \ {0} /\ TempTTL \in Nat \ {0} /\ MaxStall \in Nat /\ MaxLag \in Nat
  /\ \A k \in Keys : TTL(k) \in Nat \ {0}
  /\ \A c \in Claims : Bound(c) \in Nat
  /\ \A k \in Keys, v \in BOOLEAN : Claim(k, v) \in Claims
  /\ \A k \in Keys, v \in BOOLEAN : v \/ k = "white" =>
       Bound(Claim(k, v)) = TTL(k) + MaxStall + MaxLag
<1>1. /\ ListTTL \in Nat \ {0} /\ TempTTL \in Nat \ {0} /\ MaxStall \in Nat
      /\ MaxLag \in Nat
  BY IPListAssumption
<1>2. \A k \in Keys : TTL(k) \in Nat \ {0}
  BY <1>1 DEF TTL
<1>3. \A c \in Claims : Bound(c) \in Nat
  BY <1>1 DEF Bound
<1>4. \A k \in Keys, v \in BOOLEAN : Claim(k, v) \in Claims
  BY DEF Claim, Claims
<1>5. ASSUME NEW k \in Keys, NEW v \in BOOLEAN, v \/ k = "white"
      PROVE  Bound(Claim(k, v)) = TTL(k) + MaxStall + MaxLag
  <2>1. CASE k = "temp"
    <3>1. Claim(k, v) = "temp"
      BY <1>5, <2>1 DEF Claim
    <3> QED
      BY <1>1, <2>1, <3>1 DEF Bound, TTL
  <2>2. CASE k # "temp"
    <3>1. Claim(k, v) \in {"black", "white", "notwhite"}
      BY <1>5, <2>2 DEF Claim, Not, Keys
    <3> QED
      BY <1>1, <2>2, <3>1 DEF Bound, TTL
  <2> QED
    BY <2>1, <2>2
<1> QED
  BY <1>1, <1>2, <1>3, <1>4, <1>5

\* Time and changes of Redis make nothing older by more than the time that passes.
LEMMA ObserveAges ==
  ASSUME History, NEW d \in {0, 1}, Observe(d)
  PROVE  /\ History'
         /\ \A c \in Claims : since'[c] <= since[c] + d
<1>1. \A c \in Claims : since[c] \in Nat /\ since[c] <= Bound(c) + 1 /\ Bound(c) \in Nat
  BY Times DEF History
<1>2. ASSUME NEW c \in Claims
      PROVE  /\ since'[c] \in Nat /\ since'[c] <= since[c] + d /\ since'[c] <= Bound(c) + 1
             /\ Holds(c, black', white', temp') => since'[c] = 0
  <2>1. since'[c] = IF Holds(c, black', white', temp') \/ (c = "nottemp" /\ BanUnheardOf)
                      THEN 0 ELSE LesserOf(since[c] + d, Bound(c) + 1)
    BY DEF Observe
  <2> QED
    BY <1>1, <2>1 DEF LesserOf
<1>3. since' \in [Claims -> Nat]
  <2>1. since' = [c \in Claims |-> since'[c]]
    BY DEF Observe
  <2> QED
    BY <1>2, <2>1
<1>4. \A c \in Claims : since'[c] <= Bound(c)' + 1
  BY <1>2 DEF Bound
<1>5. \A c \in Claims : Holds(c, black, white, temp)' => since'[c] = 0
  BY <1>2 DEF Holds
<1> QED
  BY <1>2, <1>3, <1>4, <1>5 DEF History

\* What became no older leaves the entries and the requests as good as they were.
LEMMA EntriesAge ==
  ASSUME Entries, History,
         since' \in [Claims -> Nat], \A c \in Claims : since'[c] <= since[c],
         cache' = cache
  PROVE  Entries'
<1>1. ASSUME NEW i \in Instances, NEW k \in Keys
      PROVE  EntryInv(k, cache[i][k], since')
  <2>1. PICK e : e = cache[i][k]
    OBVIOUS
  <2>2. EntryInv(k, e, since) /\ e.val \in BOOLEAN /\ e.left \in Int
    BY <2>1 DEF Entries, EntryInv, Expired
  <2>3. ASSUME Live(e), e.val \/ k = "white"
        PROVE  since'[Claim(k, e.val)] <= TTL(k) - e.left + MaxStall + MaxLag
    <3>1. PICK c \in Claims : c = Claim(k, e.val)
      BY <2>2, <2>3, Times
    <3>2. since[c] <= TTL(k) - e.left + MaxStall + MaxLag /\ since[c] \in Nat /\ since'[c] \in Nat
          /\ since'[c] <= since[c]
      BY <2>2, <2>3, <3>1 DEF EntryInv, History
    <3>3. TTL(k) - e.left + MaxStall + MaxLag \in Int
      BY <2>2, Times
    <3> QED
      BY <3>1, <3>2, <3>3
  <2> QED
    BY <2>1, <2>2, <2>3 DEF EntryInv
<1> QED
  BY <1>1 DEF Entries, EntryInv, TTL, Live, Claim

-----------------------------------------------------------------------------
(* The ways in which a request goes on. *)

LEMMA GotoStep ==
  ASSUME Requests, NEW t \in Threads, NEW pc \in Places, Goto(t, pc)
  PROVE  \E r \in Request :
           /\ thread' = [thread EXCEPT ![t] = r] /\ r.pc = pc
           /\ r.key = thread[t].key /\ r.val = thread[t].val /\ r.stall = thread[t].stall
           /\ r.dec = thread[t].dec /\ r.off = thread[t].off
<1>1. PICK r : r = [thread[t] EXCEPT !.pc = pc]
  OBVIOUS
<1>2. thread[t] \in Request
  BY DEF Requests
<1>3. /\ r \in Request /\ r.pc = pc
      /\ r.key = thread[t].key /\ r.val = thread[t].val /\ r.stall = thread[t].stall
      /\ r.dec = thread[t].dec /\ r.off = thread[t].off
  BY <1>1, <1>2 DEF Request
<1>4. thread' = [thread EXCEPT ![t] = r]
  BY <1>1 DEF Goto
<1> QED
  BY <1>3, <1>4

LEMMA LookUpNextStep ==
  ASSUME Requests, NEW t \in Threads, NEW key \in Keys, LookUpNext(t, key)
  PROVE  \E r \in Request :
           /\ thread' = [thread EXCEPT ![t] = r] /\ r.pc = "l1" /\ r.key = key
           /\ r.stall = thread[t].stall
           /\ r.dec = thread[t].dec /\ r.off = thread[t].off
<1>1. PICK r : r = [thread[t] EXCEPT !.pc = "l1", !.key = key]
  OBVIOUS
<1>2. thread[t] \in Request
  BY DEF Requests
<1>3. /\ r \in Request /\ r.pc = "l1" /\ r.key = key
      /\ r.stall = thread[t].stall
      /\ r.dec = thread[t].dec /\ r.off = thread[t].off
  BY <1>1, <1>2 DEF Request, Places
<1>4. thread' = [thread EXCEPT ![t] = r]
  BY <1>1 DEF LookUpNext
<1> QED
  BY <1>3, <1>4

LEMMA IdleRequest ==
  Idle \in Request /\ Idle.stall = 0 /\ Idle.pc = "idle" /\ Idle.off = {}
    /\ Idle.key = "temp" /\ Idle.dec = "none"
  BY Times DEF Idle, Request, Places, Keys, Claims

LEMMA DecideStep ==
  ASSUME Requests, NEW t \in Threads, NEW dec \in {"deny", "allow", "pass"},
         NEW claim \in Claims \cup {"none"}, Decide(t, dec, claim)
  PROVE  \E r \in Request :
           /\ thread' = [thread EXCEPT ![t] = r] /\ r.pc \in {"limiter", "idle"}
           /\ r.stall = 0 /\ r.dec = dec /\ r.l1 = claim
<1>1. PICK r : r = [Idle EXCEPT !.pc = IF dec = "pass" THEN "limiter" ELSE "idle",
                                !.dec = dec, !.l1 = claim]
  OBVIOUS
<1>2. r \in Request /\ r.pc \in {"limiter", "idle"} /\ r.stall = 0
      /\ r.dec = dec /\ r.l1 = claim
  BY <1>1, IdleRequest DEF Request, Places
<1>3. thread' = [thread EXCEPT ![t] = r]
  BY <1>1 DEF Decide
<1> QED
  BY <1>2, <1>3

\* One request goes on, and Redis and the history stay.
LEMMA OneGoesOn ==
  ASSUME Requests, NEW t \in Threads, NEW r, thread' = [thread EXCEPT ![t] = r],
         RequestInv(r, since), since' = since
  PROVE  Requests'
<1>1. r \in Request
  BY DEF RequestInv
<1>2. thread' \in [Threads -> Request]
  BY <1>1 DEF Requests
<1>3. \A u \in Threads : RequestInv(thread'[u], since)
  BY DEF Requests
<1> QED
  BY <1>2, <1>3 DEF Requests, RequestInv, Request, OffNoted, ReadLately, OffLists, Claim

LEMMA SettledInv ==
  ASSUME NEW r \in Request, r.pc \notin {"l1", "l1del", "l2", "fill", "rdfill"}, r.stall = 0,
         NEW ago
  PROVE  RequestInv(r, ago)
  BY DEF RequestInv, OffNoted, ReadLately

\* An entry is stored or deleted, and the history stays.
LEMMA OneEntry ==
  ASSUME Entries, NEW i \in Instances, NEW k \in Keys, NEW e,
         cache' = [cache EXCEPT ![i][k] = e], EntryInv(k, e, since), since' = since
  PROVE  Entries'
<1>1. e \in [has : BOOLEAN, val : BOOLEAN, left : Int]
  BY Times DEF EntryInv, Expired
<1>2. cache' \in [Instances -> [Keys -> [has : BOOLEAN, val : BOOLEAN, left : Int]]]
  BY <1>1 DEF Entries
<1>3. \A j \in Instances, l \in Keys : EntryInv(l, cache'[j][l], since)
  BY DEF Entries
<1> QED
  BY <1>2, <1>3 DEF Entries, EntryInv, TTL, Live, Claim

LEMMA NoEntryInv ==
  ASSUME NEW k \in Keys
  PROVE  EntryInv(k, NoEntry, since)
  BY Times DEF EntryInv, NoEntry, Live, Expired

LEMMA StoreStep ==
  ASSUME Entries, NEW i \in Instances, NEW k \in Keys, NEW v \in BOOLEAN, Store(i, k, v),
         v \/ k = "white" => since[Claim(k, v)] <= MaxStall + MaxLag, since' = since
  PROVE  Entries'
<1>1. PICK e : e = Entry(k, v)
  OBVIOUS
<1>2. e.has = TRUE /\ e.val = v /\ e.left = TTL(k)
      /\ e \in [has : BOOLEAN, val : BOOLEAN, left : Expired..TTL(k)]
  BY <1>1, Times DEF Entry, Expired
<1>3. TTL(k) - e.left + MaxStall + MaxLag = MaxStall + MaxLag
  BY <1>2, Times
<1>4. EntryInv(k, e, since)
  BY <1>2, <1>3 DEF EntryInv
<1> QED
  BY <1>1, <1>4, OneEntry DEF Store

LEMMA UnchangedParts ==
  /\ RedisTypes /\ UNCHANGED redisVars => RedisTypes'
  /\ MessageTypes /\ UNCHANGED <<clearing, message>> => MessageTypes'
  /\ History /\ UNCHANGED <<black, white, temp, since>> => History'
  /\ Entries /\ UNCHANGED <<cache, since>> => Entries'
  /\ Requests /\ UNCHANGED <<thread, since>> => Requests'
<1>1. RedisTypes /\ UNCHANGED redisVars => RedisTypes'
  BY DEF redisVars, RedisTypes
<1>2. MessageTypes /\ UNCHANGED <<clearing, message>> => MessageTypes'
  BY DEF MessageTypes
<1>3. ASSUME History, UNCHANGED <<black, white, temp, since>>
      PROVE  History'
  <2>1. \A c \in Claims : Holds(c, black, white, temp)' <=> Holds(c, black, white, temp)
    BY <1>3 DEF Holds
  <2>2. \A c \in Claims : Bound(c)' = Bound(c)
    BY DEF Bound
  <2> QED
    BY <1>3, <2>1, <2>2 DEF History
<1>4. Entries /\ UNCHANGED <<cache, since>> => Entries'
  BY DEF Entries, EntryInv, TTL, Live, Claim
<1>5. ASSUME Requests, UNCHANGED <<thread, since>>
      PROVE  Requests'
  <2>1. \A r, ago :
          /\ OffNoted(r, ago)' <=> OffNoted(r, ago)
          /\ ReadLately(r, ago)' <=> ReadLately(r, ago)
          /\ Request' = Request
    BY DEF OffNoted, ReadLately, Claim, Request, OffLists
  <2> QED
    BY <1>5, <2>1 DEF Requests, RequestInv
<1> QED
  BY <1>1, <1>2, <1>3, <1>4, <1>5

-----------------------------------------------------------------------------
(* The actions of a request. *)

LEMMA InitInv == Init => ListInv
<1> SUFFICES ASSUME Init PROVE ListInv
  OBVIOUS
<1>1. RedisTypes /\ MessageTypes
  BY IPListAssumption DEF Init, RedisTypes, MessageTypes
<1>2. History
  <2>1. \A c \in Claims : Bound(c) \in Nat
    BY Times
  <2> QED
    BY <2>1 DEF Init, History
<1>3. Entries
  <2>1. NoEntry \in [has : BOOLEAN, val : BOOLEAN, left : Int]
    BY DEF NoEntry, Expired
  <2>2. cache = [i \in Instances |-> [k \in Keys |-> NoEntry]]
    BY DEF Init
  <2>3. \A i \in Instances, k \in Keys : EntryInv(k, cache[i][k], since)
    BY <2>2, NoEntryInv
  <2> QED
    BY <2>1, <2>2, <2>3 DEF Entries
<1>4. Requests
  <2>1. thread = [t \in Threads |-> Idle]
    BY DEF Init
  <2>2. \A t \in Threads : RequestInv(thread[t], since)
    BY <2>1, IdleRequest, SettledInv
  <2> QED
    BY <2>1, <2>2, IdleRequest DEF Requests
<1> QED
  BY <1>1, <1>2, <1>3, <1>4 DEF ListInv

LEMMA BeginInv ==
  ASSUME ListInv, NEW t \in Threads, Begin(t)
  PROVE  ListInv'
<1>1. PICK r : r = [Idle EXCEPT !.pc = "l1", !.off = OffLists(since)]
  OBVIOUS
<1>2. r \in Request /\ r.pc = "l1" /\ r.off = OffLists(since) /\ r.stall = 0
      /\ r.key = "temp" /\ r.dec = "none"
  <2>1. OffLists(since) \in SUBSET {"temp", "black"}
    BY DEF OffLists
  <2> QED
    BY <1>1, <2>1, IdleRequest DEF Request, Places
<1>3. thread' = [thread EXCEPT ![t] = r]
  BY <1>1 DEF Begin
<1>4. RequestInv(r, since)
  BY <1>2 DEF RequestInv, OffNoted, ReadLately
<1> QED
  BY <1>3, <1>4, OneGoesOn, UnchangedParts DEF Begin, ListInv, redisVars

LEMMA LookUpInv ==
  ASSUME ListInv, NEW t \in Threads, LookUp(t)
  PROVE  ListInv'
<1> DEFINE key == thread[t].key
           e   == cache[InstanceOf[t]][key]
<1>1. thread[t] \in Request /\ thread[t].pc = "l1" /\ key \in Keys /\ Requests
      /\ RequestInv(thread[t], since)
  BY DEF LookUp, ListInv, Requests, Request
<1>2. ASSUME NEW pc \in {"l1del", "l2"}, Goto(t, pc)
      PROVE  Requests'
  <2>1. PICK r \in Request :
           /\ thread' = [thread EXCEPT ![t] = r] /\ r.pc = pc
           /\ r.key = thread[t].key /\ r.val = thread[t].val /\ r.stall = thread[t].stall
           /\ r.dec = thread[t].dec /\ r.off = thread[t].off
    BY <1>1, <1>2, GotoStep DEF Places
  <2>2. RequestInv(r, since)
    BY <1>1, <1>2, <2>1 DEF RequestInv, OffNoted, ReadLately
  <2> QED
    BY <1>1, <2>1, <2>2, OneGoesOn DEF LookUp, redisVars
<1>3. ASSUME NEW dec \in {"deny", "allow", "pass"}, NEW claim \in Claims \cup {"none"},
             Decide(t, dec, claim)
      PROVE  Requests'
  <2>1. PICK r \in Request :
           /\ thread' = [thread EXCEPT ![t] = r] /\ r.pc \in {"limiter", "idle"}
           /\ r.stall = 0
    BY <1>1, <1>3, DecideStep
  <2>2. RequestInv(r, since)
    BY <2>1, SettledInv
  <2> QED
    BY <1>1, <2>1, <2>2, OneGoesOn DEF LookUp, redisVars
<1>4. Requests'
  <2>1. key \in Claims \cup {"none"} /\ "notwhite" \in Claims \cup {"none"}
    BY <1>1 DEF Claims, Keys, Not
  <2>2. (IF key = "white" THEN "allow" ELSE "deny") \in {"deny", "allow", "pass"}
    OBVIOUS
  <2> QED
    BY <1>2, <1>3, <2>1, <2>2 DEF LookUp
<1> QED
  BY <1>4, UnchangedParts DEF LookUp, ListInv, redisVars

LEMMA DeleteInv ==
  ASSUME ListInv, NEW t \in Threads,
         DeleteExpired(t, "l1del", "l2") \/ DeleteExpired(t, "rddel", "incr")
  PROVE  ListInv'
<1>1. thread[t] \in Request /\ thread[t].key \in Keys /\ InstanceOf[t] \in Instances
      /\ RequestInv(thread[t], since) /\ Requests
  BY IPListAssumption DEF ListInv, Requests, Request
<1>2. Entries'
  <2>1. cache' = [cache EXCEPT ![InstanceOf[t]][thread[t].key] = NoEntry] /\ since' = since
    BY DEF DeleteExpired
  <2> QED
    BY <1>1, <2>1, NoEntryInv, OneEntry DEF ListInv
<1>3. PICK pc \in {"l2", "incr"} :
        Goto(t, pc) /\ thread[t].pc = IF pc = "l2" THEN "l1del" ELSE "rddel"
  BY DEF DeleteExpired
<1>4. PICK r \in Request :
           /\ thread' = [thread EXCEPT ![t] = r] /\ r.pc = pc
           /\ r.key = thread[t].key /\ r.val = thread[t].val /\ r.stall = thread[t].stall
           /\ r.dec = thread[t].dec /\ r.off = thread[t].off
  BY <1>1, <1>3, GotoStep DEF Places
<1>5. RequestInv(r, since)
  BY <1>1, <1>3, <1>4 DEF RequestInv, OffNoted, ReadLately
<1>6. UNCHANGED <<redisVars, clearing, message, since>>
  BY DEF DeleteExpired
<1>7. Requests'
  BY <1>1, <1>4, <1>5, <1>6, OneGoesOn DEF redisVars
<1> QED
  BY <1>2, <1>6, <1>7, UnchangedParts DEF ListInv, redisVars

LEMMA ReadInv ==
  ASSUME ListInv, NEW t \in Threads, ReadRedis(t)
  PROVE  ListInv'
<1> DEFINE key == thread[t].key
<1>1. thread[t] \in Request /\ thread[t].pc = "l2" /\ key \in Keys /\ Requests
      /\ RequestInv(thread[t], since)
  BY DEF ReadRedis, ListInv, Requests, Request
<1>2. UNCHANGED <<redisVars, cache, clearing, message, since>>
  BY DEF ReadRedis
<1>3. CASE OnError(t, NextKey(key))
  <2>1. PICK r \in Request :
           /\ thread' = [thread EXCEPT ![t] = r] /\ r.pc \in {"limiter", "idle"}
           /\ r.stall = 0
    BY <1>1, <1>3, DecideStep DEF OnError
  <2>2. RequestInv(r, since)
    BY <2>1, SettledInv
  <2> QED
    BY <1>1, <1>2, <2>1, <2>2, OneGoesOn, UnchangedParts DEF ListInv, redisVars
<1>4. ASSUME NEW v \in Answers(key), key # "white", ~v, LookUpNext(t, NextKey(key))
      PROVE  ListInv'
  <2>1. NextKey(key) \in Keys
    BY DEF NextKey, Keys
  <2>2. PICK r \in Request :
           /\ thread' = [thread EXCEPT ![t] = r] /\ r.pc = "l1" /\ r.key = NextKey(key)
           /\ r.stall = thread[t].stall
           /\ r.dec = thread[t].dec /\ r.off = thread[t].off
    BY <1>1, <1>4, <2>1, LookUpNextStep
  <2>3. key \in OffLists(since)
    BY <1>1, <1>4 DEF OffLists, Answers, Claim, Keys
  <2>4. RequestInv(r, since)
    BY <1>1, <1>4, <2>2, <2>3 DEF RequestInv, OffNoted, ReadLately, NextKey, Keys
  <2> QED
    BY <1>1, <1>2, <2>2, <2>4, OneGoesOn, UnchangedParts DEF ListInv, redisVars
<1>5. ASSUME NEW v \in Answers(key), key = "white" \/ v,
             thread' = [thread EXCEPT ![t].pc = "fill", ![t].val = v]
      PROVE  ListInv'
  <2>1. v \in BOOLEAN /\ since[Claim(key, v)] <= MaxLag
    BY <1>5 DEF Answers
  <2>2. PICK r : r = [thread[t] EXCEPT !.pc = "fill", !.val = v]
    OBVIOUS
  <2>3. r \in Request /\ r.pc = "fill" /\ r.val = v /\ r.key = key
        /\ r.stall = thread[t].stall /\ r.dec = thread[t].dec /\ r.off = thread[t].off
    BY <1>1, <2>1, <2>2 DEF Request, Places
  <2>4. thread' = [thread EXCEPT ![t] = r]
    BY <1>5, <2>2
  <2>5. r.stall = 0
    BY <1>1, <2>3 DEF RequestInv, ReadLately
  <2>6. RequestInv(r, since)
    <3>1. OffNoted(r, since)
      BY <1>1, <2>3 DEF RequestInv, OffNoted
    <3>2. since[Claim(r.key, r.val)] <= r.stall + MaxLag
      BY <2>1, <2>3, <2>5, Times
    <3> QED
      BY <1>5, <2>3, <3>1, <3>2 DEF RequestInv, ReadLately
  <2> QED
    BY <1>1, <1>2, <2>4, <2>6, OneGoesOn, UnchangedParts DEF ListInv, redisVars
<1> QED
  BY <1>3, <1>4, <1>5 DEF ReadRedis

LEMMA FillInv ==
  ASSUME ListInv, NEW t \in Threads, Fill(t)
  PROVE  ListInv'
<1> DEFINE key == thread[t].key
           v   == thread[t].val
           dec == CASE key # "white" -> "deny" [] key = "white" /\ v -> "allow"
                    [] key = "white" /\ ~v -> "pass"
<1>1. thread[t] \in Request /\ thread[t].pc = "fill" /\ key \in Keys /\ v \in BOOLEAN
      /\ thread[t].stall \in 0..MaxStall /\ InstanceOf[t] \in Instances /\ Requests
      /\ RequestInv(thread[t], since)
  BY IPListAssumption DEF Fill, ListInv, Requests, Request
<1>2. UNCHANGED <<redisVars, clearing, message, since>> /\ Decide(t, dec, "none")
      /\ Store(InstanceOf[t], key, v)
  BY DEF Fill
<1>3. Entries'
  <2>1. ASSUME v \/ key = "white"
        PROVE  since[Claim(key, v)] <= MaxStall + MaxLag
    <3>1. PICK c \in Claims : c = Claim(key, v)
      BY <1>1, <2>1, Times
    <3>2. since[c] <= thread[t].stall + MaxLag /\ since[c] \in Nat
      BY <1>1, <3>1 DEF RequestInv, ReadLately, ListInv, History
    <3> QED
      BY <1>1, <3>1, <3>2, Times
  <2> QED
    BY <1>1, <1>2, <2>1, StoreStep DEF ListInv
<1>4. dec \in {"deny", "allow", "pass"}
  BY <1>1
<1> HIDE DEF dec
<1>5. PICK r \in Request :
           /\ thread' = [thread EXCEPT ![t] = r] /\ r.pc \in {"limiter", "idle"}
           /\ r.stall = 0
  BY <1>1, <1>2, <1>4, DecideStep
<1>6. RequestInv(r, since)
  BY <1>5, SettledInv
<1>7. Requests'
  BY <1>1, <1>2, <1>5, <1>6, OneGoesOn DEF redisVars
<1> QED
  BY <1>2, <1>3, <1>7, UnchangedParts DEF ListInv, redisVars

\* The steps that only move a request between places where nothing is promised of it.
LEMMA SettledStep ==
  ASSUME Requests, NEW t \in Threads, NEW pc \in Places, Goto(t, pc),
         pc \notin {"l1", "l1del", "l2", "fill", "rdfill"}, thread[t].pc \notin {"fill", "rdfill"},
         since' = since
  PROVE  Requests'
<1>1. PICK r \in Request :
           /\ thread' = [thread EXCEPT ![t] = r] /\ r.pc = pc
           /\ r.key = thread[t].key /\ r.val = thread[t].val /\ r.stall = thread[t].stall
           /\ r.dec = thread[t].dec /\ r.off = thread[t].off
  BY GotoStep
<1>2. RequestInv(thread[t], since)
  BY DEF Requests
<1>3. RequestInv(r, since)
  BY <1>1, <1>2, SettledInv DEF RequestInv, ReadLately
<1> QED
  BY <1>1, <1>3, OneGoesOn

LEMMA LimiterInv ==
  ASSUME ListInv, NEW t \in Threads, Limiter(t)
  PROVE  ListInv'
<1>1. PICK pc \in {"idle", "rd"} : thread' = [thread EXCEPT ![t] = [Idle EXCEPT !.pc = pc]]
  BY DEF Limiter
<1>2. PICK r : r = [Idle EXCEPT !.pc = pc]
  OBVIOUS
<1>3. r \in Request /\ r.pc = pc /\ r.stall = 0
  BY <1>2, IdleRequest DEF Request, Places
<1>4. RequestInv(r, since)
  BY <1>3, SettledInv
<1>5. thread' = [thread EXCEPT ![t] = r]
  BY <1>1, <1>2
<1> QED
  BY <1>4, <1>5, OneGoesOn, UnchangedParts DEF Limiter, ListInv, redisVars

LEMMA RdLookUpInv ==
  ASSUME ListInv, NEW t \in Threads, RdLookUp(t)
  PROVE  ListInv'
<1>1. PICK pc \in {"idle", "incr", "rddel"} : Goto(t, pc) /\ thread[t].pc = "rd"
  BY DEF RdLookUp
<1>2. Requests'
  BY <1>1, SettledStep DEF RdLookUp, ListInv, Places, redisVars
<1> QED
  BY <1>2, UnchangedParts DEF RdLookUp, ListInv, redisVars

LEMMA RdIncrInv ==
  ASSUME ListInv, NEW t \in Threads, RdIncr(t)
  PROVE  ListInv'
<1>1. /\ thread[t].pc = "incr"
      /\ UNCHANGED <<black, white, temp, cache, clearing, message, edits, since>>
  BY DEF RdIncr
<1>2. RedisTypes'
  <2>1. PICK n \in 0..2 :
          /\ hot' = LesserOf(hot + n, HotThreshold)
          /\ hotLeft' = IF hot = 0 /\ n > 0 THEN HotWindow ELSE hotLeft
    BY DEF RdIncr
  <2>2. hot' \in 0..HotThreshold /\ hotLeft' \in 0..HotWindow
    BY <2>1, IPListAssumption DEF ListInv, RedisTypes, LesserOf
  <2> QED
    BY <1>1, <2>2 DEF ListInv, RedisTypes
<1>3. PICK pc \in {"idle", "set"} : Goto(t, pc)
  BY DEF RdIncr
<1>4. Requests'
  BY <1>1, <1>3, SettledStep DEF ListInv, Places
<1> QED
  BY <1>1, <1>2, <1>4, UnchangedParts DEF ListInv

\* A request that notes the lists the IP is off now, d ticks later.
LEMMA NoteInv ==
  ASSUME NEW r \in Request, NEW s, NEW d \in {0, 1},
         OffNoted(r, since), ReadLately(r, since), History, since' \in [Claims -> Nat],
         \A c \in Claims : since'[c] <= since[c] + d,
         s \in Request, s.pc = r.pc, s.key = r.key, s.val = r.val, s.dec = r.dec,
         s.stall = IF r.pc \in {"fill", "rdfill"} THEN r.stall + d ELSE r.stall,
         s.off = IF r.pc \in {"l1", "l1del", "l2", "fill"}
                   THEN r.off \cup OffLists(since') ELSE r.off
  PROVE  RequestInv(s, since')
<1>1. r.stall \in Nat /\ s.stall \in Nat /\ r.key \in Keys /\ r.val \in BOOLEAN
  BY Times DEF Request
<1>2. OffNoted(s, since')
  BY DEF OffNoted
<1>3. ASSUME s.pc = "fill"
      PROVE  since'[Claim(s.key, s.val)] <= s.stall + MaxLag
  <2>1. PICK c \in Claims : c = Claim(r.key, r.val)
    BY <1>1, Times
  <2>2. since[c] <= r.stall + MaxLag /\ since[c] \in Nat /\ since'[c] \in Nat
        /\ since'[c] <= since[c] + d
    BY <1>3, <2>1 DEF ReadLately, History
  <2>3. s.stall = r.stall + d
    BY <1>3
  <2> QED
    BY <1>1, <2>1, <2>2, <2>3, Times
<1>4. ASSUME s.pc = "rdfill"
      PROVE  since'["temp"] <= s.stall
  <2>1. "temp" \in Claims
    BY DEF Claims, Keys
  <2>2. since["temp"] <= r.stall /\ since["temp"] \in Nat /\ since'["temp"] \in Nat
        /\ since'["temp"] <= since["temp"] + d
    BY <1>4, <2>1 DEF ReadLately, History
  <2> QED
    BY <1>1, <1>4, <2>2
<1>5. ReadLately(s, since')
  BY <1>3, <1>4 DEF ReadLately
<1> QED
  BY <1>2, <1>5 DEF RequestInv

\* The same for what NoteOff makes of a request while no time passes.
LEMMA NotedNow ==
  ASSUME Requests, History, since' \in [Claims -> Nat],
         \A c \in Claims : since'[c] <= since[c], NEW t \in Threads
  PROVE  /\ NoteOff[t] \in Request /\ RequestInv(NoteOff[t], since')
         /\ NoteOff[t].pc = thread[t].pc /\ NoteOff[t].stall = thread[t].stall
<1>1. PICK r : r = thread[t]
  OBVIOUS
<1>2. r \in Request /\ OffNoted(r, since) /\ ReadLately(r, since) /\ r.stall \in Nat
  BY <1>1, Times DEF Requests, RequestInv, Request
<1>3. PICK s : s = [r EXCEPT !.off = IF r.pc \in {"l1", "l1del", "l2", "fill"}
                                       THEN r.off \cup OffLists(since') ELSE r.off]
  OBVIOUS
<1>4. NoteOff[t] = s
  BY <1>1, <1>3 DEF NoteOff, Checking
<1>5. OffLists(since') \subseteq {"temp", "black"}
  BY DEF OffLists
<1>6. /\ s \in Request /\ s.pc = r.pc /\ s.key = r.key /\ s.val = r.val
      /\ s.dec = r.dec /\ s.stall = r.stall
      /\ s.off = IF r.pc \in {"l1", "l1del", "l2", "fill"}
                   THEN r.off \cup OffLists(since') ELSE r.off
  BY <1>2, <1>3, <1>5 DEF Request
<1>7. s.stall = IF r.pc \in {"fill", "rdfill"} THEN r.stall + 0 ELSE r.stall
  BY <1>2, <1>6
<1>8. \A c \in Claims : since'[c] <= since[c] + 0
  BY DEF History
<1>9. RequestInv(s, since')
  BY <1>2, <1>6, <1>7, <1>8, NoteInv
<1> QED
  BY <1>1, <1>4, <1>6, <1>9

\* A ban that not every replica has heard of takes the IP off the list for them.
LEMMA RdSetInv ==
  ASSUME ListInv, NEW t \in Threads, RdSet(t)
  PROVE  ListInv'
<1>1. /\ thread[t].pc = "set" /\ Observe(0) /\ temp' \in {temp, TempTTL}
      /\ UNCHANGED <<black, white, hot, hotLeft, cache, clearing, message, edits>>
      /\ History /\ Entries /\ Requests
  BY DEF RdSet, ListInv
<1>2. History' /\ \A c \in Claims : since'[c] <= since[c]
  <2>1. History' /\ \A c \in Claims : since'[c] <= since[c] + 0
    BY <1>1, ObserveAges
  <2> QED
    BY <1>1, <2>1 DEF History
<1>3. since' \in [Claims -> Nat]
  BY <1>2 DEF History
<1>4. Entries'
  BY <1>1, <1>2, <1>3, EntriesAge
<1>5. RedisTypes'
  BY <1>1, Times DEF ListInv, RedisTypes
<1>6. PICK pc \in {"idle", "rdfill"} :
        /\ pc = "rdfill" => temp' = TempTTL
        /\ thread' = [NoteOff EXCEPT ![t].pc = pc]
  BY DEF RdSet
<1>7. ASSUME NEW u \in Threads
      PROVE  /\ NoteOff[u] \in Request /\ RequestInv(NoteOff[u], since')
             /\ NoteOff[u].pc = thread[u].pc /\ NoteOff[u].stall = thread[u].stall
  BY <1>1, <1>2, <1>3, NotedNow
<1>8. PICK n : n = NoteOff[t]
  OBVIOUS
<1>9. PICK r : r = [n EXCEPT !.pc = pc]
  OBVIOUS
<1>10. r \in Request /\ r.pc = pc /\ r.stall = 0
  <2>1. n \in Request /\ n.pc = "set" /\ RequestInv(n, since')
    BY <1>1, <1>7, <1>8
  <2> QED
    BY <1>9, <2>1 DEF Request, Places, RequestInv, ReadLately
<1>11. pc = "rdfill" => since'["temp"] = 0
  <2>1. "temp" \in Claims
    BY DEF Claims, Keys
  <2>2. pc = "rdfill" => Holds("temp", black, white, temp)'
    BY <1>6, Times DEF Holds
  <2>3. \A c \in Claims : Holds(c, black, white, temp)' => since'[c] = 0
    BY <1>2 DEF History
  <2> QED
    BY <2>1, <2>2, <2>3 DEF Holds
<1>12. RequestInv(r, since')
  BY <1>6, <1>10, <1>11 DEF RequestInv, OffNoted, ReadLately
<1>13. Requests'
  <2>1. thread' = [u \in Threads |-> IF u = t THEN r ELSE NoteOff[u]]
    BY <1>6, <1>8, <1>9 DEF NoteOff
  <2>2. thread' \in [Threads -> Request]
    BY <1>7, <1>10, <2>1
  <2>3. \A u \in Threads : RequestInv(thread'[u], since')
    BY <1>7, <1>12, <2>1
  <2> QED
    BY <2>2, <2>3 DEF Requests, RequestInv, Request, OffNoted, ReadLately, OffLists, Claim
<1>14. MessageTypes'
  BY <1>1, UnchangedParts DEF ListInv
<1> QED
  BY <1>2, <1>4, <1>5, <1>13, <1>14 DEF ListInv

LEMMA RdFillInv ==
  ASSUME ListInv, NEW t \in Threads, RdFill(t)
  PROVE  ListInv'
<1>1. /\ thread[t] \in Request /\ thread[t].pc = "rdfill" /\ InstanceOf[t] \in Instances
      /\ Requests /\ RequestInv(thread[t], since)
      /\ Store(InstanceOf[t], "temp", TRUE)
      /\ UNCHANGED <<redisVars, clearing, message, since>>
  BY IPListAssumption DEF RdFill, ListInv, Requests
<1>2. Entries'
  <2>1. "temp" \in Keys /\ "temp" \in Claims /\ Claim("temp", TRUE) = "temp"
    BY DEF Keys, Claims, Claim
  <2>2. since["temp"] <= thread[t].stall /\ thread[t].stall \in 0..MaxStall
        /\ since["temp"] \in Nat
    BY <1>1, <2>1 DEF RequestInv, ReadLately, Request, ListInv, History
  <2>3. since["temp"] <= MaxStall + MaxLag
    BY <2>2, Times
  <2> QED
    BY <1>1, <2>1, <2>3, StoreStep DEF ListInv
<1>3. PICK r : r = [thread[t] EXCEPT !.pc = "publish", !.stall = 0]
  OBVIOUS
<1>4. r \in Request /\ r.pc = "publish" /\ r.stall = 0
  <2>1. 0 \in 0..MaxStall /\ "publish" \in Places
    BY Times DEF Places
  <2> QED
    BY <1>1, <1>3, <2>1 DEF Request
<1>5. RequestInv(r, since)
  BY <1>4, SettledInv
<1>6. thread' = [thread EXCEPT ![t] = r]
  BY <1>3 DEF RdFill
<1>7. Requests'
  BY <1>1, <1>5, <1>6, OneGoesOn DEF redisVars
<1> QED
  BY <1>1, <1>2, <1>7, UnchangedParts DEF ListInv, redisVars

LEMMA RdPublishInv ==
  ASSUME ListInv, NEW t \in Threads, RdPublish(t)
  PROVE  ListInv'
<1>1. /\ thread[t].pc = "publish" /\ Goto(t, "idle")
      /\ UNCHANGED <<redisVars, cache, clearing, since>>
  BY DEF RdPublish
<1>2. Requests'
  BY <1>1, SettledStep DEF ListInv, Places, redisVars
<1>3. MessageTypes'
  <2>1. PICK R \in SUBSET Instances :
          message' = [i \in Instances |-> message[i] \/ i \in R]
    BY DEF RdPublish
  <2>2. \A i \in Instances : (message[i] \/ i \in R) \in BOOLEAN
    OBVIOUS
  <2>3. message' \in [Instances -> BOOLEAN]
    BY <2>1, <2>2
  <2> QED
    BY <1>1, <2>3 DEF ListInv, MessageTypes
<1> QED
  BY <1>1, <1>2, <1>3, UnchangedParts DEF ListInv, redisVars

-----------------------------------------------------------------------------
(* Messages, edits and time. *)

LEMMA OnMessageInv ==
  ASSUME ListInv, NEW i \in Instances, OnMessage(i)
  PROVE  ListInv'
<1>1. MessageTypes'
  BY DEF OnMessage, ListInv, MessageTypes
<1> QED
  BY <1>1, UnchangedParts DEF OnMessage, ListInv, redisVars

LEMMA ClearKeyInv ==
  ASSUME ListInv, NEW i \in Instances, ClearKey(i)
  PROVE  ListInv'
<1>1. PICK k \in clearing[i] :
        /\ cache' = [cache EXCEPT ![i][k] = NoEntry]
        /\ clearing' = [clearing EXCEPT ![i] = @ \ {k}]
  BY DEF ClearKey
<1>2. k \in Keys
  BY DEF ListInv, MessageTypes
<1>3. UNCHANGED <<redisVars, message, thread, since>>
  BY DEF ClearKey
<1>4. MessageTypes'
  BY <1>1, <1>3 DEF ListInv, MessageTypes
<1>5. Entries'
  BY <1>1, <1>2, <1>3, NoEntryInv, OneEntry DEF ListInv
<1> QED
  BY <1>3, <1>4, <1>5, UnchangedParts DEF ListInv, redisVars

LEMMA EditInv ==
  ASSUME ListInv, Edit
  PROVE  ListInv'
<1>1. /\ Observe(0) /\ thread' = NoteOff
      /\ UNCHANGED <<temp, hot, hotLeft, cache, clearing, message>>
      /\ History /\ Entries /\ Requests
  BY DEF Edit, ListInv
<1>2. RedisTypes'
  <2>1. black' \in BOOLEAN /\ white' \in BOOLEAN
    BY DEF Edit, ListInv, RedisTypes
  <2>2. edits' \in 0..MaxEdits
    BY IPListAssumption DEF Edit, ListInv, RedisTypes
  <2> QED
    BY <1>1, <2>1, <2>2 DEF ListInv, RedisTypes
<1>3. History' /\ \A c \in Claims : since'[c] <= since[c] + 0
  BY <1>1, ObserveAges
<1>4. since' \in [Claims -> Nat] /\ \A c \in Claims : since'[c] <= since[c]
  BY <1>1, <1>3 DEF History
<1>5. Entries'
  BY <1>1, <1>4, EntriesAge
<1>6. ASSUME NEW t \in Threads
      PROVE  thread'[t] \in Request /\ RequestInv(thread'[t], since')
  BY <1>1, <1>4, NotedNow
<1>7. Requests'
  <2>1. thread' \in [Threads -> Request]
    BY <1>1, <1>6 DEF NoteOff
  <2> QED
    BY <1>6, <2>1 DEF Requests, RequestInv, Request, OffNoted, ReadLately, OffLists, Claim
<1> QED
  BY <1>1, <1>2, <1>3, <1>5, <1>7, UnchangedParts DEF ListInv

LEMMA TickInv ==
  ASSUME ListInv, Tick
  PROVE  ListInv'
<1>1. /\ Observe(1) /\ UNCHANGED <<black, white, clearing, message, edits>>
      /\ \A t \in Threads : Storing(t) => thread[t].stall < MaxStall
      /\ History /\ Entries /\ Requests
  BY DEF Tick, ListInv
<1>2. RedisTypes'
  <2>1. temp' = Later(temp) /\ hotLeft' = Later(hotLeft) /\ hot' \in {0, hot}
    BY DEF Tick
  <2>2. temp' \in 0..TempTTL /\ hotLeft' \in 0..HotWindow /\ hot' \in 0..HotThreshold
    BY <2>1, IPListAssumption DEF Later, GreaterOf, ListInv, RedisTypes
  <2> QED
    BY <1>1, <2>2 DEF ListInv, RedisTypes
<1>3. History' /\ \A c \in Claims : since'[c] <= since[c] + 1
  BY <1>1, ObserveAges
<1>4. since' \in [Claims -> Nat] /\ since \in [Claims -> Nat]
  BY <1>1, <1>3 DEF History
<1>5. ASSUME NEW i \in Instances, NEW k \in Keys
      PROVE  EntryInv(k, cache'[i][k], since')
  <2>1. PICK e : e = cache[i][k]
    OBVIOUS
  <2>2. EntryInv(k, e, since) /\ e \in [has : BOOLEAN, val : BOOLEAN, left : Expired..TTL(k)]
        /\ e.val \in BOOLEAN /\ e.left \in Int
    BY <1>1, <2>1 DEF Entries, EntryInv, Expired
  <2>3. PICK f : f = [e EXCEPT !.left = GreaterOf(Expired, e.left - 1)]
    OBVIOUS
  <2>4. cache'[i][k] = f
    BY <2>1, <2>3 DEF Tick
  <2>5. GreaterOf(Expired, e.left - 1) \in Expired..TTL(k)
    BY <2>2, Times DEF GreaterOf, Expired
  <2>6. f \in [has : BOOLEAN, val : BOOLEAN, left : Expired..TTL(k)]
        /\ f.has = e.has /\ f.val = e.val /\ f.left = GreaterOf(Expired, e.left - 1)
    BY <2>2, <2>3, <2>5
  <2>7. ASSUME Live(f), f.val \/ k = "white"
        PROVE  since'[Claim(k, f.val)] <= TTL(k) - f.left + MaxStall + MaxLag
    <3>1. Live(e) /\ f.left = e.left - 1
      BY <2>2, <2>6, <2>7 DEF Live, GreaterOf, Expired
    <3>2. PICK c \in Claims : c = Claim(k, e.val)
      BY <2>2, <2>6, <2>7, Times
    <3>3. since[c] <= TTL(k) - e.left + MaxStall + MaxLag /\ since[c] \in Nat /\ since'[c] \in Nat
          /\ since'[c] <= since[c] + 1
      BY <1>3, <1>4, <2>2, <2>6, <2>7, <3>1, <3>2 DEF EntryInv
    <3> QED
      BY <2>2, <2>6, <3>1, <3>2, <3>3, Times
  <2> QED
    BY <2>4, <2>6, <2>7 DEF EntryInv
<1>6. Entries'
  <2>1. cache' \in [Instances -> [Keys -> [has : BOOLEAN, val : BOOLEAN, left : Int]]]
    <3>1. \A i \in Instances, k \in Keys :
            cache'[i][k] \in [has : BOOLEAN, val : BOOLEAN, left : Int]
      BY <1>5, Times DEF EntryInv, Expired
    <3>2. cache' = [i \in Instances |-> [k \in Keys |-> cache'[i][k]]]
      BY DEF Tick
    <3> QED
      BY <3>1, <3>2
  <2> QED
    BY <1>5, <2>1 DEF Entries, EntryInv, TTL, Live, Claim
<1>7. ASSUME NEW t \in Threads
      PROVE  thread'[t] \in Request /\ RequestInv(thread'[t], since')
  <2>1. PICK r : r = thread[t]
    OBVIOUS
  <2>2. r \in Request /\ OffNoted(r, since) /\ ReadLately(r, since)
        /\ r.stall \in 0..MaxStall
    BY <1>1, <2>1 DEF Requests, RequestInv, Request
  <2>3. PICK n : n = [r EXCEPT !.off = IF r.pc \in {"l1", "l1del", "l2", "fill"}
                                         THEN r.off \cup OffLists(since') ELSE r.off]
    OBVIOUS
  <2>4. OffLists(since') \subseteq {"temp", "black"}
    BY DEF OffLists
  <2>5. /\ n \in Request /\ n.pc = r.pc /\ n.key = r.key /\ n.val = r.val
        /\ n.dec = r.dec /\ n.stall = r.stall
        /\ n.off = IF r.pc \in {"l1", "l1del", "l2", "fill"}
                     THEN r.off \cup OffLists(since') ELSE r.off
    BY <2>2, <2>3, <2>4 DEF Request
  <2>6. PICK s : s = [n EXCEPT !.stall = IF Storing(t) THEN n.stall + 1 ELSE n.stall]
    OBVIOUS
  <2>7. thread'[t] = s
    BY <2>1, <2>3, <2>6 DEF Tick, NoteOff, Checking
  <2>8. Storing(t) <=> r.pc \in {"fill", "rdfill"}
    BY <2>1 DEF Storing
  <2>9. (IF Storing(t) THEN n.stall + 1 ELSE n.stall) \in 0..MaxStall
    BY <1>1, <2>1, <2>2, <2>5, Times
  <2>10. /\ s \in Request /\ s.pc = r.pc /\ s.key = r.key /\ s.val = r.val
         /\ s.dec = r.dec
         /\ s.stall = IF r.pc \in {"fill", "rdfill"} THEN r.stall + 1 ELSE r.stall
         /\ s.off = IF r.pc \in {"l1", "l1del", "l2", "fill"}
                      THEN r.off \cup OffLists(since') ELSE r.off
    BY <2>5, <2>6, <2>8, <2>9 DEF Request
  <2>11. RequestInv(s, since')
    BY <1>1, <1>3, <1>4, <2>2, <2>10, NoteInv
  <2> QED
    BY <2>7, <2>10, <2>11
<1>8. Requests'
  <2>1. thread' \in [Threads -> Request]
    <3>1. thread' = [t \in Threads |-> thread'[t]]
      BY DEF Tick
    <3> QED
      BY <1>7, <3>1
  <2> QED
    BY <1>7, <2>1 DEF Requests, RequestInv, Request, OffNoted, ReadLately, OffLists, Claim
<1> QED
  BY <1>1, <1>2, <1>3, <1>6, <1>8, UnchangedParts DEF ListInv

LEMMA StepInv == ListInv /\ [Next]_vars => ListInv'
<1> SUFFICES ASSUME ListInv, [Next]_vars
             PROVE  ListInv'
  OBVIOUS
<1>1. ASSUME NEW t \in Threads, Check(t)
      PROVE  ListInv'
  BY <1>1, BeginInv, LookUpInv, DeleteInv, ReadInv, FillInv DEF Check
<1>2. ASSUME NEW t \in Threads, Limiter(t)
      PROVE  ListInv'
  BY <1>2, LimiterInv
<1>3. ASSUME NEW t \in Threads, RecordDeny(t)
      PROVE  ListInv'
  BY <1>3, RdLookUpInv, DeleteInv, RdIncrInv, RdSetInv, RdFillInv, RdPublishInv
     DEF RecordDeny
<1>4. ASSUME NEW i \in Instances, OnMessage(i) \/ ClearKey(i)
      PROVE  ListInv'
  BY <1>4, OnMessageInv, ClearKeyInv
<1>5. CASE Edit
  BY <1>5, EditInv
<1>6. CASE Tick
  BY <1>6, TickInv
<1>7. CASE UNCHANGED vars
  BY <1>7, UnchangedParts DEF vars, ListInv, redisVars
<1> QED
  BY <1>1, <1>2, <1>3, <1>4, <1>5, <1>6, <1>7 DEF Next

\* Every list, counter, entry and request keeps its type: no TTL is ever longer than the
\* one it was given.
THEOREM TypeCorrect == Spec => []TypeOK
<1>1. Init => ListInv
  BY InitInv
<1>2. ListInv /\ [Next]_vars => ListInv'
  BY StepInv
<1>3. ListInv => TypeOK
  BY ListInvType
<1> QED
  BY <1>1, <1>2, <1>3, PTL DEF Spec

-----------------------------------------------------------------------------
(* The decisions. *)

\* Noting the lists that the IP is off leaves a request's decision alone.
LEMMA NotedDecision ==
  ASSUME thread \in [Threads -> Request], NEW t \in Threads
  PROVE  NoteOff[t] \in Request /\ NoteOff[t].dec = thread[t].dec
<1>1. PICK s : s = [thread[t] EXCEPT !.off = IF Checking(t) THEN @ \cup OffLists(since') ELSE @]
  OBVIOUS
<1>2. NoteOff[t] = s
  BY <1>1 DEF NoteOff
<1>3. OffLists(since') \subseteq {"temp", "black"}
  BY DEF OffLists
<1>4. s \in Request /\ s.dec = thread[t].dec
  BY <1>1, <1>3 DEF Request
<1> QED
  BY <1>2, <1>4

\* Only a check itself ends with a decision: everything else leaves what a request
\* says alone, or has ended its check before.
LEMMA WhoDecides ==
  ASSUME ListInv, [Next]_vars, NEW t \in Threads, Decides(t, {"deny", "allow", "pass"})
  PROVE  LookUp(t) \/ ReadRedis(t) \/ Fill(t)
<1>1. thread[t].pc \in {"l1", "l2", "fill"} /\ thread[t].dec = "none"
      /\ thread'[t].dec \in {"deny", "allow", "pass"}
      /\ thread \in [Threads -> Request] /\ Requests
  BY DEF Decides, ListInv, Requests, RequestInv, OffNoted
<1>2. thread'[t].dec # thread[t].dec
  BY <1>1
<1>3. ASSUME NEW u \in Threads, Check(u) \/ Limiter(u) \/ RecordDeny(u), u # t
      PROVE  FALSE
  <2>1. CASE Begin(u) \/ LookUp(u) \/ ReadRedis(u) \/ Fill(u)
    <3>1. thread'[t] = thread[t]
      BY <1>1, <1>3, <2>1
         DEF Begin, LookUp, ReadRedis, Fill, Goto, Decide, OnError, LookUpNext
    <3> QED
      BY <1>2, <3>1
  <2>2. CASE Limiter(u) \/ RdLookUp(u) \/ RdIncr(u)
    BY <1>1, <1>2, <1>3, <2>2 DEF Limiter, RdLookUp, RdIncr, Goto
  <2>3. CASE RdSet(u)
    <3>1. thread'[t] = NoteOff[t]
      BY <1>3, <2>3 DEF RdSet, NoteOff
    <3> QED
      BY <1>1, <1>2, <3>1, NotedDecision
  <2>4. CASE RdFill(u) \/ RdPublish(u)
    BY <1>1, <1>2, <1>3, <2>4 DEF RdFill, RdPublish, Goto
  <2>5. CASE DeleteExpired(u, "l1del", "l2") \/ DeleteExpired(u, "rddel", "incr")
    BY <1>1, <1>2, <1>3, <2>5 DEF DeleteExpired, Goto
  <2> QED
    BY <1>3, <2>1, <2>2, <2>3, <2>4, <2>5 DEF Check, RecordDeny
<1>4. ~(Begin(t) \/ Limiter(t) \/ RecordDeny(t) \/ DeleteExpired(t, "l1del", "l2"))
  BY <1>1 DEF Begin, Limiter, RecordDeny, RdLookUp, DeleteExpired, RdIncr, RdSet, RdFill,
              RdPublish
<1>5. ASSUME NEW i \in Instances, OnMessage(i) \/ ClearKey(i)
      PROVE  FALSE
  BY <1>2, <1>5 DEF OnMessage, ClearKey
<1>6. ASSUME Edit PROVE FALSE
  BY <1>1, <1>2, <1>6, NotedDecision DEF Edit
<1>7. ASSUME Tick PROVE FALSE
  <2>1. PICK n : n = NoteOff[t]
    OBVIOUS
  <2>2. n \in Request
    BY <1>1, <2>1, NotedDecision
  <2>3. PICK s : s = [n EXCEPT !.stall = IF Storing(t) THEN @ + 1 ELSE @]
    OBVIOUS
  <2>4. thread'[t] = s
    BY <1>7, <2>1, <2>3 DEF Tick
  <2>5. s.dec = n.dec
    BY <2>2, <2>3 DEF Request
  <2> QED
    BY <1>1, <1>2, <2>1, <2>4, <2>5, NotedDecision
<1>8. ASSUME UNCHANGED vars PROVE FALSE
  BY <1>2, <1>8 DEF vars
<1> QED
  BY <1>3, <1>4, <1>5, <1>6, <1>7, <1>8 DEF Next, Check

\* A request that Decide ends says what Decide is given.
LEMMA DecisionMade ==
  ASSUME Requests, NEW t \in Threads, NEW dec \in {"deny", "allow", "pass"},
         NEW claim \in Claims \cup {"none"}, Decide(t, dec, claim)
  PROVE  thread'[t].dec = dec /\ thread'[t].l1 = claim
<1>1. PICK r \in Request :
        thread' = [thread EXCEPT ![t] = r] /\ r.dec = dec /\ r.l1 = claim
  BY DecideStep
<1> QED
  BY <1>1 DEF Requests

\* A decision is by an entry of the L1, by an error or by an answer of Redis.
LEMMA ByWhat ==
  ASSUME ListInv, NEW t \in Threads, Decides(t, {"deny", "allow", "pass"}),
         LookUp(t) \/ ReadRedis(t) \/ Fill(t)
  PROVE  LET key == thread[t].key
             e   == cache[InstanceOf[t]][key] IN
         /\ key # "white" => thread'[t].dec = "deny"
         /\ thread'[t].l1 # "none" => /\ thread[t].pc = "l1" /\ Live(e)
                                      /\ e.val \/ key = "white"
                                      /\ thread'[t].l1 = Claim(key, e.val)
         /\ thread'[t].dec \in {"allow", "pass"} => thread[t].pc \in {"l1", "fill"}
<1> DEFINE key == thread[t].key
           e   == cache[InstanceOf[t]][key]
<1>1. thread[t] \in Request /\ key \in Keys /\ Requests /\ thread[t].dec = "none"
      /\ thread'[t].dec # "none" /\ thread[t].val \in BOOLEAN
  BY DEF Decides, ListInv, Requests, RequestInv, OffNoted, Request
<1>2. key \in Claims \cup {"none"} /\ "notwhite" \in Claims \cup {"none"} /\ key # "none"
  BY <1>1 DEF Claims, Keys, Not
<1>3. \A pc \in Places : ~Goto(t, pc)
  <2> SUFFICES ASSUME NEW pc \in Places, Goto(t, pc) PROVE FALSE
    OBVIOUS
  <2>1. PICK r \in Request :
          thread' = [thread EXCEPT ![t] = r] /\ r.dec = thread[t].dec
    BY <1>1, GotoStep
  <2> QED
    BY <1>1, <2>1 DEF Requests
<1>4. CASE LookUp(t)
  <2>1. CASE Live(e) /\ e.val /\ Decide(t, IF key = "white" THEN "allow" ELSE "deny", key)
    <3>1. thread'[t].dec = (IF key = "white" THEN "allow" ELSE "deny") /\ thread'[t].l1 = key
      BY <1>1, <1>2, <2>1, DecisionMade
    <3> QED
      BY <1>4, <2>1, <3>1 DEF LookUp, Claim
  <2>2. CASE Live(e) /\ ~e.val /\ key = "white" /\ Decide(t, "pass", "notwhite")
    <3>1. thread'[t].dec = "pass" /\ thread'[t].l1 = "notwhite"
      BY <1>1, <1>2, <2>2, DecisionMade
    <3> QED
      BY <1>4, <2>2, <3>1 DEF LookUp, Claim, Not
  <2> QED
    BY <1>3, <1>4, <2>1, <2>2 DEF LookUp, Places
<1>5. CASE ReadRedis(t)
  <2>1. CASE OnError(t, NextKey(key))
    <3>1. thread'[t].dec = "deny" /\ thread'[t].l1 = "none"
      BY <1>1, <2>1, DecisionMade DEF OnError
    <3> QED
      BY <3>1
  <2>2. CASE LookUpNext(t, NextKey(key))
    <3>1. NextKey(key) \in Keys
      BY DEF NextKey, Keys
    <3>2. PICK r \in Request :
            thread' = [thread EXCEPT ![t] = r] /\ r.dec = thread[t].dec
      BY <1>1, <2>2, <3>1, LookUpNextStep
    <3> QED
      BY <1>1, <3>2 DEF Requests
  <2>3. ASSUME NEW v, thread' = [thread EXCEPT ![t].pc = "fill", ![t].val = v]
        PROVE  FALSE
    <3>1. PICK r : r = [thread[t] EXCEPT !.pc = "fill", !.val = v]
      OBVIOUS
    <3>2. r.dec = thread[t].dec
      BY <1>1, <3>1 DEF Request
    <3>3. thread'[t] = r
      BY <2>3, <3>1 DEF Requests, ListInv
    <3> QED
      BY <1>1, <3>2, <3>3
  <2> QED
    BY <1>5, <2>1, <2>2, <2>3 DEF ReadRedis
<1>6. CASE Fill(t)
  <2>1. PICK dec \in {"deny", "allow", "pass"} :
          /\ dec = CASE key # "white" -> "deny" [] key = "white" /\ thread[t].val -> "allow"
                     [] key = "white" /\ ~thread[t].val -> "pass"
          /\ Decide(t, dec, "none")
    BY <1>1, <1>6 DEF Fill
  <2>2. thread'[t].dec = dec /\ thread'[t].l1 = "none"
    BY <1>1, <2>1, DecisionMade
  <2> QED
    BY <1>6, <2>1, <2>2 DEF Fill
<1> QED
  BY <1>4, <1>5, <1>6

\* Whatever the L1s hold, Redis answers and the administrator edits, an IP that is on
\* the blacklist or under a ban during its whole check is denied.
THEOREM BansAreKept == Spec => BannedIsDenied
<1>1. ASSUME ListInv, [Next]_vars, NEW t \in Threads, Decides(t, {"allow", "pass"})
      PROVE  thread[t].off = {"temp", "black"}
  <2>1. Decides(t, {"deny", "allow", "pass"}) /\ thread'[t].dec \in {"allow", "pass"}
    BY <1>1 DEF Decides
  <2>2. thread[t].key = "white" /\ thread[t].pc \in {"l1", "fill"}
    BY <1>1, <2>1, WhoDecides, ByWhat
  <2>3. RequestInv(thread[t], since) /\ thread[t] \in Request
    BY <1>1 DEF ListInv, Requests
  <2> QED
    BY <2>2, <2>3 DEF RequestInv, OffNoted, Request
<1>2. Init => ListInv
  BY InitInv
<1>3. ListInv /\ [Next]_vars => ListInv'
  BY StepInv
<1>4. ListInv /\ [Next]_vars
        => [\A t \in Threads : Decides(t, {"allow", "pass"})
                                => thread[t].off = {"temp", "black"}]_vars
  BY <1>1
<1> QED
  BY <1>2, <1>3, <1>4, PTL DEF Spec, BannedIsDenied

\* What an L1 decides by is never older than the entry's TTL and the delay of its store.
THEOREM NothingIsStale == Spec => StalenessBounded
<1>1. ASSUME ListInv, [Next]_vars, NEW t \in Threads,
             Decides(t, {"deny", "allow", "pass"}), thread'[t].l1 # "none"
      PROVE  since[thread'[t].l1] <= Bound(thread'[t].l1)
  <2>1. PICK key \in Keys : key = thread[t].key
    BY <1>1 DEF ListInv, Requests, Request
  <2>2. PICK i \in Instances : i = InstanceOf[t]
    BY IPListAssumption
  <2>3. PICK e : e = cache[i][key]
    OBVIOUS
  <2>4. Live(e) /\ (e.val \/ key = "white") /\ thread'[t].l1 = Claim(key, e.val)
    BY <1>1, <2>1, <2>2, <2>3, WhoDecides, ByWhat
  <2>5. EntryInv(key, e, since) /\ e.val \in BOOLEAN /\ e.left \in Int /\ e.left >= 0
    BY <1>1, <2>3, <2>4 DEF ListInv, Entries, EntryInv, Live, Expired
  <2>6. PICK c \in Claims : c = Claim(key, e.val) /\ Bound(c) = TTL(key) + MaxStall + MaxLag
    BY <2>4, <2>5, Times
  <2>7. since[c] <= TTL(key) - e.left + MaxStall + MaxLag /\ since[c] \in Nat
    BY <1>1, <2>4, <2>5, <2>6 DEF EntryInv, ListInv, History
  <2>8. since[c] <= Bound(c)
    BY <2>5, <2>6, <2>7, Times
  <2> QED
    BY <2>4, <2>6, <2>8
<1>2. Init => ListInv
  BY InitInv
<1>3. ListInv /\ [Next]_vars => ListInv'
  BY StepInv
<1>4. ListInv /\ [Next]_vars
        => [\A t \in Threads :
              Decides(t, {"deny", "allow", "pass"}) /\ thread'[t].l1 # "none"
                => since[thread'[t].l1] <= Bound(thread'[t].l1)]_vars
  BY <1>1
<1> QED
  BY <1>2, <1>3, <1>4, PTL DEF Spec, StalenessBounded
=============================================================================
