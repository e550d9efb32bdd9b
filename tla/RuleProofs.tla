----------------------------- MODULE RuleProofs ----------------------------
(***************************************************************************)
(* Theorems about the rules of an instance: RulePoller, for any documents, *)
(* writers, edits, failures and restarts, and Router, for any rules,       *)
(* requests and goroutines.                                                *)
(*                                                                         *)
(* The argument about Router: a place is a list of an index and a position *)
(* in it.  While an index is built, each rule put into it has exactly one  *)
(* place, in the list it belongs to (Built); so the places a request finds *)
(* in a complete index are those of the rules that apply, one for each     *)
(* (FoundRight), and as no two rules of one version are equal for Before,  *)
(* there is one way to sort them (OrderUnique): each at its rank.          *)
(***************************************************************************)
EXTENDS RulePoller, Router, FiniteSetTheorems, SequenceTheorems, TLAPS

RuleSets == [Rules -> Documents \cup {NoRule, Api}]

LEMMA RuleMapType == ASSUME NEW d \in Documents PROVE RuleMap(d) \in RuleSets
  BY DEF RuleMap, RuleSets

LEMMA IdleWriterType ==
  IdleWriter \in [pc : {"idle", "replace"}, rule : Rules \cup {NoRule}, seen : RuleSets]
  BY DEF IdleWriter, Empty, RuleSets

\* A poller that has fetched has a document, a writer that has begun has a rule.
InHand ==
  /\ poller.pc = "fetched" => poller.got \in Documents
  /\ \A w \in Writers : upsert[w].pc = "replace" => upsert[w].rule \in Rules

TypeInv == TypeOK /\ InHand

LEMMA BootingType ==
  /\ Booting \in [pc : {"boot", "idle", "fetched"}, got : Documents \cup {NoVersion},
                  up : BOOLEAN]
  /\ Booting.pc # "fetched" /\ IdleWriter.pc = "idle" /\ Empty \in RuleSets
  BY DEF Booting, IdleWriter, Empty, RuleSets

LEMMA InitType == Init => TypeInv
<1> SUFFICES ASSUME Init PROVE TypeInv
  OBVIOUS
<1>1. snap \in RuleSets /\ poller = Booting
  BY BootingType DEF Init
<1>2. upsert \in [Writers -> [pc : {"idle", "replace"}, rule : Rules \cup {NoRule},
                             seen : RuleSets]]
  BY IdleWriterType DEF Init
<1>3. \A w \in Writers : upsert[w].pc = "idle"
  BY BootingType DEF Init
<1>4. TypeOK
  <2>1. remote \in Documents /\ lastVer \in Documents \cup {NoVersion}
    BY DEF Init
  <2>2. failClosed \in BOOLEAN /\ lost \in BOOLEAN
    BY DEF Init
  <2>3. edits \in 0..MaxEdits /\ faults \in 0..MaxFaults /\ writes \in 0..MaxWrites
    BY PollerAssumption DEF Init
  <2>4. poller \in [pc : {"boot", "idle", "fetched"}, got : Documents \cup {NoVersion},
                  up : BOOLEAN]
    BY <1>1, BootingType
  <2> QED
    BY <1>1, <1>2, <2>1, <2>2, <2>3, <2>4 DEF TypeOK, RuleSets
<1> QED
  BY <1>1, <1>3, <1>4, BootingType DEF TypeInv, InHand

LEMMA StepType == TypeInv /\ [Next]_vars => TypeInv'
<1> SUFFICES ASSUME TypeInv, [Next]_vars
             PROVE  TypeInv'
  OBVIOUS
<1> USE PollerAssumption DEF TypeInv, TypeOK, InHand
<1>1. CASE Fetch
  BY <1>1 DEF Fetch
<1>2. CASE FetchFails
  <2>1. snap' \in RuleSets
    BY <1>2 DEF FetchFails, AfterFailure, Empty, RuleSets
  <2> QED
    BY <1>2, <2>1 DEF FetchFails, Fault, Waiting, RuleSets
<1>3. CASE Skip
  BY <1>3 DEF Skip, Waiting
<1>4. CASE Apply
  <2>1. snap' \in RuleSets /\ lastVer' \in Documents
    BY <1>4, RuleMapType DEF Apply, NewSnapshot, AppliedVersion
  <2> QED
    BY <1>4, <2>1 DEF Apply, Waiting, RuleSets
<1>5. CASE Restart
  <2>1. upsert' \in [Writers -> [pc : {"idle", "replace"}, rule : Rules \cup {NoRule},
                                 seen : RuleSets]]
    BY <1>5, IdleWriterType DEF Restart
  <2>2. \A w \in Writers : upsert'[w].pc = "idle"
    BY <1>5, BootingType DEF Restart
  <2>3. /\ snap' \in RuleSets
        /\ poller' \in [pc : {"boot", "idle", "fetched"}, got : Documents \cup {NoVersion},
                        up : BOOLEAN]
        /\ poller'.pc # "fetched"
    BY <1>5, BootingType DEF Restart
  <2>4. /\ lastVer' = NoVersion /\ lost' = FALSE /\ faults' \in 0..MaxFaults
        /\ UNCHANGED <<remote, failClosed, edits, writes>>
    BY <1>5 DEF Restart, Fault
  <2> QED
    BY <2>1, <2>2, <2>3, <2>4 DEF RuleSets
<1>6. CASE Edit
  BY <1>6 DEF Edit
<1>7. ASSUME NEW w \in Writers, UpsertLoad(w)
      PROVE  TypeInv'
  BY <1>7 DEF UpsertLoad
<1>8. ASSUME NEW w \in Writers, UpsertReplace(w)
      PROVE  TypeInv'
  <2>1. snap' \in RuleSets
    BY <1>8 DEF UpsertReplace, RuleSets
  <2>2. upsert' \in [Writers -> [pc : {"idle", "replace"}, rule : Rules \cup {NoRule},
                                 seen : RuleSets]]
    BY <1>8, IdleWriterType DEF UpsertReplace, RuleSets
  <2>3. \A v \in Writers : upsert'[v].pc = "replace" => upsert'[v].rule \in Rules
    BY <1>8 DEF UpsertReplace, IdleWriter
  <2> QED
    BY <1>8, <2>1, <2>2, <2>3 DEF UpsertReplace, RuleSets
<1>9. CASE UNCHANGED vars
  BY <1>9 DEF vars
<1> QED
  BY <1>1, <1>2, <1>3, <1>4, <1>5, <1>6, <1>7, <1>8, <1>9 DEF Next, Pull

LEMMA TypeInvariance == Spec => []TypeInv
  BY InitType, StepType, PTL DEF Spec

\* Every variable keeps its type, whatever is fetched, written and restarted.
THEOREM TypeCorrect == Spec => []TypeOK
  BY TypeInvariance, PTL DEF TypeInv

-----------------------------------------------------------------------------
(* One document at a time. *)

\* It holds of the snapshot, and of the copies that Upserts will put back.
OneDocumentInv ==
  /\ OfOneDocument(snap)
  /\ \A w \in Writers : OfOneDocument(upsert[w].seen)

LEMMA EmptyIsOfOne == OfOneDocument(Empty)
  BY DEF OfOneDocument, Empty, Rules

LEMMA InitOneDocument == Init => OneDocumentInv
  BY EmptyIsOfOne DEF Init, OneDocumentInv, IdleWriter

\* An Upsert puts a rule of the API into a copy of one document.
LEMMA UpsertKeepsDocument ==
  ASSUME TypeInv, OneDocumentInv, NEW w \in Writers, UpsertReplace(w)
  PROVE  OfOneDocument(snap')
<1>1. upsert[w].seen \in RuleSets /\ OfOneDocument(upsert[w].seen)
  BY DEF TypeInv, TypeOK, RuleSets, OneDocumentInv
<1>2. \A r \in DocRules : snap'[r] = upsert[w].seen[r] \/ snap'[r] = Api
  BY <1>1 DEF UpsertReplace, RuleSets, Rules
<1>3. CASE \A r \in DocRules : upsert[w].seen[r] \in {NoRule, Api}
  <2>1. \A r \in DocRules : snap'[r] \in {NoRule, Api}
    BY <1>2, <1>3
  <2> QED
    BY <2>1 DEF OfOneDocument
<1>4. ASSUME NEW d \in Documents,
             \A r \in DocRules : upsert[w].seen[r] \in {RuleMap(d)[r], Api}
      PROVE  OfOneDocument(snap')
  <2>1. \A r \in DocRules : snap'[r] \in {RuleMap(d)[r], Api}
    BY <1>2, <1>4
  <2> QED
    BY <2>1 DEF OfOneDocument
<1> QED
  BY <1>1, <1>3, <1>4 DEF OfOneDocument

LEMMA StepOneDocument == TypeInv /\ OneDocumentInv /\ [Next]_vars => OneDocumentInv'
<1> SUFFICES ASSUME TypeInv, OneDocumentInv, [Next]_vars
             PROVE  OneDocumentInv'
  OBVIOUS
<1>1. ASSUME UNCHANGED <<snap, upsert>>
      PROVE  OneDocumentInv'
  BY <1>1 DEF OneDocumentInv, OfOneDocument, RuleMap
<1>2. CASE FetchFails
  <2>1. snap' = Empty \/ snap' = snap
    BY <1>2 DEF FetchFails, AfterFailure
  <2> QED
    BY <1>2, <2>1, EmptyIsOfOne DEF FetchFails, OneDocumentInv
<1>3. CASE Apply
  <2>1. poller.got \in Documents /\ snap' = RuleMap(poller.got)
    BY <1>3 DEF Apply, NewSnapshot, TypeInv, InHand
  <2>2. OfOneDocument(snap')
    BY <2>1 DEF OfOneDocument
  <2> QED
    BY <1>3, <2>2 DEF Apply, OneDocumentInv
<1>4. CASE Restart
  BY <1>4, EmptyIsOfOne DEF Restart, OneDocumentInv, IdleWriter
<1>5. ASSUME NEW w \in Writers, UpsertLoad(w)
      PROVE  OneDocumentInv'
  <2>1. \A v \in Writers : upsert'[v].seen = upsert[v].seen \/ upsert'[v].seen = snap
    BY <1>5 DEF UpsertLoad, TypeInv, TypeOK
  <2> QED
    BY <1>5, <2>1 DEF UpsertLoad, OneDocumentInv
<1>6. ASSUME NEW w \in Writers, UpsertReplace(w)
      PROVE  OneDocumentInv'
  <2>1. OfOneDocument(snap')
    BY <1>6, UpsertKeepsDocument
  <2>2. \A v \in Writers : upsert'[v].seen = upsert[v].seen \/ upsert'[v].seen = Empty
    BY <1>6 DEF UpsertReplace, IdleWriter, TypeInv, TypeOK
  <2> QED
    BY <1>6, <2>1, <2>2, EmptyIsOfOne DEF OneDocumentInv
<1> QED
  BY <1>1, <1>2, <1>3, <1>4, <1>5, <1>6
     DEF Next, Pull, Fetch, Skip, Edit, vars

\* No reader of the snapshot ever sees rules of two documents together, whatever rules
\* are written through the API meanwhile, the documents' own among them.
THEOREM OneDocumentAtATime == Spec => []OneDocument
<1>1. OneDocumentInv => OneDocument
  BY DEF OneDocumentInv, OneDocument
<1> QED
  BY <1>1, InitOneDocument, StepOneDocument, TypeInvariance, PTL DEF Spec

-----------------------------------------------------------------------------
(* The last good snapshot. *)

LEMMA StepLastGood == TypeInv /\ LastGoodKept /\ [Next]_vars => LastGoodKept'
<1> SUFFICES ASSUME TypeInv, LastGoodKept, [Next]_vars
             PROVE  LastGoodKept'
  OBVIOUS
<1> USE DEF LastGoodKept, Enforced
<1>1. ASSUME UNCHANGED <<snap, lastVer, lost>>
      PROVE  LastGoodKept'
  BY <1>1 DEF RuleMap
<1>2. CASE FetchFails
  BY <1>2 DEF FetchFails, AfterFailure, RuleMap
<1>3. CASE Apply
  BY <1>3 DEF Apply, NewSnapshot, AppliedVersion, RuleMap
<1>4. CASE Restart
  BY <1>4 DEF Restart
<1>5. ASSUME NEW w \in Writers, UpsertReplace(w)
      PROVE  LastGoodKept'
  <2>1. ~lost' => ~lost /\ \A r \in DocRules : snap'[r] = snap[r]
    BY <1>5 DEF UpsertReplace
  <2> QED
    BY <1>5, <2>1 DEF UpsertReplace, RuleMap
<1> QED
  BY <1>1, <1>2, <1>3, <1>4, <1>5
     DEF Next, Pull, Fetch, Skip, Edit, UpsertLoad, vars

\* The rules of the last version stay enforced until the next one, whatever fetches
\* fail and rules are written, but for fail-closed, an Upsert that held a copy from
\* before, and one of a rule of that version.
THEOREM LastGoodIsKept == Spec => []LastGoodKept
<1>1. Init => LastGoodKept
  BY DEF Init, LastGoodKept
<1> QED
  BY <1>1, StepLastGood, TypeInvariance, PTL DEF Spec

-----------------------------------------------------------------------------
(* Paths, and the names of lists. *)

LEMMA PrefixOfPrefix ==
  ASSUME NEW path \in Seq(STRING), NEW p \in Prefixes(path)
  PROVE  p \in Seq(STRING) /\ Prefixes(p) \subseteq Prefixes(path)
<1>1. PICK n \in 0..Len(path) : p = SubSeq(path, 1, n)
  BY DEF Prefixes
<1>2. n \in Int /\ n <= Len(path) /\ Len(path) \in Nat
  BY <1>1
<1>3. p \in Seq(STRING) /\ Len(p) = n
  <2>1. \A i \in 1..n : path[i] \in STRING
    BY <1>2
  <2> QED
    BY <1>1, <1>2, <2>1, SubSeqProperties
<1>4. ASSUME NEW k \in 0..n
      PROVE  SubSeq(p, 1, k) \in Prefixes(path)
  <2>1. CASE k = 0
    <3>1. SubSeq(p, 1, 0) = <<>> /\ SubSeq(path, 1, 0) = <<>>
      BY SubSeqEmpty
    <3> QED
      BY <1>2, <2>1, <3>1 DEF Prefixes
  <2>2. CASE k # 0
    <3>1. k \in 1..n - 1 + 1 /\ n \in 1..Len(path) /\ 1 \in 1..Len(path) /\ 1 \in 1..n - 1 + 1
      BY <1>1, <2>2
    <3>2. SubSeq(SubSeq(path, 1, n), 1, k) = SubSeq(path, 1 + 1 - 1, 1 + k - 1)
      BY <1>3, <3>1, SubSeqOfSubSeq
    <3>3. SubSeq(p, 1, k) = SubSeq(path, 1, k) /\ k \in 0..Len(path)
      BY <1>1, <1>2, <3>2
    <3> QED
      BY <3>3 DEF Prefixes
  <2> QED
    BY <2>1, <2>2
<1> QED
  BY <1>3, <1>4 DEF Prefixes

LEMMA OwnPrefix == ASSUME NEW path \in Seq(STRING) PROVE path \in Prefixes(path)
<1>1. SubSeq(path, 1, Len(path)) = path /\ Len(path) \in 0..Len(path)
  BY SubSeqFull
<1> QED
  BY <1>1 DEF Prefixes

Names == {Wildcard} \cup {Exact(p) : p \in Seq(STRING)} \cup {Node(p) : p \in Seq(STRING)}

LEMMA NameKinds ==
  /\ \A p, q : Exact(p) # Node(q) /\ Exact(p) # Wildcard /\ Node(p) # Wildcard
  /\ \A p, q : (Exact(p) = Exact(q) => p = q) /\ (Node(p) = Node(q) => p = q)
  BY DEF Exact, Node, Wildcard

LEMMA MadeFields ==
  /\ \A p : Made(Node(p)) = {Node(q) : q \in Prefixes(p)}
  /\ \A p : Made(Exact(p)) = {Exact(p)}
  /\ Made(Wildcard) = {Wildcard}
  BY DEF Made, Exact, Node, Wildcard

\* The lists that are made are themselves closed.
LEMMA MadeClosed ==
  ASSUME NEW h \in Names
  PROVE  h \in Made(h) /\ \A l \in Made(h) : l \in Names /\ Made(l) \subseteq Made(h)
<1>1. CASE h = Wildcard \/ \E p \in Seq(STRING) : h = Exact(p)
  BY <1>1, MadeFields
<1>2. ASSUME NEW p \in Seq(STRING), h = Node(p)
      PROVE  h \in Made(h) /\ \A l \in Made(h) : l \in Names /\ Made(l) \subseteq Made(h)
  <2>1. Made(h) = {Node(q) : q \in Prefixes(p)}
    BY <1>2, MadeFields
  <2>2. ASSUME NEW q \in Prefixes(p)
        PROVE  Node(q) \in Names /\ Made(Node(q)) \subseteq Made(h)
    <3>1. q \in Seq(STRING) /\ Prefixes(q) \subseteq Prefixes(p)
      BY PrefixOfPrefix
    <3>2. Made(Node(q)) = {Node(t) : t \in Prefixes(q)}
      BY MadeFields
    <3> QED
      BY <2>1, <3>1, <3>2 DEF Names
  <2> QED
    BY <1>2, <2>1, <2>2, OwnPrefix
<1> QED
  BY <1>1, <1>2 DEF Names

LEMMA LastPrefix ==
  ASSUME NEW match \in Seq(STRING), match # <<>>
  PROVE  /\ SubSeq(match, 1, Len(match) - 1) \in Seq(STRING)
         /\ SubSeq(match, 1, Len(match) - 1) \in Prefixes(match)
<1>1. Len(match) - 1 \in 0..Len(match)
  BY EmptySeq
<1>2. SubSeq(match, 1, Len(match) - 1) \in Prefixes(match)
  BY <1>1 DEF Prefixes
<1> QED
  BY <1>2, PrefixOfPrefix

LEMMA HomeName ==
  ASSUME NEW match \in Seq(STRING)
  PROVE  /\ Home(match) \in Names
         /\ IsWildcard(match) <=> Home(match) = Wildcard
         /\ \A p : Home(match) = Exact(p) <=>
              ~IsWildcard(match) /\ ~IsPrefix(match) /\ p = match
         /\ \A p : Home(match) = Node(p) <=>
              IsPrefix(match) /\ p = SubSeq(match, 1, Len(match) - 1)
<1>1. CASE IsWildcard(match)
  <2>1. Home(match) = Wildcard /\ ~IsPrefix(match)
    BY <1>1 DEF Home, IsPrefix
  <2> QED
    BY <1>1, <2>1, NameKinds DEF Names
<1>2. CASE IsPrefix(match)
  <2>1. ~IsWildcard(match) /\ match # <<>>
    BY <1>2 DEF IsPrefix, IsWildcard
  <2>2. Home(match) = Node(SubSeq(match, 1, Len(match) - 1))
    BY <1>2, <2>1 DEF Home
  <2>3. SubSeq(match, 1, Len(match) - 1) \in Seq(STRING)
    BY <2>1, LastPrefix
  <2> QED
    BY <1>2, <2>1, <2>2, <2>3, NameKinds DEF Names
<1>3. CASE ~IsWildcard(match) /\ ~IsPrefix(match)
  <2>1. Home(match) = Exact(match)
    BY <1>3 DEF Home
  <2> QED
    BY <1>3, <2>1, NameKinds DEF Names
<1> QED
  BY <1>1, <1>2, <1>3

-----------------------------------------------------------------------------
(* Building an index. *)

\* The index has the rules S so far: each that is enabled once, in the list it belongs
\* to, and nothing else.
Built(index, S) ==
  /\ S \subseteq index.of
  /\ \A l \in DOMAIN index.lists :
       /\ l \in Names /\ index.lists[l] \in Seq(S)
       /\ Made(l) \subseteq DOMAIN index.lists
       /\ \A n \in 1..Len(index.lists[l]) :
            index.lists[l][n].enabled /\ Home(index.lists[l][n].match) = l
       /\ \A m, n \in 1..Len(index.lists[l]) :
            index.lists[l][m] = index.lists[l][n] => m = n
  /\ \A r \in S : r.enabled => /\ Home(r.match) \in DOMAIN index.lists
                               /\ \E n \in 1..Len(index.lists[Home(r.match)]) :
                                    index.lists[Home(r.match)][n] = r

LEMMA NewBuilt == ASSUME NEW rules PROVE Built(NewIndex(rules), {})
<1> DEFINE x == NewIndex(rules)
<1>1. /\ x.of = rules /\ DOMAIN x.lists = {Node(<<>>), Wildcard}
      /\ \A l \in DOMAIN x.lists : x.lists[l] = <<>>
  BY DEF NewIndex
<1> HIDE DEF x
<1>2. <<>> \in Seq({}) /\ <<>> \in Seq(STRING) /\ Len(<<>>) = 0 /\ 1..0 = {}
  OBVIOUS
<1>3. Node(<<>>) \in Names /\ Wildcard \in Names
  BY <1>2 DEF Names
<1>4. Made(Node(<<>>)) = {Node(<<>>)} /\ Made(Wildcard) = {Wildcard}
  <2>1. 0..Len(<<>>) = {0} /\ SubSeq(<<>>, 1, 0) = <<>>
    BY <1>2, SubSeqEmpty
  <2>2. PICK e : e = <<>> /\ 0..Len(e) = {0} /\ SubSeq(e, 1, 0) = e
    BY <2>1
  <2>3. \A p : p \in Prefixes(e) <=> \E n \in 0..Len(e) : p = SubSeq(e, 1, n)
    BY DEF Prefixes
  <2>4. Prefixes(e) = {e}
    <3>1. \A p : p \in Prefixes(e) <=> p = e
      <4>1. \A p : p \in Prefixes(e) <=> \E n \in {0} : p = SubSeq(e, 1, n)
        BY <2>2, <2>3
      <4> QED
        BY <2>2, <4>1, Zenon
    <3> QED
      BY <3>1
  <2> QED
    BY <2>2, <2>4, MadeFields
<1>5. Built(x, {})
  BY <1>1, <1>2, <1>3, <1>4 DEF Built
<1> QED
  BY <1>5 DEF x

LEMMA IndexedBuilt ==
  ASSUME NEW index, NEW S, Built(index, S), NEW rule \in index.of, rule \notin S,
         rule.enabled \in BOOLEAN, rule.match \in Seq(STRING)
  PROVE  Built(Indexed(index, rule), S \cup {rule}) /\ Indexed(index, rule).of = index.of
<1>1. CASE ~rule.enabled
  <2>1. Indexed(index, rule) = index
    BY <1>1 DEF Indexed
  <2>2. \A l \in DOMAIN index.lists : index.lists[l] \in Seq(S \cup {rule})
    BY DEF Built
  <2> QED
    BY <1>1, <2>1, <2>2 DEF Built
<1>2. CASE rule.enabled
  <2> DEFINE home == Home(rule.match)
             old  == index.lists
             T    == S \cup {rule}
             new  == Inserted(old, home, rule)
  <2>1. Indexed(index, rule) = [lists |-> new, of |-> index.of]
    BY <1>2 DEF Indexed
  <2>2. home \in Names /\ home \in Made(home)
        /\ \A l \in Made(home) : l \in Names /\ Made(l) \subseteq Made(home)
    BY HomeName, MadeClosed
  <2>3. /\ DOMAIN new = DOMAIN old \cup Made(home)
        /\ new[home] = Append(ListAt(old, home), rule)
        /\ \A l \in DOMAIN new : l # home => new[l] = ListAt(old, l)
    BY <2>2 DEF Inserted
  <2>4. /\ S \subseteq index.of
        /\ \A l \in DOMAIN old :
             /\ l \in Names /\ old[l] \in Seq(S) /\ Made(l) \subseteq DOMAIN old
             /\ \A n \in 1..Len(old[l]) : old[l][n].enabled /\ Home(old[l][n].match) = l
             /\ \A m, n \in 1..Len(old[l]) : old[l][m] = old[l][n] => m = n
        /\ \A r \in S : r.enabled => /\ Home(r.match) \in DOMAIN old
                                     /\ \E n \in 1..Len(old[Home(r.match)]) :
                                          old[Home(r.match)][n] = r
    BY DEF Built
  <2>5. ASSUME NEW l
        PROVE  /\ ListAt(old, l) \in Seq(S)
               /\ \A n \in 1..Len(ListAt(old, l)) :
                    /\ ListAt(old, l)[n] \in S /\ ListAt(old, l)[n].enabled
                    /\ Home(ListAt(old, l)[n].match) = l
               /\ \A m, n \in 1..Len(ListAt(old, l)) :
                    ListAt(old, l)[m] = ListAt(old, l)[n] => m = n
    <3>1. CASE l \in DOMAIN old
      <4>1. ListAt(old, l) = old[l]
        BY <3>1 DEF ListAt
      <4> QED
        BY <2>4, <3>1, <4>1
    <3>2. CASE l \notin DOMAIN old
      <4>1. ListAt(old, l) = <<>>
        BY <3>2 DEF ListAt
      <4> QED
        BY <4>1
    <3> QED
      BY <3>1, <3>2
  <2> HIDE DEF new, home, old
  <2>6. PICK k \in Nat : k = Len(ListAt(old, home))
    BY <2>5
  <2>7. /\ new[home] \in Seq(T) /\ Len(new[home]) = k + 1
        /\ \A n \in 1..k : new[home][n] = ListAt(old, home)[n]
        /\ new[home][k + 1] = rule
    <3>1. ListAt(old, home) \in Seq(T) /\ rule \in T
      BY <2>5
    <3> QED
      BY <2>3, <2>6, <3>1, AppendProperties
  <2>8. /\ \A n \in 1..Len(new[home]) : /\ new[home][n].enabled
                                       /\ Home(new[home][n].match) = home
        /\ \A m, n \in 1..Len(new[home]) : new[home][m] = new[home][n] => m = n
    <3>1. ASSUME NEW n \in 1..(k + 1)
          PROVE  \/ n \in 1..k /\ new[home][n] = ListAt(old, home)[n]
                 \/ n = k + 1 /\ new[home][n] = rule
      BY <2>7
    <3>2. rule.enabled /\ Home(rule.match) = home
      BY <1>2 DEF home
    <3>3. ASSUME NEW n \in 1..(k + 1)
          PROVE  new[home][n].enabled /\ Home(new[home][n].match) = home
      BY <2>5, <2>6, <3>1, <3>2
    <3>4. ASSUME NEW m \in 1..(k + 1), NEW n \in 1..(k + 1), new[home][m] = new[home][n]
          PROVE  m = n
      <4>1. \A i \in 1..k : ListAt(old, home)[i] # rule
        BY <2>5, <2>6
      <4> QED
        BY <2>5, <2>6, <3>1, <3>4, <4>1
    <3> QED
      BY <2>7, <3>3, <3>4
  <2>9. ASSUME NEW l \in DOMAIN new
        PROVE  /\ l \in Names /\ new[l] \in Seq(T) /\ Made(l) \subseteq DOMAIN new
               /\ \A n \in 1..Len(new[l]) : new[l][n].enabled /\ Home(new[l][n].match) = l
               /\ \A m, n \in 1..Len(new[l]) : new[l][m] = new[l][n] => m = n
    <3>1. l \in Names /\ Made(l) \subseteq DOMAIN new
      BY <2>2, <2>3, <2>4
    <3>2. CASE l = home
      BY <2>7, <2>8, <3>1, <3>2
    <3>3. CASE l # home
      <4>1. new[l] = ListAt(old, l)
        BY <2>3, <3>3
      <4>2. new[l] \in Seq(T)
        BY <2>5, <4>1
      <4> QED
        BY <2>5, <3>1, <4>1, <4>2
    <3> QED
      BY <3>2, <3>3
  <2>10. ASSUME NEW r \in T, r.enabled
         PROVE  /\ Home(r.match) \in DOMAIN new
                /\ \E n \in 1..Len(new[Home(r.match)]) : new[Home(r.match)][n] = r
    <3>1. CASE r = rule
      <4>1. Home(r.match) = home /\ home \in DOMAIN new
        BY <2>2, <2>3, <3>1 DEF home
      <4> QED
        BY <2>7, <3>1, <4>1
    <3>2. CASE r \in S
      <4>1. PICK l \in DOMAIN old : l = Home(r.match)
        BY <2>4, <2>10, <3>2
      <4>2. PICK n \in 1..Len(old[l]) : old[l][n] = r
        BY <2>4, <2>10, <3>2, <4>1
      <4>3. l \in DOMAIN new /\ ListAt(old, l) = old[l]
        BY <2>3, <4>1 DEF ListAt
      <4>4. n \in 1..Len(new[l]) /\ new[l][n] = r
        <5>1. CASE l = home
          <6>1. n \in 1..k
            BY <2>6, <4>2, <4>3, <5>1
          <6> QED
            BY <2>7, <4>2, <4>3, <5>1, <6>1
        <5>2. CASE l # home
          BY <2>3, <4>2, <4>3, <5>2
        <5> QED
          BY <5>1, <5>2
      <4> QED
        BY <4>1, <4>3, <4>4
    <3> QED
      BY <3>1, <3>2
  <2>11. PICK x : x = [lists |-> new, of |-> index.of]
    OBVIOUS
  <2>12. x.lists = new /\ x.of = index.of /\ T \subseteq x.of
    BY <2>4, <2>11
  <2> HIDE DEF T
  <2>13. Built(x, T)
    BY <2>9, <2>10, <2>12 DEF Built
  <2> QED
    BY <2>1, <2>11, <2>12, <2>13 DEF T, new, old, home
<1> QED
  BY <1>1, <1>2

-----------------------------------------------------------------------------
(* What Match finds. *)

PathFound(index, ctx) ==
  IF ctx.path = <<>> THEN {}
  ELSE FilterRules(index.lists, OfPath(index.lists, ctx.path), ctx)

Found(index, ctx) == PathFound(index, ctx) \cup FilterRules(index.lists, {Wildcard}, ctx)

\* Which lists are looked at.
Looked(path, l) ==
  \/ l = Wildcard
  \/ path # <<>> /\ (l = Exact(path) \/ \E p \in Prefixes(path) : l = Node(p))

Passes(rule, ctx) ==
  rule.enabled /\ MatchMethod(rule.methods, ctx.method) /\ MatchClient(rule.client, ctx.kind)

LEMMA FilterFields ==
  ASSUME NEW lists, NEW names, NEW ctx
  PROVE  /\ \A p \in FilterRules(lists, names, ctx) :
              \E l \in names \cap DOMAIN lists : \E n \in DOMAIN lists[l] :
                /\ p = <<l, n>> /\ RuleAt(lists, p) = lists[l][n]
                /\ Passes(lists[l][n], ctx)
         /\ \A l \in names \cap DOMAIN lists : \A n \in DOMAIN lists[l] :
              Passes(lists[l][n], ctx) => /\ <<l, n>> \in FilterRules(lists, names, ctx)
                                          /\ RuleAt(lists, <<l, n>>) = lists[l][n]
<1>1. \A l, n : <<l, n>>[1] = l /\ <<l, n>>[2] = n
  OBVIOUS
<1>2. \A l, n : RuleAt(lists, <<l, n>>) = lists[l][n]
  BY <1>1, Zenon DEF RuleAt
<1>3. ASSUME NEW p \in Places(lists, names)
      PROVE  \E l \in names \cap DOMAIN lists : \E n \in DOMAIN lists[l] : p = <<l, n>>
  <2>1. PICK l \in names \cap DOMAIN lists : p \in {l} \X DOMAIN lists[l]
    BY DEF Places
  <2> QED
    BY <2>1
<1>4. ASSUME NEW l \in names \cap DOMAIN lists, NEW n \in DOMAIN lists[l]
      PROVE  <<l, n>> \in Places(lists, names)
  <2>1. <<l, n>> \in {l} \X DOMAIN lists[l]
    OBVIOUS
  <2> QED
    BY <2>1 DEF Places
<1>5. \A p : p \in FilterRules(lists, names, ctx)
               <=> p \in Places(lists, names) /\ Passes(RuleAt(lists, p), ctx)
  BY Zenon DEF FilterRules, Passes
<1>6. ASSUME NEW p \in FilterRules(lists, names, ctx)
      PROVE  \E l \in names \cap DOMAIN lists : \E n \in DOMAIN lists[l] :
               /\ p = <<l, n>> /\ RuleAt(lists, p) = lists[l][n]
               /\ Passes(lists[l][n], ctx)
  <2>1. PICK l, n :
        /\ l \in names \cap DOMAIN lists /\ n \in DOMAIN lists[l]
        /\ p = <<l, n>>
    BY <1>3, <1>5
  <2> QED
    BY <1>2, <1>5, <2>1
<1>7. ASSUME NEW l \in names \cap DOMAIN lists, NEW n \in DOMAIN lists[l],
             Passes(lists[l][n], ctx)
      PROVE  /\ <<l, n>> \in FilterRules(lists, names, ctx)
             /\ RuleAt(lists, <<l, n>>) = lists[l][n]
  BY <1>2, <1>4, <1>5, <1>7, Zenon
<1> QED
  BY <1>6, <1>7, Zenon

LEMMA FoundFields ==
  ASSUME NEW index, NEW ctx
  PROVE  /\ \A p \in Found(index, ctx) :
              \E l \in DOMAIN index.lists : \E n \in DOMAIN index.lists[l] :
                /\ Looked(ctx.path, l) /\ p = <<l, n>>
                /\ RuleAt(index.lists, p) = index.lists[l][n]
                /\ Passes(index.lists[l][n], ctx)
         /\ \A l \in DOMAIN index.lists : \A n \in DOMAIN index.lists[l] :
              Looked(ctx.path, l) /\ Passes(index.lists[l][n], ctx)
                => /\ <<l, n>> \in Found(index, ctx)
                   /\ RuleAt(index.lists, <<l, n>>) = index.lists[l][n]
<1> DEFINE lists == index.lists
           path  == ctx.path
<1>1. \A l \in DOMAIN lists :
        l \in OfPath(lists, path) <=> l = Exact(path) \/ \E p \in Prefixes(path) : l = Node(p)
  BY Zenon DEF OfPath, Passed
<1>2. ASSUME NEW p \in Found(index, ctx)
      PROVE  \E l \in DOMAIN lists : \E n \in DOMAIN lists[l] :
                /\ Looked(path, l) /\ p = <<l, n>>
                /\ RuleAt(lists, p) = lists[l][n] /\ Passes(lists[l][n], ctx)
  <2>1. PICK names : /\ p \in FilterRules(lists, names, ctx)
                     /\ \/ names = {Wildcard}
                        \/ path # <<>> /\ names = OfPath(lists, path)
    <3>1. CASE p \in FilterRules(lists, {Wildcard}, ctx)
      BY <3>1
    <3>2. CASE p \in PathFound(index, ctx)
      <4>1. path # <<>> /\ p \in FilterRules(lists, OfPath(lists, path), ctx)
        BY <3>2 DEF PathFound
      <4> QED
        BY <4>1
    <3> QED
      BY <3>1, <3>2 DEF Found
  <2>2. PICK l, n :
        /\ l \in names \cap DOMAIN lists /\ n \in DOMAIN lists[l]
        /\ p = <<l, n>> /\ RuleAt(lists, p) = lists[l][n] /\ Passes(lists[l][n], ctx)
    BY <2>1, FilterFields
  <2>3. Looked(path, l)
    BY <1>1, <2>1, <2>2 DEF Looked
  <2> QED
    BY <2>2, <2>3, Zenon
<1>3. ASSUME NEW l \in DOMAIN lists, NEW n \in DOMAIN lists[l],
             Looked(path, l), Passes(lists[l][n], ctx)
      PROVE  <<l, n>> \in Found(index, ctx) /\ RuleAt(lists, <<l, n>>) = lists[l][n]
  <2>1. CASE l = Wildcard
    <3>1. l \in {Wildcard} \cap DOMAIN lists
      BY <2>1
    <3>2. <<l, n>> \in FilterRules(lists, {Wildcard}, ctx)
          /\ RuleAt(lists, <<l, n>>) = lists[l][n]
      BY <1>3, <3>1, FilterFields
    <3> QED
      BY <3>2, Zenon DEF Found
  <2>2. CASE path # <<>> /\ l \in OfPath(lists, path)
    <3>1. l \in OfPath(lists, path) \cap DOMAIN lists
      BY <2>2
    <3>2. <<l, n>> \in FilterRules(lists, OfPath(lists, path), ctx)
          /\ RuleAt(lists, <<l, n>>) = lists[l][n]
      BY <1>3, <3>1, FilterFields
    <3> QED
      BY <2>2, <3>2, Zenon DEF Found, PathFound
  <2> QED
    BY <1>1, <1>3, <2>1, <2>2, Zenon DEF Looked
<1> QED
  BY <1>2, <1>3, Zenon

\* A rule applies if and only if the list it belongs to is looked at.
LEMMA LookedCovers ==
  ASSUME NEW match \in Seq(STRING), NEW path
  PROVE  Covers(match, path) <=> Looked(path, Home(match))
<1>1. CASE IsWildcard(match)
  BY <1>1, HomeName DEF Covers, Looked
<1>2. CASE IsPrefix(match)
  <2>1. PICK p : p = SubSeq(match, 1, Len(match) - 1) /\ Home(match) = Node(p)
    BY <1>2, HomeName
  <2>2. match # <<>> /\ ~IsWildcard(match)
    BY <1>2 DEF IsPrefix, IsWildcard
  <2>3. p \in Prefixes(match)
    BY <2>1, <2>2, LastPrefix
  <2>4. Looked(path, Home(match)) <=> path # <<>> /\ p \in Prefixes(path)
    BY <2>1, NameKinds, Zenon DEF Looked
  <2> QED
    BY <1>2, <2>1, <2>2, <2>3, <2>4, Zenon DEF Covers
<1>3. CASE ~IsWildcard(match) /\ ~IsPrefix(match)
  <2>1. Home(match) = Exact(match)
    BY <1>3, HomeName
  <2> QED
    BY <1>3, <2>1, NameKinds, Zenon DEF Covers, Looked
<1> QED
  BY <1>1, <1>2, <1>3

Applicable(index, ctx) == {r \in index.of : Applies(r, ctx)}

\* The places found are those of the rules that apply, one for each.
LEMMA FoundRight ==
  ASSUME NEW index, Built(index, index.of), NEW ctx,
         \A r \in index.of : r.enabled \in BOOLEAN /\ r.match \in Seq(STRING)
  PROVE  LET at(p) == RuleAt(index.lists, p) IN
         /\ \A p \in Found(index, ctx) : at(p) \in Applicable(index, ctx)
         /\ \A r \in Applicable(index, ctx) : \E p \in Found(index, ctx) : at(p) = r
         /\ \A p, q \in Found(index, ctx) : at(p) = at(q) => p = q
<1> DEFINE lists == index.lists
           of    == index.of
<1>1. /\ \A l \in DOMAIN lists :
           /\ lists[l] \in Seq(of)
           /\ \A n \in 1..Len(lists[l]) : lists[l][n].enabled /\ Home(lists[l][n].match) = l
           /\ \A m, n \in 1..Len(lists[l]) : lists[l][m] = lists[l][n] => m = n
      /\ \A r \in of : r.enabled => /\ Home(r.match) \in DOMAIN lists
                                    /\ \E n \in 1..Len(lists[Home(r.match)]) :
                                         lists[Home(r.match)][n] = r
  BY DEF Built
<1>2. \A l \in DOMAIN lists : DOMAIN lists[l] = 1..Len(lists[l])
                              /\ \A n \in 1..Len(lists[l]) : lists[l][n] \in of
  BY <1>1
<1>3. \A r \in of : Applies(r, ctx) <=> Passes(r, ctx) /\ Looked(ctx.path, Home(r.match))
  BY LookedCovers, Zenon DEF Applies, Passes
<1>4. ASSUME NEW p \in Found(index, ctx)
      PROVE  \E l \in DOMAIN lists : \E n \in 1..Len(lists[l]) :
               /\ Looked(ctx.path, l) /\ p = <<l, n>>
               /\ RuleAt(lists, p) = lists[l][n] /\ Passes(lists[l][n], ctx)
  <2>1. PICK l, n :
        /\ l \in DOMAIN lists /\ n \in DOMAIN lists[l]
        /\ Looked(ctx.path, l) /\ p = <<l, n>>
        /\ RuleAt(lists, p) = lists[l][n] /\ Passes(lists[l][n], ctx)
    BY ONLY FoundFields, p \in Found(index, ctx)
  <2> QED
    BY <1>2, <2>1, Zenon
<1>5. ASSUME NEW p \in Found(index, ctx)
      PROVE  RuleAt(lists, p) \in Applicable(index, ctx)
  <2>1. PICK l, n :
        /\ l \in DOMAIN lists /\ n \in 1..Len(lists[l])
        /\ Looked(ctx.path, l) /\ p = <<l, n>>
        /\ RuleAt(lists, p) = lists[l][n] /\ Passes(lists[l][n], ctx)
    BY <1>4, Zenon
  <2>2. PICK r \in of : r = lists[l][n] /\ Home(r.match) = l
    BY <1>1, <1>2, <2>1
  <2>3. Applies(r, ctx) /\ RuleAt(lists, p) = r
    BY <1>3, <2>1, <2>2, Zenon
  <2> QED
    BY <2>3, Zenon DEF Applicable
<1>6. ASSUME NEW r \in Applicable(index, ctx)
      PROVE  \E p \in Found(index, ctx) : RuleAt(lists, p) = r
  <2>1. r \in of /\ Applies(r, ctx)
    BY DEF Applicable
  <2>2. r.enabled /\ Passes(r, ctx) /\ Looked(ctx.path, Home(r.match))
    BY <1>3, <2>1, Zenon DEF Applies
  <2>3. PICK l, n :
        /\ l \in DOMAIN lists /\ n \in 1..Len(lists[l])
        /\ l = Home(r.match) /\ lists[l][n] = r
    <3>1. PICK l \in DOMAIN lists : l = Home(r.match)
      BY <1>1, <2>1, <2>2
    <3>2. PICK n \in 1..Len(lists[l]) : lists[l][n] = r
      BY <1>1, <2>1, <2>2, <3>1
    <3> QED
      BY <3>1, <3>2
  <2>4. n \in DOMAIN lists[l]
    BY <1>2, <2>3, Zenon
  <2>5. <<l, n>> \in Found(index, ctx) /\ RuleAt(lists, <<l, n>>) = r
    BY <2>2, <2>3, <2>4, FoundFields
  <2> QED
    BY <2>5, Zenon
<1>7. ASSUME NEW p \in Found(index, ctx), NEW q \in Found(index, ctx),
             RuleAt(lists, p) = RuleAt(lists, q)
      PROVE  p = q
  <2>1. PICK l, n :
        /\ l \in DOMAIN lists /\ n \in 1..Len(lists[l])
        /\ p = <<l, n>> /\ RuleAt(lists, p) = lists[l][n]
    BY <1>4, Zenon
  <2>2. PICK k, m :
        /\ k \in DOMAIN lists /\ m \in 1..Len(lists[k])
        /\ q = <<k, m>> /\ RuleAt(lists, q) = lists[k][m]
    BY <1>4, Zenon
  <2>3. k = l
    <3>1. PICK r : r = lists[l][n] /\ r = lists[k][m]
      BY <1>7, <2>1, <2>2
    <3>2. \A i \in DOMAIN lists : \A j \in 1..Len(lists[i]) : Home(lists[i][j].match) = i
      BY ONLY <1>1
    <3>3. Home(r.match) = l
      BY ONLY <2>1, <3>1, <3>2
    <3>4. Home(r.match) = k
      BY ONLY <2>2, <3>1, <3>2
    <3> QED
      BY <3>3, <3>4
  <2>4. n = m
    BY <1>1, <1>7, <2>1, <2>2, <2>3
  <2> QED
    BY <2>1, <2>2, <2>3, <2>4
<1> QED
  BY <1>5, <1>6, <1>7, Zenon

-----------------------------------------------------------------------------
(* Sorting. *)

\* Rules of one version of the rules.
Version(A) ==
  /\ IsFiniteSet(A)
  /\ \A r \in A : r.id \in Nat /\ r.priority \in Int
  /\ \A r, t \in A : r.id = t.id => r = t

LEMMA SubVersion ==
  ASSUME NEW A, Version(A), NEW S \in SUBSET A PROVE Version(S)
  BY FS_Subset DEF Version

LEMMA BeforeOrders ==
  ASSUME NEW A, Version(A), NEW r \in A, NEW t \in A, NEW u \in A
  PROVE  /\ Before(r, r)
         /\ Before(r, t) \/ Before(t, r)
         /\ Before(r, t) /\ Before(t, r) => r = t
         /\ Before(r, t) /\ Before(t, u) => Before(r, u)
<1>1. /\ r.id \in Nat /\ r.priority \in Int /\ t.id \in Nat /\ t.priority \in Int
      /\ u.id \in Nat /\ u.priority \in Int
      /\ r.id = t.id => r = t
  BY DEF Version
<1> QED
  BY <1>1 DEF Before

\* The rules that come no later than r.
UpTo(A, r) == {t \in A : Before(t, r)}

Rank(A, r) == Cardinality(UpTo(A, r))

LEMMA RankType ==
  ASSUME NEW A, Version(A), NEW r \in A
  PROVE  /\ IsFiniteSet(UpTo(A, r)) /\ Cardinality(A) \in Nat
         /\ Rank(A, r) \in 1..Cardinality(A)
<1>1. IsFiniteSet(A) /\ UpTo(A, r) \in SUBSET A
  BY DEF Version, UpTo
<1>2. IsFiniteSet(UpTo(A, r)) /\ Cardinality(UpTo(A, r)) <= Cardinality(A)
  BY <1>1, FS_Subset
<1>3. Cardinality(A) \in Nat /\ Cardinality(UpTo(A, r)) \in Nat
  BY <1>1, <1>2, FS_CardinalityType
<1>4. r \in UpTo(A, r)
  BY BeforeOrders DEF UpTo
<1>5. Cardinality(UpTo(A, r)) # 0
  BY <1>2, <1>4, FS_EmptySet
<1> QED
  BY <1>2, <1>3, <1>5 DEF Rank

LEMMA RankOrders ==
  ASSUME NEW A, Version(A), NEW r \in A, NEW t \in A
  PROVE  /\ Rank(A, r) = Rank(A, t) => r = t
         /\ Rank(A, r) < Rank(A, t) => Before(r, t)
<1>1. ASSUME NEW x \in A, NEW y \in A, Before(x, y)
      PROVE  /\ Rank(A, x) <= Rank(A, y)
             /\ Rank(A, x) = Rank(A, y) => x = y
  <2>1. UpTo(A, x) \in SUBSET UpTo(A, y)
    BY <1>1, BeforeOrders DEF UpTo
  <2>2. /\ Rank(A, x) <= Rank(A, y)
        /\ Rank(A, x) = Rank(A, y) => UpTo(A, x) = UpTo(A, y)
    BY <2>1, RankType, FS_Subset DEF Rank
  <2>3. UpTo(A, x) = UpTo(A, y) => Before(y, x)
    BY BeforeOrders DEF UpTo
  <2> QED
    BY <1>1, <2>2, <2>3, BeforeOrders
<1>2. Before(r, t) \/ Before(t, r)
  BY BeforeOrders
<1>3. Rank(A, r) \in Nat /\ Rank(A, t) \in Nat
  BY RankType
<1> QED
  BY <1>1, <1>2, <1>3

\* Every rank is taken.
LEMMA RankOnto ==
  ASSUME NEW A, Version(A), NEW n \in 1..Cardinality(A)
  PROVE  \E r \in A : Rank(A, r) = n
<1> DEFINE f == [r \in A |-> Rank(A, r)]
           N == Cardinality(A)
<1>1. IsFiniteSet(A) /\ N \in Nat
  BY FS_CardinalityType DEF Version
<1>2. f \in [A -> 1..N]
  BY RankType
<1>3. \A r, t \in A : f[r] = f[t] => r = t
  BY RankOrders
<1>4. f \in Injection(A, 1..N)
  BY <1>2, <1>3 DEF Injection, IsInjective
<1>5. IsFiniteSet(1..N) /\ Cardinality(1..N) = N
  BY <1>1, FS_Interval
<1>6. f \in Surjection(A, 1..N)
  BY <1>4, <1>5, FS_Injection
<1> QED
  BY <1>6 DEF Surjection

\* An enumeration of A in which Before decides the order.
InOrder(e, A) ==
  /\ e \in [1..Cardinality(A) -> A]
  /\ \A r \in A : \E n \in 1..Cardinality(A) : e[n] = r
  /\ \A m, n \in 1..Cardinality(A) : m < n => Before(e[m], e[n])

LEMMA OrderExists == ASSUME NEW A, Version(A) PROVE \E e : InOrder(e, A)
<1> DEFINE e == [n \in 1..Cardinality(A) |-> CHOOSE r \in A : Rank(A, r) = n]
<1>1. ASSUME NEW n \in 1..Cardinality(A)
      PROVE  e[n] \in A /\ Rank(A, e[n]) = n
  BY RankOnto
<1>2. ASSUME NEW r \in A
      PROVE  \E n \in 1..Cardinality(A) : e[n] = r
  <2>1. Rank(A, r) \in 1..Cardinality(A)
    BY RankType
  <2>2. e[Rank(A, r)] \in A /\ Rank(A, e[Rank(A, r)]) = Rank(A, r)
    BY <1>1, <2>1
  <2>3. e[Rank(A, r)] = r
    BY <2>2, RankOrders
  <2> QED
    BY <2>1, <2>3
<1>3. \A m, n \in 1..Cardinality(A) : m < n => Before(e[m], e[n])
  BY <1>1, RankOrders
<1>4. e \in [1..Cardinality(A) -> A]
  BY <1>1
<1> HIDE DEF e
<1> QED
  BY <1>2, <1>3, <1>4 DEF InOrder

\* There is only one: the rule at a position is the one of that rank.
LEMMA OrderIsRank ==
  ASSUME NEW A, Version(A), NEW e, InOrder(e, A), NEW n \in 1..Cardinality(A)
  PROVE  Rank(A, e[n]) = n
<1> DEFINE N == Cardinality(A)
<1>1. /\ e \in [1..N -> A] /\ \A r \in A : \E k \in 1..N : e[k] = r
      /\ \A k, m \in 1..N : k < m => Before(e[k], e[m])
  BY DEF InOrder
<1>2. IsFiniteSet(A) /\ N \in Nat /\ IsFiniteSet(1..N) /\ Cardinality(1..N) = N
  BY FS_CardinalityType, FS_Interval DEF Version
<1>3. \A k, m \in 1..N : e[k] = e[m] => k = m
  <2>1. e \in Surjection(1..N, A)
    BY <1>1 DEF Surjection
  <2>2. e \in Injection(1..N, A)
    BY <1>2, <2>1, FS_Surjection
  <2> QED
    BY <2>2 DEF Injection, IsInjective
<1>4. UpTo(A, e[n]) = {e[k] : k \in 1..n}
  <2>1. ASSUME NEW k \in 1..n
        PROVE  e[k] \in UpTo(A, e[n])
    <3>1. k \in 1..N /\ e[k] \in A /\ e[n] \in A
      BY <1>1, <1>2
    <3>2. Before(e[k], e[n])
      BY <1>1, <3>1, BeforeOrders
    <3> QED
      BY <3>1, <3>2 DEF UpTo
  <2>2. ASSUME NEW t \in UpTo(A, e[n])
        PROVE  \E k \in 1..n : e[k] = t
    <3>1. t \in A /\ Before(t, e[n]) /\ e[n] \in A
      BY <1>1, <2>2 DEF UpTo
    <3>2. PICK k \in 1..N : e[k] = t
      BY <1>1, <3>1
    <3>3. CASE k > n
      <4>1. Before(e[n], t)
        BY <1>1, <3>2, <3>3
      <4>2. e[n] = e[k]
        BY <3>1, <3>2, <4>1, BeforeOrders
      <4> QED
        BY <1>3, <3>3, <4>2
    <3> QED
      BY <1>2, <3>2, <3>3
  <2> QED
    BY <2>1, <2>2
<1>5. Cardinality({e[k] : k \in 1..n}) = n
  <2> DEFINE S == {e[k] : k \in 1..n}
             f == [k \in 1..n |-> e[k]]
  <2>1. \A k \in 1..n : k \in 1..N
    BY <1>2
  <2>2. f \in Surjection(1..n, S) /\ f \in Injection(1..n, S)
    BY <1>3, <2>1 DEF Surjection, Injection, IsInjective
  <2>3. ExistsBijection(1..n, S) /\ n \in Nat
    <3> HIDE DEF f, S
    <3>1. f \in Bijection(1..n, S)
      BY <2>2 DEF Bijection
    <3> QED
      BY <1>2, <3>1 DEF ExistsBijection
  <2> QED
    BY <2>3, FS_CountingElements
<1> QED
  BY <1>4, <1>5 DEF Rank

LEMMA OrderUnique ==
  ASSUME NEW A, Version(A), NEW e, NEW f, InOrder(e, A), InOrder(f, A)
  PROVE  e = f
<1>1. PICK N : N = Cardinality(A)
  OBVIOUS
<1>2. e \in [1..N -> A] /\ f \in [1..N -> A]
  BY <1>1 DEF InOrder
<1>3. \A n \in 1..N : e[n] \in A /\ f[n] \in A /\ Rank(A, e[n]) = Rank(A, f[n])
  BY <1>1, <1>2, OrderIsRank
<1>4. \A n \in 1..N : e[n] = f[n]
  BY <1>3, RankOrders
<1>5. e = [n \in 1..N |-> e[n]] /\ f = [n \in 1..N |-> f[n]]
  BY <1>2
<1>6. [n \in 1..N |-> e[n]] = [n \in 1..N |-> f[n]]
  BY <1>4
<1> QED
  BY <1>5, <1>6

\* What Match returns: the rules at the places, in their order.
LEMMA SortedInOrder ==
  ASSUME NEW lists, NEW P, NEW A, Version(A),
         \A p \in P : RuleAt(lists, p) \in A,
         \A r \in A : \E p \in P : RuleAt(lists, p) = r,
         \A p, q \in P : RuleAt(lists, p) = RuleAt(lists, q) => p = q
  PROVE  InOrder(Sorted(lists, P), A)
<1> DEFINE at(p) == RuleAt(lists, p)
           N == Cardinality(A)
           IsOrder(s) == /\ s \in [1..Cardinality(P) -> P]
                         /\ \A p \in P : \E n \in DOMAIN s : s[n] = p
                         /\ \A m, n \in DOMAIN s : m < n => Before(at(s[m]), at(s[n]))
<1>1. IsFiniteSet(P) /\ Cardinality(P) = N /\ N \in Nat
  <2> DEFINE f == [p \in P |-> at(p)]
  <2>1. f \in Injection(P, A) /\ f \in Surjection(P, A)
    BY DEF Injection, Surjection, IsInjective
  <2>2. IsFiniteSet(A)
    BY DEF Version
  <2> HIDE DEF f
  <2> QED
    BY <2>1, <2>2, FS_Injection, FS_CardinalityType
<1>2. \E s : IsOrder(s)
  <2>1. PICK e : InOrder(e, A)
    BY OrderExists
  <2>2. /\ e \in [1..N -> A] /\ \A r \in A : \E n \in 1..N : e[n] = r
        /\ \A m, n \in 1..N : m < n => Before(e[m], e[n])
    BY <2>1 DEF InOrder
  <2> DEFINE s == [n \in 1..N |-> CHOOSE p \in P : at(p) = e[n]]
  <2>3. \A n \in 1..N : s[n] \in P /\ at(s[n]) = e[n]
    BY <2>2
  <2>4. s \in [1..Cardinality(P) -> P] /\ DOMAIN s = 1..N
    BY <1>1, <2>3
  <2>5. ASSUME NEW p \in P
        PROVE  \E n \in DOMAIN s : s[n] = p
    <3>1. PICK n \in 1..N : e[n] = at(p)
      BY <2>2
    <3>2. s[n] \in P /\ at(s[n]) = at(p)
      BY <2>3, <3>1
    <3> QED
      BY <2>4, <3>1, <3>2
  <2>6. \A m, n \in DOMAIN s : m < n => Before(at(s[m]), at(s[n]))
    BY <2>2, <2>3, <2>4
  <2> HIDE DEF s
  <2> QED
    BY <2>4, <2>5, <2>6
<1>3. PICK s : s = CHOOSE x \in [1..Cardinality(P) -> P] :
                     /\ \A p \in P : \E n \in DOMAIN x : x[n] = p
                     /\ \A m, n \in DOMAIN x : m < n => Before(at(x[m]), at(x[n]))
  OBVIOUS
<1>4. IsOrder(s)
  BY <1>2, <1>3
<1>5. Sorted(lists, P) = [n \in 1..Cardinality(P) |-> at(s[n])]
  BY <1>3 DEF Sorted
<1>6. PICK e : e = [n \in 1..N |-> at(s[n])]
  OBVIOUS
<1>7. DOMAIN s = 1..N /\ \A n \in 1..N : s[n] \in P /\ e[n] = at(s[n]) /\ e[n] \in A
  BY <1>1, <1>4, <1>6
<1>8. e \in [1..N -> A]
  BY <1>6, <1>7
<1>9. \A r \in A : \E n \in 1..N : e[n] = r
  BY <1>4, <1>7
<1>10. \A m, n \in 1..N : m < n => Before(e[m], e[n])
  BY <1>4, <1>7
<1> QED
  BY <1>1, <1>5, <1>6, <1>8, <1>9, <1>10 DEF InOrder

LEMMA InOrderLists ==
  ASSUME NEW A, Version(A), NEW e, InOrder(e, A)
  PROVE  Listed(e) = A /\ Len(e) = Cardinality(Listed(e))
<1>1. /\ e \in [1..Cardinality(A) -> A]
      /\ \A r \in A : \E n \in 1..Cardinality(A) : e[n] = r
  BY DEF InOrder
<1>2. Listed(e) = A
  BY <1>1 DEF Listed
<1>3. Cardinality(A) \in Nat
  BY FS_CardinalityType DEF Version
<1>4. e \in Seq(A) /\ DOMAIN e = 1..Cardinality(A)
  BY <1>1, <1>3
<1>5. Len(e) = Cardinality(A)
  BY <1>3, <1>4
<1> QED
  BY <1>2, <1>5

-----------------------------------------------------------------------------
(* The invariant. *)

Sets == RuleMaps \cup {{}}

LEMMA SetsAreVersions ==
  ASSUME NEW S \in Sets
  PROVE  /\ Version(S)
         /\ \A r \in S : r.enabled \in BOOLEAN /\ r.match \in Seq(STRING)
<1>1. CASE S = {}
  BY <1>1, FS_EmptySet DEF Version
<1>2. CASE S \in RuleMaps
  BY <1>2, RouterAssumption DEF Version
<1> QED
  BY <1>1, <1>2 DEF Sets

\* An index that is complete, of one version of the rules.
Complete(index) == index.of \in Sets /\ Built(index, index.of)

MatchInv(m) ==
  /\ DOMAIN m = {"pc", "ctx", "snap", "found", "res"}
  /\ m.pc \in {"idle", "path", "wildcard", "done"}
  /\ m.pc # "idle" => Complete(m.snap)
  /\ m.pc = "path" => m.ctx.path # <<>>
  /\ m.pc = "wildcard" => m.found = PathFound(m.snap, m.ctx)
  /\ m.pc = "done" => m.res = Sorted(m.snap.lists, Found(m.snap, m.ctx))

IndexInv ==
  /\ Complete(inUse)
  /\ next.of \in Sets /\ todo \subseteq next.of /\ Built(next, next.of \ todo)

MatchersInv == DOMAIN matcher = Goroutines /\ \A g \in Goroutines : MatchInv(matcher[g])

RouterInv == IndexInv /\ MatchersInv

LEMMA IdleMatchInv == MatchInv(Idle)
  BY DEF MatchInv, Idle

LEMMA RouterInitInv == RouterInit => RouterInv
<1> SUFFICES ASSUME RouterInit PROVE RouterInv
  OBVIOUS
<1>1. inUse = NewIndex({}) /\ next = NewIndex({}) /\ todo = {}
  BY DEF RouterInit
<1>2. NewIndex({}).of = {} /\ {} \in Sets /\ {} \ {} = {}
  BY DEF NewIndex, Sets
<1>3. Built(NewIndex({}), {})
  BY NewBuilt
<1>4. IndexInv
  BY <1>1, <1>2, <1>3 DEF IndexInv, Complete
<1>5. MatchersInv
  BY IdleMatchInv DEF RouterInit, MatchersInv
<1> QED
  BY <1>4, <1>5 DEF RouterInv

LEMMA BeginInv == ASSUME IndexInv, Begin PROVE IndexInv'
<1>1. PICK rules \in RuleMaps : todo' = rules /\ next' = NewIndex(rules) /\ inUse' = inUse
  BY DEF Begin, Fresh
<1>2. next'.of = rules /\ rules \in Sets /\ rules \ rules = {}
  BY <1>1 DEF NewIndex, Sets
<1>3. Built(next', next'.of \ todo')
  BY <1>1, <1>2, NewBuilt
<1>4. Complete(inUse')
  BY <1>1 DEF IndexInv
<1> QED
  BY <1>1, <1>2, <1>3, <1>4 DEF IndexInv

LEMMA InsertInv == ASSUME IndexInv, Insert PROVE IndexInv'
<1>1. PICK rule \in todo :
        todo' = todo \ {rule} /\ next' = Indexed(next, rule) /\ inUse' = inUse
  BY DEF Insert
<1>2. PICK S : S = next.of \ todo
  OBVIOUS
<1>3. rule \in next.of /\ rule \notin S /\ Built(next, S) /\ next.of \in Sets
  BY <1>2 DEF IndexInv
<1>4. rule.enabled \in BOOLEAN /\ rule.match \in Seq(STRING)
  BY <1>3, SetsAreVersions
<1>5. Built(next', S \cup {rule}) /\ next'.of = next.of
  BY <1>1, <1>3, <1>4, IndexedBuilt
<1>6. next'.of \ todo' = S \cup {rule} /\ todo' \subseteq next'.of
  BY <1>1, <1>2, <1>3, <1>5 DEF IndexInv
<1>7. Complete(inUse')
  BY <1>1 DEF IndexInv
<1> QED
  BY <1>3, <1>5, <1>6, <1>7 DEF IndexInv

LEMMA ReplaceInv == ASSUME IndexInv, Replace PROVE IndexInv'
<1>1. todo = {} /\ inUse' = next /\ next' = next /\ todo' = todo
  BY DEF Replace
<1>2. next.of \in Sets /\ Built(next, next.of) /\ next.of \ todo = next.of
  BY <1>1 DEF IndexInv
<1>3. Complete(inUse')
  BY <1>1, <1>2 DEF Complete
<1> QED
  BY <1>1, <1>2, <1>3 DEF IndexInv

\* A step of one goroutine: it remains to show where it gets to.
LEMMA OneMatcher ==
  ASSUME MatchersInv, NEW g \in Goroutines, NEW e, MatchInv(e),
         matcher' = [matcher EXCEPT ![g] = e]
  PROVE  MatchersInv'
<1>1. DOMAIN matcher' = Goroutines /\ \A h \in Goroutines :
        matcher'[h] = IF h = g THEN e ELSE matcher[h]
  BY DEF MatchersInv
<1>2. \A h \in Goroutines : MatchInv(matcher'[h])
  BY <1>1 DEF MatchersInv
<1> QED
  BY <1>1, <1>2 DEF MatchersInv

LEMMA LoadInv == ASSUME RouterInv, NEW g \in Goroutines, Load(g) PROVE MatchersInv'
<1>1. PICK q, e :
        LET ctx == [path |-> q.path, method |-> q.method, kind |-> Resolve(q)] IN
        /\ e = [pc |-> IF ctx.path = <<>> THEN "wildcard" ELSE "path",
                ctx |-> ctx, snap |-> inUse, found |-> {}, res |-> <<>>]
        /\ matcher' = [matcher EXCEPT ![g] = e]
  BY DEF Load
<1>2. PICK ctx : ctx = [path |-> q.path, method |-> q.method, kind |-> Resolve(q)]
  OBVIOUS
<1>3. /\ DOMAIN e = {"pc", "ctx", "snap", "found", "res"}
      /\ e.pc = IF ctx.path = <<>> THEN "wildcard" ELSE "path"
      /\ e.ctx = ctx /\ e.snap = inUse /\ e.found = {}
  BY <1>1, <1>2
<1>4. Complete(e.snap)
  BY <1>3 DEF RouterInv, IndexInv
<1>5. e.pc = "wildcard" => e.found = PathFound(e.snap, e.ctx)
  BY <1>3 DEF PathFound
<1>6. MatchInv(e)
  BY <1>3, <1>4, <1>5 DEF MatchInv
<1> QED
  BY <1>1, <1>6, OneMatcher DEF RouterInv

LEMMA MatchPathInv == ASSUME MatchersInv, NEW g \in Goroutines, MatchPath(g) PROVE MatchersInv'
<1>1. PICK m, found :
        /\ m = matcher[g]
        /\ found = FilterRules(m.snap.lists, OfPath(m.snap.lists, m.ctx.path), m.ctx)
  OBVIOUS
<1>2. MatchInv(m) /\ m.pc = "path"
  BY <1>1 DEF MatchPath, MatchersInv
<1>3. PICK e : e = [m EXCEPT !.pc = "wildcard", !.found = found]
  OBVIOUS
<1>4. matcher' = [matcher EXCEPT ![g] = e]
  BY <1>1, <1>3 DEF MatchPath, MatchersInv
<1>5. /\ DOMAIN e = {"pc", "ctx", "snap", "found", "res"}
      /\ e.pc = "wildcard" /\ e.ctx = m.ctx /\ e.snap = m.snap /\ e.found = found
  BY <1>2, <1>3 DEF MatchInv
<1>6. found = PathFound(m.snap, m.ctx) /\ Complete(m.snap)
  BY <1>1, <1>2 DEF MatchInv, PathFound
<1>7. MatchInv(e)
  BY <1>5, <1>6 DEF MatchInv
<1> QED
  BY <1>4, <1>7, OneMatcher

LEMMA MatchWildcardInv ==
  ASSUME MatchersInv, NEW g \in Goroutines, MatchWildcard(g) PROVE MatchersInv'
<1>1. PICK m, res :
        /\ m = matcher[g]
        /\ res = Sorted(m.snap.lists,
                        m.found \cup FilterRules(m.snap.lists, {Wildcard}, m.ctx))
  OBVIOUS
<1>2. MatchInv(m) /\ m.pc = "wildcard"
  BY <1>1 DEF MatchWildcard, MatchersInv
<1>3. PICK e : e = [m EXCEPT !.pc = "done", !.res = res]
  OBVIOUS
<1>4. matcher' = [matcher EXCEPT ![g] = e]
  BY <1>1, <1>3 DEF MatchWildcard, MatchersInv
<1>5. /\ DOMAIN e = {"pc", "ctx", "snap", "found", "res"}
      /\ e.pc = "done" /\ e.ctx = m.ctx /\ e.snap = m.snap /\ e.res = res
  BY <1>2, <1>3 DEF MatchInv
<1>6. res = Sorted(m.snap.lists, Found(m.snap, m.ctx)) /\ Complete(m.snap)
  BY <1>1, <1>2 DEF MatchInv, Found
<1>7. MatchInv(e)
  BY <1>5, <1>6 DEF MatchInv
<1> QED
  BY <1>4, <1>7, OneMatcher

LEMMA RouterStepInv == RouterInv /\ [RouterNext]_routerVars => RouterInv'
<1> SUFFICES ASSUME RouterInv, [RouterNext]_routerVars PROVE RouterInv'
  OBVIOUS
<1>1. (matcher' = matcher => MatchersInv') /\ (inUse' = inUse /\ next' = next /\ todo' = todo
                                                 => IndexInv')
  BY DEF RouterInv, MatchersInv, IndexInv
<1>2. CASE Begin
  BY <1>1, <1>2, BeginInv DEF RouterInv, Begin
<1>3. CASE Insert
  BY <1>1, <1>3, InsertInv DEF RouterInv, Insert
<1>4. CASE Replace
  BY <1>1, <1>4, ReplaceInv DEF RouterInv, Replace
<1>5. ASSUME NEW g \in Goroutines, Load(g)
      PROVE  RouterInv'
  BY <1>1, <1>5, LoadInv DEF RouterInv, Load
<1>6. ASSUME NEW g \in Goroutines, MatchPath(g)
      PROVE  RouterInv'
  BY <1>1, <1>6, MatchPathInv DEF RouterInv, MatchPath
<1>7. ASSUME NEW g \in Goroutines, MatchWildcard(g)
      PROVE  RouterInv'
  BY <1>1, <1>7, MatchWildcardInv DEF RouterInv, MatchWildcard
<1>8. ASSUME NEW g \in Goroutines, Done(g)
      PROVE  RouterInv'
  BY <1>1, <1>8, OneMatcher, IdleMatchInv DEF RouterInv, Done
<1>9. CASE UNCHANGED routerVars
  BY <1>1, <1>9 DEF RouterInv, routerVars
<1> QED
  BY <1>2, <1>3, <1>4, <1>5, <1>6, <1>7, <1>8, <1>9 DEF RouterNext

LEMMA RouterInvariance == RouterSpec => []RouterInv
  BY RouterInitInv, RouterStepInv, PTL DEF RouterSpec

-----------------------------------------------------------------------------
(* The theorems. *)

LEMMA BuiltType ==
  ASSUME NEW index, NEW S, Built(index, S), NEW l \in DOMAIN index.lists
  PROVE  Listed(index.lists[l]) \subseteq index.of /\ Made(l) \subseteq DOMAIN index.lists
<1>1. S \subseteq index.of /\ index.lists[l] \in Seq(S) /\ Made(l) \subseteq DOMAIN index.lists
  BY DEF Built
<1>2. \A n \in DOMAIN index.lists[l] : index.lists[l][n] \in S
  BY <1>1
<1> QED
  BY <1>1, <1>2 DEF Listed

\* Type correctness of the index in use, of the one that is being built and of the
\* goroutines: an index has only rules of its version, and a trie has the nodes on the
\* way to every node.
THEOREM RouterTypeCorrect == RouterSpec => []RouterTypeOK
<1>1. RouterInv => RouterTypeOK
  <2> SUFFICES ASSUME RouterInv PROVE RouterTypeOK
    OBVIOUS
  <2>1. inUse.of \in Sets /\ next.of \in Sets /\ todo \subseteq next.of
    BY DEF RouterInv, IndexInv, Complete
  <2>2. ASSUME NEW index \in {inUse, next}, NEW l \in DOMAIN index.lists
        PROVE  Listed(index.lists[l]) \subseteq index.of /\ Made(l) \subseteq DOMAIN index.lists
    <3>1. PICK S : Built(index, S)
      BY DEF RouterInv, IndexInv, Complete
    <3> QED
      BY <3>1, BuiltType
  <2>3. \A g \in Goroutines : matcher[g].pc \in {"idle", "path", "wildcard", "done"}
    BY DEF RouterInv, MatchersInv, MatchInv
  <2> QED
    BY <2>1, <2>2, <2>3 DEF RouterTypeOK, Sets
<1> QED
  BY <1>1, RouterInvariance, PTL

\* What a finished Match returns is the enumeration, in the order of Before, of the
\* rules that apply.
LEMMA ResultInOrder ==
  ASSUME NEW m, MatchInv(m), m.pc = "done"
  PROVE  /\ Version(Applicable(m.snap, m.ctx))
         /\ InOrder(m.res, Applicable(m.snap, m.ctx))
<1> DEFINE A == Applicable(m.snap, m.ctx)
           P == Found(m.snap, m.ctx)
           lists == m.snap.lists
<1>1. m.res = Sorted(lists, P) /\ m.snap.of \in Sets /\ Built(m.snap, m.snap.of)
  BY DEF MatchInv, Complete
<1>2. /\ Version(m.snap.of)
      /\ \A r \in m.snap.of : r.enabled \in BOOLEAN /\ r.match \in Seq(STRING)
  BY <1>1, SetsAreVersions
<1>3. /\ \A p \in P : RuleAt(lists, p) \in A
      /\ \A r \in A : \E p \in P : RuleAt(lists, p) = r
      /\ \A p, q \in P : RuleAt(lists, p) = RuleAt(lists, q) => p = q
  BY <1>1, <1>2, FoundRight
<1>4. A \in SUBSET m.snap.of
  BY DEF Applicable
<1>5. Version(A)
  BY <1>2, <1>4, SubVersion
<1> HIDE DEF A, P, lists
<1>6. InOrder(Sorted(lists, P), A)
  BY <1>3, <1>5, SortedInOrder
<1> QED
  BY <1>1, <1>5, <1>6 DEF A

\* Whatever the rules, the order in which they were indexed and the requests beside it,
\* Match returns exactly the rules that apply, each once, of one version of the rules.
THEOREM RulesAreRight == RouterSpec => []RightRules
<1>1. RouterInv => RightRules
  <2> SUFFICES ASSUME RouterInv, NEW g \in Goroutines, matcher[g].pc = "done"
               PROVE  /\ Listed(matcher[g].res)
                           = {r \in matcher[g].snap.of : Applies(r, matcher[g].ctx)}
                      /\ Len(matcher[g].res) = Cardinality(Listed(matcher[g].res))
    BY DEF RightRules
  <2>1. MatchInv(matcher[g])
    BY DEF RouterInv, MatchersInv
  <2> QED
    BY <2>1, ResultInOrder, InOrderLists DEF Applicable
<1> QED
  BY <1>1, RouterInvariance, PTL

\* Two requests of one kind under one version of the rules get them in one order, from
\* whatever index: there is only one enumeration in the order of Before.
THEOREM OrderIsTheSame == RouterSpec => []SameOrderEverywhere
<1>1. RouterInv => SameOrderEverywhere
  <2> SUFFICES ASSUME RouterInv, NEW g \in Goroutines, NEW h \in Goroutines,
                      matcher[g].pc = "done", matcher[h].pc = "done",
                      matcher[g].ctx = matcher[h].ctx,
                      matcher[g].snap.of = matcher[h].snap.of
               PROVE  matcher[g].res = matcher[h].res
    BY DEF SameOrderEverywhere
  <2>1. MatchInv(matcher[g]) /\ MatchInv(matcher[h])
    BY DEF RouterInv, MatchersInv
  <2>2. Applicable(matcher[g].snap, matcher[g].ctx)
          = Applicable(matcher[h].snap, matcher[h].ctx)
    BY DEF Applicable
  <2> QED
    BY <2>1, <2>2, ResultInOrder, OrderUnique
<1> QED
  BY <1>1, RouterInvariance, PTL
=============================================================================
