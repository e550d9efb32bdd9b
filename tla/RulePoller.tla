----------------------------- MODULE RulePoller ----------------------------
(***************************************************************************)
(* The rules of one RLS instance in Nacos mode: a poller fetches the       *)
(* configuration document and replaces the snapshot when its version (the  *)
(* MD5 of the document) is not the one it applied last, while writers      *)
(* serve POST and PUT of single rules on the same snapshot.                *)
(*                                                                         *)
(* A document is a member of Documents, which is also its version; a rule  *)
(* in the snapshot is named by where its content comes from: a document,   *)
(* or the API.  The Redis side of Upsert is left out: in Nacos mode nothing*)
(* reads the rules of Redis.                                               *)
(***************************************************************************)
EXTENDS Integers

CONSTANTS
  Documents,
  DocRules,     \* the rules that documents may define
  ApiRules,     \* the rules that no document defines
  RulesOf,      \* the rules each document defines
  NoRule, NoVersion, Api,
  Writers,      \* goroutines that serve POST and PUT of a rule
  MaxEdits,     \* bound of the model: changes of the document
  MaxFaults,    \* bound of the model: failed fetches and restarts
  MaxWrites     \* bound of the model: Upserts

ASSUME PollerAssumption ==
  /\ RulesOf \in [Documents -> SUBSET DocRules]
  /\ DocRules \cap ApiRules = {}
  /\ MaxEdits \in Nat /\ MaxFaults \in Nat /\ MaxWrites \in Nat

VARIABLES
  remote,       \* the document in Nacos
  snap,         \* the rule snapshot
  lastVer,      \* the version applied last
  poller,       \* where the main or poller goroutine is, the document it fetched, and
                \* whether the server is up
  upsert,       \* where each writer is, and the snapshot it loaded
  failClosed,   \* whether failPolicy is fail-closed; fixed in the configuration
  lost,         \* history: rules of lastVer were taken away or overwritten
  edits, faults, writes

vars == <<remote, snap, lastVer, poller, upsert, failClosed, lost, edits, faults, writes>>

Rules == DocRules \cup ApiRules
Empty == [r \in Rules |-> NoRule]

\* BuildRuleMap of a document.
RuleMap(d) == [r \in Rules |-> IF r \in RulesOf[d] THEN d ELSE NoRule]

Booting == [pc |-> "boot", got |-> NoVersion, up |-> FALSE]
Waiting == [pc |-> "idle", got |-> NoVersion, up |-> TRUE]

IdleWriter == [pc |-> "idle", rule |-> NoRule, seen |-> Empty]

Init ==
  /\ remote \in Documents
  /\ snap = Empty /\ lastVer = NoVersion
  /\ poller = Booting
  /\ upsert = [w \in Writers |-> IdleWriter]
  /\ failClosed \in BOOLEAN /\ lost = FALSE
  /\ edits = 0 /\ faults = 0 /\ writes = 0

Fault == faults < MaxFaults /\ faults' = faults + 1

-----------------------------------------------------------------------------
(* Bodies a bug could have given the definitions below. *)

MergedSnapshot(d) == [r \in Rules |-> IF r \in RulesOf[d] THEN d ELSE snap[r]]

ClearedOnFailure == Empty

VersionReadAgain == remote

OnlyItsRules(d) == [r \in RulesOf[d] |-> d]

-----------------------------------------------------------------------------
(* The poller.  pull runs in main before the server starts ("boot") and then at *)
(* every tick ("idle").                                                         *)

Fetch ==
  /\ poller.pc \in {"boot", "idle"}
  /\ poller' = [poller EXCEPT !.pc = "fetched", !.got = remote]
  /\ UNCHANGED <<remote, snap, lastVer, upsert, failClosed, lost, edits, faults, writes>>

\* handleFailure.
AfterFailure == IF failClosed THEN Empty ELSE snap

\* The fetch fails, or the document cannot be parsed.  Before the server starts,
\* fail-closed ends the process, which is started again.
FetchFails ==
  /\ poller.pc \in {"boot", "idle"}
  /\ Fault
  /\ snap' = AfterFailure
  /\ poller' = IF poller.pc = "boot" /\ failClosed THEN poller ELSE Waiting
  /\ lost' = (lost \/ failClosed)
  /\ UNCHANGED <<remote, lastVer, upsert, failClosed, edits, writes>>

\* The fetched version is the last one applied.
Skip ==
  /\ poller.pc = "fetched" /\ poller.got = lastVer
  /\ poller' = Waiting
  /\ UNCHANGED <<remote, snap, lastVer, upsert, failClosed, lost, edits, faults, writes>>

NewSnapshot(d) == RuleMap(d)

AppliedVersion == poller.got

Apply ==
  /\ poller.pc = "fetched" /\ poller.got # lastVer
  /\ snap' = NewSnapshot(poller.got)
  /\ lastVer' = AppliedVersion
  /\ poller' = Waiting
  /\ lost' = FALSE
  /\ UNCHANGED <<remote, upsert, failClosed, edits, faults, writes>>

Restart ==
  /\ Fault
  /\ snap' = Empty /\ lastVer' = NoVersion
  /\ poller' = Booting
  /\ upsert' = [w \in Writers |-> IdleWriter]
  /\ lost' = FALSE
  /\ UNCHANGED <<remote, failClosed, edits, writes>>

-----------------------------------------------------------------------------
(* Upsert, after its SET.  It takes any rule, also one that a document defines. *)

UpsertLoad(w) ==
  /\ upsert[w].pc = "idle" /\ poller.up
  /\ writes < MaxWrites /\ writes' = writes + 1
  /\ \E r \in Rules :
       upsert' = [upsert EXCEPT ![w] = [pc |-> "replace", rule |-> r, seen |-> snap]]
  /\ UNCHANGED <<remote, snap, lastVer, poller, failClosed, lost, edits, faults>>

UpsertReplace(w) ==
  /\ upsert[w].pc = "replace"
  /\ snap' = [upsert[w].seen EXCEPT ![upsert[w].rule] = Api]
  /\ upsert' = [upsert EXCEPT ![w] = IdleWriter]
  /\ lost' = (lost \/ \E r \in DocRules : snap'[r] # snap[r])
  /\ UNCHANGED <<remote, lastVer, poller, failClosed, edits, faults, writes>>

\* Somebody changes the document, perhaps back to an earlier one.
Edit ==
  /\ edits < MaxEdits /\ edits' = edits + 1
  /\ remote' \in Documents \ {remote}
  /\ UNCHANGED <<snap, lastVer, poller, upsert, failClosed, lost, faults, writes>>

Pull == Fetch \/ Skip \/ Apply

Next ==
  \/ Pull \/ FetchFails \/ Restart \/ Edit
  \/ \E w \in Writers : UpsertLoad(w) \/ UpsertReplace(w)

Spec == Init /\ [][Next]_vars

\* The ticker goes on, and a request that was begun is finished.
FairSpec == Spec /\ WF_vars(Pull) /\ \A w \in Writers : WF_vars(UpsertReplace(w))

-----------------------------------------------------------------------------
(* Properties. *)

\* Every variable has the values its field in the code can have.
TypeOK ==
  /\ remote \in Documents
  /\ snap \in [Rules -> Documents \cup {NoRule, Api}]
  /\ lastVer \in Documents \cup {NoVersion}
  /\ poller \in [pc : {"boot", "idle", "fetched"}, got : Documents \cup {NoVersion},
                up : BOOLEAN]
  /\ upsert \in [Writers -> [pc : {"idle", "replace"}, rule : Rules \cup {NoRule},
                             seen : [Rules -> Documents \cup {NoRule, Api}]]]
  /\ failClosed \in BOOLEAN /\ lost \in BOOLEAN
  /\ edits \in 0..MaxEdits /\ faults \in 0..MaxFaults /\ writes \in 0..MaxWrites

Enforced(d) == \A r \in DocRules : snap[r] = RuleMap(d)[r]

\* What a snapshot has of the documents' rules, but for those the API wrote, is one
\* document or nothing.
OfOneDocument(s) ==
  \/ \A r \in DocRules : s[r] \in {NoRule, Api}
  \/ \E d \in Documents : \A r \in DocRules : s[r] \in {RuleMap(d)[r], Api}

\* No reader of the snapshot sees rules of two documents together, nor one of a
\* document that no longer has it, however Apply and Upsert interleave: an Upsert
\* puts its own rule into what it copied, and what it copied was one document.
OneDocument == OfOneDocument(snap)

\* docs/RATE_LIMITER_REFACTOR.md, pull flow 5: on error keep the last good snapshot.
\* Until the next version is applied or the process restarts, the rules of the last
\* version stay enforced, but for three causes: a failed fetch under fail-closed, an
\* Upsert that copied the snapshot before that version was applied, and an Upsert of
\* a rule that the version defines.
LastGoodKept ==
  lastVer # NoVersion /\ ~lost => Enforced(lastVer)

\* Once the document is stable and the fetches succeed, its rules are enforced for
\* good, but for the same three causes.
Converges == <>[](lost \/ Enforced(remote))

\* docs/RATE_LIMITER_REFACTOR.md, notes: update latency equals the poll interval.
\* Once the document is stable and the fetches succeed, its rules are enforced.
LatencyIsInterval == <>[]Enforced(remote)
=============================================================================
