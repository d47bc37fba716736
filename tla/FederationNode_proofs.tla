------------------------ MODULE FederationNode_proofs ------------------------
(***************************************************************************)
(* What holds of FederationNode for every number of nodes, tasks and       *)
(* manifests.  The inductive invariant IInv says what a task's locals mean *)
(* at each statement, who is inside the lifecycle lock, and what a task    *)
(* inside it may still rely on.                                            *)
(***************************************************************************)
EXTENDS FederationNode, TLAPS

RecordOps == {"admit_peer", "bootstrap_from_seeds"}
RefreshOps == {"refresh_peer", "refresh_all"}

(* Which operations a task can be in at a statement. *)
OpOK(l) ==
  /\ l.pc = "idle" => l.op = "none"
  /\ l.pc = "record" => l.op \in RecordOps
  /\ l.pc \in {"sweep", "fetch"} => l.op = "discover"
  /\ l.pc \in {"remember", "admit"} => l.op \in RecordOps \cup RefreshOps
  /\ l.pc = "persist" => l.op \in RecordOps \cup RefreshOps \cup {"discover"}
  /\ l.pc \in {"lookup", "scan", "fetching", "apply", "quarantine", "reject"}
       => l.op \in RefreshOps
  /\ l.pc \in {"forget", "delete"} => l.op \in RefreshOps \cup {"apply_revocation_notice"}
  /\ l.pc \in {"revoke", "mark_revoked"} => l.op = "apply_revocation_notice"

(* The manifests and nodes a task works on are there when it uses them. *)
LocalsOK(l) ==
  /\ l.pc \in {"remember", "persist", "admit"} => l.man \in Manifests
  /\ l.pc \in {"fetch", "lookup", "revoke", "mark_revoked", "quarantine", "reject",
               "forget", "delete"} => l.cur \in Nodes
  /\ l.pc \in {"remember", "persist", "admit"} /\ l.op \notin RefreshOps => l.man \in l.acc
  /\ l.pc \in {"lookup", "fetching"} => l.srcs = {}
  /\ l.pc = "apply" /\ l.srcs # {} => l.cur \in l.srcs /\ l.dec[l.cur] # NoDecision

(* A refresh works on the decision it has read, and the manifest of a      *)
(* decision is one of the node the decision is about.                      *)
RefreshOK(l) ==
  /\ \A n \in Nodes : l.base[n] # NoManifest => l.base[n].node = n
  /\ \A n \in Nodes : l.dec[n].action \in {"accept", "unchanged"} =>
       l.dec[n].manifest \in Manifests /\ l.dec[n].manifest.node = n
  /\ l.op \in RefreshOps /\ l.pc \in Critical =>
       /\ l.cur \in Nodes /\ l.dec[l.cur] # NoDecision
       /\ l.srcs # {} => l.cur \in l.srcs
  /\ l.op \in RefreshOps /\ l.pc \in {"remember", "persist", "admit"} =>
       l.man.node = l.cur

TaskOK(l) == l \in Task /\ OpOK(l) /\ LocalsOK(l) /\ RefreshOK(l)
TasksOK == \A t \in Tasks : TaskOK(task[t])

(* A task is between `async with' and its end exactly while it has the lock. *)
LockOK == \A t \in Tasks : task[t].pc \in Critical <=> lifecycle_lock = t

(* Manifests are filed under the node they speak for. *)
FiledOK ==
  \A n \in Nodes :
    /\ peer_manifests[n] # NoManifest => peer_manifests[n].node = n
    /\ manifest_store[n] # NoManifest => manifest_store[n].node = n

(* A task inside the lock that is about to write an ACTIVE record for an   *)
(* admitted manifest.                                                      *)
Recording(l) == l.op \in RecordOps /\ l.pc \in {"remember", "persist", "admit"}

(* What _record_peer read stays true while it has the lock. *)
RecordOK == \A t \in Tasks : Recording(task[t]) => ~Revoked(task[t].man.node)

SharedTypeOK ==
  /\ membership_table \in [Nodes -> MemberRecord]
  /\ manifest_store \in [Nodes -> MaybeManifest]
  /\ peer_manifests \in [Nodes -> MaybeManifest]
  /\ lifecycle_lock \in Tasks \cup {NoTask}
  /\ up \in BOOLEAN

IInv ==
  SharedTypeOK /\ task \in [Tasks -> Task] /\ TasksOK /\ LockOK /\ FiledOK /\ RecordOK

----------------------------------------------------------------------------
(* Facts about the operators *)

(* refresh_peer_manifest remembers a manifest exactly when it succeeds the *)
(* one the refresh began with: same identity, no older revision, and keys  *)
(* that are the same or vouched for, in whatever order the code asks.      *)
THEOREM RefreshFollowsSuccession ==
  ASSUME NEW old \in Manifests, NEW new \in Manifests,
         NEW rotation \in BOOLEAN, NEW evidence \in Evidence
  PROVE  LET d == ClassifyManifest(old, new, rotation, evidence)
         IN  /\ d.action \in {"accept", "unchanged"} <=> Succeeds(old, new, rotation, evidence)
             /\ d.action = "accept" => d.manifest = new /\ new.rev > old.rev
             /\ d.action = "unchanged" => d.manifest = new /\ new.rev = old.rev
<1>1. new.rev \in Nat /\ old.rev \in Nat
  BY ManifestsAssumption DEF ManifestType
<1>2. CheckKeyContinuity(old, new, rotation, evidence) \in {"accept", "reject", "quarantine"}
  BY DEF CheckKeyContinuity
<1>3. CheckKeyContinuity(old, new, rotation, evidence) = "accept" <=>
        /\ new.node = old.node
        /\ new.org = old.org
        /\ \/ new.keys = old.keys
           \/ rotation /\ (new.signer \in old.keys \/ evidence = "ok")
  BY DEF CheckKeyContinuity
<1>. QED BY <1>1, <1>2, <1>3 DEF ClassifyManifest, Succeeds

(* A decision that makes the facade remember a manifest is about the node, *)
(* the organisation and no older a revision than the refresh began with.   *)
LEMMA DecisionKeepsIdentity ==
  ASSUME NEW old \in Manifests, NEW rotation \in BOOLEAN,
         NEW d \in RefreshPeerManifest(old, rotation)
  PROVE  /\ d \in Decision
         /\ d.action \in {"accept", "unchanged"} =>
              /\ d.manifest \in Manifests
              /\ d.manifest.node = old.node
              /\ d.manifest.org = old.org
              /\ d.manifest.rev >= old.rev
<1>1. CASE d \in {ClassifyFailure(error) : error \in FetchErrors}
  BY <1>1 DEF ClassifyFailure, Decision, Actions, MaybeManifest
<1>2. CASE d \in {ClassifyManifest(old, new, rotation, evidence) :
                   new \in Manifests, evidence \in Evidence}
  <2>1. PICK new \in Manifests, evidence \in Evidence :
               d = ClassifyManifest(old, new, rotation, evidence)
    BY <1>2
  <2>2. new.rev \in Nat /\ old.rev \in Nat
    BY ManifestsAssumption DEF ManifestType
  <2>3. CheckKeyContinuity(old, new, rotation, evidence) \in {"accept", "reject", "quarantine"}
    BY DEF CheckKeyContinuity
  <2>4. CheckKeyContinuity(old, new, rotation, evidence) = "accept" =>
          new.node = old.node /\ new.org = old.org
    BY DEF CheckKeyContinuity
  <2>. QED BY <2>1, <2>2, <2>3, <2>4 DEF ClassifyManifest, Decision, Actions, MaybeManifest
<1>. QED BY <1>1, <1>2 DEF RefreshPeerManifest

(* A task that runs no operation has all its locals in order. *)
LEMMA IdleOK == TaskOK(Idle) /\ Idle.pc = "idle" /\ Idle.op = "none"
  BY DEF TaskOK, Idle, Task, Labels, MaybeManifest, MemberRecord, NoRecord, States, OpOK,
         LocalsOK, RefreshOK, NoDecision, Critical, RefreshOps, RecordOps

(* Where _record_peer returns to: the next manifest, or the end of the     *)
(* operation.                                                              *)
LEMMA AfterRecordOK ==
  ASSUME NEW l, TaskOK(l), l.op \in RecordOps, NEW m
  PROVE  TaskOK(AfterRecord(l, m)) /\ AfterRecord(l, m).pc \notin Critical
<1>1. CASE l.acc \ {m} = {}
  BY <1>1, IdleOK DEF AfterRecord, Critical
<1>2. CASE l.acc \ {m} # {}
  <2> DEFINE r == [l EXCEPT !.pc = "record", !.man = NoManifest, !.acc = @ \ {m}]
  <2>1. r \in Task /\ r.pc \notin Critical
    BY DEF TaskOK, Task, Labels, MaybeManifest, Critical
  <2>2. OpOK(r) /\ LocalsOK(r)
    BY DEF TaskOK, Task, OpOK, LocalsOK
  <2>3. RefreshOK(r)
    BY DEF TaskOK, Task, RefreshOK, Critical
  <2>. QED BY <1>2, <2>1, <2>2, <2>3 DEF AfterRecord, TaskOK
<1>. QED BY <1>1, <1>2

(* Where _apply_refresh_decision returns to: the scan of refresh_all, or   *)
(* the next decision.                                                      *)
LEMMA AfterApplyOK ==
  ASSUME NEW l, TaskOK(l), l.op \in RefreshOps, l.pc \in Critical
  PROVE  TaskOK(AfterApply(l)) /\ AfterApply(l).pc \notin Critical
<1>1. l.cur \in Nodes /\ (l.srcs # {} => l.cur \in l.srcs)
  BY DEF TaskOK, RefreshOK
<1> DEFINE l1 == [l EXCEPT !.man = NoManifest, !.rec = NoRecord, !.cur = NoNode]
<1>2. l1 \in Task /\ l1.op = l.op /\ l1.srcs = l.srcs /\ l1.base = l.base
        /\ l1.dec = l.dec /\ l1.cur = NoNode
  BY DEF TaskOK, Task, MaybeManifest, NoRecord, MemberRecord, States
<1>3. /\ \A n \in Nodes : l1.base[n] # NoManifest => l1.base[n].node = n
      /\ \A n \in Nodes : l1.dec[n].action \in {"accept", "unchanged"} =>
           l1.dec[n].manifest \in Manifests /\ l1.dec[n].manifest.node = n
  BY <1>2 DEF TaskOK, RefreshOK
<1>4. CASE l.cur \in l.srcs
  <2> DEFINE r == [l1 EXCEPT !.pc = "scan", !.srcs = @ \ {l.cur}]
  <2>. HIDE DEF l1
  <2>1. r \in Task /\ r.pc \notin Critical
    BY <1>2 DEF Task, Labels, Critical
  <2>2. OpOK(r) /\ LocalsOK(r)
    BY <1>2 DEF Task, OpOK, LocalsOK, RefreshOps
  <2>3. RefreshOK(r)
    BY <1>2, <1>3 DEF Task, RefreshOK, Critical
  <2>4. AfterApply(l) = r
    BY <1>4 DEF AfterApply, l1
  <2>. QED BY <2>1, <2>2, <2>3, <2>4 DEF TaskOK
<1>5. CASE l.cur \notin l.srcs
  <2> DEFINE r == [l1 EXCEPT !.pc = "apply", !.dec[l.cur] = NoDecision]
  <2>. HIDE DEF l1
  <2>1. r \in Task /\ r.pc \notin Critical
    BY <1>1, <1>2 DEF Task, Labels, Critical
  <2>2. OpOK(r) /\ LocalsOK(r)
    BY <1>1, <1>2, <1>5 DEF Task, OpOK, LocalsOK, RefreshOps
  <2>3. RefreshOK(r)
    BY <1>1, <1>2, <1>3 DEF Task, RefreshOK, Critical, NoDecision
  <2>4. AfterApply(l) = r
    BY <1>5 DEF AfterApply, l1
  <2>. QED BY <2>1, <2>2, <2>3, <2>4 DEF TaskOK
<1>. QED BY <1>4, <1>5

(* The other tasks stay where they are. *)
OthersStay(t) == \A u \in Tasks \ {t} : task'[u] = task[u]

(* A step of one task gives it new locals and leaves those of the others. *)
LEMMA Becoming ==
  ASSUME IInv, NEW t \in Tasks, NEW STATE l, Become(t, l)
  PROVE  task'[t] = l /\ OthersStay(t) /\ (l \in Task => task' \in [Tasks -> Task])
  BY DEF IInv, Become, OthersStay

(* One task moves: what the rest of the invariant asks of its new locals   *)
(* and of what it does to the shared state.                                *)
LEMMA Moves ==
  ASSUME IInv, NEW t \in Tasks, OthersStay(t),
         task' \in [Tasks -> Task], TaskOK(task'[t]),
         SharedTypeOK', FiledOK',
         task'[t].pc \in Critical <=> lifecycle_lock' = t,
         lifecycle_lock' = lifecycle_lock
           \/ {lifecycle_lock, lifecycle_lock'} \subseteq {t, NoTask},
         Recording(task'[t]) => membership_table'[task'[t].man.node].state # "revoked",
         \/ lifecycle_lock = t
         \/ \A n \in Nodes : membership_table'[n].state = "revoked" => Revoked(n)
  PROVE  IInv'
<1>1. TasksOK'
  BY DEF IInv, TasksOK, OthersStay
<1>2. LockOK'
  BY NodeAssumption DEF IInv, LockOK, OthersStay
<1>3. RecordOK'
  <2>. SUFFICES ASSUME NEW u \in Tasks \ {t}, Recording(task[u])
                PROVE  membership_table'[task[u].man.node].state # "revoked"
    BY DEF RecordOK, Revoked, OthersStay
  <2>1. lifecycle_lock = u
    BY DEF IInv, LockOK, Recording, Critical
  <2>2. task[u].man.node \in Nodes
    BY ManifestsAssumption DEF IInv, TasksOK, TaskOK, LocalsOK, Recording, ManifestType
  <2>. QED BY <2>1, <2>2 DEF IInv, RecordOK, Revoked
<1>. QED BY <1>1, <1>2, <1>3 DEF IInv

(* A step of one task that leaves the shared state alone and neither       *)
(* enters nor leaves the lock.                                             *)
LEMMA MovesAlone ==
  ASSUME IInv, NEW t \in Tasks, OthersStay(t),
         task' \in [Tasks -> Task], TaskOK(task'[t]), UNCHANGED shared,
         task[t].pc \notin Critical, task'[t].pc \notin Critical
  PROVE  IInv'
<1>1. SharedTypeOK' /\ FiledOK'
  BY DEF IInv, SharedTypeOK, FiledOK, shared
<1>2. lifecycle_lock' # t
  BY DEF IInv, LockOK, shared
<1>. QED BY <1>1, <1>2, Moves DEF shared, Revoked, Recording, Critical

(* A task takes the lock and has read what it needs; nothing else changes. *)
LEMMA MovesIn ==
  ASSUME IInv, NEW t \in Tasks, OthersStay(t),
         task' \in [Tasks -> Task], TaskOK(task'[t]), Acquire(t),
         UNCHANGED <<membership_table, manifest_store, peer_manifests, up>>,
         task'[t].pc \in Critical,
         Recording(task'[t]) => ~Revoked(task'[t].man.node)
  PROVE  IInv'
<1>1. SharedTypeOK' /\ FiledOK'
  BY DEF IInv, SharedTypeOK, FiledOK, Acquire
<1>. QED BY <1>1, Moves DEF Acquire, Revoked
(* Every action preserves it. *)

(* admit_peer starts with one manifest to record. *)
LEMMA AdmitPeerOK ==
  ASSUME IInv, NEW t \in Tasks, AdmitPeer(t)
  PROVE  IInv'
<1>1. TaskOK(task[t])
  BY DEF IInv, TasksOK
<1>2. PICK m \in Admissible :
       Begin(t, "admit_peer", "record", [Idle EXCEPT !.acc = {m}])
  BY DEF AdmitPeer
<1> DEFINE l == [[Idle EXCEPT !.acc = {m}] EXCEPT !.pc = "record", !.op = "admit_peer"]
<1>3. TaskOK(l)
  <2>1. {m} \subseteq Manifests
    BY NodeAssumption
  <2>2. l \in Task
    BY IdleOK, <1>1, <1>2, <2>1 DEF TaskOK, Task, Labels, Idle, AllOperations
  <2>3. OpOK(l)
    BY IdleOK, <1>1, <1>2, <2>1 DEF TaskOK, Task, OpOK, RecordOps, RefreshOps, AdmitPeer, At, Idle
  <2>4. LocalsOK(l)
    BY IdleOK, <1>1, <1>2, <2>1 DEF TaskOK, Task, LocalsOK, AdmitPeer, At, Idle
  <2>5. RefreshOK(l)
    BY IdleOK, <1>1, <1>2, <2>1 DEF TaskOK, Task, OpOK, RefreshOK, Critical, RefreshOps, RecordOps, AdmitPeer, At, Idle
  <2>. QED BY <2>2, <2>3, <2>4, <2>5 DEF TaskOK
<1>4. task'[t] = l /\ OthersStay(t) /\ task' \in [Tasks -> Task]
  BY <1>2, <1>3, Becoming DEF AdmitPeer, Begin, Goto, TaskOK
<1>5. task[t].pc \notin Critical /\ l.pc \notin Critical /\ UNCHANGED shared
  BY <1>1 DEF AdmitPeer, Calls, At, Critical, TaskOK, Task, Idle
<1>. QED BY <1>3, <1>4, <1>5, MovesAlone

(* bootstrap_from_seeds starts with the manifests of its accepted seeds. *)
LEMMA BootstrapFromSeedsOK ==
  ASSUME IInv, NEW t \in Tasks, BootstrapFromSeeds(t)
  PROVE  IInv'
<1>1. TaskOK(task[t])
  BY DEF IInv, TasksOK
<1>2. PICK S \in SUBSET Admissible :
       Begin(t, "bootstrap_from_seeds", "record", [Idle EXCEPT !.acc = S])
  BY DEF BootstrapFromSeeds
<1> DEFINE l == [[Idle EXCEPT !.acc = S] EXCEPT !.pc = "record", !.op = "bootstrap_from_seeds"]
<1>3. TaskOK(l)
  <2>1. S \subseteq Manifests
    BY NodeAssumption
  <2>2. l \in Task
    BY IdleOK, <1>1, <1>2, <2>1 DEF TaskOK, Task, Labels, Idle, AllOperations
  <2>3. OpOK(l)
    BY IdleOK, <1>1, <1>2, <2>1 DEF TaskOK, Task, OpOK, RecordOps, RefreshOps, BootstrapFromSeeds, At, Idle
  <2>4. LocalsOK(l)
    BY IdleOK, <1>1, <1>2, <2>1 DEF TaskOK, Task, LocalsOK, BootstrapFromSeeds, At, Idle
  <2>5. RefreshOK(l)
    BY IdleOK, <1>1, <1>2, <2>1 DEF TaskOK, Task, OpOK, RefreshOK, Critical, RefreshOps, RecordOps, BootstrapFromSeeds, At, Idle
  <2>. QED BY <2>2, <2>3, <2>4, <2>5 DEF TaskOK
<1>4. task'[t] = l /\ OthersStay(t) /\ task' \in [Tasks -> Task]
  BY <1>2, <1>3, Becoming DEF BootstrapFromSeeds, Begin, Goto, TaskOK
<1>5. task[t].pc \notin Critical /\ l.pc \notin Critical /\ UNCHANGED shared
  BY <1>1 DEF BootstrapFromSeeds, Calls, At, Critical, TaskOK, Task, Idle
<1>. QED BY <1>3, <1>4, <1>5, MovesAlone

(* discover starts with the eligible records as its sources. *)
LEMMA DiscoverOK ==
  ASSUME IInv, NEW t \in Tasks, Discover(t)
  PROVE  IInv'
<1>1. TaskOK(task[t])
  BY DEF IInv, TasksOK
<1> DEFINE l == [[Idle EXCEPT !.srcs = EligiblePeers] EXCEPT !.pc = "sweep", !.op = "discover"]
<1>3. TaskOK(l)
  <2>1. EligiblePeers \subseteq Nodes
    BY DEF EligiblePeers
  <2>2. l \in Task
    BY IdleOK, <1>1, <2>1 DEF TaskOK, Task, Labels, Idle, AllOperations
  <2>3. OpOK(l)
    BY IdleOK, <1>1, <2>1 DEF TaskOK, Task, OpOK, RecordOps, RefreshOps, Discover, At, Idle
  <2>4. LocalsOK(l)
    BY IdleOK, <1>1, <2>1 DEF TaskOK, Task, LocalsOK, Discover, At, Idle
  <2>5. RefreshOK(l)
    BY IdleOK, <1>1, <2>1 DEF TaskOK, Task, OpOK, RefreshOK, Critical, RefreshOps, RecordOps, Discover, At, Idle
  <2>. QED BY <2>2, <2>3, <2>4, <2>5 DEF TaskOK
<1>4. task'[t] = l /\ OthersStay(t) /\ task' \in [Tasks -> Task]
  BY <1>3, Becoming DEF Discover, Begin, Goto, TaskOK
<1>5. task[t].pc \notin Critical /\ l.pc \notin Critical /\ UNCHANGED shared
  BY <1>1 DEF Discover, Calls, At, Critical, TaskOK, Task, Idle
<1>. QED BY <1>3, <1>4, <1>5, MovesAlone

(* refresh_peer starts at the record it read. *)
LEMMA RefreshPeerOK ==
  ASSUME IInv, NEW t \in Tasks, RefreshPeer(t)
  PROVE  IInv'
<1>1. TaskOK(task[t])
  BY DEF IInv, TasksOK
<1>2. PICK n \in Nodes :
       Begin(t, "refresh_peer", "lookup", [Idle EXCEPT !.cur = n])
  BY DEF RefreshPeer
<1> DEFINE l == [[Idle EXCEPT !.cur = n] EXCEPT !.pc = "lookup", !.op = "refresh_peer"]
<1>3. TaskOK(l)
  <2>1. l \in Task
    BY IdleOK, <1>1, <1>2 DEF TaskOK, Task, Labels, Idle, AllOperations
  <2>2. OpOK(l)
    BY IdleOK, <1>1, <1>2 DEF TaskOK, Task, OpOK, RecordOps, RefreshOps, RefreshPeer, At, Idle
  <2>3. LocalsOK(l)
    BY IdleOK, <1>1, <1>2 DEF TaskOK, Task, LocalsOK, RefreshPeer, At, Idle
  <2>4. RefreshOK(l)
    BY IdleOK, <1>1, <1>2 DEF TaskOK, Task, OpOK, RefreshOK, Critical, RefreshOps, RecordOps, RefreshPeer, At, Idle
  <2>. QED BY <2>1, <2>2, <2>3, <2>4 DEF TaskOK
<1>4. task'[t] = l /\ OthersStay(t) /\ task' \in [Tasks -> Task]
  BY <1>2, <1>3, Becoming DEF RefreshPeer, Begin, Goto, TaskOK
<1>5. task[t].pc \notin Critical /\ l.pc \notin Critical /\ UNCHANGED shared
  BY <1>1 DEF RefreshPeer, Calls, At, Critical, TaskOK, Task, Idle
<1>. QED BY <1>3, <1>4, <1>5, MovesAlone

(* refresh_all starts with the eligible records. *)
LEMMA RefreshAllOK ==
  ASSUME IInv, NEW t \in Tasks, RefreshAll(t)
  PROVE  IInv'
<1>1. TaskOK(task[t])
  BY DEF IInv, TasksOK
<1> DEFINE l == [[Idle EXCEPT !.srcs = EligiblePeers] EXCEPT !.pc = "scan", !.op = "refresh_all"]
<1>3. TaskOK(l)
  <2>1. EligiblePeers \subseteq Nodes
    BY DEF EligiblePeers
  <2>2. l \in Task
    BY IdleOK, <1>1, <2>1 DEF TaskOK, Task, Labels, Idle, AllOperations
  <2>3. OpOK(l)
    BY IdleOK, <1>1, <2>1 DEF TaskOK, Task, OpOK, RecordOps, RefreshOps, RefreshAll, At, Idle
  <2>4. LocalsOK(l)
    BY IdleOK, <1>1, <2>1 DEF TaskOK, Task, LocalsOK, RefreshAll, At, Idle
  <2>5. RefreshOK(l)
    BY IdleOK, <1>1, <2>1 DEF TaskOK, Task, OpOK, RefreshOK, Critical, RefreshOps, RecordOps, RefreshAll, At, Idle
  <2>. QED BY <2>2, <2>3, <2>4, <2>5 DEF TaskOK
<1>4. task'[t] = l /\ OthersStay(t) /\ task' \in [Tasks -> Task]
  BY <1>3, Becoming DEF RefreshAll, Begin, Goto, TaskOK
<1>5. task[t].pc \notin Critical /\ l.pc \notin Critical /\ UNCHANGED shared
  BY <1>1 DEF RefreshAll, Calls, At, Critical, TaskOK, Task, Idle
<1>. QED BY <1>3, <1>4, <1>5, MovesAlone

(* apply_revocation_notice starts at the node the notice names. *)
LEMMA ApplyRevocationNoticeOK ==
  ASSUME IInv, NEW t \in Tasks, ApplyRevocationNotice(t)
  PROVE  IInv'
<1>1. TaskOK(task[t])
  BY DEF IInv, TasksOK
<1>2. PICK n \in Nodes :
       Begin(t, "apply_revocation_notice", "revoke", [Idle EXCEPT !.cur = n])
  BY DEF ApplyRevocationNotice
<1> DEFINE l == [[Idle EXCEPT !.cur = n] EXCEPT !.pc = "revoke", !.op = "apply_revocation_notice"]
<1>3. TaskOK(l)
  <2>1. l \in Task
    BY IdleOK, <1>1, <1>2 DEF TaskOK, Task, Labels, Idle, AllOperations
  <2>2. OpOK(l)
    BY IdleOK, <1>1, <1>2 DEF TaskOK, Task, OpOK, RecordOps, RefreshOps, ApplyRevocationNotice, At, Idle
  <2>3. LocalsOK(l)
    BY IdleOK, <1>1, <1>2 DEF TaskOK, Task, LocalsOK, ApplyRevocationNotice, At, Idle
  <2>4. RefreshOK(l)
    BY IdleOK, <1>1, <1>2 DEF TaskOK, Task, OpOK, RefreshOK, Critical, RefreshOps, RecordOps, ApplyRevocationNotice, At, Idle
  <2>. QED BY <2>1, <2>2, <2>3, <2>4 DEF TaskOK
<1>4. task'[t] = l /\ OthersStay(t) /\ task' \in [Tasks -> Task]
  BY <1>2, <1>3, Becoming DEF ApplyRevocationNotice, Begin, Goto, TaskOK
<1>5. task[t].pc \notin Critical /\ l.pc \notin Critical /\ UNCHANGED shared
  BY <1>1 DEF ApplyRevocationNotice, Calls, At, Critical, TaskOK, Task, Idle
<1>. QED BY <1>3, <1>4, <1>5, MovesAlone

(* _record_peer takes the lock only for a record that is not REVOKED. *)
LEMMA RecordPeerOK ==
  ASSUME IInv, NEW t \in Tasks, RecordPeer(t)
  PROVE  IInv'
<1>1. TaskOK(task[t])
  BY DEF IInv, TasksOK
<1>2. PICK m \in task[t].acc :
       /\ ~Revoked(m.node)
       /\ Become(t, [task[t] EXCEPT !.pc = "remember", !.man = m])
  BY DEF RecordPeer, Revoked
<1> DEFINE l == [task[t] EXCEPT !.pc = "remember", !.man = m]
<1>3. TaskOK(l)
  <2>1. m \in Manifests
    BY <1>1, <1>2 DEF TaskOK, Task
  <2>2. l \in Task
    BY <1>1, <1>2, <2>1 DEF TaskOK, Task, Labels, MaybeManifest
  <2>3. OpOK(l)
    BY <1>1, <1>2, <2>1 DEF TaskOK, Task, OpOK, RecordOps, RefreshOps, RecordPeer, At
  <2>4. LocalsOK(l)
    BY <1>1, <1>2, <2>1 DEF TaskOK, Task, LocalsOK, RecordPeer, At
  <2>5. RefreshOK(l)
    BY <1>1, <1>2, <2>1 DEF TaskOK, Task, OpOK, RefreshOK, Critical, RefreshOps, RecordOps, RecordPeer, At
  <2>. QED BY <2>2, <2>3, <2>4, <2>5 DEF TaskOK
<1>4. task'[t] = l /\ OthersStay(t) /\ task' \in [Tasks -> Task]
  BY <1>2, <1>3, Becoming DEF RecordPeer, Begin, Goto, TaskOK
<1>5. l.pc \in Critical /\ Acquire(t) /\ UNCHANGED <<membership_table, manifest_store, peer_manifests, up>>
  BY <1>1, <1>2 DEF RecordPeer, At, Critical, TaskOK, Task
<1>6. Recording(l) => ~Revoked(l.man.node)
  BY <1>1, <1>2 DEF Recording, Revoked, RecordPeer, At, TaskOK, Task, OpOK, RecordOps, RefreshOps
<1>. QED BY <1>3, <1>4, <1>5, <1>6, MovesIn

(* The discovery turns to the references of its next source. *)
LEMMA DiscoverSourceOK ==
  ASSUME IInv, NEW t \in Tasks, DiscoverSource(t)
  PROVE  IInv'
<1>1. TaskOK(task[t])
  BY DEF IInv, TasksOK
<1>2. PICK s \in task[t].srcs, R \in SUBSET Nodes :
       Become(t, [task[t] EXCEPT !.srcs = @ \ {s}, !.refs = R])
  BY DEF DiscoverSource
<1> DEFINE l == [task[t] EXCEPT !.srcs = @ \ {s}, !.refs = R]
<1>3. TaskOK(l)
  <2>1. l \in Task
    BY <1>1, <1>2 DEF TaskOK, Task, Labels
  <2>2. OpOK(l)
    BY <1>1, <1>2 DEF TaskOK, Task, OpOK, RecordOps, RefreshOps, DiscoverSource, At
  <2>3. LocalsOK(l)
    BY <1>1, <1>2 DEF TaskOK, Task, LocalsOK, DiscoverSource, At
  <2>4. RefreshOK(l)
    BY <1>1, <1>2 DEF TaskOK, Task, OpOK, RefreshOK, Critical, RefreshOps, RecordOps, DiscoverSource, At
  <2>. QED BY <2>1, <2>2, <2>3, <2>4 DEF TaskOK
<1>4. task'[t] = l /\ OthersStay(t) /\ task' \in [Tasks -> Task]
  BY <1>2, <1>3, Becoming DEF DiscoverSource, Begin, Goto, TaskOK
<1>5. task[t].pc \notin Critical /\ l.pc \notin Critical /\ UNCHANGED shared
  BY <1>1 DEF DiscoverSource, At, Critical, TaskOK, Task
<1>. QED BY <1>3, <1>4, <1>5, MovesAlone

(* The discovery skips a reference. *)
LEMMA DiscoverSkipOK ==
  ASSUME IInv, NEW t \in Tasks, DiscoverSkip(t)
  PROVE  IInv'
<1>1. TaskOK(task[t])
  BY DEF IInv, TasksOK
<1>2. PICK n \in task[t].refs : Become(t, [task[t] EXCEPT !.refs = @ \ {n}])
  BY DEF DiscoverSkip
<1> DEFINE l == [task[t] EXCEPT !.refs = @ \ {n}]
<1>3. TaskOK(l)
  <2>1. l \in Task
    BY <1>1, <1>2 DEF TaskOK, Task, Labels
  <2>2. OpOK(l)
    BY <1>1, <1>2 DEF TaskOK, Task, OpOK, RecordOps, RefreshOps, DiscoverSkip, At
  <2>3. LocalsOK(l)
    BY <1>1, <1>2 DEF TaskOK, Task, LocalsOK, DiscoverSkip, At
  <2>4. RefreshOK(l)
    BY <1>1, <1>2 DEF TaskOK, Task, OpOK, RefreshOK, Critical, RefreshOps, RecordOps, DiscoverSkip, At
  <2>. QED BY <2>1, <2>2, <2>3, <2>4 DEF TaskOK
<1>4. task'[t] = l /\ OthersStay(t) /\ task' \in [Tasks -> Task]
  BY <1>2, <1>3, Becoming DEF DiscoverSkip, Begin, Goto, TaskOK
<1>5. task[t].pc \notin Critical /\ l.pc \notin Critical /\ UNCHANGED shared
  BY <1>1 DEF DiscoverSkip, At, Critical, TaskOK, Task
<1>. QED BY <1>3, <1>4, <1>5, MovesAlone

(* The discovery takes up a reference. *)
LEMMA DiscoverRefOK ==
  ASSUME IInv, NEW t \in Tasks, DiscoverRef(t)
  PROVE  IInv'
<1>1. TaskOK(task[t])
  BY DEF IInv, TasksOK
<1>2. PICK n \in task[t].refs :
       Become(t, [task[t] EXCEPT !.pc = "fetch", !.cur = n,
                                 !.refs = @ \ {n}, !.seen = @ \cup {n}])
  BY DEF DiscoverRef
<1> DEFINE l == [task[t] EXCEPT !.pc = "fetch", !.cur = n,
                             !.refs = @ \ {n}, !.seen = @ \cup {n}]
<1>3. TaskOK(l)
  <2>1. n \in Nodes
    BY <1>1, <1>2 DEF TaskOK, Task
  <2>2. l \in Task
    BY <1>1, <1>2, <2>1 DEF TaskOK, Task, Labels
  <2>3. OpOK(l)
    BY <1>1, <1>2, <2>1 DEF TaskOK, Task, OpOK, RecordOps, RefreshOps, DiscoverRef, At
  <2>4. LocalsOK(l)
    BY <1>1, <1>2, <2>1 DEF TaskOK, Task, LocalsOK, DiscoverRef, At
  <2>5. RefreshOK(l)
    BY <1>1, <1>2, <2>1 DEF TaskOK, Task, OpOK, RefreshOK, Critical, RefreshOps, RecordOps, DiscoverRef, At
  <2>. QED BY <2>2, <2>3, <2>4, <2>5 DEF TaskOK
<1>4. task'[t] = l /\ OthersStay(t) /\ task' \in [Tasks -> Task]
  BY <1>2, <1>3, Becoming DEF DiscoverRef, Begin, Goto, TaskOK
<1>5. task[t].pc \notin Critical /\ l.pc \notin Critical /\ UNCHANGED shared
  BY <1>1 DEF DiscoverRef, At, Critical, TaskOK, Task
<1>. QED BY <1>3, <1>4, <1>5, MovesAlone

(* _process_ref gives a reference up. *)
LEMMA DiscoverDropOK ==
  ASSUME IInv, NEW t \in Tasks, DiscoverDrop(t)
  PROVE  IInv'
<1>1. TaskOK(task[t])
  BY DEF IInv, TasksOK
<1> DEFINE l == [task[t] EXCEPT !.pc = "sweep", !.cur = NoNode]
<1>3. TaskOK(l)
  <2>1. l \in Task
    BY <1>1 DEF TaskOK, Task, Labels
  <2>2. OpOK(l)
    BY <1>1 DEF TaskOK, Task, OpOK, RecordOps, RefreshOps, DiscoverDrop, At
  <2>3. LocalsOK(l)
    BY <1>1 DEF TaskOK, Task, LocalsOK, DiscoverDrop, At
  <2>4. RefreshOK(l)
    BY <1>1 DEF TaskOK, Task, OpOK, RefreshOK, Critical, RefreshOps, RecordOps, DiscoverDrop, At
  <2>. QED BY <2>1, <2>2, <2>3, <2>4 DEF TaskOK
<1>4. task'[t] = l /\ OthersStay(t) /\ task' \in [Tasks -> Task]
  BY <1>3, Becoming DEF DiscoverDrop, Begin, Goto, TaskOK
<1>5. task[t].pc \notin Critical /\ l.pc \notin Critical /\ UNCHANGED shared
  BY <1>1 DEF DiscoverDrop, At, Critical, TaskOK, Task
<1>. QED BY <1>3, <1>4, <1>5, MovesAlone

(* refresh_all meets an eligible peer without a manifest. *)
LEMMA RefreshAllOrphanOK ==
  ASSUME IInv, NEW t \in Tasks, RefreshAllOrphan(t)
  PROVE  IInv'
<1>1. TaskOK(task[t])
  BY DEF IInv, TasksOK
<1>2. PICK n \in task[t].srcs, P \in SUBSET (task[t].srcs) :
       /\ n \notin P
       /\ Become(t, [task[t] EXCEPT !.pc = "apply", !.cur = n, !.srcs = @ \ P,
                                    !.base = Targets(task[t], P),
                                    !.dec[n] = [action |-> "reject", manifest |-> NoManifest]])
  BY DEF RefreshAllOrphan
<1> DEFINE d == [action |-> "reject", manifest |-> NoManifest]
           b == Targets(task[t], P)
           l == [task[t] EXCEPT !.pc = "apply", !.cur = n, !.srcs = @ \ P,
                             !.base = b, !.dec[n] = d]
<1>3. TaskOK(l)
  <2>1. n \in Nodes /\ P \subseteq Nodes
    BY <1>1, <1>2 DEF TaskOK, Task
  <2>2. b \in [Nodes -> MaybeManifest] /\ \A x \in Nodes : b[x] # NoManifest => b[x].node = x
    BY <1>1, <2>1 DEF IInv, SharedTypeOK, FiledOK, Targets, TaskOK, Task, RefreshOK
  <2>3. d \in Decision /\ d # NoDecision /\ d.action \notin {"accept", "unchanged"}
    BY DEF Decision, Actions, MaybeManifest, NoDecision
  <2>. HIDE DEF b, d
  <2>4. l \in Task
    BY <1>1, <1>2, <2>1, <2>2, <2>3 DEF TaskOK, Task, Labels
  <2>5. OpOK(l)
    BY <1>1, <1>2, <2>1, <2>2, <2>3 DEF TaskOK, Task, OpOK, RecordOps, RefreshOps, RefreshAllOrphan, At
  <2>6. LocalsOK(l)
    BY <1>1, <1>2, <2>1, <2>2, <2>3 DEF TaskOK, Task, LocalsOK, RefreshAllOrphan, At
  <2>7. RefreshOK(l)
    BY <1>1, <1>2, <2>1, <2>2, <2>3 DEF TaskOK, Task, OpOK, RefreshOK, Critical, RefreshOps, RecordOps, RefreshAllOrphan, At
  <2>. QED BY <2>4, <2>5, <2>6, <2>7 DEF TaskOK
<1>4. task'[t] = l /\ OthersStay(t) /\ task' \in [Tasks -> Task]
  BY <1>2, <1>3, Becoming DEF RefreshAllOrphan, Begin, Goto, TaskOK
<1>5. task[t].pc \notin Critical /\ l.pc \notin Critical /\ UNCHANGED shared
  BY <1>1 DEF RefreshAllOrphan, At, Critical, TaskOK, Task
<1>. QED BY <1>3, <1>4, <1>5, MovesAlone

(* refresh_all has collected its targets; each is filed under its node. *)
LEMMA RefreshAllTargetsOK ==
  ASSUME IInv, NEW t \in Tasks, RefreshAllTargets(t)
  PROVE  IInv'
<1>1. TaskOK(task[t])
  BY DEF IInv, TasksOK
<1> DEFINE b == Targets(task[t], task[t].srcs)
           l == [task[t] EXCEPT !.pc = "fetching", !.srcs = {}, !.base = b]
<1>3. TaskOK(l)
  <2>1. task[t].srcs \subseteq Nodes
    BY <1>1 DEF TaskOK, Task
  <2>2. b \in [Nodes -> MaybeManifest] /\ \A x \in Nodes : b[x] # NoManifest => b[x].node = x
    BY <1>1, <2>1 DEF IInv, SharedTypeOK, FiledOK, Targets, TaskOK, Task, RefreshOK
  <2>. HIDE DEF b
  <2>3. l \in Task
    BY <1>1, <2>1, <2>2 DEF TaskOK, Task, Labels
  <2>4. OpOK(l)
    BY <1>1, <2>1, <2>2 DEF TaskOK, Task, OpOK, RecordOps, RefreshOps, RefreshAllTargets, At
  <2>5. LocalsOK(l)
    BY <1>1, <2>1, <2>2 DEF TaskOK, Task, LocalsOK, RefreshAllTargets, At
  <2>6. RefreshOK(l)
    BY <1>1, <2>1, <2>2 DEF TaskOK, Task, OpOK, RefreshOK, Critical, RefreshOps, RecordOps, RefreshAllTargets, At
  <2>. QED BY <2>3, <2>4, <2>5, <2>6 DEF TaskOK
<1>4. task'[t] = l /\ OthersStay(t) /\ task' \in [Tasks -> Task]
  BY <1>3, Becoming DEF RefreshAllTargets, Begin, Goto, TaskOK
<1>5. task[t].pc \notin Critical /\ l.pc \notin Critical /\ UNCHANGED shared
  BY <1>1 DEF RefreshAllTargets, At, Critical, TaskOK, Task
<1>. QED BY <1>3, <1>4, <1>5, MovesAlone

(* apply_revocation_notice takes the lock and reads the record. *)
LEMMA RevocationTrustedOK ==
  ASSUME IInv, NEW t \in Tasks, RevocationTrusted(t)
  PROVE  IInv'
<1>1. TaskOK(task[t])
  BY DEF IInv, TasksOK
<1> DEFINE l == [task[t] EXCEPT !.pc = "mark_revoked", !.rec = membership_table[task[t].cur]]
<1>3. TaskOK(l)
  <2>1. task[t].cur \in Nodes
    BY <1>1 DEF TaskOK, LocalsOK, RevocationTrusted, At
  <2>2. membership_table[task[t].cur] \in MemberRecord
    BY <2>1 DEF IInv, SharedTypeOK
  <2>3. l \in Task
    BY <1>1, <2>1, <2>2 DEF TaskOK, Task, Labels
  <2>4. OpOK(l)
    BY <1>1, <2>1, <2>2 DEF TaskOK, Task, OpOK, RecordOps, RefreshOps, RevocationTrusted, At
  <2>5. LocalsOK(l)
    BY <1>1, <2>1, <2>2 DEF TaskOK, Task, LocalsOK, RevocationTrusted, At
  <2>6. RefreshOK(l)
    BY <1>1, <2>1, <2>2 DEF TaskOK, Task, OpOK, RefreshOK, Critical, RefreshOps, RecordOps, RevocationTrusted, At
  <2>. QED BY <2>3, <2>4, <2>5, <2>6 DEF TaskOK
<1>4. task'[t] = l /\ OthersStay(t) /\ task' \in [Tasks -> Task]
  BY <1>3, Becoming DEF RevocationTrusted, Begin, Goto, TaskOK
<1>5. l.pc \in Critical /\ Acquire(t) /\ UNCHANGED <<membership_table, manifest_store, peer_manifests, up>>
  BY <1>1 DEF RevocationTrusted, At, Critical, TaskOK, Task
<1>6. Recording(l) => ~Revoked(l.man.node)
  BY <1>1 DEF Recording, Revoked, RevocationTrusted, At, TaskOK, Task, OpOK, RecordOps, RefreshOps
<1>. QED BY <1>3, <1>4, <1>5, <1>6, MovesIn

(* apply_revocation_notice takes the lock to evict once more. *)
LEMMA RevocationRepeatedOK ==
  ASSUME IInv, NEW t \in Tasks, RevocationRepeated(t)
  PROVE  IInv'
<1>1. TaskOK(task[t])
  BY DEF IInv, TasksOK
<1> DEFINE l == [task[t] EXCEPT !.pc = "forget"]
<1>3. TaskOK(l)
  <2>1. l \in Task
    BY <1>1 DEF TaskOK, Task, Labels
  <2>2. OpOK(l)
    BY <1>1 DEF TaskOK, Task, OpOK, RecordOps, RefreshOps, RevocationRepeated, At
  <2>3. LocalsOK(l)
    BY <1>1 DEF TaskOK, Task, LocalsOK, RevocationRepeated, At
  <2>4. RefreshOK(l)
    BY <1>1 DEF TaskOK, Task, OpOK, RefreshOK, Critical, RefreshOps, RecordOps, RevocationRepeated, At
  <2>. QED BY <2>1, <2>2, <2>3, <2>4 DEF TaskOK
<1>4. task'[t] = l /\ OthersStay(t) /\ task' \in [Tasks -> Task]
  BY <1>3, Becoming DEF RevocationRepeated, Begin, Goto, TaskOK
<1>5. l.pc \in Critical /\ Acquire(t) /\ UNCHANGED <<membership_table, manifest_store, peer_manifests, up>>
  BY <1>1 DEF RevocationRepeated, At, Critical, TaskOK, Task
<1>6. Recording(l) => ~Revoked(l.man.node)
  BY <1>1 DEF Recording, Revoked, RevocationRepeated, At, TaskOK, Task, OpOK, RecordOps, RefreshOps
<1>. QED BY <1>3, <1>4, <1>5, <1>6, MovesIn

(* Steps that end an operation outside the lock. *)
LEMMA ReturnOK ==
  ASSUME IInv, NEW t \in Tasks, Become(t, Idle), UNCHANGED shared,
         task[t].pc \notin Critical
  PROVE  IInv'
<1>1. task'[t] = Idle /\ OthersStay(t) /\ task' \in [Tasks -> Task]
  BY IdleOK, Becoming DEF TaskOK
<1>. QED BY <1>1, IdleOK, MovesAlone DEF Critical

(* _record_peer returns early for a REVOKED record. *)
LEMMA RecordPeerRevokedOK ==
  ASSUME IInv, NEW t \in Tasks, RecordPeerRevoked(t)
  PROVE  IInv'
<1>1. TaskOK(task[t]) /\ task[t].pc = "record" /\ task[t].op \in RecordOps
  BY DEF IInv, TasksOK, TaskOK, OpOK, RecordPeerRevoked, At
<1>2. PICK m \in task[t].acc : Become(t, AfterRecord(task[t], m))
  BY DEF RecordPeerRevoked
<1>3. TaskOK(AfterRecord(task[t], m)) /\ AfterRecord(task[t], m).pc \notin Critical
  BY <1>1, AfterRecordOK
<1>4. task'[t] = AfterRecord(task[t], m) /\ OthersStay(t) /\ task' \in [Tasks -> Task]
  BY <1>2, <1>3, Becoming DEF TaskOK
<1>. QED BY <1>1, <1>3, <1>4, MovesAlone DEF RecordPeerRevoked, Critical

(* refresh_peer keeps the cached manifest it starts from, filed under the  *)
(* node.                                                                   *)
LEMMA RefreshPeerLookupOK ==
  ASSUME IInv, NEW t \in Tasks, RefreshPeerLookup(t)
  PROVE  IInv'
<1> DEFINE n == task[t].cur
           m == peer_manifests[n]
           l == [task[t] EXCEPT !.pc = "fetching", !.cur = NoNode, !.base[n] = m]
<1>1. TaskOK(task[t]) /\ task[t].pc = "lookup" /\ n \in Nodes /\ task[t].pc \notin Critical
  BY DEF IInv, TasksOK, TaskOK, LocalsOK, RefreshPeerLookup, At, Critical
<1>2. CASE m = NoManifest
  BY <1>1, <1>2, ReturnOK DEF RefreshPeerLookup
<1>3. CASE m # NoManifest
  <2>1. m \in MaybeManifest /\ m.node = n
    BY <1>1, <1>3 DEF IInv, SharedTypeOK, FiledOK
  <2>. HIDE DEF m, n
  <2>2. l \in Task
    BY <1>1, <2>1 DEF TaskOK, Task, Labels
  <2>3. OpOK(l) /\ LocalsOK(l)
    BY <1>1 DEF TaskOK, Task, OpOK, LocalsOK
  <2>4. RefreshOK(l)
    BY <1>1, <2>1 DEF TaskOK, Task, RefreshOK, Critical
  <2>5. TaskOK(l) /\ l.pc \notin Critical
    BY <1>1, <2>2, <2>3, <2>4 DEF TaskOK, Task, Critical
  <2>6. task'[t] = l /\ OthersStay(t) /\ task' \in [Tasks -> Task]
    BY <1>3, <2>2, Becoming DEF RefreshPeerLookup, m, n
  <2>. QED BY <1>1, <2>5, <2>6, MovesAlone DEF RefreshPeerLookup
<1>. QED BY <1>2, <1>3

(* The decisions of a refresh are about the nodes they are filed under. *)
LEMMA RefreshDecidedOK ==
  ASSUME IInv, NEW t \in Tasks, RefreshDecided(t)
  PROVE  IInv'
<1> DEFINE targets == {n \in Nodes : task[t].base[n] # NoManifest}
<1>1. TaskOK(task[t]) /\ task[t].pc = "fetching"
  BY DEF IInv, TasksOK, RefreshDecided, At
<1>2. PICK rotation \in Rotations, d \in [targets -> Decision] :
       /\ \A n \in targets : d[n] \in RefreshPeerManifest(task[t].base[n], rotation)
       /\ Become(t, [task[t] EXCEPT !.pc = "apply", !.base = Idle.base,
                                    !.dec = [n \in Nodes |-> IF n \in targets THEN d[n]
                                                             ELSE task[t].dec[n]]])
  BY DEF RefreshDecided
<1> DEFINE D == [n \in Nodes |-> IF n \in targets THEN d[n] ELSE task[t].dec[n]]
           l == [task[t] EXCEPT !.pc = "apply", !.base = Idle.base, !.dec = D]
<1>3. D \in [Nodes -> Decision \cup {NoDecision}]
  BY <1>1 DEF TaskOK, Task
<1>4. \A n \in Nodes : D[n].action \in {"accept", "unchanged"} =>
        D[n].manifest \in Manifests /\ D[n].manifest.node = n
  <2>1. TAKE n \in Nodes
  <2>2. CASE n \in targets
    <3>1. task[t].base[n] \in Manifests /\ task[t].base[n].node = n
      BY <1>1, <2>2 DEF TaskOK, Task, MaybeManifest, RefreshOK
    <3>2. rotation \in BOOLEAN /\ d[n] \in RefreshPeerManifest(task[t].base[n], rotation)
      BY <1>2, <2>2, NodeAssumption
    <3>3. D[n] = d[n]
      BY <2>2
    <3>. HIDE DEF D
    <3>. QED BY <3>1, <3>2, <3>3, DecisionKeepsIdentity
  <2>3. CASE n \notin targets
    BY <1>1, <2>3 DEF TaskOK, RefreshOK
  <2>. QED BY <2>2, <2>3
<1>5. TaskOK(l) /\ l.pc \notin Critical
  <2>1. Idle.base = [n \in Nodes |-> NoManifest]
    BY DEF Idle
  <2>. HIDE DEF D, targets
  <2>2. l \in Task /\ l.pc \notin Critical
    BY <1>1, <1>3, <2>1 DEF TaskOK, Task, Labels, MaybeManifest, Critical
  <2>3. l.srcs = {} 
    BY <1>1 DEF TaskOK, Task, LocalsOK
  <2>4. OpOK(l) /\ LocalsOK(l)
    BY <1>1, <2>3 DEF TaskOK, Task, OpOK, LocalsOK
  <2>5. RefreshOK(l)
    BY <1>1, <1>4, <2>1 DEF TaskOK, Task, RefreshOK, Critical
  <2>. QED BY <2>2, <2>4, <2>5 DEF TaskOK
<1>6. task'[t] = l /\ OthersStay(t) /\ task' \in [Tasks -> Task]
  BY <1>2, <1>5, Becoming DEF TaskOK
<1>. QED BY <1>1, <1>5, <1>6, MovesAlone DEF RefreshDecided, Critical

(* _apply_refresh_decision takes the lock with the decision it applies. *)
LEMMA ApplyRefreshDecisionOK ==
  ASSUME IInv, NEW t \in Tasks, ApplyRefreshDecision(t)
  PROVE  IInv'
<1>1. TaskOK(task[t]) /\ task[t].pc = "apply" /\ task[t].op \in RefreshOps
  BY DEF IInv, TasksOK, TaskOK, OpOK, ApplyRefreshDecision, At
<1>2. PICK n \in Undone(task[t]) :
        Become(t, [task[t] EXCEPT !.cur = n, !.rec = membership_table[n],
                                  !.man = task[t].dec[n].manifest,
                                  !.pc = IF task[t].dec[n].action \in {"accept", "unchanged"}
                                         THEN "remember" ELSE task[t].dec[n].action])
  BY DEF ApplyRefreshDecision
<1> DEFINE d == task[t].dec[n]
           c == IF d.action \in {"accept", "unchanged"} THEN "remember" ELSE d.action
           r == membership_table[n]
           l == [task[t] EXCEPT !.cur = n, !.rec = r, !.man = d.manifest, !.pc = c]
<1>3. /\ n \in Nodes /\ d # NoDecision
      /\ task[t].srcs # {} => n \in task[t].srcs
  BY <1>1, <1>2 DEF Undone, TaskOK, Task, LocalsOK
<1>4. /\ d \in Decision
      /\ d.action \in {"accept", "unchanged"} => d.manifest \in Manifests /\ d.manifest.node = n
  BY <1>1, <1>3 DEF TaskOK, Task, RefreshOK
<1>5. /\ c \in {"remember", "quarantine", "reject"}
      /\ c = "remember" => d.manifest \in Manifests /\ d.manifest.node = n
      /\ d.manifest \in MaybeManifest
  BY <1>4 DEF Decision, Actions
<1>6. r \in MemberRecord
  BY <1>3 DEF IInv, SharedTypeOK
<1>7. TaskOK(l) /\ l.pc \in Critical /\ l.op \in RefreshOps
  <2>1. task[t].dec[n] = d
    OBVIOUS
  <2>. HIDE DEF d, c, r
  <2>2. l \in Task /\ l.pc \in Critical /\ l.op \in RefreshOps
    BY <1>1, <1>3, <1>5, <1>6 DEF TaskOK, Task, Labels, Critical
  <2>3. OpOK(l) /\ LocalsOK(l)
    BY <1>1, <1>3, <1>5 DEF TaskOK, Task, OpOK, LocalsOK
  <2>4. RefreshOK(l)
    BY <1>1, <1>3, <1>5, <2>1 DEF TaskOK, Task, RefreshOK, Critical
  <2>. QED BY <2>2, <2>3, <2>4 DEF TaskOK
<1>8. task'[t] = l /\ OthersStay(t) /\ task' \in [Tasks -> Task]
  BY <1>2, <1>7, Becoming DEF TaskOK
<1>9. ~Recording(l)
  BY <1>7 DEF Recording, RecordOps, RefreshOps
<1>. QED BY <1>7, <1>8, <1>9, MovesIn DEF ApplyRefreshDecision

(* _remember_manifest files the manifest in the cache under its node. *)
LEMMA RememberOK ==
  ASSUME IInv, NEW t \in Tasks, Remember(t)
  PROVE  IInv'
<1> DEFINE m == task[t].man
           l == [task[t] EXCEPT !.pc = "persist"]
<1>1. TaskOK(task[t]) /\ task[t].pc = "remember"
  BY DEF IInv, TasksOK, Remember, At
<1>2. m \in Manifests /\ m.node \in Nodes /\ lifecycle_lock = t
  BY <1>1, ManifestsAssumption DEF TaskOK, LocalsOK, ManifestType, IInv, LockOK, Critical
<1>3. TaskOK(l)
  <2>1. l \in Task
    BY <1>1 DEF TaskOK, Task, Labels
  <2>2. OpOK(l) /\ LocalsOK(l)
    BY <1>1 DEF TaskOK, Task, OpOK, LocalsOK, RecordOps, RefreshOps
  <2>3. RefreshOK(l)
    BY <1>1 DEF TaskOK, Task, OpOK, RefreshOK, Critical, RecordOps, RefreshOps
  <2>. QED BY <2>1, <2>2, <2>3 DEF TaskOK
<1>4. task'[t] = l /\ OthersStay(t) /\ task' \in [Tasks -> Task]
  BY <1>3, Becoming DEF Remember, Goto, TaskOK
<1>5. SharedTypeOK'
  BY <1>2 DEF IInv, SharedTypeOK, MaybeManifest, Remember
<1>6. FiledOK'
  BY <1>2 DEF IInv, SharedTypeOK, FiledOK, Remember
<1>7. Recording(l) => membership_table'[l.man.node].state # "revoked"
  BY <1>1 DEF IInv, RecordOK, Recording, Revoked, Remember, TaskOK, Task
<1>8. l.pc \in Critical /\ lifecycle_lock' = lifecycle_lock
  BY <1>1 DEF TaskOK, Task, Critical, Remember
<1>. QED BY <1>2, <1>3, <1>4, <1>5, <1>6, <1>7, <1>8, Moves

(* _remember_manifest files the manifest in the store under its node. *)
LEMMA PersistOK ==
  ASSUME IInv, NEW t \in Tasks, Persist(t)
  PROVE  IInv'
<1> DEFINE m == task[t].man
           l == [task[t] EXCEPT !.pc = "admit"]
<1>1. TaskOK(task[t]) /\ task[t].pc = "persist" /\ task[t].op # "discover"
  BY DEF IInv, TasksOK, Persist, At
<1>2. m \in Manifests /\ m.node \in Nodes /\ lifecycle_lock = t
  BY <1>1, ManifestsAssumption DEF TaskOK, LocalsOK, ManifestType, IInv, LockOK, Critical
<1>3. TaskOK(l)
  <2>1. l \in Task
    BY <1>1 DEF TaskOK, Task, Labels
  <2>2. OpOK(l) /\ LocalsOK(l)
    BY <1>1 DEF TaskOK, Task, OpOK, LocalsOK, RecordOps, RefreshOps
  <2>3. RefreshOK(l)
    BY <1>1 DEF TaskOK, Task, OpOK, RefreshOK, Critical, RecordOps, RefreshOps
  <2>. QED BY <2>1, <2>2, <2>3 DEF TaskOK
<1>4. task'[t] = l /\ OthersStay(t) /\ task' \in [Tasks -> Task]
  BY <1>3, Becoming DEF Persist, Goto, TaskOK
<1>5. SharedTypeOK'
  BY <1>2 DEF IInv, SharedTypeOK, MaybeManifest, Persist
<1>6. FiledOK'
  BY <1>2 DEF IInv, SharedTypeOK, FiledOK, Persist
<1>7. Recording(l) => membership_table'[l.man.node].state # "revoked"
  BY <1>1 DEF IInv, RecordOK, Recording, Revoked, Persist, TaskOK, Task
<1>8. l.pc \in Critical /\ lifecycle_lock' = lifecycle_lock
  BY <1>1 DEF TaskOK, Task, Critical, Persist
<1>. QED BY <1>2, <1>3, <1>4, <1>5, <1>6, <1>7, <1>8, Moves

(* _record_peer writes the record and leaves the lock. *)
LEMMA RecordUpsertOK ==
  ASSUME IInv, NEW t \in Tasks, RecordUpsert(t)
  PROVE  IInv'
<1> DEFINE m == task[t].man
           l == AfterRecord(task[t], m)
<1>1. TaskOK(task[t]) /\ task[t].pc = "admit" /\ task[t].op \in RecordOps
  BY DEF IInv, TasksOK, RecordUpsert, At, RecordOps
<1>2. m \in Manifests /\ m.node \in Nodes /\ m.rev \in Nat /\ lifecycle_lock = t
  BY <1>1, ManifestsAssumption DEF TaskOK, LocalsOK, ManifestType, IInv, LockOK, Critical
<1>3. TaskOK(l) /\ l.pc \notin Critical
  BY <1>1, AfterRecordOK
<1>4. task'[t] = l /\ OthersStay(t) /\ task' \in [Tasks -> Task]
  BY <1>3, Becoming DEF RecordUpsert, TaskOK
<1>5. SharedTypeOK'
  BY <1>2 DEF IInv, SharedTypeOK, RecordUpsert, Upsert, Admitted, MemberRecord, States, Release
<1>6. FiledOK'
  BY DEF IInv, FiledOK, RecordUpsert
<1>7. ~Recording(l) /\ lifecycle_lock' = NoTask
  BY <1>3 DEF Recording, Critical, RecordUpsert, Release
<1>. QED BY <1>2, <1>3, <1>4, <1>5, <1>6, <1>7, NodeAssumption, Moves

(* _process_ref writes a record without the lock; a task that is recording *)
(* is not disturbed.                                                       *)
LEMMA DiscoverAdmitOK ==
  ASSUME IInv, NEW t \in Tasks, DiscoverAdmit(t)
  PROVE  IInv'
<1>1. TaskOK(task[t]) /\ task[t].pc = "fetch" /\ lifecycle_lock # t
  BY DEF IInv, TasksOK, LockOK, DiscoverAdmit, At, Critical
<1>2. PICK m \in Admissible :
        /\ Upsert(m.node, Admitted(m))
        /\ Become(t, [task[t] EXCEPT !.pc = "sweep", !.cur = NoNode, !.acc = @ \cup {m}])
  BY DEF DiscoverAdmit
<1> DEFINE l == [task[t] EXCEPT !.pc = "sweep", !.cur = NoNode, !.acc = @ \cup {m}]
<1>3. m \in Manifests /\ m.node \in Nodes /\ m.rev \in Nat
  BY ManifestsAssumption, NodeAssumption DEF ManifestType
<1>4. TaskOK(l)
  <2>1. l \in Task
    BY <1>1, <1>3 DEF TaskOK, Task, Labels
  <2>2. OpOK(l) /\ LocalsOK(l)
    BY <1>1 DEF TaskOK, Task, OpOK, LocalsOK
  <2>3. RefreshOK(l)
    BY <1>1 DEF TaskOK, Task, OpOK, RefreshOK, Critical, RefreshOps
  <2>. QED BY <2>1, <2>2, <2>3 DEF TaskOK
<1>5. task'[t] = l /\ OthersStay(t) /\ task' \in [Tasks -> Task]
  BY <1>2, <1>4, Becoming DEF TaskOK
<1>6. SharedTypeOK' /\ FiledOK'
  BY <1>2, <1>3 DEF IInv, SharedTypeOK, FiledOK, DiscoverAdmit, Upsert, Admitted,
                    MemberRecord, States
<1>7. l.pc \notin Critical /\ ~Recording(l) /\ lifecycle_lock' = lifecycle_lock
  BY <1>1 DEF TaskOK, Task, Critical, Recording, DiscoverAdmit
<1>8. \A n \in Nodes : membership_table'[n].state = "revoked" => Revoked(n)
  BY <1>2 DEF IInv, SharedTypeOK, Upsert, Admitted, Revoked
<1>. QED BY <1>1, <1>4, <1>5, <1>6, <1>7, <1>8, Moves

(* discover takes the lock and files an accepted manifest in the cache. *)
LEMMA DiscoverRememberOK ==
  ASSUME IInv, NEW t \in Tasks, DiscoverRemember(t)
  PROVE  IInv'
<1>1. TaskOK(task[t]) /\ task[t].pc = "sweep" /\ task[t].op = "discover"
  BY DEF IInv, TasksOK, DiscoverRemember, DiscoverSwept, At
<1>2. PICK m \in task[t].acc :
        /\ peer_manifests' = [peer_manifests EXCEPT ![m.node] = m]
        /\ Become(t, [task[t] EXCEPT !.pc = "persist", !.man = m])
  BY DEF DiscoverRemember
<1> DEFINE l == [task[t] EXCEPT !.pc = "persist", !.man = m]
<1>3. m \in Manifests /\ m.node \in Nodes
  BY <1>1, ManifestsAssumption DEF TaskOK, Task, ManifestType
<1>4. TaskOK(l)
  <2>1. l \in Task
    BY <1>1, <1>3 DEF TaskOK, Task, Labels, MaybeManifest
  <2>2. OpOK(l) /\ LocalsOK(l)
    BY <1>1, <1>3 DEF TaskOK, Task, OpOK, LocalsOK
  <2>3. RefreshOK(l)
    BY <1>1 DEF TaskOK, Task, RefreshOK, Critical, RefreshOps
  <2>. QED BY <2>1, <2>2, <2>3 DEF TaskOK
<1>5. task'[t] = l /\ OthersStay(t) /\ task' \in [Tasks -> Task]
  BY <1>2, <1>4, Becoming DEF TaskOK
<1>6. SharedTypeOK' /\ FiledOK'
  BY <1>2, <1>3 DEF IInv, SharedTypeOK, FiledOK, MaybeManifest, DiscoverRemember, Acquire
<1>7. l.pc \in Critical /\ ~Recording(l) /\ lifecycle_lock = NoTask /\ lifecycle_lock' = t
  BY <1>1 DEF TaskOK, Task, Critical, Recording, RecordOps, DiscoverRemember, Acquire
<1>8. \A n \in Nodes : membership_table'[n].state = "revoked" => Revoked(n)
  BY DEF DiscoverRemember, Revoked
<1>. QED BY <1>4, <1>5, <1>6, <1>7, <1>8, Moves

(* discover files it in the store and leaves the lock. *)
LEMMA DiscoverPersistOK ==
  ASSUME IInv, NEW t \in Tasks, DiscoverPersist(t)
  PROVE  IInv'
<1> DEFINE m == task[t].man
           l == [task[t] EXCEPT !.pc = "sweep", !.man = NoManifest, !.acc = @ \ {m}]
<1>1. TaskOK(task[t]) /\ task[t].pc = "persist" /\ task[t].op = "discover"
  BY DEF IInv, TasksOK, DiscoverPersist, At
<1>2. m \in Manifests /\ m.node \in Nodes /\ lifecycle_lock = t
  BY <1>1, ManifestsAssumption DEF TaskOK, LocalsOK, ManifestType, IInv, LockOK, Critical
<1>3. TaskOK(l)
  <2>1. l \in Task
    BY <1>1 DEF TaskOK, Task, Labels, MaybeManifest
  <2>2. OpOK(l) /\ LocalsOK(l)
    BY <1>1 DEF TaskOK, Task, OpOK, LocalsOK
  <2>3. RefreshOK(l)
    BY <1>1 DEF TaskOK, Task, RefreshOK, Critical, RefreshOps
  <2>. QED BY <2>1, <2>2, <2>3 DEF TaskOK
<1>4. task'[t] = l /\ OthersStay(t) /\ task' \in [Tasks -> Task]
  BY <1>3, Becoming DEF DiscoverPersist, TaskOK
<1>5. SharedTypeOK' /\ FiledOK'
  BY <1>2 DEF IInv, SharedTypeOK, FiledOK, MaybeManifest, DiscoverPersist, Release
<1>6. l.pc \notin Critical /\ ~Recording(l) /\ lifecycle_lock' = NoTask
  BY <1>1 DEF TaskOK, Task, Critical, Recording, DiscoverPersist, Release
<1>. QED BY <1>2, <1>3, <1>4, <1>5, <1>6, NodeAssumption, Moves

(* An accepted refresh writes its record and leaves the lock. *)
LEMMA ApplyAdmitOK ==
  ASSUME IInv, NEW t \in Tasks, ApplyAdmit(t)
  PROVE  IInv'
<1>1. /\ TaskOK(task[t]) /\ task[t].pc = "admit" /\ task[t].op \in RefreshOps
      /\ lifecycle_lock = t
  BY DEF IInv, TasksOK, TaskOK, OpOK, LockOK, ApplyAdmit, At, RefreshOps, Critical
<1>2. task[t].man \in Manifests /\ task[t].man.rev \in Nat
  BY <1>1, ManifestsAssumption DEF TaskOK, LocalsOK, ManifestType
<1> DEFINE l == AfterApply(task[t])
<1>3. TaskOK(l) /\ l.pc \notin Critical
  BY <1>1, AfterApplyOK DEF Critical
<1>4. task'[t] = l /\ OthersStay(t) /\ task' \in [Tasks -> Task]
  BY <1>3, Becoming DEF ApplyAdmit, TaskOK
<1>5. SharedTypeOK' /\ FiledOK'
  BY <1>2 DEF IInv, SharedTypeOK, FiledOK, ApplyAdmit, Upsert, Admitted, MemberRecord, States, Release
<1>6. ~Recording(l) /\ lifecycle_lock' = NoTask
  BY <1>3 DEF Recording, Critical, ApplyAdmit, Release
<1>. QED BY <1>1, <1>3, <1>4, <1>5, <1>6, NodeAssumption, Moves

(* A quarantine writes its record and leaves the lock. *)
LEMMA ApplyQuarantineOK ==
  ASSUME IInv, NEW t \in Tasks, ApplyQuarantine(t)
  PROVE  IInv'
<1>1. /\ TaskOK(task[t]) /\ task[t].pc = "quarantine" /\ task[t].op \in RefreshOps
      /\ lifecycle_lock = t
  BY DEF IInv, TasksOK, TaskOK, OpOK, LockOK, ApplyQuarantine, At, RefreshOps, Critical
<1>2. task[t].rec \in MemberRecord
  BY <1>1 DEF TaskOK, Task
<1> DEFINE l == AfterApply(task[t])
<1>3. TaskOK(l) /\ l.pc \notin Critical
  BY <1>1, AfterApplyOK DEF Critical
<1>4. task'[t] = l /\ OthersStay(t) /\ task' \in [Tasks -> Task]
  BY <1>3, Becoming DEF ApplyQuarantine, TaskOK
<1>5. SharedTypeOK' /\ FiledOK'
  <2>1. SetState(task[t].rec, "stale_manifest") \in MemberRecord
    BY <1>2 DEF SetState, MemberRecord, States
  <2>2. membership_table' \in [Nodes -> MemberRecord]
    BY <2>1 DEF IInv, SharedTypeOK, ApplyQuarantine, Upsert
  <2>3. lifecycle_lock' = NoTask /\ UNCHANGED <<manifest_store, peer_manifests, up>>
    BY DEF ApplyQuarantine, Release
  <2>. QED BY <2>2, <2>3 DEF IInv, SharedTypeOK, FiledOK
<1>6. ~Recording(l) /\ lifecycle_lock' = NoTask
  BY <1>3 DEF Recording, Critical, ApplyQuarantine, Release
<1>. QED BY <1>1, <1>3, <1>4, <1>5, <1>6, NodeAssumption, Moves

(* A rejection writes its record and goes on to evict. *)
LEMMA ApplyRejectOK ==
  ASSUME IInv, NEW t \in Tasks, ApplyReject(t)
  PROVE  IInv'
<1> DEFINE l == [task[t] EXCEPT !.pc = "forget"]
<1>1. TaskOK(task[t]) /\ task[t].pc = "reject"
  BY DEF IInv, TasksOK, ApplyReject, At
<1>2. task[t].rec \in MemberRecord /\ lifecycle_lock = t
  BY <1>1 DEF TaskOK, Task, IInv, LockOK, Critical
<1>3. TaskOK(l)
  <2>1. l \in Task
    BY <1>1 DEF TaskOK, Task, Labels
  <2>2. OpOK(l) /\ LocalsOK(l)
    BY <1>1 DEF TaskOK, Task, OpOK, LocalsOK, RecordOps, RefreshOps
  <2>3. RefreshOK(l)
    BY <1>1 DEF TaskOK, Task, OpOK, RefreshOK, Critical, RecordOps, RefreshOps
  <2>. QED BY <2>1, <2>2, <2>3 DEF TaskOK
<1>4. task'[t] = l /\ OthersStay(t) /\ task' \in [Tasks -> Task]
  BY <1>3, Becoming DEF ApplyReject, Goto, TaskOK
<1>5. SharedTypeOK' /\ FiledOK'
  BY <1>2 DEF IInv, SharedTypeOK, FiledOK, ApplyReject, Upsert, SetState, MemberRecord, States
<1>6. l.pc \in Critical /\ ~Recording(l) /\ lifecycle_lock' = lifecycle_lock
  BY <1>1 DEF TaskOK, Task, Critical, Recording, ApplyReject
<1>. QED BY <1>2, <1>3, <1>4, <1>5, <1>6, Moves

(* A revocation writes its record and goes on to evict; nobody else is     *)
(* inside the lock.                                                        *)
LEMMA MarkRevokedOK ==
  ASSUME IInv, NEW t \in Tasks, MarkRevoked(t)
  PROVE  IInv'
<1> DEFINE l == [task[t] EXCEPT !.pc = "forget"]
<1>1. TaskOK(task[t]) /\ task[t].pc = "mark_revoked"
  BY DEF IInv, TasksOK, MarkRevoked, At
<1>2. task[t].rec \in MemberRecord /\ lifecycle_lock = t
  BY <1>1 DEF TaskOK, Task, IInv, LockOK, Critical
<1>3. TaskOK(l)
  <2>1. l \in Task
    BY <1>1 DEF TaskOK, Task, Labels
  <2>2. OpOK(l) /\ LocalsOK(l)
    BY <1>1 DEF TaskOK, Task, OpOK, LocalsOK, RecordOps, RefreshOps
  <2>3. RefreshOK(l)
    BY <1>1 DEF TaskOK, Task, OpOK, RefreshOK, Critical, RecordOps, RefreshOps
  <2>. QED BY <2>1, <2>2, <2>3 DEF TaskOK
<1>4. task'[t] = l /\ OthersStay(t) /\ task' \in [Tasks -> Task]
  BY <1>3, Becoming DEF MarkRevoked, Goto, TaskOK
<1>5. SharedTypeOK' /\ FiledOK'
  BY <1>2 DEF IInv, SharedTypeOK, FiledOK, MarkRevoked, Upsert, SetState, MemberRecord, States
<1>6. l.pc \in Critical /\ ~Recording(l) /\ lifecycle_lock' = lifecycle_lock
  BY <1>1 DEF TaskOK, Task, Critical, Recording, MarkRevoked
<1>. QED BY <1>2, <1>3, <1>4, <1>5, <1>6, Moves

(* _forget_manifest empties the cache entry. *)
LEMMA ForgetOK ==
  ASSUME IInv, NEW t \in Tasks, Forget(t)
  PROVE  IInv'
<1> DEFINE l == [task[t] EXCEPT !.pc = "delete"]
<1>1. TaskOK(task[t]) /\ task[t].pc = "forget"
  BY DEF IInv, TasksOK, Forget, At
<1>2. lifecycle_lock = t
  BY <1>1 DEF IInv, LockOK, Critical
<1>3. TaskOK(l)
  <2>1. l \in Task
    BY <1>1 DEF TaskOK, Task, Labels
  <2>2. OpOK(l) /\ LocalsOK(l)
    BY <1>1 DEF TaskOK, Task, OpOK, LocalsOK, RecordOps, RefreshOps
  <2>3. RefreshOK(l)
    BY <1>1 DEF TaskOK, Task, OpOK, RefreshOK, Critical, RecordOps, RefreshOps
  <2>. QED BY <2>1, <2>2, <2>3 DEF TaskOK
<1>4. task'[t] = l /\ OthersStay(t) /\ task' \in [Tasks -> Task]
  BY <1>3, Becoming DEF Forget, Goto, TaskOK
<1>5. SharedTypeOK' /\ FiledOK'
  BY DEF IInv, SharedTypeOK, FiledOK, Forget, MaybeManifest
<1>6. l.pc \in Critical /\ ~Recording(l) /\ lifecycle_lock' = lifecycle_lock
  BY <1>1 DEF TaskOK, Task, Critical, Recording, Forget
<1>. QED BY <1>2, <1>3, <1>4, <1>5, <1>6, Moves

(* _forget_manifest deletes the durable copy and leaves the lock. *)
LEMMA DeleteOK ==
  ASSUME IInv, NEW t \in Tasks, Delete(t)
  PROVE  IInv'
<1> DEFINE l == IF task[t].op = "apply_revocation_notice" THEN Idle ELSE AfterApply(task[t])
<1>1. TaskOK(task[t]) /\ task[t].pc = "delete" /\ lifecycle_lock = t
  BY DEF IInv, TasksOK, LockOK, Delete, At, Critical
<1>2. task[t].op # "apply_revocation_notice" => task[t].op \in RefreshOps
  BY <1>1 DEF TaskOK, OpOK
<1>3. TaskOK(l) /\ l.pc \notin Critical
  BY <1>1, <1>2, IdleOK, AfterApplyOK DEF Critical
<1>4. task'[t] = l /\ OthersStay(t) /\ task' \in [Tasks -> Task]
  BY <1>3, Becoming DEF Delete, TaskOK
<1>5. SharedTypeOK' /\ FiledOK'
  BY DEF IInv, SharedTypeOK, FiledOK, Delete, MaybeManifest, Release
<1>6. ~Recording(l) /\ lifecycle_lock' = NoTask
  BY <1>3 DEF Recording, Critical, Delete, Release
<1>. QED BY <1>1, <1>3, <1>4, <1>5, <1>6, NodeAssumption, Moves

(* An exception or a cancellation unwinds out of the lock. *)
LEMMA AbortOK ==
  ASSUME IInv, NEW t \in Tasks, Abort(t)
  PROVE  IInv'
<1>1. task'[t] = Idle /\ OthersStay(t) /\ task' \in [Tasks -> Task]
  BY IdleOK, Becoming DEF Abort, TaskOK
<1>2. SharedTypeOK' /\ FiledOK'
  BY DEF IInv, SharedTypeOK, FiledOK, Abort
<1>3. lifecycle_lock' # t /\ lifecycle_lock' \in {lifecycle_lock, NoTask}
        /\ (lifecycle_lock' = lifecycle_lock \/ lifecycle_lock = t)
  BY NodeAssumption DEF Abort
<1>4. \A n \in Nodes : membership_table'[n].state = "revoked" => Revoked(n)
  BY DEF Abort, Revoked
<1>. QED BY <1>1, <1>2, <1>3, <1>4, IdleOK, Moves DEF Recording, Critical

(* An operator's delete, a crash and a hydration preserve the invariant. *)
LEMMA HostOK ==
  ASSUME IInv, ClearRecord \/ Crash \/ Hydrate
  PROVE  IInv'
<1>1. CASE ClearRecord
  <2>1. SharedTypeOK' /\ FiledOK'
    BY <1>1 DEF IInv, SharedTypeOK, FiledOK, ClearRecord, Upsert, NoRecord, MemberRecord, States
  <2>2. RecordOK'
    BY <1>1 DEF IInv, SharedTypeOK, RecordOK, Revoked, ClearRecord, Upsert, NoRecord
  <2>. QED BY <1>1, <2>1, <2>2 DEF IInv, TasksOK, LockOK, ClearRecord
<1>2. CASE Crash
  <2>1. task' = [t \in Tasks |-> Idle]
    BY <1>2 DEF Crash
  <2>2. SharedTypeOK' /\ FiledOK'
    BY <1>2 DEF IInv, SharedTypeOK, FiledOK, Crash, MaybeManifest
  <2>3. task' \in [Tasks -> Task] /\ TasksOK'
    BY <2>1, IdleOK DEF TasksOK, TaskOK
  <2>4. LockOK' /\ RecordOK'
    BY <1>2, <2>1, IdleOK, NodeAssumption DEF LockOK, RecordOK, Recording, Crash, Critical
  <2>. QED BY <2>2, <2>3, <2>4 DEF IInv
<1>3. CASE Hydrate
  <2>1. SharedTypeOK' /\ FiledOK'
    BY <1>3 DEF IInv, SharedTypeOK, FiledOK, Hydrate
  <2>. QED BY <1>3, <2>1 DEF IInv, TasksOK, LockOK, RecordOK, Revoked, Hydrate
<1>. QED BY <1>1, <1>2, <1>3

----------------------------------------------------------------------------
(* The inductive invariant *)

(* Whatever a task does preserves the invariant. *)
LEMMA TaskStepOK ==
  ASSUME IInv, NEW t \in Tasks, Start(t) \/ TakeLock(t) \/ Step(t) \/ Abort(t)
  PROVE  IInv'
<1>1. CASE Start(t)
  BY <1>1, AdmitPeerOK, BootstrapFromSeedsOK, DiscoverOK, RefreshPeerOK, RefreshAllOK,
     ApplyRevocationNoticeOK DEF Start
<1>2. CASE TakeLock(t)
  <2>1. CASE RevocationIgnored(t)
    BY <2>1, ReturnOK DEF RevocationIgnored, At, Critical
  <2>. QED BY <1>2, <2>1, RecordPeerRevokedOK, RecordPeerOK, DiscoverRememberOK,
          ApplyRefreshDecisionOK, RevocationTrustedOK, RevocationRepeatedOK DEF TakeLock
<1>3. CASE Step(t)
  <2>1. CASE DiscoverReturn(t)
    BY <2>1, ReturnOK DEF DiscoverReturn, DiscoverSwept, At, Critical
  <2>2. CASE RefreshRaised(t)
    BY <2>2, ReturnOK DEF RefreshRaised, At, Critical
  <2>3. CASE RefreshReturn(t)
    BY <2>3, ReturnOK DEF RefreshReturn, At, Critical
  <2>. QED BY <1>3, <2>1, <2>2, <2>3, RememberOK, PersistOK, RecordUpsertOK,
          DiscoverSourceOK, DiscoverSkipOK, DiscoverRefOK, DiscoverDropOK,
          DiscoverAdmitOK, DiscoverPersistOK, RefreshPeerLookupOK, RefreshAllOrphanOK,
          RefreshAllTargetsOK, RefreshDecidedOK, ApplyAdmitOK, ApplyQuarantineOK,
          ApplyRejectOK, ForgetOK, DeleteOK, MarkRevokedOK DEF Step
<1>4. CASE Abort(t)
  BY <1>4, AbortOK
<1>. QED BY <1>1, <1>2, <1>3, <1>4

(* A new facade, with empty stores, satisfies it. *)
LEMMA InitOK == Init => IInv
<1>. SUFFICES ASSUME Init PROVE IInv
  OBVIOUS
<1>1. SharedTypeOK /\ FiledOK
  BY DEF Init, SharedTypeOK, FiledOK, NoRecord, MemberRecord, States, MaybeManifest
<1>2. task \in [Tasks -> Task] /\ TasksOK
  BY IdleOK DEF Init, TasksOK, TaskOK
<1>3. LockOK /\ RecordOK
  BY IdleOK, NodeAssumption DEF Init, LockOK, RecordOK, Recording, Critical
<1>. QED BY <1>1, <1>2, <1>3 DEF IInv

(* Every step preserves it. *)
LEMMA NextOK == IInv /\ [Next]_vars => IInv'
<1>. SUFFICES ASSUME IInv, [Next]_vars PROVE IInv'
  OBVIOUS
<1>1. CASE Next
  BY <1>1, TaskStepOK, HostOK DEF Next
<1>2. CASE UNCHANGED vars
  BY <1>2 DEF IInv, SharedTypeOK, TasksOK, LockOK, FiledOK, RecordOK, Revoked, vars, shared
<1>. QED BY <1>1, <1>2

(* The inductive invariant holds of every reachable state. *)
THEOREM Invariance == Spec => []IInv
  BY InitOK, NextOK, PTL DEF Spec

(* Type correctness of the facade, its tasks and its stores. *)
THEOREM TypeCorrect == Spec => []TypeOK
<1>1. IInv => TypeOK
  BY DEF IInv, SharedTypeOK, TypeOK
<1>. QED BY <1>1, Invariance, PTL
=============================================================================
