-------------------- MODULE FederationNodeRegistry_proofs --------------------
(***************************************************************************)
(* The operations that take the lifecycle lock are atomic updates of one   *)
(* registry, for every number of nodes, tasks and manifests.               *)
(*                                                                         *)
(* RegistryView shows what the task inside the lock is going to have       *)
(* written when it leaves.  Taking the lock is then the one step that      *)
(* shows, and everything the task does inside is hidden.                   *)
(***************************************************************************)
EXTENDS FederationNodeSafety_proofs, FederationNodeRegistry

(* What the registry shows of node n while the task inside the lock is at  *)
(* l, if its record is r and the cached manifest c.                        *)
Remembers(l) == l.pc \in {"remember", "persist", "admit"}
OwnNode(l) == IF Remembers(l) THEN l.man.node ELSE l.cur
Unrecorded(l) == l.op \in RefreshOps /\ l.rec.state = "absent"

RecordOf(l, n, r) ==
  IF n # OwnNode(l) THEN r
  ELSE IF Remembers(l) /\ ~Unrecorded(l) THEN Admitted(l.man)
  ELSE IF l.pc = "quarantine" /\ ~Unrecorded(l) THEN SetState(l.rec, "stale_manifest")
  ELSE IF l.pc = "reject" /\ ~Unrecorded(l) THEN SetState(l.rec, "rejected")
  ELSE IF l.pc = "mark_revoked" THEN SetState(l.rec, "revoked")
  ELSE r

ManifestOf(l, n, c) ==
  IF n # OwnNode(l) THEN c
  ELSE IF Remembers(l) THEN l.man
  ELSE IF l.pc \in {"reject", "mark_revoked", "forget", "delete"} THEN NoManifest
  ELSE c

(* The entry the registry has for a record and a manifest *)
EntryOf(r, c) == [state |-> r.state, rev |-> r.rev, manifest |-> c]

(* While a task is inside the lock the registry shows where it is going. *)
LEMMA ViewHeld ==
  ASSUME NEW t \in Tasks, lifecycle_lock = t, NEW n \in Nodes
  PROVE  RegistryView[n] = EntryOf(RecordOf(task[t], n, membership_table[n]), ManifestOf(task[t], n, peer_manifests[n]))
<1>1. lifecycle_lock # NoTask
  BY NodeAssumption
<1>2. PendingRecord(n) = RecordOf(task[t], n, membership_table[n])
  BY <1>1 DEF PendingRecord, RecordOf, Holds, Holder, NoRecordToWrite, Unrecorded, OwnNode, Remembers, RefreshOps
<1>3. PendingManifest(n) = ManifestOf(task[t], n, peer_manifests[n])
  BY <1>1 DEF PendingManifest, ManifestOf, Holds, Holder, OwnNode, Remembers
<1>. QED BY <1>2, <1>3 DEF RegistryView, EntryOf

(* The same of the state after a step. *)
LEMMA ViewHeldNext ==
  ASSUME NEW t \in Tasks, lifecycle_lock' = t, NEW n \in Nodes
  PROVE  RegistryView'[n] = EntryOf(RecordOf(task'[t], n, membership_table'[n]), ManifestOf(task'[t], n, peer_manifests'[n]))
<1>1. lifecycle_lock' # NoTask
  BY NodeAssumption
<1>2. PendingRecord(n)' = RecordOf(task'[t], n, membership_table'[n])
  BY <1>1 DEF PendingRecord, RecordOf, Holds, Holder, NoRecordToWrite, Unrecorded, OwnNode, Remembers, RefreshOps
<1>3. PendingManifest(n)' = ManifestOf(task'[t], n, peer_manifests'[n])
  BY <1>1 DEF PendingManifest, ManifestOf, Holds, Holder, OwnNode, Remembers
<1>. QED BY <1>2, <1>3 DEF RegistryView, EntryOf

(* While nobody is inside the lock it shows the table and the cache. *)
LEMMA ViewFree ==
  ASSUME lifecycle_lock = NoTask, NEW n \in Nodes
  PROVE  RegistryView[n] = EntryOf(membership_table[n], peer_manifests[n])
BY DEF RegistryView, EntryOf, PendingRecord, PendingManifest, Holds

(* The same of the state after a step. *)
LEMMA ViewFreeNext ==
  ASSUME lifecycle_lock' = NoTask, NEW n \in Nodes
  PROVE  RegistryView'[n] = EntryOf(membership_table'[n], peer_manifests'[n])
BY DEF RegistryView, EntryOf, PendingRecord, PendingManifest, Holds

(* A step that shows changes the entry of one node. *)
LEMMA Changes ==
  ASSUME NEW n \in Nodes, NEW e, \A m \in Nodes \ {n} : RegistryView'[m] = RegistryView[m], RegistryView'[n] = e
  PROVE  RegistryView' = [RegistryView EXCEPT ![n] = e]
<1>1. RegistryView = [m \in Nodes |-> RegistryView[m]]
  BY DEF RegistryView
<1>2. RegistryView' = [m \in Nodes |-> RegistryView'[m]]
  BY DEF RegistryView
<1>. QED BY <1>1, <1>2

(* A step that changes no entry is hidden. *)
LEMMA Stutters ==
  ASSUME \A m \in Nodes : RegistryView'[m] = RegistryView[m]
  PROVE  RegistryView' = RegistryView
<1>1. RegistryView = [m \in Nodes |-> RegistryView[m]]
  BY DEF RegistryView
<1>2. RegistryView' = [m \in Nodes |-> RegistryView'[m]]
  BY DEF RegistryView
<1>. QED BY <1>1, <1>2

(* An entry is its record's state and revision and the manifest. *)
LEMMA EntryFields ==
  \A r, c : EntryOf(r, c).state = r.state /\ EntryOf(r, c).rev = r.rev /\ EntryOf(r, c).manifest = c
BY DEF EntryOf

(* A task takes the lock, and has read what it needs. *)
LEMMA LockView ==
  ASSUME IInv, IInv', NEW t \in Tasks, Reads(t), Acquire(t), NEW e,
         LET k == task'[t]
             n == OwnNode(k)
         IN  n \in Nodes /\ e = EntryOf(RecordOf(k, n, membership_table[n]), ManifestOf(k, n, peer_manifests[n]))
  PROVE  RegistryView' = [RegistryView EXCEPT ![OwnNode(task'[t])] = e]
<1> DEFINE k == task'[t]
           n == OwnNode(k)
<1>1. lifecycle_lock = NoTask /\ lifecycle_lock' = t /\ UNCHANGED <<membership_table, peer_manifests>>
  BY DEF Acquire, Reads, Stores
<1>2. \A m \in Nodes \ {n} : RegistryView'[m] = RegistryView[m]
  BY <1>1, ViewFree, ViewHeldNext DEF RecordOf, ManifestOf
<1>3. RegistryView'[n] = e
  BY <1>1, ViewHeldNext
<1>. QED BY <1>2, <1>3, Changes

(* _record_peer, from the lock to the upsert, is RecordManifest. *)
LEMMA RecordPeerRecords ==
  ASSUME IInv, IInv', NEW t \in Tasks, RecordPeer(t)
  PROVE  Registry!RegistryNext
<1>1. PICK m \in task[t].acc :
       /\ membership_table[m.node].state # "revoked"
       /\ Become(t, [task[t] EXCEPT !.pc = "remember", !.man = m])
  BY DEF RecordPeer
<1> DEFINE k == task'[t]
<1>2. m \in Manifests /\ m.node \in Nodes /\ task[t] \in Task /\ task[t].op \in RecordOps
  BY ManifestsAssumption DEF IInv, TasksOK, TaskOK, Task, ManifestType, OpOK, RecordPeer, At
<1>3. k = [task[t] EXCEPT !.pc = "remember", !.man = m]
  BY <1>1, Becoming
<1>4. k.pc = "remember" /\ k.man = m /\ k.op \in RecordOps
  BY <1>2, <1>3 DEF Task
<1>5. OwnNode(k) = m.node /\ EntryOf(RecordOf(k, m.node, membership_table[m.node]), ManifestOf(k, m.node, peer_manifests[m.node]))
                                = [state |-> "active", rev |-> m.rev, manifest |-> m]
  BY <1>4 DEF RecordOf, ManifestOf, OwnNode, Remembers, Unrecorded, EntryOf, Admitted, RecordOps, RefreshOps
<1>6. RegistryView' = [RegistryView EXCEPT ![m.node] = [state |-> "active", rev |-> m.rev, manifest |-> m]]
  BY <1>2, <1>5, LockView, LockReads DEF RecordPeer
<1>7. RegistryView[m.node].state # "revoked"
  BY <1>1, <1>2, ViewFree, EntryFields DEF RecordPeer, Acquire
<1>8. Registry!RecordManifest(m)
  BY <1>6, <1>7 DEF Registry!RecordManifest
<1>. QED BY <1>2, <1>8 DEF Registry!RegistryNext

(* The entry of a node as long as no task inside the lock works on it *)
LEMMA FreeEntry ==
  ASSUME lifecycle_lock = NoTask, NEW n \in Nodes
  PROVE  /\ RegistryView[n].state = membership_table[n].state
         /\ RegistryView[n] = [state |-> membership_table[n].state, rev |-> membership_table[n].rev, manifest |-> peer_manifests[n]]
BY ViewFree, EntryFields DEF EntryOf

(* _apply_refresh_decision is AcceptRefresh, Quarantine or Reject; a       *)
(* quarantine of a node without a record changes nothing.                  *)
LEMMA DecisionIsApplied ==
  ASSUME IInv, IInv', NEW t \in Tasks, ApplyRefreshDecision(t)
  PROVE  Registry!RegistryNext \/ RegistryView' = RegistryView
<1> DEFINE k == task'[t]
           l == task[t]
<1>1. PICK n \in Undone(l) :
        Become(t, [l EXCEPT !.cur = n, !.rec = membership_table[n], !.man = l.dec[n].manifest,
                            !.pc = IF l.dec[n].action \in {"accept", "unchanged"} THEN "remember" ELSE l.dec[n].action])
  BY DEF ApplyRefreshDecision
<1> DEFINE p == IF l.dec[n].action \in {"accept", "unchanged"} THEN "remember" ELSE l.dec[n].action
           r == membership_table[n]
<1>2. TaskOK(l) /\ l \in Task /\ l.op \in RefreshOps /\ l.pc = "apply"
  BY DEF IInv, TasksOK, TaskOK, OpOK, ApplyRefreshDecision, At
<1>3. n \in Nodes /\ l.dec[n] # NoDecision
  BY <1>1, <1>2 DEF Undone, TaskOK, LocalsOK, Task
<1>4. p \in {"remember", "quarantine", "reject"} /\ (p = "remember" => l.dec[n].manifest \in Manifests /\ l.dec[n].manifest.node = n)
  <2>1. l.dec[n] \in Decision
    BY <1>2, <1>3 DEF Task
  <2>. QED BY <1>2, <1>3, <2>1 DEF Decision, Actions, TaskOK, RefreshOK
<1>5. k.pc = p /\ k.cur = n /\ k.rec = r /\ k.man = l.dec[n].manifest /\ k.op = l.op
  <2>1. k = [l EXCEPT !.cur = n, !.rec = r, !.man = l.dec[n].manifest, !.pc = p]
    BY <1>1, Becoming
  <2>. QED BY <1>2, <2>1 DEF Task
<1>6. /\ lifecycle_lock = NoTask
      /\ RegistryView[n].state = r.state
      /\ RegistryView[n] = [state |-> r.state, rev |-> r.rev, manifest |-> peer_manifests[n]]
  BY <1>3, FreeEntry DEF ApplyRefreshDecision, Acquire
<1>7. Reads(t) /\ Acquire(t)
  BY LockReads DEF ApplyRefreshDecision
<1>8. r \in MemberRecord
  BY <1>3 DEF IInv, SharedTypeOK
<1>. HIDE DEF p, k, l, r
<1>9. CASE p = "remember"
  <2> DEFINE m == l.dec[n].manifest
             e == IF r.state # "absent" THEN [state |-> "active", rev |-> m.rev, manifest |-> m]
                  ELSE [state |-> r.state, rev |-> r.rev, manifest |-> m]
  <2>1. OwnNode(k) = n /\ EntryOf(RecordOf(k, n, r), ManifestOf(k, n, peer_manifests[n])) = e
    BY <1>2, <1>4, <1>5, <1>9 DEF OwnNode, Remembers, RecordOf, ManifestOf, Unrecorded, EntryOf, Admitted
  <2>2. RegistryView' = [RegistryView EXCEPT ![n] = e]
    BY <1>3, <1>7, <2>1, LockView DEF k, r
  <2>3. Registry!AcceptRefresh(m)
    <3>1. m.node = n
      BY <1>3, <1>4, <1>9
    <3>2. e = IF Registry!Known(n) THEN [state |-> "active", rev |-> m.rev, manifest |-> m]
              ELSE [RegistryView[n] EXCEPT !.manifest = m]
      BY <1>6 DEF Registry!Known
    <3>3. n \in Nodes /\ RegistryView = [o \in Nodes |-> RegistryView[o]]
      BY <1>3 DEF RegistryView
    <3>. HIDE DEF e, m
    <3>. QED BY <2>2, <3>1, <3>2, <3>3 DEF Registry!AcceptRefresh
  <2>. QED BY <1>4, <1>9, <2>3 DEF Registry!RegistryNext
<1>10. CASE p = "quarantine"
  <2> DEFINE e == IF r.state # "absent" THEN [state |-> "stale_manifest", rev |-> r.rev, manifest |-> peer_manifests[n]]
                  ELSE RegistryView[n]
  <2>1. OwnNode(k) = n /\ EntryOf(RecordOf(k, n, r), ManifestOf(k, n, peer_manifests[n])) = e
    BY <1>2, <1>5, <1>6, <1>8, <1>10 DEF OwnNode, Remembers, RecordOf, ManifestOf, Unrecorded, EntryOf, SetState, MemberRecord
  <2>2. RegistryView' = [RegistryView EXCEPT ![n] = e]
    BY <1>3, <1>7, <2>1, LockView DEF k, r
  <2>3. CASE r.state = "absent"
    BY <1>3, <2>2, <2>3 DEF RegistryView
  <2>4. CASE r.state # "absent"
    <3>1. Registry!Quarantine(n)
      BY <1>3, <1>6, <2>2, <2>4 DEF Registry!Quarantine, Registry!Known, RegistryView
    <3>. QED BY <1>3, <3>1 DEF Registry!RegistryNext
  <2>. QED BY <2>3, <2>4
<1>11. CASE p = "reject"
  <2> DEFINE e == [state |-> IF r.state # "absent" THEN "rejected" ELSE r.state, rev |-> r.rev, manifest |-> NoManifest]
  <2>1. OwnNode(k) = n /\ EntryOf(RecordOf(k, n, r), ManifestOf(k, n, peer_manifests[n])) = e
    BY <1>2, <1>5, <1>6, <1>8, <1>11 DEF OwnNode, Remembers, RecordOf, ManifestOf, Unrecorded, EntryOf, SetState, MemberRecord
  <2>2. RegistryView' = [RegistryView EXCEPT ![n] = e]
    BY <1>3, <1>7, <2>1, LockView DEF k, r
  <2>3. Registry!Reject(n)
    BY <1>3, <1>6, <2>2 DEF Registry!Reject, Registry!Known, RegistryView
  <2>. QED BY <1>3, <2>3 DEF Registry!RegistryNext
<1>. QED BY <1>4, <1>9, <1>10, <1>11

(* apply_revocation_notice is Revoke, or Evict when the node is revoked    *)
(* already.                                                                *)
LEMMA RevocationIsTaken ==
  ASSUME IInv, IInv', NEW t \in Tasks, RevocationTrusted(t) \/ RevocationRepeated(t)
  PROVE  Registry!RegistryNext
<1> DEFINE k == task'[t]
           l == task[t]
           n == task[t].cur
           r == membership_table[task[t].cur]
<1>1. l \in Task /\ n \in Nodes
  BY DEF IInv, TasksOK, TaskOK, LocalsOK, RevocationTrusted, RevocationRepeated, At
<1>2. /\ lifecycle_lock = NoTask
      /\ RegistryView[n].state = r.state
      /\ RegistryView[n] = [state |-> r.state, rev |-> r.rev, manifest |-> peer_manifests[n]]
  BY <1>1, FreeEntry DEF RevocationTrusted, RevocationRepeated, Acquire
<1>3. Reads(t) /\ Acquire(t)
  BY LockReads DEF RevocationTrusted, RevocationRepeated
<1>4. r \in MemberRecord
  BY <1>1 DEF IInv, SharedTypeOK
<1>5. CASE RevocationTrusted(t)
  <2>1. k.pc = "mark_revoked" /\ k.cur = n /\ k.rec = r /\ r.state # "absent"
    <3>1. k = [l EXCEPT !.pc = "mark_revoked", !.rec = r] /\ r.state # "absent"
      BY <1>5, Becoming DEF RevocationTrusted
    <3>. QED BY <1>1, <3>1 DEF Task
  <2>. HIDE DEF k, l, n, r
  <2> DEFINE e == [state |-> "revoked", rev |-> r.rev, manifest |-> NoManifest]
  <2>2. OwnNode(k) = n /\ EntryOf(RecordOf(k, n, r), ManifestOf(k, n, peer_manifests[n])) = e
    BY <1>4, <2>1 DEF OwnNode, Remembers, RecordOf, ManifestOf, EntryOf, SetState, MemberRecord
  <2>3. RegistryView' = [RegistryView EXCEPT ![n] = e]
    BY <1>1, <1>3, <2>2, LockView DEF k, r, n
  <2>4. Registry!Revoke(n)
    <3>1. e = [RegistryView[n] EXCEPT !.state = "revoked", !.manifest = NoManifest]
      <4>1. [RegistryView[n] EXCEPT !.state = "revoked"] =
              [state |-> "revoked", rev |-> r.rev, manifest |-> peer_manifests[n]]
        BY <1>2
      <4>2. \A v : v = [state |-> "revoked", rev |-> r.rev, manifest |-> peer_manifests[n]] =>
                     [v EXCEPT !.manifest = NoManifest] = e
        OBVIOUS
      <4>. HIDE DEF e
      <4>. QED BY <4>1, <4>2
    <3>2. Registry!Known(n)
      BY <1>2, <2>1 DEF Registry!Known
    <3>3. RegistryView = [o \in Nodes |-> RegistryView[o]]
      BY DEF RegistryView
    <3>. HIDE DEF e
    <3>. QED BY <1>1, <2>3, <3>1, <3>2, <3>3 DEF Registry!Revoke
  <2>. QED BY <1>1, <2>4 DEF Registry!RegistryNext
<1>6. CASE RevocationRepeated(t)
  <2>1. k.pc = "forget" /\ k.cur = n /\ r.state = "revoked"
    BY <1>1, <1>6, Becoming DEF Task, RevocationRepeated, Goto
  <2>. HIDE DEF k, l, n, r
  <2> DEFINE e == [state |-> r.state, rev |-> r.rev, manifest |-> NoManifest]
  <2>2. OwnNode(k) = n /\ EntryOf(RecordOf(k, n, r), ManifestOf(k, n, peer_manifests[n])) = e
    BY <1>4, <2>1 DEF OwnNode, Remembers, RecordOf, ManifestOf, EntryOf, SetState, MemberRecord
  <2>3. RegistryView' = [RegistryView EXCEPT ![n] = e]
    BY <1>1, <1>3, <2>2, LockView DEF k, r, n
  <2>4. Registry!Evict(n)
    BY <1>1, <1>2, <2>1, <2>3 DEF Registry!Evict, RegistryView
  <2>. QED BY <1>1, <2>4 DEF Registry!RegistryNext
<1>. QED BY <1>5, <1>6

(* Outside the lock nothing a task reads shows in the registry. *)
LEMMA ReadsAreHidden ==
  ASSUME IInv, NEW t \in Tasks, Reads(t), UNCHANGED shared
  PROVE  RegistryView' = RegistryView
<1>1. CASE lifecycle_lock = NoTask
  BY <1>1, ViewFree, ViewFreeNext, Stutters DEF shared
<1>2. CASE lifecycle_lock # NoTask
  <2>1. PICK u \in Tasks : lifecycle_lock = u
    BY <1>2 DEF IInv, SharedTypeOK
  <2>2. u # t
    BY <2>1 DEF IInv, LockOK, Reads, ReadLocals
  <2>3. task'[u] = task[u]
    BY <2>2 DEF Reads, OthersStay
  <2>. QED BY <2>1, <2>3, ViewHeld, ViewHeldNext, Stutters DEF shared
<1>. QED BY <1>1, <1>2

(* Inside it the registry shows from the start what is written in the end. *)
LEMMA WritesAreHidden ==
  ASSUME IInv, IInv', CachedInv, NEW t \in Tasks, task[t].op # "discover", Writes(t)
  PROVE  RegistryView' = RegistryView
<1> DEFINE l == task[t]
           k == task'[t]
<1>1. /\ TaskOK(l) /\ l \in Task /\ CachedOK(l, peer_manifests) /\ (l.pc \in Critical => lifecycle_lock = t)
  BY DEF IInv, TasksOK, TaskOK, LockOK, CachedInv
<1>2. /\ membership_table \in [Nodes -> MemberRecord] /\ peer_manifests \in [Nodes -> MaybeManifest]
      /\ l.rec \in MemberRecord
  BY <1>1 DEF IInv, SharedTypeOK, Task
<1>3. ASSUME lifecycle_lock = t, lifecycle_lock' = t,
             \A n \in Nodes : /\ RecordOf(k, n, membership_table'[n]) = RecordOf(l, n, membership_table[n])
                              /\ ManifestOf(k, n, peer_manifests'[n]) = ManifestOf(l, n, peer_manifests[n])
      PROVE  RegistryView' = RegistryView
  BY <1>3, ViewHeld, ViewHeldNext, Stutters
<1>4. ASSUME lifecycle_lock = t, lifecycle_lock' = NoTask,
             \A n \in Nodes : /\ EntryOf(membership_table'[n], peer_manifests'[n]) =
                                  EntryOf(RecordOf(l, n, membership_table[n]), ManifestOf(l, n, peer_manifests[n]))
      PROVE  RegistryView' = RegistryView
  BY <1>4, ViewHeld, ViewFreeNext, Stutters
<1>5. CASE Remember(t) /\ Keeps(l, k) /\ k.pc = "persist"
  <2>1. l.pc = "remember" /\ lifecycle_lock = t /\ lifecycle_lock' = t /\ membership_table' = membership_table
    BY <1>1, <1>5 DEF Remember, At, Critical
  <2>2. \A n \in Nodes : peer_manifests'[n] = IF n = l.man.node THEN l.man ELSE peer_manifests[n]
    BY <1>2, <1>5 DEF Remember
  <2>. QED BY <1>3, <1>5, <2>1, <2>2 DEF Keeps, RecordOf, ManifestOf, OwnNode, Remembers, Unrecorded
<1>6. CASE Persist(t) /\ Keeps(l, k) /\ k.pc = "admit"
  <2>1. l.pc = "persist" /\ lifecycle_lock = t /\ lifecycle_lock' = t /\ UNCHANGED <<membership_table, peer_manifests>>
    BY <1>1, <1>6 DEF Persist, At, Critical
  <2>. QED BY <1>3, <1>6, <2>1 DEF Keeps, RecordOf, ManifestOf, OwnNode, Remembers, Unrecorded
<1>7. CASE ApplyReject(t) /\ Keeps(l, k) /\ k.pc = "forget"
  <2>1. l.pc = "reject" /\ lifecycle_lock = t /\ lifecycle_lock' = t /\ peer_manifests' = peer_manifests /\ l.op \in RefreshOps
    BY <1>1, <1>7 DEF ApplyReject, At, Critical, TaskOK, OpOK
  <2>2. \A n \in Nodes : membership_table'[n] = IF n = l.cur /\ l.rec.state # "absent"
                                                THEN SetState(l.rec, "rejected") ELSE membership_table[n]
    BY <1>2, <1>7 DEF ApplyReject, Upsert
  <2>. QED BY <1>3, <1>7, <2>1, <2>2 DEF Keeps, RecordOf, ManifestOf, OwnNode, Remembers, Unrecorded
<1>8. CASE MarkRevoked(t) /\ Keeps(l, k) /\ k.pc = "forget"
  <2>1. l.pc = "mark_revoked" /\ lifecycle_lock = t /\ lifecycle_lock' = t /\ peer_manifests' = peer_manifests
    BY <1>1, <1>8 DEF MarkRevoked, At, Critical
  <2>2. \A n \in Nodes : membership_table'[n] = IF n = l.cur THEN SetState(l.rec, "revoked") ELSE membership_table[n]
    BY <1>2, <1>8 DEF MarkRevoked, Upsert
  <2>. QED BY <1>3, <1>8, <2>1, <2>2 DEF Keeps, RecordOf, ManifestOf, OwnNode, Remembers, Unrecorded
<1>9. CASE Forget(t) /\ Keeps(l, k) /\ k.pc = "delete"
  <2>1. l.pc = "forget" /\ lifecycle_lock = t /\ lifecycle_lock' = t /\ membership_table' = membership_table
    BY <1>1, <1>9 DEF Forget, At, Critical
  <2>2. \A n \in Nodes : peer_manifests'[n] = IF n = l.cur THEN NoManifest ELSE peer_manifests[n]
    BY <1>2, <1>9 DEF Forget
  <2>. QED BY <1>3, <1>9, <2>1, <2>2 DEF Keeps, RecordOf, ManifestOf, OwnNode, Remembers, Unrecorded
<1>10. CASE RecordUpsert(t)
  <2>1. /\ l.pc = "admit" /\ l.op \in RecordOps /\ lifecycle_lock = t /\ lifecycle_lock' = NoTask
        /\ peer_manifests' = peer_manifests /\ peer_manifests[l.man.node] = l.man
    BY <1>1, <1>10 DEF RecordUpsert, At, Critical, Release, RecordOps, CachedOK
  <2>2. \A n \in Nodes : membership_table'[n] = IF n = l.man.node THEN Admitted(l.man) ELSE membership_table[n]
    BY <1>2, <1>10 DEF RecordUpsert, Upsert
  <2>. QED BY <1>4, <2>1, <2>2 DEF RecordOf, ManifestOf, OwnNode, Remembers, Unrecorded, RecordOps, RefreshOps
<1>11. CASE ApplyAdmit(t)
  <2>1. /\ l.pc = "admit" /\ l.op \in RefreshOps /\ lifecycle_lock = t /\ lifecycle_lock' = NoTask
        /\ peer_manifests' = peer_manifests /\ peer_manifests[l.man.node] = l.man /\ l.man.node = l.cur
    BY <1>1, <1>11 DEF ApplyAdmit, At, Critical, Release, RefreshOps, CachedOK, TaskOK, RefreshOK
  <2>2. \A n \in Nodes : membership_table'[n] = IF n = l.cur /\ l.rec.state # "absent"
                                                THEN Admitted(l.man) ELSE membership_table[n]
    BY <1>2, <1>11 DEF ApplyAdmit, Upsert
  <2>. QED BY <1>4, <2>1, <2>2 DEF RecordOf, ManifestOf, OwnNode, Remembers, Unrecorded
<1>12. CASE ApplyQuarantine(t)
  <2>1. /\ l.pc = "quarantine" /\ l.op \in RefreshOps /\ lifecycle_lock = t /\ lifecycle_lock' = NoTask
        /\ peer_manifests' = peer_manifests
    BY <1>1, <1>12 DEF ApplyQuarantine, At, Critical, Release, TaskOK, OpOK
  <2>2. \A n \in Nodes : membership_table'[n] = IF n = l.cur /\ l.rec.state # "absent"
                                                THEN SetState(l.rec, "stale_manifest") ELSE membership_table[n]
    BY <1>2, <1>12 DEF ApplyQuarantine, Upsert
  <2>. QED BY <1>4, <2>1, <2>2 DEF RecordOf, ManifestOf, OwnNode, Remembers, Unrecorded
<1>13. CASE Delete(t)
  <2>1. /\ l.pc = "delete" /\ lifecycle_lock = t /\ lifecycle_lock' = NoTask /\ peer_manifests[l.cur] = NoManifest
        /\ UNCHANGED <<membership_table, peer_manifests>>
    BY <1>1, <1>13 DEF Delete, At, Critical, Release, CachedOK
  <2>. QED BY <1>4, <2>1 DEF RecordOf, ManifestOf, OwnNode, Remembers
<1>14. ~DiscoverPersist(t)
  BY DEF DiscoverPersist
<1>. QED BY <1>5, <1>6, <1>7, <1>8, <1>9, <1>10, <1>11, <1>12, <1>13, <1>14 DEF Writes

(* Seen through RegistryView, every step of a task is one operation of the *)
(* registry or changes nothing.                                            *)
LEMMA TaskImplements ==
  ASSUME IInv, IInv', CachedInv, NEW t \in Tasks, task[t].op # "discover",
         Start(t) \/ TakeLock(t) \/ Step(t)
  PROVE  Registry!RegistryNext \/ RegistryView' = RegistryView
<1>1. CASE Start(t)
  BY <1>1, StartReads, ReadsAreHidden
  DEF Start, AdmitPeer, BootstrapFromSeeds, Discover, RefreshPeer, RefreshAll, ApplyRevocationNotice
<1>2. CASE TakeLock(t)
  <2>1. CASE RecordPeerRevoked(t) \/ RevocationIgnored(t)
    BY <2>1, LockReads, ReadsAreHidden DEF RecordPeerRevoked, RevocationIgnored
  <2>2. ~DiscoverRemember(t)
    BY DEF DiscoverRemember, DiscoverSwept
  <2>. QED BY <1>2, <2>1, <2>2, RecordPeerRecords, DecisionIsApplied, RevocationIsTaken DEF TakeLock
<1>3. CASE \/ DiscoverSource(t) \/ DiscoverSkip(t) \/ DiscoverRef(t) \/ DiscoverDrop(t) \/ DiscoverReturn(t)
           \/ RefreshPeerLookup(t) \/ RefreshAllOrphan(t) \/ RefreshAllTargets(t)
           \/ RefreshDecided(t) \/ RefreshRaised(t) \/ RefreshReturn(t)
  <2>1. Reads(t)
    BY <1>3, StepReads
  <2>2. UNCHANGED shared
    BY <1>3 DEF DiscoverSource, DiscoverSkip, DiscoverRef, DiscoverDrop, DiscoverReturn, RefreshPeerLookup,
         RefreshAllOrphan, RefreshAllTargets, RefreshDecided, RefreshRaised, RefreshReturn
  <2>. QED BY <2>1, <2>2, ReadsAreHidden
<1>4. CASE \/ Remember(t) \/ Persist(t) \/ ApplyReject(t) \/ MarkRevoked(t) \/ Forget(t)
           \/ RecordUpsert(t) \/ ApplyAdmit(t) \/ ApplyQuarantine(t) \/ Delete(t)
           \/ DiscoverAdmit(t) \/ DiscoverRemember(t) \/ DiscoverPersist(t)
  BY <1>4, Writing, WritesAreHidden
<1>. QED BY <1>1, <1>2, <1>3, <1>4 DEF Step

(* An operator clears a record: what a task inside the lock is about to    *)
(* write still shows.                                                      *)
LEMMA ClearImplements ==
  ASSUME IInv, ClearRecord
  PROVE  Registry!RegistryNext \/ RegistryView' = RegistryView
<1>1. PICK c \in Nodes : Upsert(c, NoRecord)
  BY DEF ClearRecord
<1>2. UNCHANGED <<peer_manifests, lifecycle_lock, task>>
  BY DEF ClearRecord
<1>3. \A n \in Nodes : membership_table'[n] = IF n = c THEN NoRecord ELSE membership_table[n]
  BY <1>1 DEF Upsert, IInv, SharedTypeOK
<1>4. ASSUME \A n \in Nodes \ {c} : RegistryView'[n] = RegistryView[n],
             RegistryView'[c] = [state |-> "absent", rev |-> 0, manifest |-> RegistryView[c].manifest]
      PROVE  Registry!RegistryNext
  <2>1. RegistryView[c] = [state |-> PendingRecord(c).state, rev |-> PendingRecord(c).rev, manifest |-> PendingManifest(c)]
    BY DEF RegistryView
  <2>2. RegistryView' = [RegistryView EXCEPT ![c] = [state |-> "absent", rev |-> 0, manifest |-> RegistryView[c].manifest]]
    BY <1>4, Changes
  <2>3. Registry!Clear(c)
    BY <2>1, <2>2 DEF Registry!Clear, RegistryView
  <2>. QED BY <2>3 DEF Registry!RegistryNext
<1>5. CASE lifecycle_lock = NoTask
  <2>1. \A n \in Nodes \ {c} : RegistryView'[n] = RegistryView[n]
    BY <1>2, <1>3, <1>5, ViewFree, ViewFreeNext
  <2>2. RegistryView'[c] = EntryOf(NoRecord, RegistryView[c].manifest)
    BY <1>2, <1>3, <1>5, ViewFree, ViewFreeNext, EntryFields
  <2>. QED BY <1>4, <2>1, <2>2 DEF EntryOf, NoRecord
<1>6. CASE lifecycle_lock # NoTask
  <2>1. PICK u \in Tasks : lifecycle_lock = u
    BY <1>6 DEF IInv, SharedTypeOK
  <2> DEFINE l == task[u]
  <2>2. \A n \in Nodes \ {c} : RegistryView'[n] = RegistryView[n]
    BY <1>2, <1>3, <2>1, ViewHeld, ViewHeldNext
  <2>3. /\ RegistryView[c] = EntryOf(RecordOf(l, c, membership_table[c]), ManifestOf(l, c, peer_manifests[c]))
        /\ RegistryView'[c] = EntryOf(RecordOf(l, c, NoRecord), ManifestOf(l, c, peer_manifests[c]))
    BY <1>2, <1>3, <2>1, ViewHeld, ViewHeldNext
  <2>4. \/ RecordOf(l, c, NoRecord) = RecordOf(l, c, membership_table[c])
        \/ RecordOf(l, c, NoRecord) = NoRecord
    BY DEF RecordOf
  <2>5. CASE RecordOf(l, c, NoRecord) = RecordOf(l, c, membership_table[c])
    BY <2>2, <2>3, <2>5, Stutters
  <2>6. CASE RecordOf(l, c, NoRecord) = NoRecord
    <3>1. RegistryView'[c] = EntryOf(NoRecord, RegistryView[c].manifest)
      BY <2>3, <2>6, EntryFields
    <3>. QED BY <1>4, <2>2, <3>1 DEF EntryOf, NoRecord
  <2>. QED BY <2>4, <2>5, <2>6
<1>. QED BY <1>5, <1>6

(* As long as nothing fails and discover, which writes its records outside *)
(* of the lock, is not used, concurrent operations of the node are the     *)
(* atomic operations of PeerRegistry (what the lifecycle lock of node.py is*)
(* for).                                                                   *)
THEOREM LockMakesOperationsAtomic ==
  ASSUME Faults = {}, "discover" \notin Operations
  PROVE  Spec => ImplementsRegistry
<1>1. Init => Registry!RegistryInit
  <2>. SUFFICES ASSUME Init PROVE Registry!RegistryInit
    OBVIOUS
  <2>1. \A n \in Nodes : RegistryView[n] = [state |-> "absent", rev |-> 0, manifest |-> NoManifest]
    BY ViewFree DEF Init, EntryOf, NoRecord
  <2>2. RegistryView = [n \in Nodes |-> RegistryView[n]]
    BY DEF RegistryView
  <2>. QED BY <2>1, <2>2 DEF Registry!RegistryInit
<1>2. IInv /\ IInv' /\ CachedInv /\ UpdateInv /\ MatchInv /\ [Next]_vars => [Registry!RegistryNext]_RegistryView
  <2>. SUFFICES ASSUME IInv, IInv', CachedInv, UpdateInv, MatchInv, [Next]_vars
                PROVE  Registry!RegistryNext \/ RegistryView' = RegistryView
    OBVIOUS
  <2>1. CASE Hydrate
    <3>1. \A n \in Nodes, t \in Tasks : ~Updating(task[t], n)
      BY <2>1, NodeAssumption DEF Hydrate, IInv, LockOK, Updating, Critical
    <3>2. peer_manifests' = peer_manifests
      BY <2>1, <3>1 DEF Hydrate, UpdateInv, MatchInv, IInv, SharedTypeOK
    <3>. QED BY <2>1, <3>2, ViewFree, ViewFreeNext, Stutters DEF Hydrate
  <2>2. CASE UNCHANGED vars
    <3>1. UNCHANGED <<membership_table, peer_manifests, lifecycle_lock, task>>
      BY <2>2 DEF vars, shared
    <3>. QED BY <3>1 DEF RegistryView, PendingRecord, PendingManifest, Holds, Holder, NoRecordToWrite
  <2>3. ASSUME NEW t \in Tasks, Start(t) \/ TakeLock(t) \/ Step(t)
        PROVE  Registry!RegistryNext \/ RegistryView' = RegistryView
    BY <2>3, TaskImplements DEF MatchInv
  <2>. QED BY <2>1, <2>2, <2>3, ClearImplements DEF Next, Abort, Crash
<1>3. Spec => []UpdateInv /\ []MatchInv
  BY UpdateInvariance, MatchInvariance
<1>. QED BY <1>1, <1>2, <1>3, Invariance, CachedInvariance, PTL DEF Spec, ImplementsRegistry, Registry!RegistrySpec
=============================================================================
