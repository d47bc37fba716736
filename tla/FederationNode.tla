--------------------------- MODULE FederationNode ---------------------------
(***************************************************************************)
(* The stateful facade of federlet (node.py) with the helpers it drives:   *)
(* discovery.py, refresh.py, bootstrap.py and the lifecycle functions of   *)
(* membership.py.  Several asyncio tasks of the host call its operations   *)
(* at the same time.  A step of the model is what one task does up to an   *)
(* await whose effect another task can observe: a read or write of the     *)
(* membership table, of the manifest store, of the in-memory manifest      *)
(* cache, or of the lifecycle lock.                                        *)
(*                                                                         *)
(* Both stores are the durable adapters the facade is meant to be given:   *)
(* they survive a crash and every call on them may suspend the caller.     *)
(***************************************************************************)
EXTENDS ManifestRefresh, FiniteSets

CONSTANTS
  Self,         \* this node's node_id
  Tasks,        \* asyncio tasks of the host that call the facade
  Admissible,   \* the manifests admit_manifest accepts under the local policy
  Rotations,    \* allow_key_rotation of the policies callers pass to refresh
  Operations,   \* the operations the host uses
  Faults,       \* the failures considered: "crash", "abort"
  MaxSeeds,     \* seeds that a bootstrap gets an accepted introduction from
  PerPeerCap,   \* per_peer_cap of discover
  NoNode, NoTask

AllOperations == {"admit_peer", "bootstrap_from_seeds", "discover", "refresh_peer",
                  "refresh_all", "apply_revocation_notice", "clear_record"}

ASSUME NodeAssumption ==
  /\ Self \in Nodes /\ NoNode \notin Nodes /\ NoTask \notin Tasks
  /\ Admissible \subseteq Manifests
  /\ Rotations \subseteq BOOLEAN
  /\ Operations \subseteq AllOperations
  /\ Faults \subseteq {"crash", "abort"}
  /\ MaxSeeds \in Nat /\ PerPeerCap \in Nat

VARIABLES
  membership_table,  \* MembershipStore: the MemberRecord of each node
  manifest_store,    \* ManifestStore: the durable copy of each peer's manifest
  peer_manifests,    \* the in-memory cache inbound requests are verified with
  lifecycle_lock,    \* the task holding _lifecycle_lock, or NoTask
  up,                \* the process runs and hydrate() has been awaited
  task               \* where each task is and its local variables

shared == <<membership_table, manifest_store, peer_manifests, lifecycle_lock, up>>
vars == <<shared, task>>

(* PeerState, with "absent" for a node the table has no record of. *)
States == {"absent", "active", "cooldown", "stale_manifest", "rejected", "revoked"}
MemberRecord == [state : States, rev : Nat]
NoRecord == [state |-> "absent", rev |-> 0]

NoDecision == [action |-> "none", manifest |-> NoManifest]

(***************************************************************************)
(* The local variables of a task.  cur is the node an operation is at, man *)
(* the manifest it is remembering, rec the record it read under the lock;  *)
(* acc are the accepted manifests still to be recorded or remembered; srcs *)
(* the eligible records still to be visited, refs the member references of *)
(* the current source, seen the ones already processed; base are the       *)
(* manifests a refresh was started from and dec the decisions to apply.    *)
(***************************************************************************)
Labels == {"idle", "record", "remember", "persist", "admit",
           "sweep", "fetch", "lookup", "scan", "fetching", "apply",
           "quarantine", "reject", "forget", "delete", "revoke", "mark_revoked"}

Task == [pc   : Labels,
         op   : AllOperations \cup {"none"},
         cur  : Nodes \cup {NoNode},
         man  : MaybeManifest,
         rec  : MemberRecord,
         acc  : SUBSET Manifests,
         srcs : SUBSET Nodes,
         refs : SUBSET Nodes,
         seen : SUBSET Nodes,
         base : [Nodes -> MaybeManifest],
         dec  : [Nodes -> Decision \cup {NoDecision}]]

Idle == [pc |-> "idle", op |-> "none", cur |-> NoNode, man |-> NoManifest,
         rec |-> NoRecord, acc |-> {}, srcs |-> {}, refs |-> {}, seen |-> {},
         base |-> [n \in Nodes |-> NoManifest],
         dec |-> [n \in Nodes |-> NoDecision]]

(* The statements a task executes inside `async with self._lifecycle_lock'. *)
Critical == {"remember", "persist", "admit", "quarantine", "reject",
             "forget", "delete", "mark_revoked"}

TypeOK ==
  /\ membership_table \in [Nodes -> MemberRecord]
  /\ manifest_store \in [Nodes -> MaybeManifest]
  /\ peer_manifests \in [Nodes -> MaybeManifest]
  /\ lifecycle_lock \in Tasks \cup {NoTask}
  /\ up \in BOOLEAN
  /\ task \in [Tasks -> Task]

Init ==
  /\ membership_table = [n \in Nodes |-> NoRecord]
  /\ manifest_store = [n \in Nodes |-> NoManifest]
  /\ peer_manifests = [n \in Nodes |-> NoManifest]
  /\ lifecycle_lock = NoTask
  /\ up = TRUE
  /\ task = [t \in Tasks |-> Idle]

----------------------------------------------------------------------------
(* Helpers *)

(* Fault: the new record is written without the manifest's revision. *)
AdmittedUnversioned(m) == [state |-> "active"]

(* admit(MemberRecord(...)) and set_state(rec, ...) *)
Admitted(m) == [state |-> "active", rev |-> m.rev]
SetState(rec, s) == [rec EXCEPT !.state = s]

(* is_eligible / eligible_peers: the facade itself never sets              *)
(* accepted_until or cooldown_until.                                       *)
EligiblePeers == {n \in Nodes : membership_table[n].state = "active"}

(* verify_known_inbound finds a manifest to verify requests of n with. *)
KnownInbound(n) == up /\ peer_manifests[n] # NoManifest

(* select_peers hands n's manifest to the host for operations. *)
Selected(n) == n \in EligiblePeers /\ KnownInbound(n)

At(t, label) == task[t].pc = label

(* The locals of task t are l from now on. *)
Become(t, l) == task' = [task EXCEPT ![t] = l]
Goto(t, label) == Become(t, [task[t] EXCEPT !.pc = label])

(* A coroutine of the host calls an operation of the facade. *)
Calls(t, op) == up /\ op \in Operations /\ At(t, "idle")

Begin(t, op, label, locals) ==
  Become(t, [locals EXCEPT !.pc = label, !.op = op])

Acquire(t) == lifecycle_lock = NoTask /\ lifecycle_lock' = t
Release == lifecycle_lock' = NoTask

Upsert(n, rec) == membership_table' = [membership_table EXCEPT ![n] = rec]

(* `for m in accepted: await self._record_peer(m)': on to the next one. *)
AfterRecord(l, m) ==
  IF l.acc \ {m} = {} THEN Idle
  ELSE [l EXCEPT !.pc = "record", !.man = NoManifest, !.acc = @ \ {m}]

(* Fault: a decision that was applied is not taken off the list. *)
AfterApplyAgain(l) ==
  LET l1 == [l EXCEPT !.man = NoManifest, !.rec = NoRecord, !.cur = NoNode]
  IN  IF l.cur \in l.srcs
      THEN [l1 EXCEPT !.pc = "scan", !.srcs = @ \ {l.cur}]
      ELSE [l1 EXCEPT !.pc = "apply"]

(***************************************************************************)
(* Where _apply_refresh_decision returns to.  An orphan met by refresh_all *)
(* is still among srcs: its decision stays in the dictionary and the scan  *)
(* goes on.  Otherwise the loop over the dictionary takes the next one.    *)
(***************************************************************************)
AfterApply(l) ==
  LET l1 == [l EXCEPT !.man = NoManifest, !.rec = NoRecord, !.cur = NoNode]
  IN  IF l.cur \in l.srcs
      THEN [l1 EXCEPT !.pc = "scan", !.srcs = @ \ {l.cur}]
      ELSE [l1 EXCEPT !.pc = "apply", !.dec[l.cur] = NoDecision]

----------------------------------------------------------------------------
(* admit_peer and bootstrap_from_seeds *)

(* admit_peer for a manifest the policy accepts and whose URL is known; in *)
(* every other case the operation changes nothing.                         *)
AdmitPeer(t) ==
  /\ Calls(t, "admit_peer")
  /\ \E m \in Admissible : Begin(t, "admit_peer", "record", [Idle EXCEPT !.acc = {m}])
  /\ UNCHANGED shared

(* bootstrap_from_seeds: nothing is recorded before every seed has been    *)
(* fetched, admitted and introduced to; S are the seeds that all three     *)
(* worked for.                                                             *)
BootstrapFromSeeds(t) ==
  /\ Calls(t, "bootstrap_from_seeds")
  /\ \E S \in (SUBSET Admissible) \ {{}} :
       /\ Cardinality(S) <= MaxSeeds
       /\ Begin(t, "bootstrap_from_seeds", "record", [Idle EXCEPT !.acc = S])
  /\ UNCHANGED shared

(* Fault: the early return for a REVOKED record leaves the lock held. *)
RecordPeerKeepsLock(t) ==
  /\ At(t, "record")
  /\ Acquire(t)
  /\ \E m \in task[t].acc :
       /\ membership_table[m.node].state = "revoked"
       /\ Become(t, AfterRecord(task[t], m))
  /\ UNCHANGED <<membership_table, manifest_store, peer_manifests, up>>

(* Fault: a re-admission does not look at the record it replaces. *)
RecordPeerUnchecked(t) ==
  /\ At(t, "record")
  /\ Acquire(t)
  /\ \E m \in task[t].acc : Become(t, [task[t] EXCEPT !.pc = "remember", !.man = m])
  /\ UNCHANGED <<membership_table, manifest_store, peer_manifests, up>>

(* _record_peer, a REVOKED record: the lock is taken and released, nothing *)
(* is remembered.                                                          *)
RecordPeerRevoked(t) ==
  /\ At(t, "record") /\ lifecycle_lock = NoTask
  /\ \E m \in task[t].acc :
       /\ membership_table[m.node].state = "revoked"
       /\ Become(t, AfterRecord(task[t], m))
  /\ UNCHANGED shared

(* _record_peer, any other record: the lock is kept while the manifest is  *)
(* remembered and the record written.                                      *)
RecordPeer(t) ==
  /\ At(t, "record")
  /\ Acquire(t)
  /\ \E m \in task[t].acc :
       /\ membership_table[m.node].state # "revoked"
       /\ Become(t, [task[t] EXCEPT !.pc = "remember", !.man = m])
  /\ UNCHANGED <<membership_table, manifest_store, peer_manifests, up>>

(* _remember_manifest, the assignment to the cache *)
Remember(t) ==
  LET m == task[t].man IN
  /\ At(t, "remember")
  /\ peer_manifests' = [peer_manifests EXCEPT ![m.node] = m]
  /\ Goto(t, "persist")
  /\ UNCHANGED <<membership_table, manifest_store, lifecycle_lock, up>>

(* _remember_manifest, the write-through; a record is written next. *)
Persist(t) ==
  LET m == task[t].man IN
  /\ At(t, "persist") /\ task[t].op # "discover"
  /\ manifest_store' = [manifest_store EXCEPT ![m.node] = m]
  /\ Goto(t, "admit")
  /\ UNCHANGED <<membership_table, peer_manifests, lifecycle_lock, up>>

(* _record_peer, the final upsert *)
RecordUpsert(t) ==
  LET m == task[t].man IN
  /\ At(t, "admit") /\ task[t].op \in {"admit_peer", "bootstrap_from_seeds"}
  /\ Upsert(m.node, Admitted(m))
  /\ Become(t, AfterRecord(task[t], m))
  /\ Release
  /\ UNCHANGED <<manifest_store, peer_manifests, up>>

----------------------------------------------------------------------------
(* discover: refresh_discovered_members runs without the lock *)

Discover(t) ==
  /\ Calls(t, "discover")
  /\ EligiblePeers # {}
  /\ Begin(t, "discover", "sweep", [Idle EXCEPT !.srcs = EligiblePeers])
  /\ UNCHANGED shared

(* One source: a missing manifest or a failed get_members contributes no   *)
(* reference, references past the cap are skipped.                         *)
DiscoverSource(t) ==
  /\ At(t, "sweep") /\ task[t].refs = {}
  /\ \E s \in task[t].srcs, R \in SUBSET Nodes :
       /\ peer_manifests[s] = NoManifest => R = {}
       /\ Cardinality(R) <= PerPeerCap
       /\ Become(t, [task[t] EXCEPT !.srcs = @ \ {s}, !.refs = R])
  /\ UNCHANGED shared

(* A reference is skipped: this node, a peer the table knows, a node_id    *)
(* already processed, or a URL that was (possible once one was processed). *)
DiscoverSkip(t) ==
  /\ At(t, "sweep")
  /\ \E n \in task[t].refs :
       /\ \/ n = Self
          \/ membership_table[n].state # "absent"
          \/ task[t].seen # {}
       /\ Become(t, [task[t] EXCEPT !.refs = @ \ {n}])
  /\ UNCHANGED shared

DiscoverRef(t) ==
  /\ At(t, "sweep")
  /\ \E n \in task[t].refs :
       /\ n # Self
       /\ membership_table[n].state = "absent"
       /\ n \notin task[t].seen
       /\ Become(t, [task[t] EXCEPT !.pc = "fetch", !.cur = n,
                                    !.refs = @ \ {n}, !.seen = @ \cup {n}])
  /\ UNCHANGED shared

(* _process_ref: the fetch failed, the manifest is another node's, or the  *)
(* local policy does not admit it.                                         *)
DiscoverDrop(t) ==
  /\ At(t, "fetch")
  /\ Become(t, [task[t] EXCEPT !.pc = "sweep", !.cur = NoNode])
  /\ UNCHANGED shared

(* _process_ref: the record is written, whatever the table holds by now. *)
DiscoverAdmit(t) ==
  /\ At(t, "fetch")
  /\ \E m \in Admissible :
       /\ m.node = task[t].cur
       /\ Upsert(m.node, Admitted(m))
       /\ Become(t, [task[t] EXCEPT !.pc = "sweep", !.cur = NoNode,
                                    !.acc = @ \cup {m}])
  /\ UNCHANGED <<manifest_store, peer_manifests, lifecycle_lock, up>>

DiscoverSwept(t) ==
  At(t, "sweep") /\ task[t].op = "discover" /\ task[t].srcs = {} /\ task[t].refs = {}

(* The sweep is over: the accepted manifests are remembered one by one,    *)
(* each under the lock.                                                    *)
DiscoverRemember(t) ==
  /\ DiscoverSwept(t)
  /\ Acquire(t)
  /\ \E m \in task[t].acc :
       /\ peer_manifests' = [peer_manifests EXCEPT ![m.node] = m]
       /\ Become(t, [task[t] EXCEPT !.pc = "persist", !.man = m])
  /\ UNCHANGED <<membership_table, manifest_store, up>>

DiscoverPersist(t) ==
  LET m == task[t].man IN
  /\ At(t, "persist") /\ task[t].op = "discover"
  /\ manifest_store' = [manifest_store EXCEPT ![m.node] = m]
  /\ Become(t, [task[t] EXCEPT !.pc = "sweep", !.man = NoManifest,
                               !.acc = @ \ {m}])
  /\ Release
  /\ UNCHANGED <<membership_table, peer_manifests, up>>

DiscoverReturn(t) ==
  /\ DiscoverSwept(t) /\ task[t].acc = {}
  /\ Become(t, Idle)
  /\ UNCHANGED shared

----------------------------------------------------------------------------
(* refresh_peer and refresh_all *)

(* refresh_peer, the read of the record; an unknown peer is left alone. *)
RefreshPeer(t) ==
  /\ Calls(t, "refresh_peer")
  /\ \E n \in Nodes :
       /\ membership_table[n].state # "absent"
       /\ Begin(t, "refresh_peer", "lookup", [Idle EXCEPT !.cur = n])
  /\ UNCHANGED shared

(* refresh_peer, the read of the cache *)
RefreshPeerLookup(t) ==
  LET n == task[t].cur IN
  /\ At(t, "lookup")
  /\ Become(t, IF peer_manifests[n] = NoManifest THEN Idle
                ELSE [task[t] EXCEPT !.pc = "fetching", !.cur = NoNode,
                                     !.base[n] = peer_manifests[n]])
  /\ UNCHANGED shared

RefreshAll(t) ==
  /\ Calls(t, "refresh_all")
  /\ EligiblePeers # {}
  /\ Begin(t, "refresh_all", "scan", [Idle EXCEPT !.srcs = EligiblePeers])
  /\ UNCHANGED shared

Targets(l, P) == [n \in Nodes |-> IF n \in P THEN peer_manifests[n] ELSE l.base[n]]

(* refresh_all, the loop that collects the targets, up to an eligible peer *)
(* without a manifest: its "unknown_peer" rejection is applied on the spot *)
(* and also kept in the dictionary.  P are the records listed before it.   *)
RefreshAllOrphan(t) ==
  /\ At(t, "scan")
  /\ \E n \in task[t].srcs, P \in SUBSET (task[t].srcs) :
       /\ peer_manifests[n] = NoManifest
       /\ \A p \in P : peer_manifests[p] # NoManifest
       /\ Become(t, [task[t] EXCEPT !.pc = "apply", !.cur = n, !.srcs = @ \ P,
                                    !.base = Targets(task[t], P),
                                    !.dec[n] = [action |-> "reject", manifest |-> NoManifest]])
  /\ UNCHANGED shared

(* refresh_all, the same loop when every record left has a manifest *)
RefreshAllTargets(t) ==
  /\ At(t, "scan")
  /\ \A n \in task[t].srcs : peer_manifests[n] # NoManifest
  /\ Become(t, [task[t] EXCEPT !.pc = "fetching", !.srcs = {},
                               !.base = Targets(task[t], task[t].srcs)])
  /\ UNCHANGED shared

(* The awaited fetches: every target gets a decision against the manifest  *)
(* it had when the refresh began.                                          *)
RefreshDecided(t) ==
  LET targets == {n \in Nodes : task[t].base[n] # NoManifest} IN
  /\ At(t, "fetching")
  /\ \E rotation \in Rotations, d \in [targets -> Decision] :
       /\ \A n \in targets : d[n] \in RefreshPeerManifest(task[t].base[n], rotation)
       /\ Become(t, [task[t] EXCEPT !.pc = "apply", !.base = Idle.base,
                                    !.dec = [n \in Nodes |-> IF n \in targets THEN d[n]
                                                             ELSE task[t].dec[n]]])
  /\ UNCHANGED shared

(* The awaited fetches: one raises what refresh_peer_manifest re-raises,   *)
(* and with it the whole operation, decisions about other peers included.  *)
RefreshRaised(t) ==
  /\ At(t, "fetching")
  /\ \E n \in Nodes : task[t].base[n] # NoManifest
  /\ Become(t, Idle)
  /\ UNCHANGED shared

Undone(l) == IF l.srcs # {} THEN {l.cur} ELSE {n \in Nodes : l.dec[n] # NoDecision}

(* Fault: a decision is applied without the lock. *)
ApplyRefreshDecisionUnlocked(t) ==
  /\ At(t, "apply")
  /\ \E n \in Undone(task[t]) :
       LET d == task[t].dec[n] IN
       Become(t, [task[t] EXCEPT !.cur = n, !.rec = membership_table[n], !.man = d.manifest,
                                 !.pc = IF d.action \in {"accept", "unchanged"}
                                        THEN "remember" ELSE d.action])
  /\ UNCHANGED shared

(* _apply_refresh_decision, the read of the record under the lock *)
ApplyRefreshDecision(t) ==
  /\ At(t, "apply")
  /\ Acquire(t)
  /\ \E n \in Undone(task[t]) :
       LET d == task[t].dec[n] IN
       Become(t, [task[t] EXCEPT !.cur = n, !.rec = membership_table[n], !.man = d.manifest,
                                 !.pc = IF d.action \in {"accept", "unchanged"}
                                        THEN "remember" ELSE d.action])
  /\ UNCHANGED <<membership_table, manifest_store, peer_manifests, up>>

(* Fault: the record keeps the revision it had. *)
ApplyAdmitUnversioned(t) ==
  LET l == task[t] IN
  /\ At(t, "admit") /\ l.op \in {"refresh_peer", "refresh_all"}
  /\ IF l.rec.state = "absent" THEN UNCHANGED membership_table
     ELSE Upsert(l.cur, SetState(l.rec, "active"))
  /\ Become(t, AfterApply(task[t]))
  /\ Release
  /\ UNCHANGED <<manifest_store, peer_manifests, up>>

(* accept or unchanged: after _remember_manifest, admit(rec) is written    *)
(* back with the new revision, if there was a record.                      *)
ApplyAdmit(t) ==
  LET l == task[t] IN
  /\ At(t, "admit") /\ l.op \in {"refresh_peer", "refresh_all"}
  /\ IF l.rec.state = "absent" THEN UNCHANGED membership_table
     ELSE Upsert(l.cur, Admitted(l.man))
  /\ Become(t, AfterApply(task[t]))
  /\ Release
  /\ UNCHANGED <<manifest_store, peer_manifests, up>>

ApplyQuarantine(t) ==
  LET l == task[t] IN
  /\ At(t, "quarantine")
  /\ IF l.rec.state = "absent" THEN UNCHANGED membership_table
     ELSE Upsert(l.cur, SetState(l.rec, "stale_manifest"))
  /\ Become(t, AfterApply(task[t]))
  /\ Release
  /\ UNCHANGED <<manifest_store, peer_manifests, up>>

(* Fault: a rejection evicts the manifest and leaves the record ACTIVE. *)
ApplyRejectEvictsOnly(t) ==
  /\ At(t, "reject")
  /\ Goto(t, "forget")
  /\ UNCHANGED shared

ApplyReject(t) ==
  LET l == task[t] IN
  /\ At(t, "reject")
  /\ IF l.rec.state = "absent" THEN UNCHANGED membership_table
     ELSE Upsert(l.cur, SetState(l.rec, "rejected"))
  /\ Goto(t, "forget")
  /\ UNCHANGED <<manifest_store, peer_manifests, lifecycle_lock, up>>

RefreshReturn(t) ==
  /\ At(t, "apply") /\ Undone(task[t]) = {}
  /\ Become(t, Idle)
  /\ UNCHANGED shared

(* _forget_manifest, the cache; shared by reject and revoke *)
Forget(t) ==
  /\ At(t, "forget")
  /\ peer_manifests' = [peer_manifests EXCEPT ![task[t].cur] = NoManifest]
  /\ Goto(t, "delete")
  /\ UNCHANGED <<membership_table, manifest_store, lifecycle_lock, up>>

(* Fault: the durable copy is left behind. *)
DeleteNothing(t) ==
  /\ At(t, "delete")
  /\ Become(t, IF task[t].op = "apply_revocation_notice" THEN Idle ELSE AfterApply(task[t]))
  /\ Release
  /\ UNCHANGED <<membership_table, manifest_store, peer_manifests, up>>

(* _forget_manifest, the durable copy *)
Delete(t) ==
  /\ At(t, "delete")
  /\ manifest_store' = [manifest_store EXCEPT ![task[t].cur] = NoManifest]
  /\ Become(t, IF task[t].op = "apply_revocation_notice" THEN Idle ELSE AfterApply(task[t]))
  /\ Release
  /\ UNCHANGED <<membership_table, peer_manifests, up>>

----------------------------------------------------------------------------
(* apply_revocation_notice *)

ApplyRevocationNotice(t) ==
  /\ Calls(t, "apply_revocation_notice")
  /\ \E n \in Nodes :
       Begin(t, "apply_revocation_notice", "revoke", [Idle EXCEPT !.cur = n])
  /\ UNCHANGED shared

(* The notice passes the federation, signature and authorization gates. *)
RevocationTrusted(t) ==
  LET n == task[t].cur IN
  /\ At(t, "revoke")
  /\ membership_table[n].state # "absent"
  /\ Acquire(t)
  /\ Become(t, [task[t] EXCEPT !.pc = "mark_revoked", !.rec = membership_table[n]])
  /\ UNCHANGED <<membership_table, manifest_store, peer_manifests, up>>

(* It does not, but the state returned is REVOKED: the facade evicts the   *)
(* manifest again.                                                         *)
RevocationRepeated(t) ==
  /\ At(t, "revoke")
  /\ membership_table[task[t].cur].state = "revoked"
  /\ Acquire(t)
  /\ Goto(t, "forget")
  /\ UNCHANGED <<membership_table, manifest_store, peer_manifests, up>>

(* Unknown node, or a notice that fails a gate: nothing changes. *)
RevocationIgnored(t) ==
  /\ At(t, "revoke") /\ lifecycle_lock = NoTask
  /\ membership_table[task[t].cur].state # "revoked"
  /\ Become(t, Idle)
  /\ UNCHANGED shared

MarkRevoked(t) ==
  LET l == task[t] IN
  /\ At(t, "mark_revoked")
  /\ Upsert(l.cur, SetState(l.rec, "revoked"))
  /\ Goto(t, "forget")
  /\ UNCHANGED <<manifest_store, peer_manifests, lifecycle_lock, up>>

----------------------------------------------------------------------------
(* The host and its failures *)

(* An operator clears a record: membership_table.delete(node_id). *)
ClearRecord ==
  /\ up /\ "clear_record" \in Operations
  /\ \E n \in Nodes :
       /\ membership_table[n].state # "absent"
       /\ Upsert(n, NoRecord)
  /\ UNCHANGED <<manifest_store, peer_manifests, lifecycle_lock, up, task>>

(* A store call raises, or the host cancels the task at an await: the      *)
(* operation unwinds through `async with' and its locals are lost.         *)
Abort(t) ==
  /\ "abort" \in Faults
  /\ ~At(t, "idle")
  /\ Become(t, Idle)
  /\ lifecycle_lock' = IF lifecycle_lock = t THEN NoTask ELSE lifecycle_lock
  /\ UNCHANGED <<membership_table, manifest_store, peer_manifests, up>>

(* The process dies: what is left is what the two stores hold. *)
Crash ==
  /\ up /\ "crash" \in Faults
  /\ up' = FALSE
  /\ peer_manifests' = [n \in Nodes |-> NoManifest]
  /\ lifecycle_lock' = NoTask
  /\ task' = [t \in Tasks |-> Idle]
  /\ UNCHANGED <<membership_table, manifest_store>>

(* hydrate, first thing `async with node' does after a restart; also a     *)
(* no-op while the cache is not empty.                                     *)
Hydrate ==
  /\ lifecycle_lock = NoTask
  /\ \A n \in Nodes : peer_manifests[n] = NoManifest
  /\ peer_manifests' = manifest_store
  /\ up' = TRUE
  /\ UNCHANGED <<membership_table, manifest_store, lifecycle_lock, task>>

----------------------------------------------------------------------------
(* A host task starts an operation. *)
Start(t) ==
  \/ AdmitPeer(t) \/ BootstrapFromSeeds(t) \/ Discover(t)
  \/ RefreshPeer(t) \/ RefreshAll(t) \/ ApplyRevocationNotice(t)

(* It takes the lifecycle lock. *)
TakeLock(t) ==
  \/ RecordPeerRevoked(t) \/ RecordPeer(t) \/ DiscoverRemember(t)
  \/ ApplyRefreshDecision(t)
  \/ RevocationTrusted(t) \/ RevocationRepeated(t) \/ RevocationIgnored(t)

(* It takes any other step of its operation. *)
Step(t) ==
  \/ Remember(t) \/ Persist(t) \/ RecordUpsert(t)
  \/ DiscoverSource(t) \/ DiscoverSkip(t) \/ DiscoverRef(t)
  \/ DiscoverDrop(t) \/ DiscoverAdmit(t) \/ DiscoverPersist(t) \/ DiscoverReturn(t)
  \/ RefreshPeerLookup(t) \/ RefreshAllOrphan(t) \/ RefreshAllTargets(t)
  \/ RefreshDecided(t) \/ RefreshRaised(t)
  \/ ApplyAdmit(t) \/ ApplyQuarantine(t) \/ ApplyReject(t) \/ RefreshReturn(t)
  \/ Forget(t) \/ Delete(t) \/ MarkRevoked(t)

Next ==
  \/ \E t \in Tasks : Start(t) \/ TakeLock(t) \/ Step(t) \/ Abort(t)
  \/ ClearRecord \/ Crash \/ Hydrate

Spec == Init /\ [][Next]_vars
----------------------------------------------------------------------------
(* Properties *)

Revoked(n) == membership_table[n].state = "revoked"
Cleared(n) == membership_table'[n].state = "absent"

(* Write-through: whenever no task is inside the lifecycle lock, the cache *)
(* inbound requests are verified with and the durable copy hydrate() reads *)
(* after a restart hold the same manifests (_remember_manifest and         *)
(* _forget_manifest write both).  Crashes included: an interrupted update  *)
(* is repaired by the hydration.                                           *)
WriteThrough ==
  up /\ lifecycle_lock = NoTask => peer_manifests = manifest_store

(* An operation in flight may still bring node n back: a discovery that    *)
(* found it unknown, a refresh that started from its manifest or listed it *)
(* as eligible.                                                            *)
Carries(l, n) ==
  \/ l.op = "discover" /\ (l.cur = n \/ \E m \in l.acc : m.node = n)
  \/ l.op \in {"refresh_peer", "refresh_all"}
       /\ (l.base[n] # NoManifest \/ l.dec[n] # NoDecision \/ n \in l.srcs)

(* Node n is revoked, no manifest of it is left, and nothing in flight     *)
(* carries it.                                                             *)
Quiet(n) ==
  /\ Revoked(n)
  /\ peer_manifests[n] = NoManifest
  /\ manifest_store[n] = NoManifest
  /\ \A t \in Tasks : ~Carries(task[t], n)

(* A revocation that has gone quiet is for ever: no admission, bootstrap,  *)
(* discovery, refresh, repeated notice, restart or failure makes the node  *)
(* known again.  Only an operator who clears the record does               *)
(* (_record_peer: "Revocation is sticky").                                 *)
QuietIsForever == [][\A n \in Nodes : Quiet(n) => Quiet(n)' \/ Cleared(n)]_vars

(* select_peers leaves no ACTIVE peer out: the manifest of each is cached,  *)
(* or the discovery that admitted it is still to remember it.  Otherwise   *)
(* the record is an orphan: discovery skips it as an existing peer and     *)
(* refresh_all rejects it as unknown.                                      *)
NoOrphanActive ==
  up => \A n \in EligiblePeers :
    \/ Selected(n)
    \/ \E t \in Tasks : task[t].op = "discover" /\ \E m \in task[t].acc : m.node = n

(* A refresh does not run the admission policy again, so who a cached      *)
(* manifest speaks for must be settled by check_key_continuity: node and   *)
(* organisation are always ones the local policy has admitted together.    *)
IdentityAdmitted ==
  \A n \in Nodes : peer_manifests[n] # NoManifest =>
    \E a \in Admissible : a.node = n /\ a.org = peer_manifests[n].org

(* "REVOKED stays terminal until an operator clears the record"            *)
(* (_record_peer).                                                         *)
RevokedIsTerminal == [][\A n \in Nodes : Revoked(n) => Revoked(n)' \/ Cleared(n)]_vars

(* Once apply_revocation_notice has released the lock, no request of the   *)
(* revoked node verifies against a cached manifest.                        *)
RevokedNotServed ==
  lifecycle_lock = NoTask => \A n \in Nodes : Revoked(n) => ~KnownInbound(n)

(* "rejected/revoked peers do not survive restart through a stale          *)
(* persisted manifest" (CHANGELOG, ManifestStore).                         *)
EvictedStayOut ==
  lifecycle_lock = NoTask =>
    \A n \in Nodes : membership_table[n].state \in {"rejected", "revoked"} => ~KnownInbound(n)

(* As long as discovery, which writes records outside the lock, is not     *)
(* used: whenever no task is inside the lock, an ACTIVE record carries the *)
(* revision of the manifest requests are verified with, whatever           *)
(* admissions, refreshes and revocations have overlapped.                  *)
RecordMatchesManifest ==
  lifecycle_lock = NoTask =>
    \A n \in EligiblePeers : peer_manifests[n] # NoManifest =>
      membership_table[n].rev = peer_manifests[n].rev

(* For a host that calls one operation at a time: a refresh never puts a   *)
(* manifest in the cache that rolls the revision back or changes the       *)
(* organisation (refresh_peer_manifest: "revision_rollback").              *)
RefreshMovesForward ==
  [][\A t \in Tasks : At(t, "remember") /\ task[t].op \in {"refresh_peer", "refresh_all"} =>
       \A n \in Nodes :
         LET old == peer_manifests[n]
             new == peer_manifests'[n]
         IN  old # NoManifest /\ new # NoManifest =>
               new.node = old.node /\ new.org = old.org /\ new.rev >= old.rev]_vars

(***************************************************************************)
(* What an operation has left to do, its loops outermost first: records to *)
(* visit, references of the current one, what is awaited before manifests  *)
(* are accepted or decisions made, manifests to record or remember,        *)
(* decisions to apply, and the statements of the current one.              *)
(***************************************************************************)
Decided(l) == {n \in Nodes : l.dec[n] # NoDecision}

ToAwait(l) ==
  CASE l.pc = "lookup" -> 3
    [] l.pc = "scan" -> 2
    [] l.pc \in {"fetch", "fetching"} -> 1
    [] OTHER -> 0

ToWrite(l) ==
  CASE l.pc = "idle" -> 0
    [] l.pc = "quarantine" -> 1
    [] l.pc \in {"admit", "delete"} -> 2
    [] l.pc \in {"persist", "forget"} -> 3
    [] l.pc \in {"remember", "reject", "mark_revoked"} -> 4
    [] OTHER -> 5

Within(S, T) == S \subseteq T /\ S # T

(* With locals k there is less left to do than with l. *)
Nearer(k, l) ==
  \/ Within(k.srcs, l.srcs)
  \/ k.srcs = l.srcs /\
     \/ Within(k.refs, l.refs)
     \/ k.refs = l.refs /\
        \/ ToAwait(k) < ToAwait(l)
        \/ ToAwait(k) = ToAwait(l) /\
           \/ Within(k.acc, l.acc)
           \/ k.acc = l.acc /\
              \/ Within(Decided(k), Decided(l))
              \/ Decided(k) = Decided(l) /\ ToWrite(k) < ToWrite(l)

(* Every step of an operation brings it nearer to its return, whatever the *)
(* other tasks do: no record, reference, manifest or decision that a loop  *)
(* of discover, bootstrap_from_seeds or refresh_all has dealt with comes   *)
(* back.                                                                   *)
OperationsAdvance ==
  [][\A t \in Tasks : ~At(t, "idle") /\ task'[t] # task[t] => Nearer(task'[t], task[t])]_vars
=============================================================================
