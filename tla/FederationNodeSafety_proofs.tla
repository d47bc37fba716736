--------------------- MODULE FederationNodeSafety_proofs ---------------------
(***************************************************************************)
(* The safety properties of FederationNode, for every number of nodes,     *)
(* tasks and manifests.                                                    *)
(*                                                                         *)
(* Every proof needs the same facts about the steps of a task, so they are *)
(* stated once: a step either only reads (Reads: it changes its locals, at *)
(* most takes the lock, and leaves the table, the cache and the store) or  *)
(* is one of a dozen writes (Writes).  Each theorem then has its own       *)
(* inductive invariant over the locals of one task and the stores.         *)
(***************************************************************************)
EXTENDS FederationNode_proofs, FiniteSetTheorems, WellFoundedInduction

(* A decision of the refresh that remembers its manifest *)
Accepting(d) == d.action \in {"accept", "unchanged"}

(* A refresh collects what it starts from before it decides anything, and  *)
(* decides everything at once.                                             *)
Undecided(l) == \A n \in Nodes : ~Accepting(l.dec[n])
Settled(l) == \A n \in Nodes : l.base[n] = NoManifest

DecidesOnce(l) ==
  /\ (l.pc \in {"lookup", "scan"} \/ l.srcs # {}) => Undecided(l)
  /\ Undecided(l) \/ Settled(l)

(* What the locals k of a task may be after a step that writes neither     *)
(* store nor the cache, if they were l before.                             *)
ReadLocals(l, k) ==
  /\ k \in Task
  /\ l.pc \notin Critical /\ k.pc \notin {"persist", "admit", "delete"}
  /\ k.pc \in Critical /\ k.op \in RefreshOps => k.rec = membership_table[k.cur]
  /\ k.pc = "forget" => Revoked(k.cur)
  /\ k.op \in {l.op, "none"} \cup Operations
  /\ DecidesOnce(l) => DecidesOnce(k)
  /\ \/ k.op = l.op /\ (l.op \in RefreshOps \/ (k.base = l.base /\ k.dec = l.dec))
     \/ \A n \in Nodes : k.base[n] = NoManifest /\ ~Accepting(k.dec[n])
  /\ l.op = "discover" => l.acc = {} \/ (k.op = "discover" /\ k.acc = l.acc)
  /\ k.acc \subseteq l.acc \cup Admissible
  /\ k.pc = "remember" => \/ k.op \in RecordOps /\ k.man \in l.acc
                          \/ k.op \in RefreshOps /\ k.dec = l.dec /\ Accepting(l.dec[k.cur]) /\ k.man = l.dec[k.cur].manifest
  /\ \A n \in Nodes : k.base[n] \in {NoManifest, l.base[n], peer_manifests[n]}
  /\ \A n \in Nodes : Accepting(k.dec[n]) =>
       \/ k.dec[n] = l.dec[n]
       \/ /\ l.base[n] # NoManifest /\ k.dec[n].manifest \in Manifests
          /\ k.dec[n].manifest.node = l.base[n].node /\ k.dec[n].manifest.org = l.base[n].org
          /\ k.dec[n].manifest.rev >= l.base[n].rev
  /\ \A n \in Nodes : Revoked(n) /\ peer_manifests[n] = NoManifest /\ Carries(k, n) => Carries(l, n)

(* What the steps that only read leave alone *)
Stores == <<membership_table, manifest_store, peer_manifests, up>>

Reads(t) == OthersStay(t) /\ ReadLocals(task[t], task'[t]) /\ UNCHANGED Stores

(* A task that runs no operation carries no node. *)
LEMMA IdleCarriesNothing == \A n \in Nodes : ~Carries(Idle, n)
BY DEF Carries, Idle

(* A task that returns or gives up outside of the lock only reads. *)
LEMMA IdleReads ==
  ASSUME IInv, NEW t \in Tasks, Become(t, Idle), task[t].pc \notin Critical,
         task[t].op = "discover" => task[t].acc = {}, UNCHANGED Stores
  PROVE  Reads(t)
<1>1. task'[t] = Idle /\ OthersStay(t)
  BY Becoming
<1>2. ReadLocals(task[t], Idle)
  BY IdleOK, IdleCarriesNothing DEF ReadLocals, Idle, TaskOK, Critical, NoDecision, Accepting, DecidesOnce, Undecided
<1>. QED BY <1>1, <1>2 DEF Reads

(* The first statement of every operation of node.py only reads. *)
LEMMA StartReads ==
  ASSUME IInv, NEW t \in Tasks, Start(t)
  PROVE  Reads(t)
<1>1. TaskOK(task[t]) /\ task[t].pc = "idle" /\ task[t].op = "none"
  BY DEF IInv, TasksOK, TaskOK, OpOK, Start, AdmitPeer, BootstrapFromSeeds, Discover, RefreshPeer,
         RefreshAll, ApplyRevocationNotice, Calls, At
<1>2. UNCHANGED Stores
  BY DEF Start, AdmitPeer, BootstrapFromSeeds, Discover, RefreshPeer,
         RefreshAll, ApplyRevocationNotice, shared, Stores
<1>3. ASSUME NEW k \in Task, Become(t, k), k.acc \in SUBSET Admissible, k.base = Idle.base, k.dec = Idle.dec,
             k.pc \in {"record", "sweep", "lookup", "scan", "revoke"}, k.op \in Operations,
             k.srcs \subseteq EligiblePeers, k.op = "discover" => k.cur = NoNode /\ k.acc = {}
      PROVE  Reads(t)
  <2>1. task'[t] = k /\ OthersStay(t)
    BY <1>3, Becoming
  <2>2. \A n \in Nodes : k.base[n] = NoManifest /\ ~Accepting(k.dec[n])
    <3>1. \A n \in Nodes : Idle.base[n] = NoManifest /\ ~Accepting(Idle.dec[n])
      BY DEF Idle, NoDecision, Accepting
    <3>. QED BY <1>3, <3>1
  <2>3. \A n \in Nodes : Revoked(n) => ~Carries(k, n)
    <3>1. \A n \in Nodes : Idle.dec[n] = NoDecision
      BY DEF Idle
    <3>. QED BY <1>3, <2>2, <3>1, NodeAssumption DEF Carries, EligiblePeers, Revoked
  <2>4. ReadLocals(task[t], k)
    BY <1>1, <1>3, <2>2, <2>3 DEF ReadLocals, Critical, DecidesOnce, Undecided
  <2>. QED BY <1>2, <2>1, <2>4 DEF Reads
<1>4. CASE AdmitPeer(t)
  <2>1. PICK m \in Admissible : Begin(t, "admit_peer", "record", [Idle EXCEPT !.acc = {m}])
    BY <1>4 DEF AdmitPeer
  <2> DEFINE k == [[Idle EXCEPT !.acc = {m}] EXCEPT !.pc = "record", !.op = "admit_peer"]
  <2>2. /\ k \in Task /\ k.acc = {m} /\ k.base = Idle.base /\ k.dec = Idle.dec /\ k.pc = "record" /\ k.op \in Operations
        /\ k.srcs \subseteq EligiblePeers /\ (k.op = "discover" => k.cur = NoNode /\ k.acc = {})
    <3>1. {m} \in SUBSET Manifests
      BY NodeAssumption
    <3>2. "admit_peer" \in Operations /\ "admit_peer" \in AllOperations /\ Idle \in Task
      BY <1>4, IdleOK DEF AdmitPeer, Calls, AllOperations, TaskOK
    <3>. QED BY <3>1, <3>2 DEF Task, Labels, Idle
  <2>. QED BY <1>3, <2>1, <2>2 DEF Begin
<1>5. CASE BootstrapFromSeeds(t)
  <2>1. PICK S \in SUBSET Admissible : Begin(t, "bootstrap_from_seeds", "record", [Idle EXCEPT !.acc = S])
    BY <1>5 DEF BootstrapFromSeeds
  <2> DEFINE k == [[Idle EXCEPT !.acc = S] EXCEPT !.pc = "record", !.op = "bootstrap_from_seeds"]
  <2>2. /\ k \in Task /\ k.acc = S /\ k.base = Idle.base /\ k.dec = Idle.dec /\ k.pc = "record" /\ k.op \in Operations
        /\ k.srcs \subseteq EligiblePeers /\ (k.op = "discover" => k.cur = NoNode /\ k.acc = {})
    BY <1>5, IdleOK, NodeAssumption DEF TaskOK, Task, Labels, AllOperations, Idle, BootstrapFromSeeds, Calls
  <2>. QED BY <1>3, <2>1, <2>2 DEF Begin
<1>6. CASE Discover(t)
  <2> DEFINE k == [[Idle EXCEPT !.srcs = EligiblePeers] EXCEPT !.pc = "sweep", !.op = "discover"]
  <2>2. /\ k \in Task /\ k.acc = {} /\ k.base = Idle.base /\ k.dec = Idle.dec /\ k.pc = "sweep" /\ k.op \in Operations
        /\ k.srcs \subseteq EligiblePeers /\ (k.op = "discover" => k.cur = NoNode /\ k.acc = {})
    BY <1>6, IdleOK DEF TaskOK, Task, Labels, AllOperations, Idle, EligiblePeers, Discover, Calls
  <2>. QED BY <1>3, <1>6, <2>2 DEF Discover, Begin
<1>7. CASE RefreshPeer(t)
  <2>1. PICK n \in Nodes : Begin(t, "refresh_peer", "lookup", [Idle EXCEPT !.cur = n])
    BY <1>7 DEF RefreshPeer
  <2> DEFINE k == [[Idle EXCEPT !.cur = n] EXCEPT !.pc = "lookup", !.op = "refresh_peer"]
  <2>2. /\ k \in Task /\ k.acc = {} /\ k.base = Idle.base /\ k.dec = Idle.dec /\ k.pc = "lookup" /\ k.op \in Operations
        /\ k.srcs \subseteq EligiblePeers /\ (k.op = "discover" => k.cur = NoNode /\ k.acc = {})
    BY <1>7, IdleOK DEF TaskOK, Task, Labels, AllOperations, Idle, RefreshPeer, Calls
  <2>. QED BY <1>3, <2>1, <2>2 DEF Begin
<1>8. CASE RefreshAll(t)
  <2> DEFINE k == [[Idle EXCEPT !.srcs = EligiblePeers] EXCEPT !.pc = "scan", !.op = "refresh_all"]
  <2>2. /\ k \in Task /\ k.acc = {} /\ k.base = Idle.base /\ k.dec = Idle.dec /\ k.pc = "scan" /\ k.op \in Operations
        /\ k.srcs \subseteq EligiblePeers /\ (k.op = "discover" => k.cur = NoNode /\ k.acc = {})
    BY <1>8, IdleOK DEF TaskOK, Task, Labels, AllOperations, Idle, EligiblePeers, RefreshAll, Calls
  <2>. QED BY <1>3, <1>8, <2>2 DEF RefreshAll, Begin
<1>9. CASE ApplyRevocationNotice(t)
  <2>1. PICK n \in Nodes : Begin(t, "apply_revocation_notice", "revoke", [Idle EXCEPT !.cur = n])
    BY <1>9 DEF ApplyRevocationNotice
  <2> DEFINE k == [[Idle EXCEPT !.cur = n] EXCEPT !.pc = "revoke", !.op = "apply_revocation_notice"]
  <2>2. /\ k \in Task /\ k.acc = {} /\ k.base = Idle.base /\ k.dec = Idle.dec /\ k.pc = "revoke" /\ k.op \in Operations
        /\ k.srcs \subseteq EligiblePeers /\ (k.op = "discover" => k.cur = NoNode /\ k.acc = {})
    BY <1>9, IdleOK DEF TaskOK, Task, Labels, AllOperations, Idle, ApplyRevocationNotice, Calls
  <2>. QED BY <1>3, <2>1, <2>2 DEF Begin
<1>. QED BY <1>4, <1>5, <1>6, <1>7, <1>8, <1>9 DEF Start

(* So does taking the lifecycle lock: what was read before is read again   *)
(* under it, the revocation check of _record_peer and the record           *)
(* _apply_refresh_decision works on included. DiscoverRemember, which      *)
(* writes the cache in the same step, is a write.                          *)
LEMMA LockReads ==
  ASSUME IInv, NEW t \in Tasks,
         RecordPeerRevoked(t) \/ RecordPeer(t) \/ ApplyRefreshDecision(t)
           \/ RevocationTrusted(t) \/ RevocationRepeated(t) \/ RevocationIgnored(t)
  PROVE  Reads(t)
<1>1. TaskOK(task[t]) /\ task[t].pc \in {"record", "apply", "revoke"} /\ task[t] \in Task
  BY DEF IInv, TasksOK, TaskOK, OpOK, RecordPeerRevoked, RecordPeer, ApplyRefreshDecision,
         RevocationTrusted, RevocationRepeated, RevocationIgnored, At
<1>2. UNCHANGED Stores
  BY DEF RecordPeerRevoked, RecordPeer, ApplyRefreshDecision,
         RevocationTrusted, RevocationRepeated, RevocationIgnored, shared, Stores
<1>3. /\ task[t].pc = "record" => task[t].op \in RecordOps
      /\ task[t].pc = "apply" => task[t].op \in RefreshOps
      /\ task[t].pc = "revoke" => task[t].op = "apply_revocation_notice" /\ task[t].cur \in Nodes
  BY <1>1 DEF TaskOK, OpOK, LocalsOK
<1>4. ASSUME NEW p \in Labels, NEW m \in MaybeManifest, NEW c \in Nodes \cup {NoNode}, NEW r \in MemberRecord,
             NEW a \in SUBSET task[t].acc, p \notin {"persist", "admit", "delete", "lookup", "scan"},
             Become(t, [task[t] EXCEPT !.pc = p, !.man = m, !.cur = c, !.rec = r, !.acc = a]),
             task[t].op \in RefreshOps /\ p \in Critical => r = membership_table[c],
             p = "forget" => Revoked(c),
             p = "remember" => \/ task[t].op \in RecordOps /\ m \in task[t].acc
                               \/ task[t].op \in RefreshOps /\ Accepting(task[t].dec[c]) /\ m = task[t].dec[c].manifest
      PROVE  Reads(t)
  <2> DEFINE k == [task[t] EXCEPT !.pc = p, !.man = m, !.cur = c, !.rec = r, !.acc = a]
  <2>1. task'[t] = k /\ OthersStay(t)
    BY <1>4, Becoming
  <2>2. /\ k \in Task /\ k.pc = p /\ k.man = m /\ k.cur = c /\ k.rec = r /\ k.acc = a
        /\ k.srcs = task[t].srcs /\ k.op = task[t].op /\ k.base = task[t].base /\ k.dec = task[t].dec
    BY <1>1 DEF Task
  <2>. HIDE DEF k
  <2>3. ReadLocals(task[t], k)
    BY <1>1, <1>3, <1>4, <2>2 DEF ReadLocals, Critical, RecordOps, RefreshOps, DecidesOnce, Undecided, Settled, Carries
  <2>. QED BY <1>2, <2>1, <2>3 DEF Reads
<1>5. CASE RecordPeerRevoked(t)
  <2>1. PICK m \in task[t].acc : Become(t, AfterRecord(task[t], m))
    BY <1>5 DEF RecordPeerRevoked
  <2>2. CASE task[t].acc \ {m} = {}
    BY <1>1, <1>2, <1>3, <1>5, <2>1, <2>2, IdleReads DEF AfterRecord, Critical, RecordPeerRevoked, At, RecordOps
  <2>3. CASE task[t].acc \ {m} # {}
    <3>1. Become(t, [task[t] EXCEPT !.pc = "record", !.man = NoManifest, !.cur = task[t].cur, !.rec = task[t].rec, !.acc = task[t].acc \ {m}])
      BY <1>1, <2>1, <2>3 DEF AfterRecord, Task
    <3>2. /\ "record" \in Labels /\ NoManifest \in MaybeManifest /\ "record" \notin Critical
          /\ task[t].cur \in Nodes \cup {NoNode} /\ task[t].rec \in MemberRecord
          /\ task[t].acc \ {m} \in SUBSET task[t].acc
          /\ "record" \notin {"persist", "admit", "delete", "forget", "remember", "lookup", "scan"}
      BY <1>1 DEF Task, Labels, MaybeManifest, Critical
    <3>. QED BY <1>4, <3>1, <3>2
  <2>. QED BY <2>2, <2>3
<1>6. CASE RecordPeer(t)
  <2>1. PICK m \in task[t].acc : Become(t, [task[t] EXCEPT !.pc = "remember", !.man = m])
    BY <1>6 DEF RecordPeer
  <2>2. Become(t, [task[t] EXCEPT !.pc = "remember", !.man = m, !.cur = task[t].cur, !.rec = task[t].rec, !.acc = task[t].acc])
    BY <1>1, <2>1 DEF Task
  <2>3. task[t].op \in RecordOps /\ task[t].op \notin RefreshOps
    BY <1>3, <1>6 DEF RecordPeer, At, RecordOps, RefreshOps
  <2>. QED BY <1>1, <1>4, <2>2, <2>3 DEF Task, Labels, MaybeManifest
<1>7. CASE ApplyRefreshDecision(t)
  <2>1. PICK n \in Undone(task[t]) :
          Become(t, [task[t] EXCEPT !.cur = n, !.rec = membership_table[n], !.man = task[t].dec[n].manifest,
                                    !.pc = IF task[t].dec[n].action \in {"accept", "unchanged"}
                                           THEN "remember" ELSE task[t].dec[n].action])
    BY <1>7 DEF ApplyRefreshDecision
  <2> DEFINE p == IF task[t].dec[n].action \in {"accept", "unchanged"} THEN "remember" ELSE task[t].dec[n].action
  <2>2. n \in Nodes /\ task[t].dec[n] # NoDecision /\ task[t].pc = "apply"
    BY <1>1, <1>7, <2>1 DEF ApplyRefreshDecision, At, Undone, TaskOK, LocalsOK, Task
  <2>3. task[t].dec[n] \in Decision
    BY <1>1, <2>2 DEF Task
  <2>4. p \in {"remember", "quarantine", "reject"} /\ (p = "remember" => Accepting(task[t].dec[n]))
    BY <2>3 DEF Decision, Actions, Accepting
  <2>5. task[t].dec[n].manifest \in MaybeManifest /\ membership_table[n] \in MemberRecord
    BY <2>2, <2>3 DEF Decision, IInv, SharedTypeOK
  <2>6. Become(t, [task[t] EXCEPT !.pc = p, !.man = task[t].dec[n].manifest, !.cur = n, !.rec = membership_table[n], !.acc = task[t].acc])
    BY <1>1, <2>1 DEF Task
  <2>7. p \in Labels /\ p \notin {"persist", "admit", "delete", "lookup", "scan", "forget"}
    BY <2>4 DEF Labels
  <2>8. task[t].op \in RefreshOps /\ task[t].acc \in SUBSET task[t].acc /\ n \in Nodes \cup {NoNode}
    BY <1>3, <2>2
  <2>. HIDE DEF p
  <2>. QED BY <1>4, <2>4, <2>5, <2>6, <2>7, <2>8
<1>8. CASE RevocationTrusted(t)
  <2>1. Become(t, [task[t] EXCEPT !.pc = "mark_revoked", !.man = task[t].man, !.cur = task[t].cur, !.rec = membership_table[task[t].cur], !.acc = task[t].acc])
    BY <1>1, <1>8 DEF Task, RevocationTrusted
  <2>2. task[t].pc = "revoke"
    BY <1>8 DEF RevocationTrusted, At
  <2>3. membership_table[task[t].cur] \in MemberRecord
    BY <1>3, <2>2 DEF IInv, SharedTypeOK
  <2>4. /\ "mark_revoked" \in Labels /\ "mark_revoked" \notin {"persist", "admit", "delete", "lookup", "scan", "forget", "remember"}
        /\ task[t].man \in MaybeManifest /\ task[t].cur \in Nodes \cup {NoNode} /\ task[t].acc \in SUBSET task[t].acc
    BY <1>1 DEF Task, Labels
  <2>. QED BY <1>4, <2>1, <2>3, <2>4
<1>9. CASE RevocationRepeated(t)
  <2>1. Become(t, [task[t] EXCEPT !.pc = "forget", !.man = task[t].man, !.cur = task[t].cur, !.rec = task[t].rec, !.acc = task[t].acc])
    BY <1>1, <1>9 DEF Task, RevocationRepeated, Goto
  <2>2. task[t].pc = "revoke" /\ Revoked(task[t].cur)
    BY <1>9 DEF RevocationRepeated, At, Revoked
  <2>3. task[t].op \notin RefreshOps
    BY <1>3, <2>2 DEF RefreshOps
  <2>4. /\ "forget" \in Labels /\ "forget" \notin {"persist", "admit", "delete", "lookup", "scan", "remember"}
        /\ task[t].man \in MaybeManifest /\ task[t].cur \in Nodes \cup {NoNode}
        /\ task[t].rec \in MemberRecord /\ task[t].acc \in SUBSET task[t].acc
    BY <1>1 DEF Task, Labels
  <2>. QED BY <1>4, <2>1, <2>2, <2>3, <2>4
<1>10. CASE RevocationIgnored(t)
  BY <1>1, <1>2, <1>3, <1>10, IdleReads DEF RevocationIgnored, Critical, At
<1>. QED BY <1>5, <1>6, <1>7, <1>8, <1>9, <1>10

(* So do the sweep of discover and everything a refresh does until its     *)
(* decisions are applied.                                                  *)
LEMMA StepReads ==
  ASSUME IInv, NEW t \in Tasks,
         \/ DiscoverSource(t) \/ DiscoverSkip(t) \/ DiscoverRef(t) \/ DiscoverDrop(t) \/ DiscoverReturn(t)
         \/ RefreshPeerLookup(t) \/ RefreshAllOrphan(t) \/ RefreshAllTargets(t)
         \/ RefreshDecided(t) \/ RefreshRaised(t) \/ RefreshReturn(t)
  PROVE  Reads(t)
<1>1. TaskOK(task[t]) /\ task[t] \in Task /\ task[t].pc \in {"sweep", "fetch", "lookup", "scan", "fetching", "apply"}
  BY DEF IInv, TasksOK, TaskOK, DiscoverSource, DiscoverSkip, DiscoverRef, DiscoverDrop, DiscoverReturn, DiscoverSwept,
         RefreshPeerLookup, RefreshAllOrphan, RefreshAllTargets, RefreshDecided, RefreshRaised, RefreshReturn, At
<1>2. UNCHANGED Stores
  BY DEF DiscoverSource, DiscoverSkip, DiscoverRef, DiscoverDrop, DiscoverReturn, RefreshPeerLookup,
         RefreshAllOrphan, RefreshAllTargets, RefreshDecided, RefreshRaised, RefreshReturn, shared, Stores
<1>3. /\ task[t].pc \in {"sweep", "fetch"} => task[t].op = "discover"
      /\ task[t].pc \in {"lookup", "scan", "fetching", "apply"} => task[t].op \in RefreshOps
  BY <1>1 DEF TaskOK, OpOK
<1>4. ASSUME NEW k \in Task, Become(t, k), k.op = task[t].op, k.acc = task[t].acc, k.base = task[t].base,
             k.dec = task[t].dec, k.srcs \subseteq task[t].srcs, k.pc \in {"sweep", "fetch"},
             k.cur \in {task[t].cur, NoNode} \/ ~Revoked(k.cur)
      PROVE  Reads(t)
  <2>1. task'[t] = k /\ OthersStay(t)
    BY <1>4, Becoming
  <2>2. ReadLocals(task[t], k)
    BY <1>1, <1>3, <1>4, NodeAssumption DEF ReadLocals, Critical, DecidesOnce, Undecided, Settled, Carries
  <2>. QED BY <1>2, <2>1, <2>2 DEF Reads
<1>5. CASE DiscoverSource(t)
  <2>1. PICK s \in task[t].srcs, R \in SUBSET Nodes : Become(t, [task[t] EXCEPT !.srcs = @ \ {s}, !.refs = R])
    BY <1>5 DEF DiscoverSource
  <2> DEFINE k == [task[t] EXCEPT !.srcs = @ \ {s}, !.refs = R]
  <2>2. k \in Task /\ k.op = task[t].op /\ k.acc = task[t].acc /\ k.base = task[t].base /\ k.dec = task[t].dec
          /\ k.srcs \subseteq task[t].srcs /\ k.pc = "sweep" /\ k.cur = task[t].cur
    BY <1>1, <1>5 DEF Task, DiscoverSource, At
  <2>. QED BY <1>4, <2>1, <2>2
<1>6. CASE DiscoverSkip(t)
  <2>1. PICK n \in task[t].refs : Become(t, [task[t] EXCEPT !.refs = @ \ {n}])
    BY <1>6 DEF DiscoverSkip
  <2> DEFINE k == [task[t] EXCEPT !.refs = @ \ {n}]
  <2>2. k \in Task /\ k.op = task[t].op /\ k.acc = task[t].acc /\ k.base = task[t].base /\ k.dec = task[t].dec
          /\ k.srcs \subseteq task[t].srcs /\ k.pc = "sweep" /\ k.cur = task[t].cur
    BY <1>1, <1>6 DEF Task, DiscoverSkip, At
  <2>. QED BY <1>4, <2>1, <2>2
<1>7. CASE DiscoverRef(t)
  <2>1. PICK n \in task[t].refs :
          /\ membership_table[n].state = "absent"
          /\ Become(t, [task[t] EXCEPT !.pc = "fetch", !.cur = n, !.refs = @ \ {n}, !.seen = @ \cup {n}])
    BY <1>7 DEF DiscoverRef
  <2> DEFINE k == [task[t] EXCEPT !.pc = "fetch", !.cur = n, !.refs = @ \ {n}, !.seen = @ \cup {n}]
  <2>2. k \in Task /\ k.op = task[t].op /\ k.acc = task[t].acc /\ k.base = task[t].base /\ k.dec = task[t].dec
          /\ k.srcs \subseteq task[t].srcs /\ k.pc = "fetch" /\ k.cur = n
    BY <1>1 DEF Task, Labels
  <2>. QED BY <1>4, <2>1, <2>2 DEF Revoked
<1>8. CASE DiscoverDrop(t)
  <2> DEFINE k == [task[t] EXCEPT !.pc = "sweep", !.cur = NoNode]
  <2>2. k \in Task /\ k.op = task[t].op /\ k.acc = task[t].acc /\ k.base = task[t].base /\ k.dec = task[t].dec
          /\ k.srcs \subseteq task[t].srcs /\ k.pc = "sweep" /\ k.cur = NoNode
    BY <1>1, NodeAssumption DEF Task, Labels
  <2>. QED BY <1>4, <1>8, <2>2 DEF DiscoverDrop
<1>9. CASE DiscoverReturn(t) \/ RefreshRaised(t) \/ RefreshReturn(t)
  <2>1. Become(t, Idle) /\ (task[t].op = "discover" => task[t].acc = {})
    BY <1>3, <1>9 DEF DiscoverReturn, RefreshRaised, RefreshReturn, RefreshOps, At
  <2>2. task[t].pc \notin Critical
    BY <1>1 DEF Critical
  <2>. QED BY <1>2, <2>1, <2>2, IdleReads
<1>10. ASSUME NEW k \in Task, Become(t, k), k.op = task[t].op, k.acc = task[t].acc, task[t].op \in RefreshOps,
              k.pc \in {"fetching", "apply"}, DecidesOnce(task[t]) => DecidesOnce(k),
              \A n \in Nodes : k.base[n] \in {NoManifest, task[t].base[n], peer_manifests[n]},
              \A n \in Nodes : Accepting(k.dec[n]) =>
                \/ k.dec[n] = task[t].dec[n]
                \/ /\ task[t].base[n] # NoManifest /\ k.dec[n].manifest \in Manifests
                   /\ k.dec[n].manifest.node = task[t].base[n].node /\ k.dec[n].manifest.org = task[t].base[n].org
                   /\ k.dec[n].manifest.rev >= task[t].base[n].rev,
              k.srcs \subseteq task[t].srcs,
              \A n \in Nodes : k.dec[n] # NoDecision =>
                task[t].dec[n] # NoDecision \/ task[t].base[n] # NoManifest \/ n \in task[t].srcs
       PROVE  Reads(t)
  <2>1. task'[t] = k /\ OthersStay(t)
    BY <1>10, Becoming
  <2>2. ReadLocals(task[t], k)
    BY <1>1, <1>10 DEF ReadLocals, Critical, RefreshOps, Carries
  <2>. QED BY <1>2, <2>1, <2>2 DEF Reads
<1>11. CASE RefreshPeerLookup(t)
  <2> DEFINE c == task[t].cur
             k == [task[t] EXCEPT !.pc = "fetching", !.cur = NoNode, !.base[task[t].cur] = peer_manifests[task[t].cur]]
  <2>1. c \in Nodes /\ task[t].op \in RefreshOps
    BY <1>1, <1>3, <1>11 DEF TaskOK, LocalsOK, RefreshPeerLookup, At
  <2>2. CASE peer_manifests[c] = NoManifest
    <3>1. Become(t, Idle)
      BY <1>11, <2>2 DEF RefreshPeerLookup
    <3>. QED BY <1>1, <1>2, <2>1, <3>1, IdleReads DEF Critical, RefreshOps
  <2>3. CASE peer_manifests[c] # NoManifest
    <3>1. Become(t, k)
      BY <1>11, <2>3 DEF RefreshPeerLookup
    <3>2. /\ k \in Task /\ k.op = task[t].op /\ k.acc = task[t].acc /\ k.dec = task[t].dec /\ k.pc = "fetching"
          /\ k.srcs = task[t].srcs
      BY <1>1, <2>1 DEF Task, Labels, IInv, SharedTypeOK
    <3>3. \A n \in Nodes : k.base[n] \in {task[t].base[n], peer_manifests[n]}
      BY <1>1, <2>1 DEF Task
    <3>4. DecidesOnce(task[t]) => DecidesOnce(k)
      BY <1>1, <1>11, <2>1 DEF Task, RefreshPeerLookup, At, TaskOK, LocalsOK, DecidesOnce, Undecided
    <3>. HIDE DEF k
    <3>. QED BY <1>10, <2>1, <3>1, <3>2, <3>3, <3>4
  <2>. QED BY <2>2, <2>3
<1>12. CASE RefreshAllOrphan(t)
  <2>1. PICK n \in task[t].srcs, P \in SUBSET task[t].srcs :
          Become(t, [task[t] EXCEPT !.pc = "apply", !.cur = n, !.srcs = @ \ P, !.base = Targets(task[t], P),
                                    !.dec[n] = [action |-> "reject", manifest |-> NoManifest]])
    BY <1>12 DEF RefreshAllOrphan
  <2> DEFINE d == [action |-> "reject", manifest |-> NoManifest]
             k == [task[t] EXCEPT !.pc = "apply", !.cur = n, !.srcs = @ \ P, !.base = Targets(task[t], P), !.dec[n] = d]
  <2>2. n \in Nodes /\ d \in Decision /\ ~Accepting(d)
    BY <1>1 DEF Task, Decision, Actions, MaybeManifest, Accepting
  <2>3. Targets(task[t], P) \in [Nodes -> MaybeManifest]
    BY <1>1 DEF Targets, Task, IInv, SharedTypeOK
  <2>. HIDE DEF d
  <2>4. k \in Task /\ k.op = task[t].op /\ k.acc = task[t].acc /\ k.pc = "apply"
    BY <1>1, <2>2, <2>3 DEF Task, Labels
  <2>5. k.base = Targets(task[t], P) /\ k.dec = [task[t].dec EXCEPT ![n] = d] /\ k.srcs = task[t].srcs \ P
    BY <1>1 DEF Task
  <2>6. Become(t, k)
    BY <2>1 DEF d
  <2>. HIDE DEF k
  <2>7. \A x \in Nodes : k.base[x] \in {task[t].base[x], peer_manifests[x]}
    BY <2>5 DEF Targets
  <2>8. \A x \in Nodes : Accepting(k.dec[x]) => k.dec[x] = task[t].dec[x]
    BY <1>1, <2>2, <2>5 DEF Task
  <2>9. task[t].op \in RefreshOps
    BY <1>3, <1>12 DEF RefreshAllOrphan, At
  <2>10. task[t].pc = "scan"
    BY <1>12 DEF RefreshAllOrphan, At
  <2>11. DecidesOnce(task[t]) => DecidesOnce(k)
    BY <2>4, <2>8, <2>10 DEF DecidesOnce, Undecided
  <2>12. \A x \in Nodes : k.dec[x] = task[t].dec[x] \/ x \in task[t].srcs
    BY <1>1, <2>1, <2>5 DEF Task
  <2>13. \A x \in Nodes : k.base[x] \in {NoManifest, task[t].base[x], peer_manifests[x]}
    BY <2>7
  <2>14. k.srcs \subseteq task[t].srcs
    BY <2>5
  <2>15. \A x \in Nodes : k.dec[x] # NoDecision => task[t].dec[x] # NoDecision \/ x \in task[t].srcs
    BY <2>12
  <2>. QED BY <1>10, <2>4, <2>6, <2>8, <2>9, <2>11, <2>13, <2>14, <2>15
<1>13. CASE RefreshAllTargets(t)
  <2> DEFINE k == [task[t] EXCEPT !.pc = "fetching", !.srcs = {}, !.base = Targets(task[t], task[t].srcs)]
  <2>3. Targets(task[t], task[t].srcs) \in [Nodes -> MaybeManifest]
    BY <1>1 DEF Targets, Task, IInv, SharedTypeOK
  <2>4. /\ k \in Task /\ k.op = task[t].op /\ k.acc = task[t].acc /\ k.pc = "fetching"
        /\ k.base = Targets(task[t], task[t].srcs) /\ k.dec = task[t].dec /\ k.srcs = {}
    BY <1>1, <2>3 DEF Task, Labels
  <2>6. Become(t, k)
    BY <1>13 DEF RefreshAllTargets
  <2>. HIDE DEF k
  <2>7. \A x \in Nodes : k.base[x] \in {task[t].base[x], peer_manifests[x]}
    BY <2>4 DEF Targets
  <2>9. task[t].op \in RefreshOps
    BY <1>3, <1>13 DEF RefreshAllTargets, At
  <2>10. DecidesOnce(task[t]) => DecidesOnce(k)
    BY <1>13, <2>4 DEF RefreshAllTargets, At, DecidesOnce, Undecided
  <2>. QED BY <1>10, <2>4, <2>6, <2>7, <2>9, <2>10
<1>14. CASE RefreshDecided(t)
  <2> DEFINE targets == {n \in Nodes : task[t].base[n] # NoManifest}
  <2>1. PICK rotation \in Rotations, d \in [targets -> Decision] :
          /\ \A n \in targets : d[n] \in RefreshPeerManifest(task[t].base[n], rotation)
          /\ Become(t, [task[t] EXCEPT !.pc = "apply", !.base = Idle.base,
                                       !.dec = [n \in Nodes |-> IF n \in targets THEN d[n] ELSE task[t].dec[n]]])
    BY <1>14 DEF RefreshDecided
  <2> DEFINE f == [n \in Nodes |-> IF n \in targets THEN d[n] ELSE task[t].dec[n]]
             k == [task[t] EXCEPT !.pc = "apply", !.base = Idle.base, !.dec = f]
  <2>2. f \in [Nodes -> Decision \cup {NoDecision}]
    BY <1>1, <2>1 DEF Task
  <2>3. \A n \in Nodes : Accepting(f[n]) =>
          \/ f[n] = task[t].dec[n]
          \/ /\ task[t].base[n] # NoManifest /\ f[n].manifest \in Manifests
             /\ f[n].manifest.node = task[t].base[n].node /\ f[n].manifest.org = task[t].base[n].org
             /\ f[n].manifest.rev >= task[t].base[n].rev
    <3>. SUFFICES ASSUME NEW n \in Nodes, Accepting(f[n]), n \in targets
                  PROVE  /\ task[t].base[n] # NoManifest /\ d[n].manifest \in Manifests
                         /\ d[n].manifest.node = task[t].base[n].node /\ d[n].manifest.org = task[t].base[n].org
                         /\ d[n].manifest.rev >= task[t].base[n].rev
      OBVIOUS
    <3>1. task[t].base[n] \in Manifests /\ rotation \in BOOLEAN
      BY <1>1, NodeAssumption DEF Task, MaybeManifest
    <3>2. d[n] \in RefreshPeerManifest(task[t].base[n], rotation)
      BY <2>1
    <3>3. Accepting(d[n])
      OBVIOUS
    <3>. QED BY <3>1, <3>2, <3>3, DecisionKeepsIdentity DEF Accepting
  <2>4. Idle.base \in [Nodes -> MaybeManifest] /\ \A n \in Nodes : Idle.base[n] = NoManifest
    BY DEF Idle, MaybeManifest
  <2>5. Become(t, k)
    BY <2>1
  <2>. HIDE DEF f
  <2>6. k \in Task /\ k.op = task[t].op /\ k.acc = task[t].acc /\ k.pc = "apply" /\ k.base = Idle.base /\ k.dec = f
        /\ k.srcs = task[t].srcs
    BY <1>1, <2>2, <2>4 DEF Task, Labels
  <2>. HIDE DEF k
  <2>7. task[t].op \in RefreshOps
    BY <1>3, <1>14 DEF RefreshDecided, At
  <2>8. task[t].srcs = {}
    BY <1>1, <1>14 DEF RefreshDecided, At, TaskOK, LocalsOK
  <2>9. DecidesOnce(k)
    BY <2>4, <2>6, <2>8 DEF DecidesOnce, Settled
  <2>10. \A n \in Nodes : f[n] = task[t].dec[n] \/ task[t].base[n] # NoManifest
    BY DEF f
  <2>. QED BY <1>10, <2>3, <2>4, <2>5, <2>6, <2>7, <2>9, <2>10
<1>. QED BY <1>5, <1>6, <1>7, <1>8, <1>9, <1>11, <1>12, <1>13, <1>14

(* Going on with the next statement of the same operation *)
Keeps(l, k) ==
  /\ k.op = l.op /\ k.man = l.man /\ k.cur = l.cur /\ k.rec = l.rec
  /\ k.acc = l.acc /\ k.srcs = l.srcs /\ k.base = l.base /\ k.dec = l.dec

(* Leaving the lock *)
Leaves(l, k) ==
  /\ k.pc \notin Critical /\ l.op # "discover" /\ k.op # "discover"
  /\ k.acc \subseteq l.acc /\ k.srcs \subseteq l.srcs
  /\ k.op = l.op \/ k = Idle
  /\ DecidesOnce(l) => DecidesOnce(k)
  /\ \A n \in Nodes : k.base[n] \in {NoManifest, l.base[n]}
  /\ \A n \in Nodes : k.dec[n] \in {NoDecision, l.dec[n]}

(* _record_peer returns to admit_peer or to the next seed of the bootstrap. *)
LEMMA AfterRecordLeaves ==
  ASSUME NEW l, TaskOK(l), l.op \in RecordOps, NEW m
  PROVE  Leaves(l, AfterRecord(l, m))
<1>1. l \in Task
  BY DEF TaskOK
<1>2. CASE l.acc \ {m} = {}
  BY <1>2, IdleOK DEF AfterRecord, Leaves, Critical, DecidesOnce, Undecided, Settled, Accepting, NoDecision, Idle, RecordOps
<1>3. CASE l.acc \ {m} # {}
  BY <1>1, <1>3 DEF AfterRecord, Leaves, Critical, DecidesOnce, Undecided, Settled, Accepting, NoDecision, Task, RecordOps
<1>. QED BY <1>2, <1>3

(* _apply_refresh_decision returns to the loop of refresh_peer or          *)
(* refresh_all.                                                            *)
LEMMA AfterApplyLeaves ==
  ASSUME NEW l, TaskOK(l), l.op \in RefreshOps, l.pc \in Critical
  PROVE  Leaves(l, AfterApply(l))
<1>1. l \in Task /\ l.cur \in Nodes /\ (l.srcs # {} => l.cur \in l.srcs)
  BY DEF TaskOK, RefreshOK
<1>2. CASE l.cur \in l.srcs
  BY <1>1, <1>2 DEF AfterApply, Leaves, Critical, DecidesOnce, Undecided, Settled, Accepting, NoDecision, Task, RefreshOps
<1>3. CASE l.cur \notin l.srcs
  BY <1>1, <1>3 DEF AfterApply, Leaves, Critical, DecidesOnce, Undecided, Settled, Accepting, NoDecision, Task, RefreshOps
<1>. QED BY <1>2, <1>3

(* A step that writes, and what becomes of the locals *)
Writes(t) ==
  LET l == task[t]
      k == task'[t]
  IN  /\ OthersStay(t) /\ k \in Task
      /\ \/ Remember(t) /\ Keeps(l, k) /\ k.pc = "persist"
         \/ Persist(t) /\ Keeps(l, k) /\ k.pc = "admit"
         \/ (ApplyReject(t) \/ MarkRevoked(t)) /\ Keeps(l, k) /\ k.pc = "forget"
         \/ Forget(t) /\ Keeps(l, k) /\ k.pc = "delete"
         \/ (RecordUpsert(t) \/ ApplyAdmit(t) \/ ApplyQuarantine(t) \/ Delete(t)) /\ Leaves(l, k)
         \/ /\ DiscoverAdmit(t) /\ k.pc = "sweep" /\ l.op = "discover"
            /\ k.op = l.op /\ k.base = l.base /\ k.dec = l.dec
            /\ \E m \in Admissible : m.node = l.cur /\ Upsert(m.node, Admitted(m)) /\ k.acc = l.acc \cup {m}
         \/ /\ DiscoverRemember(t) /\ k.pc = "persist" /\ l.op = "discover"
            /\ k.op = l.op /\ k.base = l.base /\ k.dec = l.dec /\ k.acc = l.acc /\ k.man \in l.acc
            /\ peer_manifests' = [peer_manifests EXCEPT ![k.man.node] = k.man]
         \/ /\ DiscoverPersist(t) /\ k.pc = "sweep" /\ l.man \in l.acc
            /\ k.op = l.op /\ k.base = l.base /\ k.dec = l.dec /\ k.acc = l.acc \ {l.man}

(* The steps inside the lock, and the record discover writes outside of it,*)
(* write in one of the ways of Writes.                                     *)
LEMMA Writing ==
  ASSUME IInv, NEW t \in Tasks,
         \/ Remember(t) \/ Persist(t) \/ ApplyReject(t) \/ MarkRevoked(t) \/ Forget(t)
         \/ RecordUpsert(t) \/ ApplyAdmit(t) \/ ApplyQuarantine(t) \/ Delete(t)
         \/ DiscoverAdmit(t) \/ DiscoverRemember(t) \/ DiscoverPersist(t)
  PROVE  Writes(t)
<1>1. TaskOK(task[t]) /\ task[t] \in Task
  BY DEF IInv, TasksOK, TaskOK
<1>2. ASSUME NEW p \in Labels, Goto(t, p)
      PROVE  OthersStay(t) /\ task'[t] \in Task /\ Keeps(task[t], task'[t]) /\ task'[t].pc = p
  <2> DEFINE k == [task[t] EXCEPT !.pc = p]
  <2>1. task'[t] = k /\ OthersStay(t)
    BY <1>2, Becoming DEF Goto
  <2>2. k \in Task /\ Keeps(task[t], k) /\ k.pc = p
    BY <1>1 DEF Keeps, Task
  <2>. QED BY <2>1, <2>2
<1>3. CASE Remember(t)
  BY <1>2, <1>3 DEF Remember, Writes, Labels
<1>4. CASE Persist(t)
  BY <1>2, <1>4 DEF Persist, Writes, Labels
<1>5. CASE ApplyReject(t)
  BY <1>2, <1>5 DEF ApplyReject, Writes, Labels
<1>6. CASE MarkRevoked(t)
  BY <1>2, <1>6 DEF MarkRevoked, Writes, Labels
<1>7. CASE Forget(t)
  BY <1>2, <1>7 DEF Forget, Writes, Labels
<1>8. CASE RecordUpsert(t)
  <2>1. task[t].op \in RecordOps /\ task'[t] = AfterRecord(task[t], task[t].man) /\ OthersStay(t)
    BY <1>8, Becoming DEF RecordUpsert, RecordOps
  <2>2. Leaves(task[t], task'[t]) /\ task'[t] \in Task
    BY <1>1, <2>1, AfterRecordLeaves, AfterRecordOK DEF TaskOK
  <2>. QED BY <1>8, <2>1, <2>2 DEF Writes
<1>9. ASSUME task[t].op \in RefreshOps, task[t].pc \in Critical, Become(t, AfterApply(task[t]))
      PROVE  OthersStay(t) /\ task'[t] \in Task /\ Leaves(task[t], task'[t])
  <2>1. task'[t] = AfterApply(task[t]) /\ OthersStay(t)
    BY <1>9, Becoming
  <2>. QED BY <1>1, <1>9, <2>1, AfterApplyLeaves, AfterApplyOK DEF TaskOK
<1>10. CASE ApplyAdmit(t)
  BY <1>9, <1>10 DEF ApplyAdmit, Writes, RefreshOps, Critical, At
<1>11. CASE ApplyQuarantine(t)
  BY <1>1, <1>9, <1>11 DEF ApplyQuarantine, Writes, Critical, At, TaskOK, OpOK
<1>12. CASE Delete(t)
  <2>1. task[t].pc = "delete" /\ task[t].pc \in Critical
    BY <1>12 DEF Delete, At, Critical
  <2>2. task[t].op \in RefreshOps \cup {"apply_revocation_notice"}
    BY <1>1, <2>1 DEF TaskOK, OpOK
  <2>3. CASE task[t].op = "apply_revocation_notice"
    <3>1. task'[t] = Idle /\ OthersStay(t)
      BY <1>12, <2>3, Becoming DEF Delete
    <3>2. Leaves(task[t], Idle) /\ Idle \in Task
      BY <2>3, IdleOK DEF Leaves, Idle, Critical, TaskOK, DecidesOnce, Undecided, Accepting, NoDecision
    <3>. QED BY <1>12, <3>1, <3>2 DEF Writes
  <2>4. CASE task[t].op # "apply_revocation_notice"
    BY <1>9, <1>12, <2>1, <2>2, <2>4 DEF Delete, Writes
  <2>. QED BY <2>3, <2>4
<1>13. CASE DiscoverAdmit(t)
  <2>1. PICK m \in Admissible :
          /\ m.node = task[t].cur /\ Upsert(m.node, Admitted(m))
          /\ Become(t, [task[t] EXCEPT !.pc = "sweep", !.cur = NoNode, !.acc = @ \cup {m}])
    BY <1>13 DEF DiscoverAdmit
  <2> DEFINE k == [task[t] EXCEPT !.pc = "sweep", !.cur = NoNode, !.acc = @ \cup {m}]
  <2>2. task'[t] = k /\ OthersStay(t)
    BY <2>1, Becoming
  <2>3. /\ k \in Task /\ k.pc = "sweep" /\ k.op = task[t].op /\ k.base = task[t].base /\ k.dec = task[t].dec
        /\ k.acc = task[t].acc \cup {m}
    BY <1>1, NodeAssumption DEF Task, Labels
  <2>4. task[t].op = "discover"
    BY <1>1, <1>13 DEF TaskOK, OpOK, DiscoverAdmit, At
  <2>. HIDE DEF k
  <2>. QED BY <1>13, <2>1, <2>2, <2>3, <2>4 DEF Writes
<1>14. CASE DiscoverRemember(t)
  <2>1. PICK m \in task[t].acc :
          /\ peer_manifests' = [peer_manifests EXCEPT ![m.node] = m]
          /\ Become(t, [task[t] EXCEPT !.pc = "persist", !.man = m])
    BY <1>14 DEF DiscoverRemember
  <2> DEFINE k == [task[t] EXCEPT !.pc = "persist", !.man = m]
  <2>2. task'[t] = k /\ OthersStay(t)
    BY <2>1, Becoming
  <2>3. /\ k \in Task /\ k.pc = "persist" /\ k.op = task[t].op /\ k.base = task[t].base /\ k.dec = task[t].dec
        /\ k.acc = task[t].acc /\ k.man = m
    BY <1>1 DEF Task, Labels, MaybeManifest
  <2>4. task[t].op = "discover"
    BY <1>14 DEF DiscoverRemember, DiscoverSwept
  <2>. HIDE DEF k
  <2>. QED BY <1>14, <2>1, <2>2, <2>3, <2>4 DEF Writes
<1>15. CASE DiscoverPersist(t)
  <2> DEFINE k == [task[t] EXCEPT !.pc = "sweep", !.man = NoManifest, !.acc = @ \ {task[t].man}]
  <2>1. task'[t] = k /\ OthersStay(t)
    BY <1>15, Becoming DEF DiscoverPersist
  <2>2. /\ k \in Task /\ k.pc = "sweep" /\ k.op = task[t].op /\ k.base = task[t].base /\ k.dec = task[t].dec
        /\ k.acc = task[t].acc \ {task[t].man}
    BY <1>1 DEF Task, Labels, MaybeManifest
  <2>3. task[t].man \in task[t].acc
    BY <1>1, <1>15 DEF TaskOK, LocalsOK, DiscoverPersist, At, RefreshOps
  <2>. HIDE DEF k
  <2>. QED BY <1>15, <2>1, <2>2, <2>3 DEF Writes
<1>. QED BY <1>3, <1>4, <1>5, <1>6, <1>7, <1>8, <1>10, <1>11, <1>12, <1>13, <1>14, <1>15

(* Every step of a task reads or writes. *)
LEMMA TaskSteps ==
  ASSUME IInv, NEW t \in Tasks, Start(t) \/ TakeLock(t) \/ Step(t)
  PROVE  Reads(t) \/ Writes(t)
BY StartReads, LockReads, StepReads, Writing DEF TakeLock, Step

----------------------------------------------------------------------------
(* Revocations *)

(* The shared state node n is quiet in. *)
Gone(n) ==
  Revoked(n) /\ peer_manifests[n] = NoManifest /\ manifest_store[n] = NoManifest

(* One task moves, and neither its new locals nor the shared state bring n *)
(* back.                                                                   *)
LEMMA StaysQuiet ==
  ASSUME NEW n \in Nodes, Quiet(n), NEW t \in Tasks, OthersStay(t),
         Gone(n)', ~Carries(task'[t], n)
  PROVE  Quiet(n)'
  BY DEF Quiet, Gone, OthersStay, Carries, Revoked

(* What a task writes under the lock is not about a quiet node.            *)
LEMMA WritesAreElsewhere ==
  ASSUME IInv, NEW n \in Nodes, Quiet(n), NEW t \in Tasks
  PROVE  /\ task[t].pc \in {"remember", "persist", "admit"} => task[t].man.node # n
         /\ task[t].op \in RefreshOps /\ task[t].pc \in Critical => task[t].cur # n
<1>1. TaskOK(task[t]) /\ ~Carries(task[t], n) /\ Revoked(n)
  BY DEF IInv, TasksOK, Quiet
<1>2. task[t].op \in RefreshOps /\ task[t].pc \in Critical => task[t].cur # n
  BY <1>1 DEF TaskOK, RefreshOK, Carries, RefreshOps
<1>3. ASSUME task[t].pc \in {"remember", "persist", "admit"}
      PROVE  task[t].man.node # n
  <2>1. CASE task[t].op \in RecordOps
    BY <1>1, <1>3, <2>1 DEF IInv, RecordOK, Recording
  <2>2. CASE task[t].op \in RefreshOps
    BY <1>1, <1>2, <1>3, <2>2 DEF TaskOK, RefreshOK, Critical
  <2>3. CASE task[t].op = "discover"
    <3>1. task[t].man \in task[t].acc
      BY <1>1, <1>3, <2>3 DEF TaskOK, LocalsOK, OpOK, RecordOps, RefreshOps
    <3>. QED BY <1>1, <2>3, <3>1 DEF Carries
  <2>. QED BY <1>1, <1>3, <2>1, <2>2, <2>3 DEF TaskOK, OpOK
<1>. QED BY <1>2, <1>3

(* No step of a task disturbs a quiet node. *)
LEMMA QuietTask ==
  ASSUME IInv, NEW n \in Nodes, Quiet(n), NEW t \in Tasks, Start(t) \/ TakeLock(t) \/ Step(t)
  PROVE  Quiet(n)'
<1> DEFINE l == task[t]
           k == task'[t]
<1>1. /\ TaskOK(l) /\ l \in Task /\ ~Carries(l, n) /\ Gone(n)
      /\ membership_table \in [Nodes -> MemberRecord]
      /\ peer_manifests \in [Nodes -> MaybeManifest] /\ manifest_store \in [Nodes -> MaybeManifest]
  BY DEF IInv, TasksOK, TaskOK, Quiet, Gone, SharedTypeOK
<1>2. CASE Reads(t)
  BY <1>1, <1>2, StaysQuiet DEF Reads, ReadLocals, Stores, Gone, Revoked
<1>3. CASE Writes(t)
  <2>1. OthersStay(t)
    BY <1>3 DEF Writes
  <2>2. Keeps(l, k) \/ Leaves(l, k) => ~Carries(k, n)
    BY <1>1, IdleCarriesNothing DEF Keeps, Leaves, Carries
  <2>3. CASE Remember(t) /\ Keeps(l, k)
    BY <1>1, <2>1, <2>2, <2>3, StaysQuiet, WritesAreElsewhere DEF Remember, Gone, Revoked, At
  <2>4. CASE Persist(t) /\ Keeps(l, k)
    BY <1>1, <2>1, <2>2, <2>4, StaysQuiet, WritesAreElsewhere DEF Persist, Gone, Revoked, At
  <2>5. CASE Forget(t) /\ Keeps(l, k)
    BY <1>1, <2>1, <2>2, <2>5, StaysQuiet DEF Forget, Gone, Revoked
  <2>6. CASE ApplyReject(t) /\ Keeps(l, k)
    <3>1. l.cur # n
      BY <1>1, <2>6, WritesAreElsewhere DEF ApplyReject, At, Critical, TaskOK, OpOK
    <3>. QED BY <1>1, <2>1, <2>2, <2>6, <3>1, StaysQuiet DEF ApplyReject, Upsert, Gone, Revoked
  <2>7. CASE MarkRevoked(t) /\ Keeps(l, k)
    BY <1>1, <2>1, <2>2, <2>7, StaysQuiet DEF MarkRevoked, Upsert, SetState, Task, MemberRecord, Gone, Revoked
  <2>8. CASE RecordUpsert(t) /\ Leaves(l, k)
    BY <1>1, <2>1, <2>2, <2>8, StaysQuiet, WritesAreElsewhere DEF RecordUpsert, Upsert, Gone, Revoked, At
  <2>9. CASE (ApplyAdmit(t) \/ ApplyQuarantine(t)) /\ Leaves(l, k)
    <3>1. l.cur # n
      BY <1>1, <2>9, WritesAreElsewhere DEF ApplyAdmit, ApplyQuarantine, At, Critical, TaskOK, OpOK, RefreshOps
    <3>. QED BY <1>1, <2>1, <2>2, <2>9, <3>1, StaysQuiet DEF ApplyAdmit, ApplyQuarantine, Upsert, Gone, Revoked
  <2>10. CASE Delete(t) /\ Leaves(l, k)
    BY <1>1, <2>1, <2>2, <2>10, StaysQuiet DEF Delete, Gone, Revoked
  <2>11. ASSUME NEW m \in Admissible, l.op = "discover", m.node = l.cur, Upsert(m.node, Admitted(m)),
                UNCHANGED <<peer_manifests, manifest_store>>, ~Carries(k, n) \/ m.node = n
         PROVE  Quiet(n)'
    <3>1. m.node # n
      BY <1>1, <2>11 DEF Carries
    <3>. QED BY <1>1, <2>1, <2>11, <3>1, StaysQuiet DEF Upsert, Gone, Revoked
  <2>12. CASE DiscoverAdmit(t)
    <3>1. PICK m \in Admissible :
            /\ m.node = l.cur /\ Upsert(m.node, Admitted(m))
            /\ k = [l EXCEPT !.pc = "sweep", !.cur = NoNode, !.acc = @ \cup {m}]
      BY <2>12, Becoming DEF DiscoverAdmit
    <3>2. l.op = "discover"
      BY <1>1, <2>12 DEF DiscoverAdmit, At, TaskOK, OpOK
    <3>3. ~Carries(k, n) \/ m.node = n
      BY <1>1, <3>1, <3>2, NodeAssumption DEF Carries, Task
    <3>. QED BY <2>11, <2>12, <3>1, <3>2, <3>3 DEF DiscoverAdmit
  <2>13. CASE DiscoverRemember(t)
    <3>1. PICK m \in l.acc :
            /\ peer_manifests' = [peer_manifests EXCEPT ![m.node] = m]
            /\ k = [l EXCEPT !.pc = "persist", !.man = m]
      BY <2>13, Becoming DEF DiscoverRemember
    <3>2. m.node # n /\ ~Carries(k, n)
      BY <1>1, <2>13, <3>1 DEF DiscoverRemember, DiscoverSwept, Carries, Task
    <3>. QED BY <1>1, <2>1, <2>13, <3>1, <3>2, StaysQuiet DEF DiscoverRemember, Gone, Revoked
  <2>14. CASE DiscoverPersist(t)
    <3>1. k = [l EXCEPT !.pc = "sweep", !.man = NoManifest, !.acc = @ \ {l.man}]
      BY <2>14, Becoming DEF DiscoverPersist
    <3>2. ~Carries(k, n)
      BY <1>1, <3>1 DEF Carries, Task
    <3>. QED BY <1>1, <2>1, <2>14, <3>2, StaysQuiet, WritesAreElsewhere DEF DiscoverPersist, Gone, Revoked, At
  <2>. QED BY <1>3, <2>3, <2>4, <2>5, <2>6, <2>7, <2>8, <2>9, <2>10, <2>12, <2>13, <2>14 DEF Writes
<1>. QED BY <1>2, <1>3, TaskSteps

(* An aborted operation carries nothing any more; an operator's delete     *)
(* clears the record; a crash and a hydration bring no manifest back.      *)
LEMMA QuietHost ==
  ASSUME IInv, NEW n \in Nodes, Quiet(n), ClearRecord \/ Crash \/ Hydrate \/ \E t \in Tasks : Abort(t)
  PROVE  Quiet(n)' \/ Cleared(n)
<1>1. CASE ClearRecord
  <2>1. PICK m \in Nodes : Upsert(m, NoRecord)
    BY <1>1 DEF ClearRecord
  <2>2. CASE m = n
    BY <2>1, <2>2 DEF Upsert, NoRecord, Cleared, IInv, SharedTypeOK
  <2>3. CASE m # n
    BY <1>1, <2>1, <2>3 DEF ClearRecord, Upsert, IInv, SharedTypeOK, Quiet, Revoked, Carries
  <2>. QED BY <2>2, <2>3
<1>2. CASE Crash
  <2>1. \A t \in Tasks : task'[t] = Idle
    BY <1>2 DEF Crash
  <2>2. \A t \in Tasks : ~Carries(task[t], n)'
    BY <2>1, IdleCarriesNothing
  <2>. QED BY <1>2, <2>2 DEF Quiet, Crash, Revoked
<1>3. CASE Hydrate
  BY <1>3 DEF Hydrate, Quiet, Revoked, Carries
<1>4. ASSUME NEW t \in Tasks, Abort(t) PROVE Quiet(n)'
  <2>1. task'[t] = Idle /\ OthersStay(t)
    BY <1>4, Becoming DEF Abort
  <2>2. Gone(n)'
    BY <1>4 DEF Abort, Gone, Quiet, Revoked
  <2>. QED BY <2>1, <2>2, IdleCarriesNothing, StaysQuiet
<1>. QED BY <1>1, <1>2, <1>3, <1>4

(* A revocation that has gone quiet is undone by no operation, failure or  *)
(* restart; an operator clears the record, or it stays (_record_peer:      *)
(* "Revocation is sticky").                                                *)
THEOREM QuietRevocationIsForever == Spec => QuietIsForever
<1>1. ASSUME IInv, [Next]_vars
      PROVE  \A n \in Nodes : Quiet(n) => Quiet(n)' \/ Cleared(n)
  <2>1. SUFFICES ASSUME NEW n \in Nodes, Quiet(n)
                 PROVE  Quiet(n)' \/ Cleared(n)
    OBVIOUS
  <2>2. CASE UNCHANGED vars
    BY <2>1, <2>2 DEF vars, shared, Quiet, Revoked, Carries
  <2>3. CASE Next
    BY <1>1, <2>1, <2>3, QuietTask, QuietHost DEF Next
  <2>. QED BY <1>1, <2>2, <2>3
<1>. QED BY <1>1, Invariance, PTL DEF Spec, QuietIsForever

----------------------------------------------------------------------------
(* Who a manifest speaks for *)

(* The local policy has admitted the identity a manifest claims. *)
Vouched(m) == \E a \in Admissible : a.node = m.node /\ a.org = m.org

VouchedLocals(l) ==
  /\ l.acc \subseteq Admissible
  /\ l.pc \in {"remember", "persist", "admit"} => Vouched(l.man)
  /\ \A n \in Nodes : l.base[n] # NoManifest => Vouched(l.base[n])
  /\ \A n \in Nodes : Accepting(l.dec[n]) => Vouched(l.dec[n].manifest)

VouchedStores ==
  \A n \in Nodes : /\ peer_manifests[n] # NoManifest => Vouched(peer_manifests[n])
                   /\ manifest_store[n] # NoManifest => Vouched(manifest_store[n])

VouchedInv == VouchedStores /\ \A t \in Tasks : VouchedLocals(task[t])

(* A task that runs no operation claims nothing. *)
LEMMA IdleIsVouched == VouchedLocals(Idle)
BY DEF VouchedLocals, Idle, NoDecision, Accepting

(* The manifest a task writes is vouched for. *)
LEMMA WrittenIsVouched ==
  ASSUME VouchedInv, NEW t \in Tasks, NEW f, f = task[t].man, NEW S, S \in [Nodes -> MaybeManifest],
         task[t].pc \in {"remember", "persist"}, \A n \in Nodes : S[n] # NoManifest => Vouched(S[n])
  PROVE  \A n \in Nodes : [S EXCEPT ![f.node] = f][n] # NoManifest => Vouched([S EXCEPT ![f.node] = f][n])
BY DEF VouchedInv, VouchedLocals

(* No step of an operation stores, caches, or decides for, a manifest of an*)
(* identity the policy has not admitted.                                   *)
LEMMA VouchedTask ==
  ASSUME IInv, IInv', VouchedInv, NEW t \in Tasks, Start(t) \/ TakeLock(t) \/ Step(t)
  PROVE  VouchedInv'
<1>1. VouchedStores /\ VouchedLocals(task[t]) /\ TaskOK(task[t]) /\ task[t] \in Task
  BY DEF VouchedInv, IInv, TasksOK, TaskOK
<1>2. ASSUME VouchedStores', VouchedLocals(task'[t]), OthersStay(t)
      PROVE  VouchedInv'
  BY <1>2 DEF VouchedInv, OthersStay, VouchedLocals, Vouched, Accepting
<1>3. CASE Reads(t)
  <2> DEFINE l == task[t]
             k == task'[t]
  <2>1. VouchedStores'
    BY <1>1, <1>3 DEF Reads, Stores, VouchedStores, Vouched
  <2>2. k.acc \subseteq Admissible
    BY <1>1, <1>3 DEF Reads, ReadLocals, VouchedLocals
  <2>3. k.pc \in {"remember", "persist", "admit"} => Vouched(k.man)
    <3>1. ASSUME k.pc = "remember", k.op \in RefreshOps, Accepting(l.dec[k.cur]), k.man = l.dec[k.cur].manifest
          PROVE  Vouched(k.man)
      <4>1. k.cur \in Nodes
        <5>1. TaskOK(task'[t])
          BY DEF IInv, TasksOK
        <5>. QED BY <3>1, <5>1 DEF TaskOK, RefreshOK, Critical
      <4>. QED BY <1>1, <3>1, <4>1 DEF VouchedLocals
    <3>2. ASSUME k.man \in l.acc PROVE Vouched(k.man)
      BY <1>1, <3>2 DEF VouchedLocals, Vouched
    <3>. QED BY <1>3, <3>1, <3>2 DEF Reads, ReadLocals
  <2>4. \A n \in Nodes : k.base[n] # NoManifest => Vouched(k.base[n])
    BY <1>1, <1>3 DEF Reads, ReadLocals, VouchedLocals, VouchedStores
  <2>5. \A n \in Nodes : Accepting(k.dec[n]) => Vouched(k.dec[n].manifest)
    BY <1>1, <1>3 DEF Reads, ReadLocals, VouchedLocals, Vouched
  <2>. QED BY <1>2, <1>3, <2>1, <2>2, <2>3, <2>4, <2>5 DEF Reads, VouchedLocals
<1>4. CASE Writes(t)
  <2> DEFINE l == task[t]
             k == task'[t]
  <2>1. OthersStay(t)
    BY <1>4 DEF Writes
  <2>2. ASSUME Keeps(l, k), l.pc \in {"remember", "persist"} \/ k.pc \notin {"remember", "persist", "admit"}
        PROVE  VouchedLocals(k)
    BY <1>1, <2>2 DEF Keeps, VouchedLocals
  <2>3. ASSUME Leaves(l, k) PROVE VouchedLocals(k)
    BY <1>1, <2>3 DEF Leaves, VouchedLocals, Critical, Accepting, NoDecision
  <2>4. CASE Remember(t) /\ Keeps(l, k) /\ k.pc = "persist"
    BY <1>1, <1>2, <2>1, <2>2, <2>4, WrittenIsVouched DEF Remember, At, VouchedStores, Vouched, IInv, SharedTypeOK
  <2>5. CASE Persist(t) /\ Keeps(l, k) /\ k.pc = "admit"
    BY <1>1, <1>2, <2>1, <2>2, <2>5, WrittenIsVouched DEF Persist, At, VouchedStores, Vouched, IInv, SharedTypeOK
  <2>6. CASE (ApplyReject(t) \/ MarkRevoked(t)) /\ Keeps(l, k) /\ k.pc = "forget"
    BY <1>1, <1>2, <2>1, <2>2, <2>6 DEF ApplyReject, MarkRevoked, VouchedStores, Vouched
  <2>7. CASE Forget(t) /\ Keeps(l, k) /\ k.pc = "delete"
    BY <1>1, <1>2, <2>1, <2>2, <2>7 DEF Forget, VouchedStores, Vouched, IInv, SharedTypeOK
  <2>8. CASE (RecordUpsert(t) \/ ApplyAdmit(t) \/ ApplyQuarantine(t) \/ Delete(t)) /\ Leaves(l, k)
    BY <1>1, <1>2, <2>1, <2>3, <2>8 DEF RecordUpsert, ApplyAdmit, ApplyQuarantine, Delete, VouchedStores, Vouched, IInv, SharedTypeOK
  <2>9. CASE DiscoverAdmit(t) /\ k.pc = "sweep" /\ k.base = l.base /\ k.dec = l.dec
              /\ \E m \in Admissible : k.acc = l.acc \cup {m}
    <3>1. VouchedLocals(k)
      BY <1>1, <2>9 DEF VouchedLocals
    <3>. QED BY <1>1, <1>2, <2>1, <2>9, <3>1 DEF DiscoverAdmit, VouchedStores, Vouched
  <2>10. CASE /\ DiscoverRemember(t) /\ k.pc = "persist" /\ k.base = l.base /\ k.dec = l.dec /\ k.acc = l.acc
              /\ k.man \in l.acc /\ peer_manifests' = [peer_manifests EXCEPT ![k.man.node] = k.man]
    <3>1. Vouched(k.man)
      BY <1>1, <2>10 DEF VouchedLocals, Vouched
    <3>2. VouchedLocals(k)
      BY <1>1, <2>10, <3>1 DEF VouchedLocals
    <3>3. VouchedStores'
      BY <1>1, <2>10, <3>1 DEF DiscoverRemember, VouchedStores, Vouched, IInv, SharedTypeOK
    <3>. QED BY <1>2, <2>1, <3>2, <3>3
  <2>11. CASE /\ DiscoverPersist(t) /\ k.pc = "sweep" /\ l.man \in l.acc
              /\ k.base = l.base /\ k.dec = l.dec /\ k.acc = l.acc \ {l.man}
    <3>1. Vouched(l.man) /\ VouchedLocals(k)
      BY <1>1, <2>11 DEF VouchedLocals, Vouched
    <3>2. VouchedStores'
      BY <1>1, <2>11, <3>1 DEF DiscoverPersist, VouchedStores, Vouched, IInv, SharedTypeOK
    <3>. QED BY <1>2, <2>1, <3>1, <3>2
  <2>. QED BY <1>4, <2>4, <2>5, <2>6, <2>7, <2>8, <2>9, <2>10, <2>11 DEF Writes
<1>. QED BY <1>3, <1>4, TaskSteps

(* A refresh does not ask the admission policy again, and need not:        *)
(* check_key_continuity keeps node and organisation, so every cached       *)
(* manifest speaks for an identity the policy admitted.  Crashes, aborted  *)
(* operations and restarts included.                                       *)
THEOREM RefreshKeepsIdentity == Spec => []IdentityAdmitted
<1>1. Init => VouchedInv
  BY IdleIsVouched DEF Init, VouchedInv, VouchedStores
<1>2. ASSUME IInv, IInv', VouchedInv, [Next]_vars PROVE VouchedInv'
  <2>1. ASSUME NEW t \in Tasks, Abort(t) PROVE VouchedInv'
    <3>1. task'[t] = Idle /\ OthersStay(t)
      BY <1>2, <2>1, Becoming DEF Abort
    <3>. QED BY <1>2, <2>1, <3>1, IdleIsVouched DEF Abort, VouchedInv, VouchedStores, OthersStay, VouchedLocals, Vouched, Accepting
  <2>2. CASE ClearRecord
    BY <1>2, <2>2 DEF ClearRecord, VouchedInv, VouchedStores, VouchedLocals, Vouched, Accepting
  <2>3. CASE Crash
    <3>1. \A t \in Tasks : task'[t] = Idle
      BY <2>3 DEF Crash
    <3>2. VouchedStores'
      BY <1>2, <2>3 DEF Crash, VouchedInv, VouchedStores, Vouched
    <3>. QED BY <3>1, <3>2, IdleIsVouched DEF VouchedInv
  <2>4. CASE Hydrate
    BY <1>2, <2>4 DEF Hydrate, VouchedInv, VouchedStores, VouchedLocals, Vouched, Accepting
  <2>5. CASE UNCHANGED vars
    BY <1>2, <2>5 DEF vars, shared, VouchedInv, VouchedStores, VouchedLocals, Vouched, Accepting
  <2>. QED BY <1>2, <2>1, <2>2, <2>3, <2>4, <2>5, VouchedTask DEF Next
<1>3. IInv /\ VouchedInv => IdentityAdmitted
  BY DEF IInv, FiledOK, VouchedInv, VouchedStores, Vouched, IdentityAdmitted
<1>. QED BY <1>1, <1>2, <1>3, Invariance, PTL DEF Spec

----------------------------------------------------------------------------
(* The cache and the durable copy *)

(* What a task has put in the cache stays there until it leaves the lock. *)
CachedOK(l, cache) ==
  /\ l.pc \in {"persist", "admit"} => cache[l.man.node] = l.man
  /\ l.pc = "delete" => cache[l.cur] = NoManifest

CachedInv == \A t \in Tasks : CachedOK(task[t], peer_manifests)

(* Only the task inside the lock writes the cache. *)
LEMMA CachedTask ==
  ASSUME IInv, IInv', CachedInv, NEW t \in Tasks, Start(t) \/ TakeLock(t) \/ Step(t)
  PROVE  CachedInv'
<1> DEFINE l == task[t]
           k == task'[t]
<1>1. /\ TaskOK(task[t]) /\ TaskOK(task'[t]) /\ task[t] \in Task /\ task'[t] \in Task
      /\ (task[t].pc \in Critical => lifecycle_lock = t) /\ CachedOK(task[t], peer_manifests)
  BY DEF IInv, TasksOK, TaskOK, LockOK, CachedInv
<1>2. ASSUME CachedOK(k, peer_manifests'), OthersStay(t), peer_manifests' = peer_manifests
      PROVE  CachedInv'
  BY <1>2 DEF CachedInv, CachedOK, OthersStay
<1>3. ASSUME CachedOK(k, peer_manifests'), OthersStay(t), lifecycle_lock \in {t, NoTask}
      PROVE  CachedInv'
  <2>1. \A u \in Tasks \ {t} : task[u].pc \notin Critical
    BY <1>3, NodeAssumption DEF IInv, LockOK
  <2>. QED BY <1>3, <2>1 DEF CachedInv, CachedOK, OthersStay, Critical
<1>4. CASE Reads(t)
  BY <1>2, <1>4 DEF Reads, ReadLocals, Stores, CachedOK
<1>5. CASE Writes(t)
  <2>1. OthersStay(t)
    BY <1>5 DEF Writes
  <2>2. CASE Remember(t) /\ Keeps(l, k) /\ k.pc = "persist"
    <3>1. l.man.node \in Nodes /\ lifecycle_lock = t
      BY <1>1, <2>2, ManifestsAssumption DEF TaskOK, LocalsOK, Remember, At, ManifestType, Critical
    <3>2. CachedOK(k, peer_manifests')
      BY <2>2, <3>1 DEF Remember, Keeps, CachedOK, IInv, SharedTypeOK
    <3>. QED BY <1>3, <2>1, <3>1, <3>2
  <2>3. CASE Persist(t) /\ Keeps(l, k) /\ k.pc = "admit"
    BY <1>1, <1>2, <2>1, <2>3 DEF Persist, Keeps, CachedOK, At
  <2>4. CASE (ApplyReject(t) \/ MarkRevoked(t)) /\ Keeps(l, k) /\ k.pc = "forget"
    BY <1>2, <2>1, <2>4 DEF ApplyReject, MarkRevoked, CachedOK
  <2>5. CASE Forget(t) /\ Keeps(l, k) /\ k.pc = "delete"
    <3>1. l.cur \in Nodes /\ lifecycle_lock = t
      BY <1>1, <2>5 DEF TaskOK, LocalsOK, Forget, At, Critical
    <3>2. CachedOK(k, peer_manifests')
      BY <2>5, <3>1 DEF Forget, Keeps, CachedOK, IInv, SharedTypeOK
    <3>. QED BY <1>3, <2>1, <3>1, <3>2
  <2>6. CASE (RecordUpsert(t) \/ ApplyAdmit(t) \/ ApplyQuarantine(t) \/ Delete(t)) /\ Leaves(l, k)
    BY <1>2, <2>1, <2>6 DEF RecordUpsert, ApplyAdmit, ApplyQuarantine, Delete, Leaves, CachedOK, Critical
  <2>7. CASE (DiscoverAdmit(t) \/ DiscoverPersist(t)) /\ k.pc = "sweep"
    BY <1>2, <2>1, <2>7 DEF DiscoverAdmit, DiscoverPersist, CachedOK
  <2>8. CASE /\ DiscoverRemember(t) /\ k.pc = "persist" /\ k.man \in l.acc
             /\ peer_manifests' = [peer_manifests EXCEPT ![k.man.node] = k.man]
    <3>1. k.man.node \in Nodes /\ lifecycle_lock = NoTask
      BY <1>1, <2>8, ManifestsAssumption DEF Task, ManifestType, DiscoverRemember, Acquire
    <3>2. CachedOK(k, peer_manifests')
      BY <2>8, <3>1 DEF CachedOK, IInv, SharedTypeOK
    <3>. QED BY <1>3, <2>1, <3>1, <3>2
  <2>. QED BY <1>5, <2>2, <2>3, <2>4, <2>5, <2>6, <2>7, <2>8 DEF Writes
<1>. QED BY <1>4, <1>5, TaskSteps

(* It holds with every fault: an aborted task has left the lock, and a     *)
(* crash leaves no task.                                                   *)
LEMMA CachedInvariance == Spec => []CachedInv
<1>1. Init => CachedInv
  BY IdleOK DEF Init, CachedInv, CachedOK
<1>2. ASSUME IInv, IInv', CachedInv, [Next]_vars PROVE CachedInv'
  <2>1. ASSUME NEW t \in Tasks, Abort(t) PROVE CachedInv'
    <3>1. task'[t] = Idle /\ OthersStay(t)
      BY <1>2, <2>1, Becoming DEF Abort
    <3>. QED BY <1>2, <2>1, <3>1, IdleOK DEF Abort, CachedInv, CachedOK, OthersStay
  <2>2. CASE ClearRecord
    BY <1>2, <2>2 DEF ClearRecord, CachedInv, CachedOK
  <2>3. CASE Crash
    BY <2>3, IdleOK DEF Crash, CachedInv, CachedOK
  <2>4. CASE Hydrate
    <3>1. \A t \in Tasks : task'[t].pc \notin Critical
      BY <1>2, <2>4, NodeAssumption DEF Hydrate, IInv, LockOK
    <3>. QED BY <3>1 DEF CachedInv, CachedOK, Critical
  <2>5. CASE UNCHANGED vars
    BY <1>2, <2>5 DEF vars, shared, CachedInv, CachedOK
  <2>. QED BY <1>2, <2>1, <2>2, <2>3, <2>4, <2>5, CachedTask DEF Next
<1>. QED BY <1>1, <1>2, Invariance, PTL DEF Spec

(* A task is between the assignment to the cache and the write of the      *)
(* manifest store.                                                         *)
Updating(l, n) ==
  \/ l.pc = "persist" /\ n = l.man.node
  \/ l.pc = "delete" /\ n = l.cur

UpdateInv ==
  up => \A n \in Nodes : peer_manifests[n] = manifest_store[n] \/ \E t \in Tasks : Updating(task[t], n)

(* A task that has the lock, or takes it, is the only one to update. *)
LEMMA OnlyOneUpdates ==
  ASSUME IInv, NEW t \in Tasks, lifecycle_lock \in {t, NoTask}, NEW u \in Tasks \ {t}, NEW n
  PROVE  ~Updating(task[u], n)
BY NodeAssumption DEF IInv, LockOK, Updating, Critical

(* If the others update nothing, cache and store differ where task t is    *)
(* between the two writes, and nowhere else.                               *)
LEMMA OnlyUpdater ==
  ASSUME UpdateInv, NEW t \in Tasks, \A u \in Tasks \ {t}, n \in Nodes : ~Updating(task[u], n)
  PROVE  up => \A n \in Nodes : peer_manifests[n] = manifest_store[n] \/ Updating(task[t], n)
BY DEF UpdateInv

(* _remember_manifest and _forget_manifest write the cache and then the    *)
(* store, both inside the lock.                                            *)
LEMMA UpdateTask ==
  ASSUME IInv, CachedInv, UpdateInv, NEW t \in Tasks, Start(t) \/ TakeLock(t) \/ Step(t)
  PROVE  UpdateInv'
<1>1. TaskOK(task[t]) /\ task[t] \in Task /\ (task[t].pc \in Critical => lifecycle_lock = t)
  BY DEF IInv, TasksOK, TaskOK, LockOK
<1>2. ASSUME UNCHANGED <<manifest_store, peer_manifests, up>>, OthersStay(t), task[t].pc \notin {"persist", "delete"}
      PROVE  UpdateInv'
  BY <1>2 DEF UpdateInv, Updating, OthersStay
<1>3. CASE Reads(t)
  BY <1>2, <1>3 DEF Reads, ReadLocals, Stores, Critical
<1>4. CASE Writes(t)
  <2> DEFINE l == task[t]
             k == task'[t]
  <2>1. OthersStay(t)
    BY <1>4 DEF Writes
  <2>2. ASSUME l.pc \in Critical \/ lifecycle_lock = NoTask, l.pc \notin {"persist", "delete"}
        PROVE  up => \A n \in Nodes : peer_manifests[n] = manifest_store[n]
    <3>1. lifecycle_lock \in {t, NoTask}
      BY <1>1, <2>2
    <3>2. \A u \in Tasks \ {t}, n \in Nodes : ~Updating(task[u], n)
      BY <3>1, OnlyOneUpdates
    <3>3. \A n \in Nodes : ~Updating(l, n)
      BY <2>2 DEF Updating
    <3>. QED BY <3>2, <3>3, OnlyUpdater
  <2>3. CASE Remember(t) /\ Keeps(l, k) /\ k.pc = "persist"
    <3>1. l.man.node \in Nodes
      BY <1>1, <2>3, ManifestsAssumption DEF TaskOK, LocalsOK, Remember, At, ManifestType
    <3>2. up => \A n \in Nodes : peer_manifests[n] = manifest_store[n]
      BY <2>2, <2>3 DEF Remember, At, Critical
    <3>. QED BY <2>3, <3>1, <3>2 DEF Remember, Keeps, UpdateInv, Updating, IInv, SharedTypeOK
  <2>4. CASE Persist(t) /\ Keeps(l, k) /\ k.pc = "admit"
    <3>1. l.man.node \in Nodes /\ l.pc = "persist"
      BY <1>1, <2>4, ManifestsAssumption DEF TaskOK, LocalsOK, Persist, At, ManifestType
    <3>2. \A u \in Tasks \ {t}, n \in Nodes : ~Updating(task[u], n)
      BY <1>1, <3>1, OnlyOneUpdates DEF Critical
    <3>3. up => \A n \in Nodes : peer_manifests[n] = manifest_store[n] \/ n = l.man.node
      <4>1. \A n \in Nodes : Updating(l, n) => n = l.man.node
        BY <3>1 DEF Updating
      <4>. QED BY <3>2, <4>1, OnlyUpdater
    <3>4. up' => \A n \in Nodes : peer_manifests'[n] = manifest_store'[n]
      <4>. SUFFICES ASSUME up', NEW n \in Nodes PROVE peer_manifests'[n] = manifest_store'[n]
        OBVIOUS
      <4>1. up /\ peer_manifests' = peer_manifests
        BY <2>4 DEF Persist
      <4>2. manifest_store' = [manifest_store EXCEPT ![l.man.node] = l.man]
        BY <2>4 DEF Persist
      <4>3. peer_manifests[n] = manifest_store[n] \/ n = l.man.node
        BY <3>3, <4>1
      <4>. QED BY <3>1, <4>1, <4>2, <4>3 DEF IInv, SharedTypeOK, CachedInv, CachedOK
    <3>. QED BY <3>4 DEF UpdateInv
  <2>5. CASE (ApplyReject(t) \/ MarkRevoked(t)) /\ Keeps(l, k) /\ k.pc = "forget"
    BY <1>2, <2>1, <2>5 DEF ApplyReject, MarkRevoked, At
  <2>6. CASE Forget(t) /\ Keeps(l, k) /\ k.pc = "delete"
    <3>2. up => \A n \in Nodes : peer_manifests[n] = manifest_store[n]
      BY <2>2, <2>6 DEF Forget, At, Critical
    <3>. QED BY <2>6, <3>2 DEF Forget, Keeps, UpdateInv, Updating, IInv, SharedTypeOK
  <2>7. CASE RecordUpsert(t) \/ ApplyAdmit(t) \/ ApplyQuarantine(t)
    BY <1>2, <2>1, <2>7 DEF RecordUpsert, ApplyAdmit, ApplyQuarantine, At
  <2>8. CASE Delete(t)
    <3>1. l.cur \in Nodes /\ l.pc = "delete"
      BY <1>1, <2>8 DEF TaskOK, LocalsOK, Delete, At
    <3>2. \A u \in Tasks \ {t}, n \in Nodes : ~Updating(task[u], n)
      BY <1>1, <3>1, OnlyOneUpdates DEF Critical
    <3>3. up => \A n \in Nodes : peer_manifests[n] = manifest_store[n] \/ n = l.cur
      <4>1. \A n \in Nodes : Updating(l, n) => n = l.cur
        BY <3>1 DEF Updating
      <4>. QED BY <3>2, <4>1, OnlyUpdater
    <3>4. up' => \A n \in Nodes : peer_manifests'[n] = manifest_store'[n]
      <4>. SUFFICES ASSUME up', NEW n \in Nodes PROVE peer_manifests'[n] = manifest_store'[n]
        OBVIOUS
      <4>1. up /\ peer_manifests' = peer_manifests
        BY <2>8 DEF Delete
      <4>2. manifest_store' = [manifest_store EXCEPT ![l.cur] = NoManifest]
        BY <2>8 DEF Delete
      <4>3. peer_manifests[n] = manifest_store[n] \/ n = l.cur
        BY <3>3, <4>1
      <4>. QED BY <3>1, <4>1, <4>2, <4>3 DEF IInv, SharedTypeOK, CachedInv, CachedOK
    <3>. QED BY <3>4 DEF UpdateInv
  <2>9. CASE DiscoverAdmit(t)
    BY <1>2, <2>1, <2>9 DEF DiscoverAdmit, At
  <2>10. CASE /\ DiscoverRemember(t) /\ k.pc = "persist" /\ k.man \in l.acc
              /\ peer_manifests' = [peer_manifests EXCEPT ![k.man.node] = k.man]
    <3>1. k.man.node \in Nodes
      BY <1>1, <2>10, ManifestsAssumption DEF Task, ManifestType
    <3>2. up => \A n \in Nodes : peer_manifests[n] = manifest_store[n]
      BY <2>2, <2>10 DEF DiscoverRemember, DiscoverSwept, Acquire, At
    <3>. QED BY <2>10, <3>1, <3>2 DEF DiscoverRemember, UpdateInv, Updating, IInv, SharedTypeOK
  <2>11. CASE DiscoverPersist(t)
    <3>1. l.man.node \in Nodes /\ l.pc = "persist"
      BY <1>1, <2>11, ManifestsAssumption DEF TaskOK, LocalsOK, DiscoverPersist, At, ManifestType
    <3>2. \A u \in Tasks \ {t}, n \in Nodes : ~Updating(task[u], n)
      BY <1>1, <3>1, OnlyOneUpdates DEF Critical
    <3>3. up => \A n \in Nodes : peer_manifests[n] = manifest_store[n] \/ n = l.man.node
      <4>1. \A n \in Nodes : Updating(l, n) => n = l.man.node
        BY <3>1 DEF Updating
      <4>. QED BY <3>2, <4>1, OnlyUpdater
    <3>4. up' => \A n \in Nodes : peer_manifests'[n] = manifest_store'[n]
      <4>. SUFFICES ASSUME up', NEW n \in Nodes PROVE peer_manifests'[n] = manifest_store'[n]
        OBVIOUS
      <4>1. up /\ peer_manifests' = peer_manifests
        BY <2>11 DEF DiscoverPersist
      <4>2. manifest_store' = [manifest_store EXCEPT ![l.man.node] = l.man]
        BY <2>11 DEF DiscoverPersist
      <4>3. peer_manifests[n] = manifest_store[n] \/ n = l.man.node
        BY <3>3, <4>1
      <4>. QED BY <3>1, <4>1, <4>2, <4>3 DEF IInv, SharedTypeOK, CachedInv, CachedOK
    <3>. QED BY <3>4 DEF UpdateInv
  <2>. QED BY <1>4, <2>3, <2>4, <2>5, <2>6, <2>7, <2>8, <2>9, <2>10, <2>11 DEF Writes
<1>. QED BY <1>3, <1>4, TaskSteps

(* A task that is aborted between the two writes leaves them apart; a crash*)
(* is repaired by the hydration.                                           *)
LEMMA UpdateInvariance ==
  ASSUME "abort" \notin Faults
  PROVE  Spec => []UpdateInv
<1>1. Init => UpdateInv
  BY DEF Init, UpdateInv
<1>2. ASSUME IInv, CachedInv, UpdateInv, [Next]_vars PROVE UpdateInv'
  <2>1. CASE ClearRecord
    BY <1>2, <2>1 DEF ClearRecord, UpdateInv, Updating
  <2>2. CASE Crash
    BY <2>2 DEF Crash, UpdateInv
  <2>3. CASE Hydrate
    BY <1>2, <2>3 DEF Hydrate, UpdateInv
  <2>4. CASE UNCHANGED vars
    BY <1>2, <2>4 DEF vars, shared, UpdateInv, Updating
  <2>. QED BY <1>2, <2>1, <2>2, <2>3, <2>4, UpdateTask DEF Next, Abort
<1>. QED BY <1>1, <1>2, Invariance, CachedInvariance, PTL DEF Spec

(* The cache and the manifest store agree whenever no task is inside the   *)
(* lifecycle lock, crashes and restarts included (_remember_manifest and   *)
(* _forget_manifest write both).                                           *)
THEOREM CacheIsWrittenThrough ==
  ASSUME "abort" \notin Faults
  PROVE  Spec => []WriteThrough
<1>1. IInv /\ UpdateInv => WriteThrough
  <2>. SUFFICES ASSUME IInv, UpdateInv, up, lifecycle_lock = NoTask PROVE peer_manifests = manifest_store
    BY DEF WriteThrough
  <2>1. \A t \in Tasks, n \in Nodes : ~Updating(task[t], n)
    BY NodeAssumption DEF IInv, LockOK, Updating, Critical
  <2>. QED BY <2>1 DEF UpdateInv, IInv, SharedTypeOK
<1>. QED BY <1>1, Invariance, UpdateInvariance, PTL

----------------------------------------------------------------------------
(* Records without a manifest *)

(* A discovery that has admitted n is still to remember its manifest. *)
Flying(n) == \E t \in Tasks : task[t].op = "discover" /\ \E m \in task[t].acc : m.node = n

(* A task is about to evict the manifest of the node it is at, and writes  *)
(* no record before.                                                       *)
Evicting(l) == l.pc = "forget" \/ (l.pc = "reject" /\ l.rec.state = "absent")

OrphanInv ==
  /\ up
  /\ \A n \in EligiblePeers : peer_manifests[n] # NoManifest \/ Flying(n)
  /\ \A t \in Tasks : Evicting(task[t]) /\ task[t].cur \in EligiblePeers => Flying(task[t].cur)

(* A discovered manifest is in flight as long as its task has not written  *)
(* it through.                                                             *)
LEMMA StaysFlying ==
  ASSUME NEW t \in Tasks, OthersStay(t), NEW n, Flying(n),
         task[t].op = "discover" => task'[t].op = "discover" /\ task[t].acc \subseteq task'[t].acc
  PROVE  Flying(n)'
BY DEF Flying, OthersStay

(* Only the task that holds the lock evicts. *)
LEMMA OneEvicts ==
  ASSUME IInv, NEW t \in Tasks, lifecycle_lock = t, NEW u \in Tasks \ {t}
  PROVE  ~Evicting(task[u])
BY DEF IInv, LockOK, Evicting, Critical

(* No step of an operation leaves an ACTIVE record without a manifest: what*)
(* evicts a manifest has first written a state that is not ACTIVE.         *)
LEMMA OrphanTask ==
  ASSUME IInv, IInv', CachedInv, OrphanInv, NEW t \in Tasks, Start(t) \/ TakeLock(t) \/ Step(t)
  PROVE  OrphanInv'
<1> DEFINE l == task[t]
           k == task'[t]
<1>1. /\ TaskOK(task[t]) /\ TaskOK(task'[t]) /\ task[t] \in Task /\ task'[t] \in Task
      /\ (task[t].pc \in Critical => lifecycle_lock = t) /\ CachedOK(task[t], peer_manifests)
  BY DEF IInv, TasksOK, TaskOK, LockOK, CachedInv
<1>3. CASE Reads(t)
  <2>1. OthersStay(t) /\ EligiblePeers' = EligiblePeers /\ peer_manifests' = peer_manifests /\ up' = up
    BY <1>3 DEF Reads, Stores, EligiblePeers
  <2>2. \A n : Flying(n) => Flying(n)'
    <3>1. CASE l.op = "discover" /\ l.acc = {}
      BY <2>1, <3>1 DEF Flying, OthersStay
    <3>2. CASE ~(l.op = "discover" /\ l.acc = {})
      BY <1>3, <2>1, <3>2, StaysFlying DEF Reads, ReadLocals
    <3>. QED BY <3>1, <3>2
  <2>3. Evicting(k) => k.cur \notin EligiblePeers
    <3>1. k.pc = "forget" => k.cur \notin EligiblePeers
      BY <1>3 DEF Reads, ReadLocals, Revoked, EligiblePeers
    <3>2. k.pc = "reject" /\ k.rec.state = "absent" => k.cur \notin EligiblePeers
      BY <1>1, <1>3 DEF Reads, ReadLocals, EligiblePeers, Critical, TaskOK, OpOK
    <3>. QED BY <3>1, <3>2 DEF Evicting
  <2>. QED BY <2>1, <2>2, <2>3 DEF OrphanInv, OthersStay
<1>4. CASE Writes(t)
  <2>1. OthersStay(t)
    BY <1>4 DEF Writes
  <2>2. ASSUME \A n : Flying(n) => Flying(n)', up' = up, EligiblePeers' \subseteq EligiblePeers,
               \A n \in EligiblePeers' : peer_manifests[n] # NoManifest => peer_manifests'[n] # NoManifest,
               Evicting(k) => k.cur \notin EligiblePeers'
        PROVE  OrphanInv'
    BY <2>1, <2>2 DEF OrphanInv, OthersStay
  <2>3. ASSUME Keeps(l, k) \/ Leaves(l, k)
        PROVE  \A n : Flying(n) => Flying(n)'
    BY <2>1, <2>3, StaysFlying DEF Keeps, Leaves
  <2>4. CASE Remember(t) /\ Keeps(l, k) /\ k.pc = "persist"
    <3>1. l.man \in Manifests /\ l.man # NoManifest
      BY <1>1, <2>4, ManifestsAssumption DEF TaskOK, LocalsOK, Remember, At
    <3>. QED BY <2>2, <2>3, <2>4, <3>1 DEF Remember, EligiblePeers, Evicting, IInv, SharedTypeOK
  <2>5. CASE Persist(t) /\ Keeps(l, k) /\ k.pc = "admit"
    BY <2>2, <2>3, <2>5 DEF Persist, EligiblePeers, Evicting
  <2>6. CASE ApplyReject(t) /\ Keeps(l, k) /\ k.pc = "forget"
    <3>1. l.cur \in Nodes /\ lifecycle_lock = t /\ l.pc = "reject"
      BY <1>1, <2>6 DEF TaskOK, LocalsOK, ApplyReject, At, Critical
    <3>2. \A n : Flying(n) => Flying(n)'
      BY <2>3, <2>6
    <3>3. CASE l.rec.state = "absent"
      <4>1. EligiblePeers' = EligiblePeers /\ peer_manifests' = peer_manifests /\ up' = up
        BY <2>6, <3>3 DEF ApplyReject, EligiblePeers
      <4>2. k.cur = l.cur /\ Evicting(l)
        BY <2>6, <3>1, <3>3 DEF Keeps, Evicting
      <4>. QED BY <2>1, <3>2, <4>1, <4>2 DEF OrphanInv, OthersStay
    <3>4. CASE l.rec.state # "absent"
      <4>1. EligiblePeers' = EligiblePeers \ {l.cur}
        BY <1>1, <2>6, <3>1, <3>4 DEF ApplyReject, Upsert, SetState, EligiblePeers, IInv, SharedTypeOK, Task, MemberRecord
      <4>. QED BY <2>2, <2>6, <3>2, <4>1 DEF ApplyReject, Keeps
    <3>. QED BY <3>3, <3>4
  <2>7. CASE MarkRevoked(t) /\ Keeps(l, k) /\ k.pc = "forget"
    <3>1. l.cur \in Nodes
      BY <1>1, <2>7 DEF TaskOK, LocalsOK, MarkRevoked, At
    <3>2. EligiblePeers' = EligiblePeers \ {l.cur}
      BY <1>1, <2>7, <3>1 DEF MarkRevoked, Upsert, SetState, EligiblePeers, IInv, SharedTypeOK, Task, MemberRecord
    <3>. QED BY <2>2, <2>3, <2>7, <3>2 DEF MarkRevoked, Keeps
  <2>8. CASE Forget(t) /\ Keeps(l, k) /\ k.pc = "delete"
    <3>1. l.cur \in Nodes /\ lifecycle_lock = t /\ Evicting(l)
      BY <1>1, <2>8 DEF TaskOK, LocalsOK, Forget, At, Critical, Evicting
    <3>2. \A n : Flying(n) => Flying(n)'
      BY <2>3, <2>8
    <3>3. EligiblePeers' = EligiblePeers /\ up' = up
      BY <2>8 DEF Forget, EligiblePeers
    <3>4. \A n \in Nodes \ {l.cur} : peer_manifests'[n] = peer_manifests[n]
      BY <2>8 DEF Forget, IInv, SharedTypeOK
    <3>5. l.cur \in EligiblePeers => Flying(l.cur)
      BY <3>1 DEF OrphanInv
    <3>6. \A u \in Tasks \ {t} : ~Evicting(task[u])
      BY <3>1, OneEvicts
    <3>7. ~Evicting(k)
      BY <2>8 DEF Evicting
    <3>. QED BY <2>1, <3>2, <3>3, <3>4, <3>5, <3>6, <3>7 DEF OrphanInv, OthersStay, EligiblePeers
  <2>9. CASE RecordUpsert(t) /\ Leaves(l, k)
    <3>1. l.man \in Manifests /\ l.man.node \in Nodes /\ lifecycle_lock = t /\ peer_manifests[l.man.node] = l.man /\ l.man # NoManifest
      BY <1>1, <2>9, ManifestsAssumption DEF TaskOK, LocalsOK, RecordUpsert, At, Critical, CachedOK, ManifestType
    <3>2. \A n : Flying(n) => Flying(n)'
      BY <2>3, <2>9
    <3>3. EligiblePeers' = EligiblePeers \cup {l.man.node} /\ up' = up /\ peer_manifests' = peer_manifests
      BY <2>9, <3>1 DEF RecordUpsert, Upsert, Admitted, EligiblePeers, IInv, SharedTypeOK
    <3>4. \A u \in Tasks : ~Evicting(task'[u])
      BY <2>1, <2>9, <3>1, OneEvicts DEF Leaves, Evicting, Critical, OthersStay
    <3>. QED BY <3>1, <3>2, <3>3, <3>4 DEF OrphanInv
  <2>10. CASE ApplyAdmit(t) /\ Leaves(l, k)
    <3>1. l.man \in Manifests /\ l.cur \in Nodes /\ lifecycle_lock = t /\ peer_manifests[l.cur] = l.man /\ l.man # NoManifest
      BY <1>1, <2>10, ManifestsAssumption DEF TaskOK, LocalsOK, RefreshOK, RefreshOps, ApplyAdmit, At, Critical, CachedOK
    <3>2. \A n : Flying(n) => Flying(n)'
      BY <2>3, <2>10
    <3>3. EligiblePeers' \subseteq EligiblePeers \cup {l.cur} /\ up' = up /\ peer_manifests' = peer_manifests
      BY <2>10, <3>1 DEF ApplyAdmit, Upsert, Admitted, EligiblePeers, IInv, SharedTypeOK
    <3>4. \A u \in Tasks : ~Evicting(task'[u])
      BY <2>1, <2>10, <3>1, OneEvicts DEF Leaves, Evicting, Critical, OthersStay
    <3>. QED BY <3>1, <3>2, <3>3, <3>4 DEF OrphanInv
  <2>11. CASE ApplyQuarantine(t) /\ Leaves(l, k)
    <3>1. l.cur \in Nodes
      BY <1>1, <2>11 DEF TaskOK, LocalsOK, ApplyQuarantine, At
    <3>2. membership_table' = membership_table \/ EligiblePeers' = EligiblePeers \ {l.cur}
      <4>1. ASSUME Upsert(l.cur, SetState(l.rec, "stale_manifest"))
            PROVE  EligiblePeers' = EligiblePeers \ {l.cur}
        BY <1>1, <3>1, <4>1 DEF Upsert, SetState, EligiblePeers, IInv, SharedTypeOK, Task, MemberRecord
      <4>. QED BY <2>11, <4>1 DEF ApplyQuarantine
    <3>. QED BY <2>2, <2>3, <2>11, <3>2 DEF ApplyQuarantine, Leaves, Evicting, Critical, EligiblePeers
  <2>12. CASE Delete(t) /\ Leaves(l, k)
    BY <2>2, <2>3, <2>12 DEF Delete, Leaves, Evicting, Critical, EligiblePeers
  <2>13. CASE /\ DiscoverAdmit(t) /\ k.pc = "sweep" /\ l.op = "discover" /\ k.op = l.op
              /\ \E m \in Admissible : m.node = l.cur /\ Upsert(m.node, Admitted(m)) /\ k.acc = l.acc \cup {m}
    <3>1. PICK m \in Admissible : m.node = l.cur /\ Upsert(m.node, Admitted(m)) /\ k.acc = l.acc \cup {m}
      BY <2>13
    <3>2. \A n : Flying(n) => Flying(n)'
      BY <2>1, <2>13, <3>1, StaysFlying
    <3>3. Flying(m.node)'
      BY <2>13, <3>1 DEF Flying
    <3>4. EligiblePeers' \subseteq EligiblePeers \cup {m.node}
      BY <3>1 DEF Upsert, EligiblePeers, IInv, SharedTypeOK
    <3>5. up' = up /\ peer_manifests' = peer_manifests
      BY <2>13 DEF DiscoverAdmit
    <3>6. ~Evicting(k)
      BY <2>13 DEF Evicting
    <3>. QED BY <2>1, <3>2, <3>3, <3>4, <3>5, <3>6 DEF OrphanInv, OthersStay
  <2>14. CASE /\ DiscoverRemember(t) /\ k.pc = "persist" /\ l.op = "discover"
              /\ k.op = l.op /\ k.acc = l.acc /\ k.man \in l.acc
              /\ peer_manifests' = [peer_manifests EXCEPT ![k.man.node] = k.man]
    <3>1. k.man \in Manifests /\ k.man # NoManifest
      BY <1>1, <2>14, ManifestsAssumption DEF Task
    <3>2. \A n : Flying(n) => Flying(n)'
      BY <2>1, <2>14, StaysFlying
    <3>3. \A n \in Nodes : peer_manifests[n] # NoManifest => peer_manifests'[n] # NoManifest
      BY <2>14, <3>1 DEF IInv, SharedTypeOK
    <3>. QED BY <2>2, <2>14, <3>2, <3>3 DEF DiscoverRemember, Evicting, EligiblePeers
  <2>15. CASE /\ DiscoverPersist(t) /\ k.pc = "sweep" /\ l.man \in l.acc /\ k.acc = l.acc \ {l.man} /\ k.op = l.op
    <3>1. /\ l.man \in Manifests /\ l.man # NoManifest /\ lifecycle_lock = t
          /\ peer_manifests[l.man.node] = l.man
      BY <1>1, <2>15, ManifestsAssumption DEF TaskOK, LocalsOK, DiscoverPersist, At, Critical, CachedOK
    <3>2. \A n : Flying(n) => Flying(n)' \/ n = l.man.node
      BY <2>1, <2>15 DEF Flying, OthersStay
    <3>3. EligiblePeers' = EligiblePeers /\ up' = up /\ peer_manifests' = peer_manifests
      BY <2>15 DEF DiscoverPersist, EligiblePeers
    <3>4. \A u \in Tasks : ~Evicting(task'[u])
      BY <2>1, <2>15, <3>1, OneEvicts DEF Evicting, OthersStay
    <3>. QED BY <3>1, <3>2, <3>3, <3>4 DEF OrphanInv
  <2>. QED BY <1>4, <2>4, <2>5, <2>6, <2>7, <2>8, <2>9, <2>10, <2>11, <2>12, <2>13, <2>14, <2>15 DEF Writes
<1>. QED BY <1>3, <1>4, TaskSteps

(* As long as nothing fails, select_peers finds the manifest of every      *)
(* ACTIVE record, or the discovery that wrote the record is still to       *)
(* remember it (discovery.py upserts before node.py remembers).            *)
THEOREM ActivePeersAreServed ==
  ASSUME Faults = {}
  PROVE  Spec => []NoOrphanActive
<1>1. Init => OrphanInv
  BY IdleOK DEF Init, OrphanInv, EligiblePeers, NoRecord, Evicting
<1>2. ASSUME IInv, IInv', CachedInv, OrphanInv, [Next]_vars PROVE OrphanInv'
  <2>1. CASE ClearRecord
    <3>1. EligiblePeers' \subseteq EligiblePeers /\ UNCHANGED <<peer_manifests, up, task>>
      BY <2>1, <1>2 DEF ClearRecord, Upsert, EligiblePeers, NoRecord, IInv, SharedTypeOK
    <3>. QED BY <1>2, <3>1 DEF OrphanInv, Flying
  <2>2. CASE Hydrate
    <3>1. \A n \in EligiblePeers : Flying(n)
      BY <1>2, <2>2 DEF Hydrate, OrphanInv, EligiblePeers
    <3>2. EligiblePeers' = EligiblePeers /\ up' /\ task' = task
      BY <2>2 DEF Hydrate, EligiblePeers
    <3>. QED BY <1>2, <3>1, <3>2 DEF OrphanInv, Flying
  <2>3. CASE UNCHANGED vars
    BY <1>2, <2>3 DEF vars, shared, OrphanInv, EligiblePeers, Flying
  <2>. QED BY <1>2, <2>1, <2>2, <2>3, OrphanTask DEF Next, Abort, Crash
<1>3. OrphanInv => NoOrphanActive
  BY DEF OrphanInv, NoOrphanActive, Selected, KnownInbound, Flying
<1>. QED BY <1>1, <1>2, <1>3, Invariance, CachedInvariance, PTL DEF Spec

----------------------------------------------------------------------------
(* Records and manifests of the same revision *)

(* The record of the node is written next. *)
Recorded(l, n) == l.pc \in {"persist", "admit"} /\ l.man.node = n

(* A refresh that found no record writes none. *)
FoundNoRecord(l) ==
  l.op \in RefreshOps /\ l.pc \in {"remember", "persist", "admit"} /\ l.rec.state = "absent"

MatchInv ==
  /\ up
  /\ \A t \in Tasks : task[t].op # "discover"
  /\ \A n \in EligiblePeers : peer_manifests[n] # NoManifest =>
       \/ membership_table[n].rev = peer_manifests[n].rev
       \/ \E t \in Tasks : Recorded(task[t], n)
  /\ \A t \in Tasks : FoundNoRecord(task[t]) => task[t].cur \notin EligiblePeers

(* Only the task that holds the lock is about to write a record. *)
LEMMA OneRecords ==
  ASSUME IInv, NEW t \in Tasks, lifecycle_lock = t, NEW u \in Tasks \ {t}
  PROVE  ~FoundNoRecord(task[u]) /\ \A n : ~Recorded(task[u], n)
BY DEF IInv, LockOK, FoundNoRecord, Recorded, Critical

(* An operation that remembers a manifest writes the record of it before it*)
(* leaves the lock.                                                        *)
LEMMA MatchTask ==
  ASSUME "discover" \notin Operations, IInv, IInv', CachedInv, MatchInv,
         NEW t \in Tasks, Start(t) \/ TakeLock(t) \/ Step(t)
  PROVE  MatchInv'
<1> DEFINE l == task[t]
           k == task'[t]
<1>1. /\ TaskOK(task[t]) /\ TaskOK(task'[t]) /\ task[t] \in Task /\ task'[t] \in Task
      /\ (task[t].pc \in Critical => lifecycle_lock = t) /\ CachedOK(task[t], peer_manifests)
      /\ task[t].op # "discover"
  BY DEF IInv, TasksOK, TaskOK, LockOK, CachedInv, MatchInv
<1>2. ASSUME OthersStay(t), k.op # "discover", up' = up, lifecycle_lock = t,
             NEW c \in Nodes,
             EligiblePeers' \subseteq EligiblePeers \cup {c},
             \A n \in Nodes \ {c} : ~Recorded(l, n) /\ UNCHANGED <<membership_table[n], peer_manifests[n]>>,
             \/ c \notin EligiblePeers' \/ peer_manifests'[c] = NoManifest
             \/ membership_table'[c].rev = peer_manifests'[c].rev
             \/ Recorded(k, c),
             FoundNoRecord(k) => k.cur \notin EligiblePeers'
      PROVE  MatchInv'
  <2>1. \A u \in Tasks \ {t} : ~FoundNoRecord(task[u]) /\ \A n : ~Recorded(task[u], n)
    BY <1>2, OneRecords
  <2>2. \A n \in EligiblePeers' : peer_manifests'[n] # NoManifest =>
          membership_table'[n].rev = peer_manifests'[n].rev \/ \E u \in Tasks : Recorded(task'[u], n)
    <3>. SUFFICES ASSUME NEW n \in EligiblePeers', peer_manifests'[n] # NoManifest
                  PROVE  membership_table'[n].rev = peer_manifests'[n].rev \/ \E u \in Tasks : Recorded(task'[u], n)
      OBVIOUS
    <3>1. n \in Nodes
      BY DEF EligiblePeers
    <3>2. CASE n = c
      BY <1>2, <3>2
    <3>3. CASE n # c
      <4>1. n \in EligiblePeers /\ peer_manifests[n] # NoManifest /\ \A u \in Tasks : ~Recorded(task[u], n)
        BY <1>2, <2>1, <3>1, <3>3
      <4>2. membership_table[n].rev = peer_manifests[n].rev
        BY <4>1 DEF MatchInv
      <4>. QED BY <1>2, <3>1, <3>3, <4>2
    <3>. QED BY <3>2, <3>3
  <2>. QED BY <1>2, <2>1, <2>2 DEF MatchInv, OthersStay
<1>3. ASSUME OthersStay(t), k.op # "discover", UNCHANGED <<peer_manifests, up>>, lifecycle_lock = t,
             NEW c \in Nodes, ~FoundNoRecord(k),
             \A n \in Nodes \ {c} : membership_table'[n] = membership_table[n] /\ ~Recorded(l, n),
             \/ membership_table' = membership_table /\ ~Recorded(l, c)
             \/ c \notin EligiblePeers'
             \/ membership_table'[c].rev = peer_manifests[c].rev
      PROVE  MatchInv'
  <2>1. EligiblePeers' \subseteq EligiblePeers \cup {c}
    BY <1>3 DEF EligiblePeers
  <2>2. \/ c \notin EligiblePeers' \/ peer_manifests'[c] = NoManifest
        \/ membership_table'[c].rev = peer_manifests'[c].rev
    <3>1. CASE membership_table' = membership_table /\ ~Recorded(l, c)
      <4>1. \A u \in Tasks : ~Recorded(task[u], c)
        BY <1>3, <3>1, OneRecords
      <4>. QED BY <1>3, <3>1, <4>1 DEF MatchInv, EligiblePeers
    <3>. QED BY <1>3, <3>1
  <2>. QED BY <1>2, <1>3, <2>1, <2>2
<1>4. CASE Reads(t)
  <2>1. OthersStay(t) /\ UNCHANGED <<membership_table, peer_manifests, up>> /\ EligiblePeers' = EligiblePeers
    BY <1>4 DEF Reads, Stores, EligiblePeers
  <2>2. \A n : ~Recorded(l, n)
    BY <1>4 DEF Reads, ReadLocals, Recorded, Critical
  <2>3. FoundNoRecord(k) => k.cur \notin EligiblePeers
    BY <1>4 DEF Reads, ReadLocals, FoundNoRecord, Critical, EligiblePeers
  <2>4. k.op # "discover"
    BY <1>1, <1>4 DEF Reads, ReadLocals
  <2>. QED BY <2>1, <2>2, <2>3, <2>4 DEF MatchInv, OthersStay
<1>5. CASE Writes(t)
  <2>1. OthersStay(t) /\ (Keeps(l, k) \/ Leaves(l, k) => k.op # "discover")
    BY <1>1, <1>5 DEF Writes, Keeps, Leaves
  <2>2. Leaves(l, k) => ~FoundNoRecord(k)
    BY DEF Leaves, FoundNoRecord, Critical
  <2>3. CASE Remember(t) /\ Keeps(l, k) /\ k.pc = "persist"
    <3>1. l.man.node \in Nodes /\ lifecycle_lock = t /\ l.pc = "remember"
      BY <1>1, <2>3, ManifestsAssumption DEF TaskOK, LocalsOK, Remember, At, ManifestType, Critical
    <3>2. EligiblePeers' = EligiblePeers /\ membership_table' = membership_table /\ up' = up
      BY <2>3 DEF Remember, EligiblePeers
    <3>3. \A n \in Nodes \ {l.man.node} : peer_manifests'[n] = peer_manifests[n]
      BY <2>3 DEF Remember, IInv, SharedTypeOK
    <3>4. Recorded(k, l.man.node) /\ \A n : ~Recorded(l, n)
      BY <2>3, <3>1 DEF Recorded, Keeps
    <3>5. FoundNoRecord(k) => k.cur \notin EligiblePeers
      BY <2>3, <3>1 DEF Keeps, FoundNoRecord, MatchInv
    <3>. QED BY <1>2, <2>1, <2>3, <3>1, <3>2, <3>3, <3>4, <3>5
  <2>4. CASE Persist(t) /\ Keeps(l, k) /\ k.pc = "admit"
    <3>1. l.man.node \in Nodes /\ lifecycle_lock = t /\ l.pc = "persist"
      BY <1>1, <2>4, ManifestsAssumption DEF TaskOK, LocalsOK, Persist, At, ManifestType, Critical
    <3>2. EligiblePeers' = EligiblePeers /\ UNCHANGED <<membership_table, peer_manifests, up>>
      BY <2>4 DEF Persist, EligiblePeers
    <3>4. Recorded(k, l.man.node) /\ \A n \in Nodes \ {l.man.node} : ~Recorded(l, n)
      BY <2>4 DEF Recorded, Keeps
    <3>5. FoundNoRecord(k) => k.cur \notin EligiblePeers
      BY <2>4, <3>1 DEF Keeps, FoundNoRecord, MatchInv
    <3>. QED BY <1>2, <2>1, <2>4, <3>1, <3>2, <3>4, <3>5
  <2>5. CASE (ApplyReject(t) \/ MarkRevoked(t)) /\ Keeps(l, k) /\ k.pc = "forget"
    <3>1. l.cur \in Nodes /\ lifecycle_lock = t /\ l.pc \in {"reject", "mark_revoked"}
      BY <1>1, <2>5 DEF TaskOK, LocalsOK, ApplyReject, MarkRevoked, At, Critical
    <3>2. UNCHANGED <<peer_manifests, up>>
      BY <2>5 DEF ApplyReject, MarkRevoked
    <3>3. membership_table' = membership_table \/ l.cur \notin EligiblePeers'
      <4>1. ASSUME NEW s \in {"rejected", "revoked"}, Upsert(l.cur, SetState(l.rec, s))
            PROVE  l.cur \notin EligiblePeers'
        BY <1>1, <3>1, <4>1 DEF Upsert, SetState, EligiblePeers, IInv, SharedTypeOK, Task, MemberRecord
      <4>. QED BY <2>5, <4>1 DEF ApplyReject, MarkRevoked
    <3>4. \A n \in Nodes \ {l.cur} : membership_table'[n] = membership_table[n]
      BY <2>5 DEF ApplyReject, MarkRevoked, Upsert, IInv, SharedTypeOK
    <3>5. (\A n : ~Recorded(l, n)) /\ ~FoundNoRecord(k)
      BY <2>5, <3>1 DEF Recorded, FoundNoRecord
    <3>. QED BY <1>3, <2>1, <2>5, <3>1, <3>2, <3>3, <3>4, <3>5
  <2>6. CASE Forget(t) /\ Keeps(l, k) /\ k.pc = "delete"
    <3>1. l.cur \in Nodes /\ lifecycle_lock = t /\ l.pc = "forget"
      BY <1>1, <2>6 DEF TaskOK, LocalsOK, Forget, At, Critical
    <3>2. EligiblePeers' = EligiblePeers /\ membership_table' = membership_table /\ up' = up
      BY <2>6 DEF Forget, EligiblePeers
    <3>3. peer_manifests'[l.cur] = NoManifest /\ \A n \in Nodes \ {l.cur} : peer_manifests'[n] = peer_manifests[n]
      BY <2>6, <3>1 DEF Forget, IInv, SharedTypeOK
    <3>4. (\A n : ~Recorded(l, n)) /\ ~FoundNoRecord(k)
      BY <2>6, <3>1 DEF Recorded, FoundNoRecord
    <3>. QED BY <1>2, <2>1, <2>6, <3>1, <3>2, <3>3, <3>4
  <2>7. CASE RecordUpsert(t) /\ Leaves(l, k)
    <3>1. l.man.node \in Nodes /\ lifecycle_lock = t /\ peer_manifests[l.man.node] = l.man
      BY <1>1, <2>7, ManifestsAssumption DEF TaskOK, LocalsOK, RecordUpsert, At, Critical, CachedOK, ManifestType
    <3>2. UNCHANGED <<peer_manifests, up>> /\ Upsert(l.man.node, Admitted(l.man))
      BY <2>7 DEF RecordUpsert
    <3>3. membership_table'[l.man.node].rev = l.man.rev
      BY <3>1, <3>2 DEF Upsert, Admitted, IInv, SharedTypeOK
    <3>4. \A n \in Nodes \ {l.man.node} : membership_table'[n] = membership_table[n] /\ ~Recorded(l, n)
      BY <3>2 DEF Upsert, IInv, SharedTypeOK, Recorded
    <3>. QED BY <1>3, <2>1, <2>2, <2>7, <3>1, <3>2, <3>3, <3>4
  <2>8. CASE ApplyAdmit(t) /\ Leaves(l, k)
    <3>1. l.cur \in Nodes /\ l.man.node = l.cur /\ lifecycle_lock = t /\ peer_manifests[l.cur] = l.man /\ l.pc = "admit"
      BY <1>1, <2>8 DEF TaskOK, RefreshOK, RefreshOps, ApplyAdmit, At, Critical, CachedOK
    <3>2. UNCHANGED <<peer_manifests, up>>
      BY <2>8 DEF ApplyAdmit
    <3>3. \A n \in Nodes \ {l.cur} : membership_table'[n] = membership_table[n] /\ ~Recorded(l, n)
      BY <2>8, <3>1 DEF ApplyAdmit, Upsert, IInv, SharedTypeOK, Recorded
    <3>4. CASE l.rec.state = "absent"
      <4>1. membership_table' = membership_table /\ l.cur \notin EligiblePeers
        BY <2>8, <3>1, <3>4 DEF ApplyAdmit, MatchInv, FoundNoRecord, RefreshOps
      <4>2. l.cur \notin EligiblePeers'
        BY <4>1 DEF EligiblePeers
      <4>. QED BY <1>3, <2>1, <2>2, <2>8, <3>1, <3>2, <3>3, <4>2
    <3>5. CASE l.rec.state # "absent"
      <4>1. membership_table'[l.cur].rev = l.man.rev
        BY <2>8, <3>1, <3>5 DEF ApplyAdmit, Upsert, Admitted, IInv, SharedTypeOK
      <4>. QED BY <1>3, <2>1, <2>2, <2>8, <3>1, <3>2, <3>3, <4>1
    <3>. QED BY <3>4, <3>5
  <2>9. CASE ApplyQuarantine(t) /\ Leaves(l, k)
    <3>1. l.cur \in Nodes /\ lifecycle_lock = t /\ l.pc = "quarantine"
      BY <1>1, <2>9 DEF TaskOK, LocalsOK, ApplyQuarantine, At, Critical
    <3>2. UNCHANGED <<peer_manifests, up>>
      BY <2>9 DEF ApplyQuarantine
    <3>3. membership_table' = membership_table \/ l.cur \notin EligiblePeers'
      <4>1. ASSUME Upsert(l.cur, SetState(l.rec, "stale_manifest"))
            PROVE  l.cur \notin EligiblePeers'
        BY <1>1, <3>1, <4>1 DEF Upsert, SetState, EligiblePeers, IInv, SharedTypeOK, Task, MemberRecord
      <4>. QED BY <2>9, <4>1 DEF ApplyQuarantine
    <3>4. \A n \in Nodes \ {l.cur} : membership_table'[n] = membership_table[n]
      BY <2>9 DEF ApplyQuarantine, Upsert, IInv, SharedTypeOK
    <3>5. \A n : ~Recorded(l, n)
      BY <3>1 DEF Recorded
    <3>. QED BY <1>3, <2>1, <2>2, <2>9, <3>1, <3>2, <3>3, <3>4, <3>5
  <2>10. CASE Delete(t) /\ Leaves(l, k)
    <3>1. l.cur \in Nodes /\ lifecycle_lock = t /\ l.pc = "delete"
      BY <1>1, <2>10 DEF TaskOK, LocalsOK, Delete, At, Critical
    <3>2. UNCHANGED <<membership_table, peer_manifests, up>>
      BY <2>10 DEF Delete
    <3>3. \A n : ~Recorded(l, n)
      BY <3>1 DEF Recorded
    <3>. QED BY <1>3, <2>1, <2>2, <2>10, <3>1, <3>2, <3>3
  <2>. QED BY <1>1, <1>5, <2>3, <2>4, <2>5, <2>6, <2>7, <2>8, <2>9, <2>10 DEF Writes, DiscoverPersist, At, TaskOK, OpOK
<1>. QED BY <1>4, <1>5, TaskSteps

(* It holds as long as nothing fails and nobody discovers. *)
LEMMA MatchInvariance ==
  ASSUME Faults = {}, "discover" \notin Operations
  PROVE  Spec => []MatchInv
<1>1. Init => MatchInv
  BY IdleOK DEF Init, MatchInv, EligiblePeers, NoRecord, FoundNoRecord, RefreshOps
<1>2. ASSUME IInv, IInv', CachedInv, UpdateInv, MatchInv, [Next]_vars PROVE MatchInv'
  <2>1. CASE ClearRecord
    <3>1. PICK n \in Nodes : Upsert(n, NoRecord)
      BY <2>1 DEF ClearRecord
    <3>2. EligiblePeers' = EligiblePeers \ {n} /\ \A m \in EligiblePeers' : membership_table'[m] = membership_table[m]
      BY <1>2, <3>1 DEF Upsert, EligiblePeers, NoRecord, IInv, SharedTypeOK
    <3>3. UNCHANGED <<peer_manifests, up, task>>
      BY <2>1 DEF ClearRecord
    <3>. QED BY <1>2, <3>2, <3>3 DEF MatchInv, Recorded, FoundNoRecord
  <2>2. CASE Hydrate
    <3>1. \A n \in Nodes, t \in Tasks : ~Updating(task[t], n)
      BY <1>2, <2>2, NodeAssumption DEF Hydrate, IInv, LockOK, Updating, Critical
    <3>2. peer_manifests' = peer_manifests
      BY <1>2, <2>2, <3>1 DEF Hydrate, UpdateInv, MatchInv, IInv, SharedTypeOK
    <3>3. up' /\ UNCHANGED <<membership_table, task>>
      BY <2>2 DEF Hydrate
    <3>. QED BY <1>2, <3>2, <3>3 DEF MatchInv, EligiblePeers, Recorded, FoundNoRecord
  <2>3. CASE UNCHANGED vars
    BY <1>2, <2>3 DEF vars, shared, MatchInv, EligiblePeers, Recorded, FoundNoRecord
  <2>. QED BY <1>2, <2>1, <2>2, <2>3, MatchTask DEF Next, Abort, Crash
<1>3. Spec => []UpdateInv
  BY UpdateInvariance
<1>. QED BY <1>1, <1>2, <1>3, Invariance, CachedInvariance, PTL DEF Spec

(* Whenever no task is inside the lock, an ACTIVE record carries the       *)
(* revision of the cached manifest: _record_peer and                       *)
(* _apply_refresh_decision write the two under one lock.                   *)
THEOREM RecordsCarryRevisions ==
  ASSUME Faults = {}, "discover" \notin Operations
  PROVE  Spec => []RecordMatchesManifest
<1>1. IInv /\ MatchInv => RecordMatchesManifest
  <2>. SUFFICES ASSUME IInv, MatchInv, lifecycle_lock = NoTask, NEW n \in EligiblePeers, peer_manifests[n] # NoManifest
                PROVE  membership_table[n].rev = peer_manifests[n].rev
    BY DEF RecordMatchesManifest
  <2>1. \A t \in Tasks : ~Recorded(task[t], n)
    BY NodeAssumption DEF IInv, LockOK, Recorded, Critical
  <2>. QED BY <2>1 DEF MatchInv
<1>. QED BY <1>1, Invariance, MatchInvariance, PTL

----------------------------------------------------------------------------
(* One operation at a time *)

(* What a refresh knows of the node whose manifest it is about to evict:   *)
(* it neither began with a manifest of it nor accepted one.  A refresh_all *)
(* collects no manifest of an orphan, and applies everything it decided    *)
(* after it has forgotten what it began with.                              *)
EvictsOther(l) ==
  /\ l.op \notin RefreshOps => Settled(l)
  /\ \A n \in Nodes : n \in l.srcs => l.base[n] = NoManifest
  /\ l.op \in RefreshOps /\ (l.pc = "apply" \/ l.pc \in Critical) /\ l.srcs = {} => Settled(l)
  /\ l.op \in RefreshOps /\ l.pc \in {"reject", "forget"} => ~Accepting(l.dec[l.cur])

EvictInv == \A t \in Tasks : EvictsOther(task[t])

(* A refresh goes on with the peer it has just dealt with behind it.       *)
LEMMA AfterApplyEvicts ==
  ASSUME NEW l, TaskOK(l), EvictsOther(l), l.op \in RefreshOps, l.pc \in Critical
  PROVE  EvictsOther(AfterApply(l))
<1>1. l \in Task /\ l.cur \in Nodes /\ (l.srcs # {} => l.cur \in l.srcs)
  BY DEF TaskOK, RefreshOK
<1>2. CASE l.cur \in l.srcs
  <2>1. /\ AfterApply(l).op = l.op /\ AfterApply(l).pc = "scan" /\ AfterApply(l).base = l.base
        /\ AfterApply(l).srcs \subseteq l.srcs
    BY <1>1, <1>2 DEF AfterApply, Task
  <2>. QED BY <2>1 DEF EvictsOther, Critical
<1>3. CASE l.cur \notin l.srcs
  <2>1. /\ AfterApply(l).op = l.op /\ AfterApply(l).pc = "apply" /\ AfterApply(l).base = l.base
        /\ AfterApply(l).srcs = {}
    BY <1>1, <1>3 DEF AfterApply, Task
  <2>2. Settled(AfterApply(l))
    BY <1>1, <1>3, <2>1 DEF EvictsOther, Settled
  <2>. QED BY <2>1, <2>2 DEF EvictsOther
<1>. QED BY <1>2, <1>3

(* The steps of a refresh outside the lock                                 *)
LEMMA EvictReads ==
  ASSUME IInv, NEW t \in Tasks, EvictsOther(task[t]), task[t].op \in RefreshOps, task'[t].op \in RefreshOps,
         \/ ApplyRefreshDecision(t) \/ RefreshPeerLookup(t) \/ RefreshAllOrphan(t) \/ RefreshAllTargets(t)
         \/ RefreshDecided(t) \/ RefreshRaised(t) \/ RefreshReturn(t)
  PROVE  EvictsOther(task'[t])
<1> DEFINE l == task[t]
<1>1. TaskOK(l) /\ l \in Task
  BY DEF IInv, TasksOK, TaskOK
<1>2. ASSUME NEW k, Become(t, k) PROVE task'[t] = k
  BY <1>2, Becoming
<1>3. ~Become(t, Idle)
  BY <1>2, IdleOK DEF RefreshOps
<1>4. CASE ApplyRefreshDecision(t)
  <2>1. PICK n \in Undone(l) :
          Become(t, [l EXCEPT !.cur = n, !.rec = membership_table[n], !.man = l.dec[n].manifest,
                              !.pc = IF l.dec[n].action \in {"accept", "unchanged"}
                                     THEN "remember" ELSE l.dec[n].action])
    BY <1>4 DEF ApplyRefreshDecision
  <2> DEFINE p == IF l.dec[n].action \in {"accept", "unchanged"} THEN "remember" ELSE l.dec[n].action
             k == [l EXCEPT !.cur = n, !.rec = membership_table[n], !.man = l.dec[n].manifest, !.pc = p]
  <2>2. task'[t] = k
    BY <1>2, <2>1
  <2>3. p \in {"reject", "forget"} => ~Accepting(l.dec[n])
    BY DEF Accepting
  <2>. HIDE DEF p
  <2>4. k.op = l.op /\ k.pc = p /\ k.base = l.base /\ k.srcs = l.srcs /\ k.dec = l.dec /\ k.cur = n
    BY <1>1 DEF Task
  <2>5. l.pc = "apply"
    BY <1>4 DEF ApplyRefreshDecision, At
  <2>. HIDE DEF k
  <2>6. EvictsOther(k)
    BY <2>3, <2>4, <2>5 DEF EvictsOther, Settled
  <2>. QED BY <2>2, <2>6
<1>5. CASE RefreshPeerLookup(t)
  <2> DEFINE k == [l EXCEPT !.pc = "fetching", !.cur = NoNode, !.base[l.cur] = peer_manifests[l.cur]]
  <2>1. Become(t, k)
    BY <1>3, <1>5 DEF RefreshPeerLookup
  <2>2. task'[t] = k
    BY <1>2, <2>1
  <2>3. k.op = l.op /\ k.pc = "fetching" /\ k.srcs = l.srcs /\ l.srcs = {}
    BY <1>1, <1>5 DEF Task, RefreshPeerLookup, At, TaskOK, LocalsOK
  <2>. HIDE DEF k
  <2>. QED BY <2>2, <2>3 DEF EvictsOther, Critical
<1>6. CASE RefreshAllOrphan(t)
  <2>1. PICK n \in l.srcs, P \in SUBSET (l.srcs) :
          Become(t, [l EXCEPT !.pc = "apply", !.cur = n, !.srcs = @ \ P, !.base = Targets(l, P),
                              !.dec[n] = [action |-> "reject", manifest |-> NoManifest]])
          /\ peer_manifests[n] = NoManifest /\ \A p \in P : peer_manifests[p] # NoManifest
    BY <1>6 DEF RefreshAllOrphan
  <2> DEFINE d == [action |-> "reject", manifest |-> NoManifest]
             k == [l EXCEPT !.pc = "apply", !.cur = n, !.srcs = @ \ P, !.base = Targets(l, P), !.dec[n] = d]
  <2>2. task'[t] = k
    BY <1>2, <2>1
  <2>3. k.op = l.op /\ k.pc = "apply" /\ k.srcs = l.srcs \ P /\ k.base = Targets(l, P)
    BY <1>1 DEF Task
  <2>. HIDE DEF k
  <2>4. \A x \in Nodes : x \in k.srcs => k.base[x] = NoManifest
    BY <2>3 DEF Targets, EvictsOther
  <2>5. n \in k.srcs
    BY <2>1, <2>3
  <2>. QED BY <2>2, <2>3, <2>4, <2>5 DEF EvictsOther
<1>7. CASE RefreshAllTargets(t)
  <2> DEFINE k == [l EXCEPT !.pc = "fetching", !.srcs = {}, !.base = Targets(l, l.srcs)]
  <2>1. task'[t] = k
    BY <1>2, <1>7 DEF RefreshAllTargets
  <2>2. k.op = l.op /\ k.pc = "fetching" /\ k.srcs = {}
    BY <1>1 DEF Task
  <2>. HIDE DEF k
  <2>. QED BY <2>1, <2>2 DEF EvictsOther, Critical
<1>8. CASE RefreshDecided(t)
  <2> DEFINE targets == {n \in Nodes : l.base[n] # NoManifest}
  <2>1. PICK d \in [targets -> Decision] :
          Become(t, [l EXCEPT !.pc = "apply", !.base = Idle.base,
                              !.dec = [n \in Nodes |-> IF n \in targets THEN d[n] ELSE l.dec[n]]])
    BY <1>8 DEF RefreshDecided
  <2> DEFINE f == [n \in Nodes |-> IF n \in targets THEN d[n] ELSE l.dec[n]]
             k == [l EXCEPT !.pc = "apply", !.base = Idle.base, !.dec = f]
  <2>2. task'[t] = k
    BY <1>2, <2>1
  <2>. HIDE DEF f
  <2>3. k.op = l.op /\ k.pc = "apply" /\ k.base = Idle.base
    BY <1>1 DEF Task
  <2>. HIDE DEF k
  <2>4. Settled(k)
    BY <2>3 DEF Settled, Idle
  <2>. QED BY <2>2, <2>3, <2>4 DEF EvictsOther, Settled
<1>9. CASE RefreshRaised(t) \/ RefreshReturn(t)
  BY <1>3, <1>9 DEF RefreshRaised, RefreshReturn
<1>. QED BY <1>4, <1>5, <1>6, <1>7, <1>8, <1>9

(* A refresh, and every other operation, keeps what its locals say.        *)
LEMMA EvictTask ==
  ASSUME IInv, IInv', EvictInv, NEW t \in Tasks, Start(t) \/ TakeLock(t) \/ Step(t)
  PROVE  EvictInv'
<1> DEFINE l == task[t]
           k == task'[t]
<1>1. TaskOK(task[t]) /\ EvictsOther(task[t])
  BY DEF IInv, TasksOK, EvictInv
<1>2. TaskOK(k)
  BY DEF IInv, TasksOK
<1>3. ASSUME OthersStay(t), EvictsOther(k) PROVE EvictInv'
  BY <1>3 DEF EvictInv, OthersStay
<1>4. ASSUME Settled(k), Undecided(k) PROVE EvictsOther(k)
  <2>1. k.op \in RefreshOps /\ k.pc \in {"reject", "forget"} => k.cur \in Nodes
    BY <1>2 DEF TaskOK, LocalsOK
  <2>. QED BY <1>4, <2>1 DEF EvictsOther, Settled, Undecided
<1>5. CASE task'[t].op \notin RefreshOps \/ task[t].op \notin RefreshOps
  <2>1. CASE Reads(t)
    <3>1. OthersStay(t) /\ ((Settled(k) /\ Undecided(k)) \/ (k.op = l.op /\ k.base = l.base /\ k.op \notin RefreshOps))
      BY <1>5, <2>1 DEF Reads, ReadLocals, Settled, Undecided
    <3>. QED BY <1>1, <1>3, <1>4, <3>1 DEF EvictsOther, Settled
  <2>2. CASE Writes(t)
    <3>1. OthersStay(t) /\ (k.op = l.op \/ k = Idle)
      BY <2>2 DEF Writes, Keeps, Leaves
    <3>2. EvictsOther(Idle)
      BY DEF EvictsOther, Settled, Idle, RefreshOps
    <3>3. CASE k.op = l.op
      <4>1. \A n \in Nodes : k.base[n] \in {NoManifest, l.base[n]}
        BY <2>2 DEF Writes, Keeps, Leaves
      <4>2. Settled(k)
        BY <1>1, <1>5, <3>3, <4>1 DEF EvictsOther, Settled
      <4>. QED BY <1>3, <1>5, <3>1, <3>3, <4>2 DEF EvictsOther, Settled
    <3>. QED BY <1>3, <3>1, <3>2, <3>3
  <2>. QED BY <2>1, <2>2, TaskSteps
<1>6. CASE task'[t].op \in RefreshOps /\ task[t].op \in RefreshOps
  <2>1. OthersStay(t)
    BY TaskSteps DEF Reads, Writes
  <2>2. CASE \/ ApplyRefreshDecision(t) \/ RefreshPeerLookup(t) \/ RefreshAllOrphan(t) \/ RefreshAllTargets(t)
             \/ RefreshDecided(t) \/ RefreshRaised(t) \/ RefreshReturn(t)
    BY <1>1, <1>3, <1>6, <2>1, <2>2, EvictReads
  <2>3. ASSUME Keeps(l, k), l.pc \in Critical, k.pc \in {"persist", "admit", "delete"} \/ (l.pc = "reject" /\ k.pc = "forget")
        PROVE  EvictInv'
    BY <1>1, <1>3, <1>6, <2>1, <2>3 DEF Keeps, EvictsOther, Settled
  <2>4. CASE Remember(t) \/ Persist(t) \/ ApplyReject(t) \/ MarkRevoked(t) \/ Forget(t)
    <3>1. l.pc \in {"remember", "persist", "reject", "forget"} /\ Writes(t)
      BY <1>1, <1>6, <2>4, Writing DEF Remember, Persist, ApplyReject, MarkRevoked, Forget, At, TaskOK, OpOK, RefreshOps
    <3>2. /\ Keeps(l, k) /\ (k.pc \in {"persist", "admit", "delete"} \/ (l.pc = "reject" /\ k.pc = "forget"))
      BY <1>6, <2>4, <3>1 DEF Writes, Remember, Persist, ApplyReject, MarkRevoked, Forget, RecordUpsert,
         ApplyAdmit, ApplyQuarantine, Delete, DiscoverAdmit, DiscoverRemember, DiscoverPersist, DiscoverSwept, At
    <3>. QED BY <2>3, <3>1, <3>2 DEF Critical
  <2>5. CASE ApplyAdmit(t) \/ ApplyQuarantine(t) \/ Delete(t)
    <3>1. Become(t, AfterApply(l)) /\ l.pc \in Critical
      BY <1>6, <2>5 DEF ApplyAdmit, ApplyQuarantine, Delete, At, Critical, RefreshOps
    <3>2. k = AfterApply(l)
      BY <3>1, Becoming
    <3>. QED BY <1>1, <1>3, <1>6, <2>1, <3>1, <3>2, AfterApplyEvicts
  <2>6. ASSUME \/ Start(t) \/ RecordPeerRevoked(t) \/ RecordPeer(t) \/ DiscoverRemember(t)
               \/ RevocationTrusted(t) \/ RevocationRepeated(t) \/ RevocationIgnored(t)
               \/ RecordUpsert(t) \/ DiscoverSource(t) \/ DiscoverSkip(t) \/ DiscoverRef(t)
               \/ DiscoverDrop(t) \/ DiscoverAdmit(t) \/ DiscoverPersist(t) \/ DiscoverReturn(t)
        PROVE  FALSE
    BY <1>1, <1>6, <2>6 DEF TaskOK, OpOK, RefreshOps, RecordOps, At, Start, AdmitPeer, BootstrapFromSeeds, Discover, RefreshPeer,
         RefreshAll, ApplyRevocationNotice, Calls, RecordPeerRevoked, RecordPeer, DiscoverRemember, DiscoverSwept,
         RevocationTrusted, RevocationRepeated, RevocationIgnored, RecordUpsert, DiscoverSource, DiscoverSkip,
         DiscoverRef, DiscoverDrop, DiscoverAdmit, DiscoverPersist, DiscoverReturn
  <2>. QED BY <2>2, <2>4, <2>5, <2>6 DEF TakeLock, Step
<1>. QED BY <1>5, <1>6

(* It holds with every fault and for any number of tasks.                  *)
LEMMA EvictInvariance == Spec => []EvictInv
<1>0. EvictsOther(Idle)
  BY DEF EvictsOther, Settled, Idle, RefreshOps
<1>1. Init => EvictInv
  BY <1>0 DEF Init, EvictInv
<1>2. ASSUME IInv, IInv', EvictInv, [Next]_vars PROVE EvictInv'
  <2>1. ASSUME NEW t \in Tasks, Abort(t) PROVE EvictInv'
    <3>1. task'[t] = Idle /\ OthersStay(t)
      BY <1>2, <2>1, Becoming DEF Abort
    <3>. QED BY <1>0, <1>2, <3>1 DEF EvictInv, OthersStay
  <2>2. CASE ClearRecord \/ Hydrate \/ UNCHANGED vars
    BY <1>2, <2>2 DEF ClearRecord, Hydrate, vars, EvictInv
  <2>3. CASE Crash
    BY <1>0, <2>3 DEF Crash, EvictInv
  <2>. QED BY <1>2, <2>1, <2>2, <2>3, EvictTask DEF Next
<1>. QED BY <1>1, <1>2, Invariance, PTL DEF Spec

(* m may take the place of the cached manifest old. *)
Forward(old, m) == m.node = old.node /\ m.org = old.org /\ m.rev >= old.rev

(* What a refresh knows of the cache: the manifests it began with are the  *)
(* cached ones, and those it decided to accept succeed the cached ones.    *)
CurrentLocals(l, cache) ==
  /\ \A n \in Nodes : l.base[n] # NoManifest => cache[n] = l.base[n]
  /\ \A n \in Nodes : Accepting(l.dec[n]) => cache[n] # NoManifest /\ Forward(cache[n], l.dec[n].manifest)
  /\ l.op \in RefreshOps /\ l.pc = "remember" => Accepting(l.dec[l.cur]) /\ l.man = l.dec[l.cur].manifest
  /\ l.op \notin RefreshOps => \A n \in Nodes : l.base[n] = NoManifest /\ ~Accepting(l.dec[n])

CurrentInv ==
  /\ \A t \in Tasks : DecidesOnce(task[t])
  /\ \A t \in Tasks : CurrentLocals(task[t], peer_manifests)

(* A task that is alone finds the cache as it left it. *)
LEMMA CurrentTask ==
  ASSUME \A t, u \in Tasks : t = u,
         IInv, IInv', EvictInv, CurrentInv, NEW t \in Tasks, Start(t) \/ TakeLock(t) \/ Step(t)
  PROVE  CurrentInv'
<1> DEFINE l == task[t]
           k == task'[t]
<1>1. /\ TaskOK(task[t]) /\ TaskOK(task'[t]) /\ task[t] \in Task
      /\ CurrentLocals(task[t], peer_manifests) /\ DecidesOnce(task[t])
  BY DEF IInv, TasksOK, TaskOK, CurrentInv
<1>3. ASSUME CurrentLocals(k, peer_manifests'), DecidesOnce(k) PROVE CurrentInv'
  <2>1. \A u \in Tasks : u = t
    OBVIOUS
  <2>. QED BY <1>3, <2>1 DEF CurrentInv
<1>4. CASE Reads(t)
  <2>1. \A n \in Nodes : k.base[n] # NoManifest => peer_manifests[n] = k.base[n]
    BY <1>1, <1>4 DEF Reads, ReadLocals, CurrentLocals
  <2>2. \A n \in Nodes : Accepting(k.dec[n]) =>
          peer_manifests[n] # NoManifest /\ Forward(peer_manifests[n], k.dec[n].manifest)
    BY <1>1, <1>4 DEF Reads, ReadLocals, CurrentLocals, Forward
  <2>3. k.op \in RefreshOps /\ k.pc = "remember" => Accepting(k.dec[k.cur]) /\ k.man = k.dec[k.cur].manifest
    BY <1>4 DEF Reads, ReadLocals, RefreshOps, RecordOps
  <2>4. k.op \notin RefreshOps => \A n \in Nodes : k.base[n] = NoManifest /\ ~Accepting(k.dec[n])
    BY <1>1, <1>4 DEF Reads, ReadLocals, CurrentLocals
  <2>. QED BY <1>1, <1>3, <1>4, <2>1, <2>2, <2>3, <2>4 DEF CurrentLocals, Reads, ReadLocals, Stores
<1>5. CASE Writes(t)
  <2>1. ASSUME Keeps(l, k), k.pc \in Critical \ {"remember"}, peer_manifests' = peer_manifests
        PROVE  CurrentInv'
    BY <1>1, <1>3, <2>1 DEF Keeps, CurrentLocals, DecidesOnce, Undecided, Settled, Critical
  <2>2. ASSUME Leaves(l, k), peer_manifests' = peer_manifests
        PROVE  CurrentInv'
    <3>1. \A n \in Nodes : Accepting(k.dec[n]) => k.dec[n] = l.dec[n]
      BY <2>2 DEF Leaves, Accepting, NoDecision
    <3>2. k.op = l.op \/ (Settled(k) /\ Undecided(k))
      <4>1. Settled(Idle) /\ Undecided(Idle)
        BY DEF Idle, Settled, Undecided, Accepting, NoDecision
      <4>. QED BY <2>2, <4>1 DEF Leaves
    <3>. QED BY <1>1, <1>3, <2>2, <3>1, <3>2 DEF Leaves, CurrentLocals, Critical, Settled, Undecided
  <2>3. ASSUME l.op \notin RefreshOps, k.op = l.op, k.base = l.base, k.dec = l.dec
        PROVE  CurrentInv'
    BY <1>1, <1>3, <2>3 DEF CurrentLocals, DecidesOnce, Undecided
  <2>4. CASE Remember(t) /\ Keeps(l, k) /\ k.pc = "persist"
    <3>1. CASE l.op \in RefreshOps
      <4>1. l.pc = "remember" /\ l.man \in Manifests /\ l.cur \in Nodes /\ l.man.node = l.cur
        BY <1>1, <2>4, <3>1 DEF Remember, At, TaskOK, LocalsOK, RefreshOK, Critical
      <4>2. Accepting(l.dec[l.cur]) /\ l.man = l.dec[l.cur].manifest
        BY <1>1, <3>1, <4>1 DEF CurrentLocals
      <4>3. Settled(l)
        BY <1>1, <4>1, <4>2 DEF DecidesOnce, Undecided
      <4>4. Forward(l.man, l.man) /\ l.man # NoManifest
        BY <4>1, ManifestsAssumption DEF Forward, ManifestType
      <4>5. \A n \in Nodes : peer_manifests'[n] = IF n = l.cur THEN l.man ELSE peer_manifests[n]
        BY <2>4, <4>1 DEF Remember, IInv, SharedTypeOK
      <4>6. CurrentLocals(k, peer_manifests')
        BY <1>1, <2>4, <3>1, <4>2, <4>3, <4>4, <4>5 DEF Keeps, CurrentLocals, Settled
      <4>7. DecidesOnce(k)
        BY <1>1, <2>4 DEF Keeps, DecidesOnce, Undecided, Settled
      <4>. QED BY <1>3, <4>6, <4>7
    <3>2. CASE l.op \notin RefreshOps
      BY <2>3, <2>4, <3>2 DEF Keeps
    <3>. QED BY <3>1, <3>2
  <2>5. CASE Forget(t) /\ Keeps(l, k) /\ k.pc = "delete"
    <3>1. l.pc = "forget" /\ l.cur \in Nodes /\ EvictsOther(l)
      BY <1>1, <2>5 DEF Forget, At, TaskOK, LocalsOK, EvictInv
    <3>2. l.base[l.cur] = NoManifest /\ ~Accepting(l.dec[l.cur])
      <4>1. CASE l.op \notin RefreshOps
        BY <1>1, <3>1, <4>1 DEF CurrentLocals
      <4>2. CASE l.op \in RefreshOps
        BY <1>1, <3>1, <4>2 DEF EvictsOther, Settled, TaskOK, RefreshOK, Critical
      <4>. QED BY <4>1, <4>2
    <3>3. \A n \in Nodes : n # l.cur => peer_manifests'[n] = peer_manifests[n]
      BY <2>5 DEF Forget, IInv, SharedTypeOK
    <3>4. CurrentLocals(k, peer_manifests')
      BY <1>1, <2>5, <3>2, <3>3 DEF Keeps, CurrentLocals
    <3>5. DecidesOnce(k)
      BY <1>1, <2>5 DEF Keeps, DecidesOnce, Undecided, Settled
    <3>. QED BY <1>3, <3>4, <3>5
  <2>6. CASE (Persist(t) /\ Keeps(l, k) /\ k.pc = "admit") \/ ((ApplyReject(t) \/ MarkRevoked(t)) /\ Keeps(l, k) /\ k.pc = "forget")
    BY <2>1, <2>6 DEF Persist, ApplyReject, MarkRevoked, Critical
  <2>7. CASE (RecordUpsert(t) \/ ApplyAdmit(t) \/ ApplyQuarantine(t) \/ Delete(t)) /\ Leaves(l, k)
    BY <2>2, <2>7 DEF RecordUpsert, ApplyAdmit, ApplyQuarantine, Delete
  <2>8. CASE DiscoverAdmit(t) \/ DiscoverRemember(t) \/ DiscoverPersist(t)
    <3>1. l.op = "discover"
      BY <1>1, <2>8 DEF DiscoverAdmit, DiscoverRemember, DiscoverPersist, DiscoverSwept, At, TaskOK, OpOK
    <3>2. k.op = l.op /\ k.base = l.base /\ k.dec = l.dec
      BY <1>5, <2>8, <3>1 DEF Writes, Keeps, Leaves
    <3>. QED BY <2>3, <3>1, <3>2 DEF RefreshOps
  <2>. QED BY <1>5, <2>4, <2>5, <2>6, <2>7, <2>8 DEF Writes
<1>. QED BY <1>4, <1>5, TaskSteps

(* It holds with every fault: a task that is aborted or has crashed knows  *)
(* nothing of the cache, and a hydration finds it empty.                   *)
LEMMA CurrentInvariance ==
  ASSUME \A t, u \in Tasks : t = u
  PROVE  Spec => []CurrentInv
<1>0. (\A cache : CurrentLocals(Idle, cache)) /\ DecidesOnce(Idle)
  BY DEF Idle, CurrentLocals, DecidesOnce, Undecided, Settled, Accepting, NoDecision, RefreshOps
<1>1. Init => CurrentInv
  BY <1>0 DEF Init, CurrentInv
<1>2. ASSUME IInv, IInv', EvictInv, CurrentInv, [Next]_vars PROVE CurrentInv'
  <2>1. CASE ClearRecord \/ UNCHANGED vars
    BY <1>2, <2>1 DEF ClearRecord, vars, shared, CurrentInv
  <2>2. CASE Crash
    BY <1>0, <2>2 DEF Crash, CurrentInv
  <2>3. CASE Hydrate
    <3>1. \A n \in Nodes : peer_manifests[n] = NoManifest
      BY <2>3 DEF Hydrate
    <3>2. \A t \in Tasks : CurrentLocals(task[t], peer_manifests')
      BY <1>2, <3>1 DEF CurrentInv, CurrentLocals
    <3>. QED BY <1>2, <2>3, <3>2 DEF Hydrate, CurrentInv
  <2>4. ASSUME NEW t \in Tasks, Abort(t) PROVE CurrentInv'
    <3>1. task'[t] = Idle /\ \A u \in Tasks : u = t
      BY <1>2, <2>4, Becoming DEF Abort
    <3>. QED BY <1>0, <3>1 DEF CurrentInv
  <2>. QED BY <1>2, <2>1, <2>2, <2>3, <2>4, CurrentTask DEF Next
<1>. QED BY <1>1, <1>2, Invariance, EvictInvariance, PTL DEF Spec

(* One operation at a time, a refresh never replaces a cached manifest by  *)
(* one of another node, another organisation or an older revision          *)
(* (check_key_continuity and the staleness check compare with the manifest *)
(* of now).                                                                *)
THEOREM LoneRefreshMovesForward ==
  ASSUME \A t, u \in Tasks : t = u
  PROVE  Spec => RefreshMovesForward
<1>1. ASSUME IInv, CurrentInv, [Next]_vars, NEW t \in Tasks, At(t, "remember"), task[t].op \in RefreshOps,
             NEW n \in Nodes, peer_manifests[n] # NoManifest, peer_manifests'[n] # NoManifest
      PROVE  Forward(peer_manifests[n], peer_manifests'[n])
  <2> DEFINE l == task[t]
  <2>1. peer_manifests[n] \in Manifests /\ lifecycle_lock = t
    BY <1>1 DEF IInv, SharedTypeOK, MaybeManifest, LockOK, At, Critical
  <2>2. peer_manifests'[n] = peer_manifests[n] => Forward(peer_manifests[n], peer_manifests'[n])
    BY <2>1, ManifestsAssumption DEF Forward, ManifestType
  <2>3. CASE Start(t) \/ TakeLock(t) \/ Step(t)
    <3>1. CASE Remember(t)
      <4>1. l.cur \in Nodes /\ l.man.node = l.cur
        BY <1>1 DEF IInv, TasksOK, TaskOK, RefreshOK, At, Critical
      <4>2. Accepting(l.dec[l.cur]) /\ l.man = l.dec[l.cur].manifest /\ CurrentLocals(l, peer_manifests)
        BY <1>1 DEF CurrentInv, CurrentLocals, At
      <4>3. Forward(peer_manifests[l.cur], l.man)
        BY <4>1, <4>2 DEF CurrentLocals
      <4>4. peer_manifests'[n] = IF n = l.cur THEN l.man ELSE peer_manifests[n]
        BY <1>1, <3>1, <4>1 DEF Remember, IInv, SharedTypeOK
      <4>. QED BY <2>2, <4>3, <4>4
    <3>2. CASE ~Remember(t)
      <4>1. Writes(t) \/ peer_manifests' = peer_manifests
        BY <1>1, <2>3, TaskSteps DEF Reads, Stores
      <4>2. l.pc = "remember" /\ l.op # "discover"
        BY <1>1 DEF At, RefreshOps
      <4>3. peer_manifests' = peer_manifests
        BY <3>2, <4>1, <4>2 DEF Writes, Persist, ApplyReject, MarkRevoked, Forget, RecordUpsert,
           ApplyAdmit, ApplyQuarantine, Delete, DiscoverAdmit, DiscoverPersist, At
      <4>. QED BY <2>2, <4>3
    <3>. QED BY <3>1, <3>2
  <2>4. CASE ClearRecord
    BY <2>2, <2>4 DEF ClearRecord
  <2>5. CASE Crash
    BY <1>1, <2>5 DEF Crash
  <2>6. CASE Hydrate
    BY <2>1, <2>6, NodeAssumption DEF Hydrate
  <2>7. CASE UNCHANGED vars
    BY <2>2, <2>7 DEF vars, shared
  <2>8. ASSUME NEW u \in Tasks, Start(u) \/ TakeLock(u) \/ Step(u)
        PROVE  Start(t) \/ TakeLock(t) \/ Step(t)
    <3>1. u = t
      OBVIOUS
    <3>. QED BY <2>8, <3>1
  <2>9. CASE \E u \in Tasks : Abort(u)
    BY <2>2, <2>9 DEF Abort
  <2>. QED BY <1>1, <2>3, <2>4, <2>5, <2>6, <2>7, <2>8, <2>9 DEF Next
<1>2. IInv /\ CurrentInv /\ [Next]_vars =>
       [\A t \in Tasks : At(t, "remember") /\ task[t].op \in {"refresh_peer", "refresh_all"} =>
         \A n \in Nodes :
           LET old == peer_manifests[n]
               new == peer_manifests'[n]
           IN  old # NoManifest /\ new # NoManifest =>
                 new.node = old.node /\ new.org = old.org /\ new.rev >= old.rev]_vars
  BY <1>1 DEF Forward, RefreshOps
<1>. QED BY <1>2, Invariance, CurrentInvariance, PTL DEF Spec, RefreshMovesForward
----------------------------------------------------------------------------
(* Operations end *)

(* A task that returns, or gives up, has nothing left to do. *)
LEMMA IdleIsNearer ==
  ASSUME NEW l, TaskOK(l), l.pc # "idle"
  PROVE  Nearer(Idle, l)
<1>1. /\ Idle.srcs = {} /\ Idle.refs = {} /\ Idle.acc = {} /\ Idle.pc = "idle"
      /\ Decided(Idle) = {}
  BY DEF Idle, Decided
<1>2. ToAwait(Idle) = 0 /\ ToWrite(Idle) = 0
  BY <1>1 DEF ToAwait, ToWrite
<1>3. ToAwait(l) = 0 \/ ToAwait(l) > 0
  BY DEF ToAwait
<1>4. ToWrite(l) > 0
  BY DEF ToWrite
<1>5. {} \subseteq l.srcs /\ {} \subseteq l.refs /\ {} \subseteq l.acc /\ {} \subseteq Decided(l)
  OBVIOUS
<1>. HIDE DEF Idle
<1>. QED BY <1>1, <1>2, <1>3, <1>4, <1>5 DEF Nearer, Within

(* A step that leaves the loops where they are and goes on to a later      *)
(* statement                                                               *)
Onwards(k, l) ==
  /\ k.srcs = l.srcs /\ k.refs = l.refs /\ k.acc = l.acc /\ k.dec = l.dec
  /\ ToAwait(k) = ToAwait(l) /\ ToWrite(k) < ToWrite(l)

LEMMA OnwardsIsNearer ==
  ASSUME NEW l, NEW k, Onwards(k, l)
  PROVE  Nearer(k, l)
BY DEF Onwards, Nearer, Decided

(* _record_peer has dealt with one of the accepted manifests. *)
LEMMA AfterRecordIsNearer ==
  ASSUME NEW l, TaskOK(l), l.op \in RecordOps, NEW m \in l.acc, l.pc # "idle"
  PROVE  Nearer(AfterRecord(l, m), l)
<1>1. CASE l.acc \ {m} = {}
  BY <1>1, IdleIsNearer DEF AfterRecord
<1>2. CASE l.acc \ {m} # {}
  <2> DEFINE r == [l EXCEPT !.pc = "record", !.man = NoManifest, !.acc = @ \ {m}]
  <2>1. r.srcs = l.srcs /\ r.refs = l.refs /\ r.acc = l.acc \ {m} /\ r.pc = "record"
    BY DEF TaskOK, Task
  <2>2. Within(r.acc, l.acc)
    BY <2>1 DEF Within
  <2>3. ToAwait(r) = 0 /\ (ToAwait(l) = 0 \/ ToAwait(l) > 0)
    BY <2>1 DEF ToAwait
  <2>4. AfterRecord(l, m) = r
    BY <1>2 DEF AfterRecord
  <2>. HIDE DEF r
  <2>. QED BY <2>1, <2>2, <2>3, <2>4 DEF Nearer
<1>. QED BY <1>1, <1>2

(* _apply_refresh_decision has dealt with one of the records, or with one  *)
(* of the decisions.                                                       *)
LEMMA AfterApplyIsNearer ==
  ASSUME NEW l, TaskOK(l), l.op \in RefreshOps, l.pc \in Critical
  PROVE  Nearer(AfterApply(l), l)
<1>1. l.cur \in Nodes /\ l.dec[l.cur] # NoDecision /\ l.dec \in [Nodes -> Decision \cup {NoDecision}]
  BY DEF TaskOK, RefreshOK, Task
<1> DEFINE r == AfterApply(l)
<1>2. CASE l.cur \in l.srcs
  <2>1. r.srcs = l.srcs \ {l.cur}
    BY <1>2 DEF AfterApply, TaskOK, Task
  <2>2. Within(r.srcs, l.srcs)
    BY <1>2, <2>1 DEF Within
  <2>. QED BY <2>2 DEF Nearer
<1>3. CASE l.cur \notin l.srcs
  <2>1. /\ r.srcs = l.srcs /\ r.refs = l.refs /\ r.acc = l.acc /\ r.pc = "apply"
        /\ r.dec = [l.dec EXCEPT ![l.cur] = NoDecision]
    BY <1>3 DEF AfterApply, TaskOK, Task
  <2>. HIDE DEF r
  <2>2. Decided(r) = Decided(l) \ {l.cur} /\ l.cur \in Decided(l)
    BY <1>1, <2>1 DEF Decided
  <2>3. Within(Decided(r), Decided(l))
    BY <2>2 DEF Within
  <2>4. ToAwait(r) = 0 /\ ToAwait(l) = 0
    BY <2>1 DEF ToAwait, Critical
  <2>5. Nearer(r, l)
    BY <2>1, <2>3, <2>4 DEF Nearer
  <2>. QED BY <2>5 DEF r
<1>. QED BY <1>2, <1>3

(* What each step of an operation has done with its loops, under the lock  *)
(* or waiting for it                                                       *)
LEMMA TakeLockIsNearer ==
  ASSUME IInv, NEW t \in Tasks, TakeLock(t)
  PROVE  Nearer(task'[t], task[t])
<1> DEFINE l == task[t]
<1>1. TaskOK(l) /\ l \in Task
  BY DEF IInv, TasksOK, TaskOK
<1>2. l.pc = "record" => l.op \in RecordOps
  BY <1>1 DEF TaskOK, OpOK
<1>3. CASE RecordPeerRevoked(t)
  <2>1. PICK m \in l.acc : task'[t] = AfterRecord(l, m)
    BY <1>3, Becoming DEF RecordPeerRevoked
  <2>. HIDE DEF l
  <2>2. l.pc = "record"
    BY <1>3 DEF RecordPeerRevoked, At, l
  <2>. QED BY <1>1, <1>2, <2>1, <2>2, AfterRecordIsNearer DEF l
<1>4. CASE RecordPeer(t)
  <2>1. PICK m \in l.acc : task'[t] = [l EXCEPT !.pc = "remember", !.man = m]
    BY <1>4, Becoming DEF RecordPeer
  <2>2. Onwards(task'[t], l)
    BY <1>1, <1>4, <2>1 DEF RecordPeer, At, Onwards, Task, ToAwait, ToWrite
  <2>. QED BY <2>2, OnwardsIsNearer
<1>5. CASE DiscoverRemember(t)
  <2>1. PICK m \in l.acc : task'[t] = [l EXCEPT !.pc = "persist", !.man = m]
    BY <1>5, Becoming DEF DiscoverRemember
  <2>2. Onwards(task'[t], l)
    BY <1>1, <1>5, <2>1 DEF DiscoverRemember, DiscoverSwept, At, Onwards, Task, ToAwait, ToWrite
  <2>. QED BY <2>2, OnwardsIsNearer
<1>6. CASE ApplyRefreshDecision(t)
  <2>1. PICK n \in Undone(l) :
               task'[t] = [l EXCEPT !.cur = n, !.rec = membership_table[n], !.man = l.dec[n].manifest,
                                    !.pc = IF l.dec[n].action \in {"accept", "unchanged"}
                                           THEN "remember" ELSE l.dec[n].action]
    BY <1>6, Becoming DEF ApplyRefreshDecision
  <2>2. l.pc = "apply" /\ (l.srcs # {} => l.cur \in l.srcs /\ l.dec[l.cur] # NoDecision)
    BY <1>1, <1>6 DEF ApplyRefreshDecision, At, TaskOK, LocalsOK
  <2>3. n \in Nodes /\ l.dec[n] # NoDecision
    BY <1>1, <2>2 DEF Undone, Task
  <2>4. l.dec[n].action \in {"accept", "unchanged", "quarantine", "reject"}
    BY <1>1, <2>3 DEF Task, Decision, Actions
  <2>5. /\ task'[t].pc \in {"remember", "quarantine", "reject"}
        /\ task'[t].srcs = l.srcs /\ task'[t].refs = l.refs /\ task'[t].acc = l.acc /\ task'[t].dec = l.dec
    BY <1>1, <2>1, <2>4 DEF Task
  <2>6. Onwards(task'[t], l)
    BY <2>2, <2>5 DEF Onwards, ToAwait, ToWrite
  <2>. QED BY <2>6, OnwardsIsNearer
<1>7. CASE RevocationTrusted(t)
  <2>1. task'[t] = [l EXCEPT !.pc = "mark_revoked", !.rec = membership_table[l.cur]]
    BY <1>7, Becoming DEF RevocationTrusted
  <2>2. Onwards(task'[t], l)
    BY <1>1, <1>7, <2>1 DEF RevocationTrusted, At, Onwards, Task, ToAwait, ToWrite
  <2>. QED BY <2>2, OnwardsIsNearer
<1>8. CASE RevocationRepeated(t)
  <2>1. task'[t] = [l EXCEPT !.pc = "forget"]
    BY <1>8, Becoming DEF RevocationRepeated, Goto
  <2>2. Onwards(task'[t], l)
    BY <1>1, <1>8, <2>1 DEF RevocationRepeated, At, Onwards, Task, ToAwait, ToWrite
  <2>. QED BY <2>2, OnwardsIsNearer
<1>9. CASE RevocationIgnored(t)
  BY <1>1, <1>9, Becoming, IdleIsNearer DEF RevocationIgnored, At
<1>. QED BY <1>3, <1>4, <1>5, <1>6, <1>7, <1>8, <1>9 DEF TakeLock

(* The writes of one record or manifest, one after the other *)
LEMMA WriteIsNearer ==
  ASSUME IInv, NEW t \in Tasks,
         \/ Remember(t) \/ Persist(t) \/ RecordUpsert(t) \/ ApplyReject(t) \/ Forget(t) \/ MarkRevoked(t)
         \/ ApplyAdmit(t) \/ ApplyQuarantine(t) \/ Delete(t)
  PROVE  Nearer(task'[t], task[t])
<1> DEFINE l == task[t]
<1>1. TaskOK(l) /\ l \in Task
  BY DEF IInv, TasksOK, TaskOK
<1>2. ASSUME NEW p \in Labels, l.pc \in Critical, ToWrite([l EXCEPT !.pc = p]) < ToWrite(l), ToAwait([l EXCEPT !.pc = p]) = 0,
             task'[t] = [l EXCEPT !.pc = p]
      PROVE  Nearer(task'[t], task[t])
  <2>1. ToAwait(l) = 0
    BY <1>2 DEF ToAwait, Critical
  <2>2. Onwards(task'[t], l)
    BY <1>1, <1>2, <2>1 DEF Onwards, Task
  <2>. QED BY <2>2, OnwardsIsNearer
<1>3. ASSUME l.op \in RefreshOps, l.pc \in Critical, task'[t] = AfterApply(l)
      PROVE  Nearer(task'[t], task[t])
  BY <1>1, <1>3, AfterApplyIsNearer
<1>4. CASE Remember(t)
  <2>1. task'[t] = [l EXCEPT !.pc = "persist"] /\ l.pc = "remember"
    BY <1>4, Becoming DEF Remember, Goto, At
  <2>. QED BY <1>1, <1>2, <2>1 DEF ToWrite, ToAwait, Critical, Labels, Task
<1>5. CASE Persist(t)
  <2>1. task'[t] = [l EXCEPT !.pc = "admit"] /\ l.pc = "persist"
    BY <1>5, Becoming DEF Persist, Goto, At
  <2>. QED BY <1>1, <1>2, <2>1 DEF ToWrite, ToAwait, Critical, Labels, Task
<1>6. CASE RecordUpsert(t)
  <2>1. task'[t] = AfterRecord(l, l.man) /\ l.pc = "admit" /\ l.op \in RecordOps
    BY <1>6, Becoming DEF RecordUpsert, At, RecordOps
  <2>2. l.man \in l.acc
    BY <1>1, <2>1 DEF TaskOK, LocalsOK, RecordOps, RefreshOps
  <2>. QED BY <1>1, <2>1, <2>2, AfterRecordIsNearer
<1>7. CASE ApplyReject(t)
  <2>1. task'[t] = [l EXCEPT !.pc = "forget"] /\ l.pc = "reject"
    BY <1>7, Becoming DEF ApplyReject, Goto, At
  <2>. QED BY <1>1, <1>2, <2>1 DEF ToWrite, ToAwait, Critical, Labels, Task
<1>8. CASE Forget(t)
  <2>1. task'[t] = [l EXCEPT !.pc = "delete"] /\ l.pc = "forget"
    BY <1>8, Becoming DEF Forget, Goto, At
  <2>. QED BY <1>1, <1>2, <2>1 DEF ToWrite, ToAwait, Critical, Labels, Task
<1>9. CASE MarkRevoked(t)
  <2>1. task'[t] = [l EXCEPT !.pc = "forget"] /\ l.pc = "mark_revoked"
    BY <1>9, Becoming DEF MarkRevoked, Goto, At
  <2>. QED BY <1>1, <1>2, <2>1 DEF ToWrite, ToAwait, Critical, Labels, Task
<1>10. CASE ApplyAdmit(t) \/ ApplyQuarantine(t)
  <2>1. task'[t] = AfterApply(l) /\ l.pc \in {"admit", "quarantine"}
    BY <1>10, Becoming DEF ApplyAdmit, ApplyQuarantine, At
  <2>2. l.op \in RefreshOps
    BY <1>1, <1>10 DEF ApplyAdmit, ApplyQuarantine, At, TaskOK, OpOK, RefreshOps
  <2>. QED BY <1>3, <2>1, <2>2 DEF Critical
<1>11. CASE Delete(t)
  <2>1. l.pc = "delete" /\ l.op \in RefreshOps \cup {"apply_revocation_notice"}
    BY <1>1, <1>11 DEF Delete, At, TaskOK, OpOK
  <2>2. CASE l.op = "apply_revocation_notice"
    BY <1>1, <1>11, <2>1, <2>2, Becoming, IdleIsNearer DEF Delete
  <2>3. CASE l.op # "apply_revocation_notice"
    <3>1. task'[t] = AfterApply(l)
      BY <1>11, <2>3, Becoming DEF Delete
    <3>. QED BY <1>3, <2>1, <2>3, <3>1 DEF Critical
  <2>. QED BY <2>2, <2>3
<1>. QED BY <1>4, <1>5, <1>6, <1>7, <1>8, <1>9, <1>10, <1>11

(* The loops of refresh_discovered_members, and the loop that remembers    *)
(* what it accepted                                                        *)
LEMMA DiscoverIsNearer ==
  ASSUME IInv, NEW t \in Tasks,
         \/ DiscoverSource(t) \/ DiscoverSkip(t) \/ DiscoverRef(t) \/ DiscoverDrop(t)
         \/ DiscoverAdmit(t) \/ DiscoverPersist(t) \/ DiscoverReturn(t)
  PROVE  Nearer(task'[t], task[t])
<1> DEFINE l == task[t]
<1>1. TaskOK(l) /\ l \in Task
  BY DEF IInv, TasksOK, TaskOK
<1>2. CASE DiscoverSource(t)
  <2>1. PICK s \in l.srcs, R \in SUBSET Nodes : task'[t] = [l EXCEPT !.srcs = @ \ {s}, !.refs = R]
    BY <1>2, Becoming DEF DiscoverSource
  <2>2. task'[t].srcs = l.srcs \ {s}
    BY <1>1, <2>1 DEF Task
  <2>3. Within(task'[t].srcs, l.srcs)
    BY <2>1, <2>2 DEF Within
  <2>. QED BY <2>3 DEF Nearer
<1>3. CASE DiscoverSkip(t) \/ DiscoverRef(t)
  <2>1. \E n \in l.refs : task'[t].srcs = l.srcs /\ task'[t].refs = l.refs \ {n}
    <3>1. CASE DiscoverSkip(t)
      <4>1. PICK n \in l.refs : task'[t] = [l EXCEPT !.refs = @ \ {n}]
        BY <3>1, Becoming DEF DiscoverSkip
      <4>. QED BY <1>1, <4>1 DEF Task
    <3>2. CASE DiscoverRef(t)
      <4>1. PICK n \in l.refs : task'[t] = [l EXCEPT !.pc = "fetch", !.cur = n,
                                                      !.refs = @ \ {n}, !.seen = @ \cup {n}]
        BY <3>2, Becoming DEF DiscoverRef
      <4>. QED BY <1>1, <4>1 DEF Task
    <3>. QED BY <1>3, <3>1, <3>2
  <2>2. Within(task'[t].refs, l.refs)
    BY <2>1 DEF Within
  <2>. QED BY <2>1, <2>2 DEF Nearer
<1>4. CASE DiscoverDrop(t) \/ DiscoverAdmit(t)
  <2>1. /\ task'[t].srcs = l.srcs /\ task'[t].refs = l.refs
        /\ task'[t].pc = "sweep" /\ l.pc = "fetch"
    <3>1. CASE DiscoverDrop(t)
      <4>1. task'[t] = [l EXCEPT !.pc = "sweep", !.cur = NoNode] /\ l.pc = "fetch"
        BY <3>1, Becoming DEF DiscoverDrop, At
      <4>. QED BY <1>1, <4>1 DEF Task
    <3>2. CASE DiscoverAdmit(t)
      <4>1. PICK m : task'[t] = [l EXCEPT !.pc = "sweep", !.cur = NoNode, !.acc = @ \cup {m}] /\ l.pc = "fetch"
        BY <3>2, Becoming DEF DiscoverAdmit, At
      <4>. QED BY <1>1, <4>1 DEF Task
    <3>. QED BY <1>4, <3>1, <3>2
  <2>2. ToAwait(task'[t]) = 0 /\ ToAwait(l) = 1
    BY <2>1 DEF ToAwait
  <2>. QED BY <2>1, <2>2 DEF Nearer
<1>5. CASE DiscoverPersist(t)
  <2>1. /\ task'[t] = [l EXCEPT !.pc = "sweep", !.man = NoManifest, !.acc = @ \ {l.man}]
        /\ l.pc = "persist" /\ l.op = "discover"
    BY <1>5, Becoming DEF DiscoverPersist, At
  <2>2. l.man \in l.acc
    BY <1>1, <2>1 DEF TaskOK, LocalsOK, RefreshOps
  <2>3. /\ task'[t].srcs = l.srcs /\ task'[t].refs = l.refs /\ task'[t].acc = l.acc \ {l.man}
        /\ task'[t].pc = "sweep"
    BY <1>1, <2>1 DEF Task
  <2>4. ToAwait(task'[t]) = 0 /\ ToAwait(l) = 0
    BY <2>1, <2>3 DEF ToAwait
  <2>5. Within(task'[t].acc, l.acc)
    BY <2>2, <2>3 DEF Within
  <2>. QED BY <2>3, <2>4, <2>5 DEF Nearer
<1>6. CASE DiscoverReturn(t)
  BY <1>1, <1>6, Becoming, IdleIsNearer DEF DiscoverReturn, DiscoverSwept, At
<1>. QED BY <1>2, <1>3, <1>4, <1>5, <1>6

(* The scan of refresh_all, and the awaited fetches of both refreshes      *)
LEMMA RefreshIsNearer ==
  ASSUME IInv, NEW t \in Tasks,
         \/ RefreshPeerLookup(t) \/ RefreshAllOrphan(t) \/ RefreshAllTargets(t)
         \/ RefreshDecided(t) \/ RefreshRaised(t) \/ RefreshReturn(t)
  PROVE  Nearer(task'[t], task[t])
<1> DEFINE l == task[t]
<1>1. TaskOK(l) /\ l \in Task
  BY DEF IInv, TasksOK, TaskOK
<1>2. ASSUME NEW S \in SUBSET l.srcs, task'[t].srcs = S, task'[t].refs = l.refs,
             ToAwait(task'[t]) < ToAwait(l)
      PROVE  Nearer(task'[t], task[t])
  BY <1>2 DEF Nearer, Within
<1>3. CASE RefreshPeerLookup(t)
  <2>1. l.pc = "lookup"
    BY <1>3 DEF RefreshPeerLookup, At
  <2>2. CASE peer_manifests[l.cur] = NoManifest
    BY <1>1, <1>3, <2>1, <2>2, Becoming, IdleIsNearer DEF RefreshPeerLookup
  <2>3. CASE peer_manifests[l.cur] # NoManifest
    <3>1. task'[t] = [l EXCEPT !.pc = "fetching", !.cur = NoNode, !.base[l.cur] = peer_manifests[l.cur]]
      BY <1>3, <2>3, Becoming DEF RefreshPeerLookup
    <3>2. task'[t].srcs = l.srcs /\ task'[t].refs = l.refs /\ task'[t].pc = "fetching"
      BY <1>1, <3>1 DEF Task
    <3>3. ToAwait(task'[t]) = 1 /\ ToAwait(l) = 3
      BY <2>1, <3>2 DEF ToAwait
    <3>. QED BY <1>2, <3>2, <3>3
  <2>. QED BY <2>2, <2>3
<1>4. CASE RefreshAllOrphan(t)
  <2>0. PICK n \in l.srcs, P \in SUBSET l.srcs :
               Become(t, [l EXCEPT !.pc = "apply", !.cur = n, !.srcs = @ \ P, !.base = Targets(l, P),
                                   !.dec[n] = [action |-> "reject", manifest |-> NoManifest]])
    BY <1>4 DEF RefreshAllOrphan
  <2>1. task'[t] = [l EXCEPT !.pc = "apply", !.cur = n, !.srcs = @ \ P, !.base = Targets(l, P),
                             !.dec[n] = [action |-> "reject", manifest |-> NoManifest]]
    BY <2>0, Becoming
  <2>2. task'[t].srcs = l.srcs \ P /\ task'[t].refs = l.refs /\ task'[t].pc = "apply"
    BY <1>1, <2>1 DEF Task
  <2>3. ToAwait(task'[t]) = 0 /\ ToAwait(l) = 2
    BY <1>4, <2>2 DEF ToAwait, RefreshAllOrphan, At
  <2>. QED BY <1>2, <2>2, <2>3
<1>5. CASE RefreshAllTargets(t)
  <2>1. task'[t] = [l EXCEPT !.pc = "fetching", !.srcs = {}, !.base = Targets(l, l.srcs)]
    BY <1>5, Becoming DEF RefreshAllTargets
  <2>2. task'[t].srcs = {} /\ task'[t].refs = l.refs /\ task'[t].pc = "fetching"
    BY <1>1, <2>1 DEF Task
  <2>3. ToAwait(task'[t]) = 1 /\ ToAwait(l) = 2
    BY <1>5, <2>2 DEF ToAwait, RefreshAllTargets, At
  <2>4. ToAwait(task'[t]) < ToAwait(l)
    BY <2>3
  <2>. QED BY <1>2, <2>2, <2>4
<1>6. CASE RefreshDecided(t)
  <2>1. PICK d : task'[t] = [l EXCEPT !.pc = "apply", !.base = Idle.base, !.dec = d]
    BY <1>6, Becoming DEF RefreshDecided
  <2>2. task'[t].srcs = l.srcs /\ task'[t].refs = l.refs /\ task'[t].pc = "apply"
    BY <1>1, <2>1 DEF Task
  <2>3. ToAwait(task'[t]) = 0 /\ ToAwait(l) = 1
    BY <1>6, <2>2 DEF ToAwait, RefreshDecided, At
  <2>. QED BY <1>2, <2>2, <2>3
<1>7. CASE RefreshRaised(t) \/ RefreshReturn(t)
  <2>1. task'[t] = Idle /\ l.pc \in {"fetching", "apply"}
    BY <1>7, Becoming DEF RefreshRaised, RefreshReturn, At
  <2>. QED BY <1>1, <2>1, IdleIsNearer
<1>. QED BY <1>3, <1>4, <1>5, <1>6, <1>7

(* Every step of an operation of the facade leaves it less to do, whatever *)
(* the other tasks write meanwhile, and through crashes and aborts.        *)
THEOREM OperationsComeNearer == Spec => OperationsAdvance
<1>1. ASSUME IInv, [Next]_vars, NEW t \in Tasks, ~At(t, "idle"), task'[t] # task[t]
      PROVE  Nearer(task'[t], task[t])
  <2>1. TaskOK(task[t]) /\ task[t].pc # "idle"
    BY <1>1 DEF IInv, TasksOK, At
  <2>2. CASE Start(t) \/ TakeLock(t) \/ Step(t)
    <3>1. ~Start(t)
      BY <2>1 DEF Start, AdmitPeer, BootstrapFromSeeds, Discover, RefreshPeer, RefreshAll, ApplyRevocationNotice, Calls, At
    <3>. QED BY <1>1, <2>2, <3>1, TakeLockIsNearer, WriteIsNearer, DiscoverIsNearer, RefreshIsNearer DEF Step
  <2>3. CASE Abort(t)
    BY <1>1, <2>1, <2>3, Becoming, IdleIsNearer DEF Abort
  <2>4. CASE Crash
    BY <2>1, <2>4, IdleIsNearer DEF Crash
  <2>5. ASSUME NEW u \in Tasks \ {t}, Start(u) \/ TakeLock(u) \/ Step(u) \/ Abort(u)
        PROVE  FALSE
    <3>1. OthersStay(u)
      BY <1>1, <2>5, TaskSteps, Becoming DEF Reads, Writes, Abort
    <3>. QED BY <1>1, <2>5, <3>1 DEF OthersStay
  <2>6. CASE ClearRecord \/ Hydrate \/ UNCHANGED vars
    BY <1>1, <2>6 DEF ClearRecord, Hydrate, vars
  <2>. QED BY <1>1, <2>2, <2>3, <2>4, <2>5, <2>6 DEF Next
<1>2. IInv /\ [Next]_vars =>
        [\A t \in Tasks : ~At(t, "idle") /\ task'[t] # task[t] => Nearer(task'[t], task[t])]_vars
  BY <1>1
<1>. QED BY <1>2, Invariance, PTL DEF Spec, OperationsAdvance

(* A set of naturals that is not empty has a least element.                *)
LEMMA LeastNatural ==
  ASSUME NEW S \in SUBSET Nat, S # {}
  PROVE  \E x \in S : \A y \in S : ~ y < x
<1>1. \E x \in S : \A y \in S : <<y, x>> \notin OpToRel(<, Nat)
  BY NatLessThanWellFounded, WFMin
<1>2. \A x, y \in Nat : y < x => <<y, x>> \in OpToRel(<, Nat)
  BY DEF OpToRel
<1>. QED BY <1>1, <1>2

(* Of sets of subsets of a finite set, one has none of the others within.  *)
LEMMA SmallestSubset ==
  ASSUME NEW S, IsFiniteSet(S), NEW C \in SUBSET (SUBSET S), C # {}
  PROVE  \E A \in C : \A B \in C : ~Within(B, A)
<1> DEFINE K == {Cardinality(A) : A \in C}
<1>1. \A A \in C : IsFiniteSet(A) /\ Cardinality(A) \in Nat
  BY FS_Subset, FS_CardinalityType
<1>2. PICK x \in K : \A y \in K : ~ y < x
  <2>1. K \in SUBSET Nat /\ K # {}
    BY <1>1
  <2>. HIDE DEF K
  <2>. QED BY <2>1, LeastNatural
<1>3. PICK A \in C : x = Cardinality(A)
  BY <1>2
<1>4. ASSUME NEW B \in C, Within(B, A) PROVE FALSE
  <2>1. B \in SUBSET A /\ B # A
    BY <1>4 DEF Within
  <2>2. Cardinality(B) <= Cardinality(A) /\ Cardinality(A) # Cardinality(B)
    BY <1>1, <1>3, <2>1, FS_Subset
  <2>3. Cardinality(B) \in K
    BY <1>4
  <2>. QED BY <1>1, <1>2, <1>3, <1>4, <2>2, <2>3
<1>. QED BY <1>3, <1>4

(* With finitely many peers and manifests, no operation goes on for ever:  *)
(* there is no endless sequence of locals each nearer to the return than   *)
(* the one before, and by OperationsComeNearer every step of an operation  *)
(* is such a step.  What OperationsReturn says beyond this is that a task  *)
(* that can go on does, and that the lock is handed on.                    *)
THEOREM NoOperationIsEndless ==
  ASSUME IsFiniteSet(Nodes), IsFiniteSet(Manifests)
  PROVE  ~ \E f \in [Nat -> Task] : \A i \in Nat : Nearer(f[i + 1], f[i])
<1>. SUFFICES ASSUME NEW f \in [Nat -> Task], \A i \in Nat : Nearer(f[i + 1], f[i])
              PROVE  FALSE
  OBVIOUS
<1> DEFINE T0 == {f[i] : i \in Nat}
<1>0. T0 # {} /\ \A l \in T0 : l \in Task /\ \E k \in T0 : Nearer(k, l)
  <2>1. f[0] \in T0
    OBVIOUS
  <2>2. ASSUME NEW i \in Nat PROVE f[i] \in Task /\ \E k \in T0 : Nearer(k, f[i])
    <3>1. i + 1 \in Nat
      OBVIOUS
    <3>. QED BY <3>1
  <2>. QED BY <2>1, <2>2
<1>. HIDE DEF T0
<1>1. \A l \in T0 : /\ l.srcs \in SUBSET Nodes /\ l.refs \in SUBSET Nodes /\ l.acc \in SUBSET Manifests
                    /\ Decided(l) \in SUBSET Nodes /\ ToAwait(l) \in Nat /\ ToWrite(l) \in Nat
  BY <1>0 DEF Task, Decided, ToAwait, ToWrite
<1>2. PICK x1 \in T0 : \A l \in T0 : ~Within(l.srcs, x1.srcs)
  <2> DEFINE C == {l.srcs : l \in T0}
  <2>1. C \in SUBSET (SUBSET Nodes) /\ C # {}
    BY <1>0, <1>1
  <2>. HIDE DEF C
  <2>2. PICK A \in C : \A B \in C : ~Within(B, A)
    BY <2>1, SmallestSubset
  <2>. QED BY <2>2 DEF C
<1> DEFINE T1 == {l \in T0 : l.srcs = x1.srcs}
<1>3. PICK x2 \in T1 : \A l \in T1 : ~Within(l.refs, x2.refs)
  <2> DEFINE C == {l.refs : l \in T1}
  <2>1. C \in SUBSET (SUBSET Nodes) /\ C # {}
    BY <1>1
  <2>. HIDE DEF C
  <2>2. PICK A \in C : \A B \in C : ~Within(B, A)
    BY <2>1, SmallestSubset
  <2>. QED BY <2>2 DEF C
<1> DEFINE T2 == {l \in T1 : l.refs = x2.refs}
<1>4. PICK x3 \in T2 : \A l \in T2 : ~ ToAwait(l) < ToAwait(x3)
  <2> DEFINE C == {ToAwait(l) : l \in T2}
  <2>1. C \in SUBSET Nat /\ C # {}
    BY <1>1
  <2>. HIDE DEF C
  <2>2. PICK a \in C : \A b \in C : ~ b < a
    BY <2>1, LeastNatural
  <2>. QED BY <2>2 DEF C
<1> DEFINE T3 == {l \in T2 : ToAwait(l) = ToAwait(x3)}
<1>5. PICK x4 \in T3 : \A l \in T3 : ~Within(l.acc, x4.acc)
  <2> DEFINE C == {l.acc : l \in T3}
  <2>1. C \in SUBSET (SUBSET Manifests) /\ C # {}
    BY <1>1
  <2>. HIDE DEF C
  <2>2. PICK A \in C : \A B \in C : ~Within(B, A)
    BY <2>1, SmallestSubset
  <2>. QED BY <2>2 DEF C
<1> DEFINE T4 == {l \in T3 : l.acc = x4.acc}
<1>6. PICK x5 \in T4 : \A l \in T4 : ~Within(Decided(l), Decided(x5))
  <2> DEFINE C == {Decided(l) : l \in T4}
  <2>1. C \in SUBSET (SUBSET Nodes) /\ C # {}
    BY <1>1
  <2>. HIDE DEF C
  <2>2. PICK A \in C : \A B \in C : ~Within(B, A)
    BY <2>1, SmallestSubset
  <2>. QED BY <2>2 DEF C
<1> DEFINE T5 == {l \in T4 : Decided(l) = Decided(x5)}
<1>7. PICK x6 \in T5 : \A l \in T5 : ~ ToWrite(l) < ToWrite(x6)
  <2> DEFINE C == {ToWrite(l) : l \in T5}
  <2>1. C \in SUBSET Nat /\ C # {}
    BY <1>1
  <2>. HIDE DEF C
  <2>2. PICK a \in C : \A b \in C : ~ b < a
    BY <2>1, LeastNatural
  <2>. QED BY <2>2 DEF C
<1>8. PICK k \in T0 : Nearer(k, x6)
  BY <1>0, <1>7
<1>. QED BY <1>2, <1>3, <1>4, <1>5, <1>6, <1>7, <1>8 DEF Nearer
=============================================================================
