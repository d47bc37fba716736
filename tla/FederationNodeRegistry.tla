----------------------- MODULE FederationNodeRegistry -----------------------
(***************************************************************************)
(* FederationNode without discovery and without failures implements        *)
(* PeerRegistry: seen from outside the lifecycle lock, every operation is  *)
(* one atomic change.  An operation takes effect when it has the lock and  *)
(* has read the record; until it is done, the registry shows what it is    *)
(* about to write.                                                         *)
(***************************************************************************)
EXTENDS FederationNode

(* The task inside the lock works on node n, at one of these statements. *)
Holds(n, labels) ==
  /\ lifecycle_lock # NoTask
  /\ task[lifecycle_lock].pc \in labels
  /\ LET l == task[lifecycle_lock]
     IN  n = IF l.pc \in {"remember", "persist", "admit"} THEN l.man.node ELSE l.cur

Holder == task[lifecycle_lock]

(* No record is written after a refresh that found none. *)
NoRecordToWrite ==
  Holder.op \in {"refresh_peer", "refresh_all"} /\ Holder.rec.state = "absent"

PendingRecord(n) ==
  IF Holds(n, {"remember", "persist", "admit"}) /\ ~NoRecordToWrite
    THEN Admitted(Holder.man)
  ELSE IF Holds(n, {"quarantine"}) /\ ~NoRecordToWrite
    THEN SetState(Holder.rec, "stale_manifest")
  ELSE IF Holds(n, {"reject"}) /\ ~NoRecordToWrite
    THEN SetState(Holder.rec, "rejected")
  ELSE IF Holds(n, {"mark_revoked"})
    THEN SetState(Holder.rec, "revoked")
  ELSE membership_table[n]

PendingManifest(n) ==
  IF Holds(n, {"remember", "persist", "admit"}) THEN Holder.man
  ELSE IF Holds(n, {"reject", "mark_revoked", "forget", "delete"}) THEN NoManifest
  ELSE peer_manifests[n]

RegistryView ==
  [n \in Nodes |-> [state    |-> PendingRecord(n).state,
                    rev      |-> PendingRecord(n).rev,
                    manifest |-> PendingManifest(n)]]

Registry == INSTANCE PeerRegistry WITH registry <- RegistryView

(* The lifecycle lock makes every operation of the facade atomic: with the *)
(* two stores and the cache hidden behind RegistryView, each step is one   *)
(* operation of the registry or changes nothing.                           *)
ImplementsRegistry == Registry!RegistrySpec
=============================================================================
