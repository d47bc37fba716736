---------------------------- MODULE PeerRegistry ----------------------------
(***************************************************************************)
(* What a host may take FederationNode for: one registry that holds a      *)
(* state, a revision and a manifest for every peer and that every          *)
(* operation changes in a single step.  The membership table, the manifest *)
(* cache, the manifest store and the lifecycle lock are its implementation.*)
(***************************************************************************)
EXTENDS ManifestRefresh

VARIABLE registry

RegistryStates == {"absent", "active", "cooldown", "stale_manifest", "rejected", "revoked"}
Entry == [state : RegistryStates, rev : Nat, manifest : MaybeManifest]

RegistryInit ==
  registry = [n \in Nodes |-> [state |-> "absent", rev |-> 0, manifest |-> NoManifest]]

Known(n) == registry[n].state # "absent"

(* A manifest the policy admitted is recorded, except for a revoked node. *)
RecordManifest(m) ==
  /\ registry[m.node].state # "revoked"
  /\ registry' = [registry EXCEPT ![m.node] =
                    [state |-> "active", rev |-> m.rev, manifest |-> m]]

(* A refresh replaces the manifest and, if there is a record, activates it. *)
AcceptRefresh(m) ==
  registry' = [registry EXCEPT ![m.node] =
                 IF Known(m.node)
                 THEN [state |-> "active", rev |-> m.rev, manifest |-> m]
                 ELSE [@ EXCEPT !.manifest = m]]

Quarantine(n) ==
  /\ Known(n)
  /\ registry' = [registry EXCEPT ![n].state = "stale_manifest"]

Reject(n) ==
  registry' = [registry EXCEPT ![n].state = IF Known(n) THEN "rejected" ELSE @,
                               ![n].manifest = NoManifest]

Revoke(n) ==
  /\ Known(n)
  /\ registry' = [registry EXCEPT ![n].state = "revoked", ![n].manifest = NoManifest]

(* A notice that fails a gate still evicts the manifest of a revoked node. *)
Evict(n) ==
  /\ registry[n].state = "revoked"
  /\ registry' = [registry EXCEPT ![n].manifest = NoManifest]

Clear(n) ==
  registry' = [registry EXCEPT ![n].state = "absent", ![n].rev = 0]

RegistryNext ==
  \/ \E m \in Manifests : RecordManifest(m) \/ AcceptRefresh(m)
  \/ \E n \in Nodes : Quarantine(n) \/ Reject(n) \/ Revoke(n) \/ Evict(n) \/ Clear(n)

RegistrySpec == RegistryInit /\ [][RegistryNext]_registry
=============================================================================
