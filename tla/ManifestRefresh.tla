-------------------------- MODULE ManifestRefresh --------------------------
(***************************************************************************)
(* The decisions federlet takes about a manifest it has just fetched from  *)
(* a peer it already knows (refresh.py and check_key_continuity in         *)
(* admission.py), as pure operators.                                       *)
(*                                                                         *)
(* A manifest is abstracted to the fields the decisions look at:           *)
(*   node, org   the identity it claims,                                   *)
(*   rev         its revision,                                             *)
(*   keys        its public keys; a key stands for the pair (key_id, JWK), *)
(*               so a key_id re-used with another JWK is another key,      *)
(*   signer      the key that produced its signature.                      *)
(***************************************************************************)
EXTENDS Naturals

CONSTANTS
  Nodes,        \* node identifiers, the local one included
  Orgs,         \* organisation identifiers
  Keys,         \* public keys
  Manifests,    \* the manifests check_manifest finds well signed
  NoManifest    \* Python's None where a manifest may be

ManifestType == [node : Nodes, org : Orgs, rev : Nat, keys : SUBSET Keys, signer : Keys]

(* find_jwk and verify_model: the signature verifies under an advertised key. *)
SelfSigned(m) == m.signer \in m.keys

ASSUME ManifestsAssumption ==
  /\ Manifests \subseteq ManifestType
  /\ \A m \in Manifests : SelfSigned(m)
  /\ NoManifest \notin Manifests

MaybeManifest == Manifests \cup {NoManifest}

(***************************************************************************)
(* What the awaited fetch_manifest can come back with besides a manifest:  *)
(* a ManifestVerificationError about freshness or about anything else, an  *)
(* exception transport_failure_reason recognises.  Every other exception   *)
(* is re-raised by refresh_peer_manifest and leaves no decision at all.    *)
(***************************************************************************)
FetchErrors == {"expired", "not_yet_valid", "bad_manifest", "transport"}

(* The evidence verifier of a KeyContinuityPolicy: not configured, or its  *)
(* verdict; the reason "rotation_denied" is the one the code singles out.  *)
Evidence == {"none", "ok", "rotation_denied", "not_ok"}

Actions == {"unchanged", "accept", "quarantine", "reject"}

(* A ManifestRefreshDecision; the manifest is kept only where the facade   *)
(* applies it.                                                             *)
Decision == [action : Actions, manifest : MaybeManifest]

(* Fault: the organisation is not compared. *)
CheckNodeContinuity(old, new, rotation, evidence) ==
  IF old.node # new.node THEN "reject"
  ELSE IF old.keys = new.keys THEN "accept"
  ELSE IF ~rotation THEN "reject"
  ELSE IF new.signer \in old.keys \/ evidence = "ok" THEN "accept"
  ELSE IF evidence = "rotation_denied" THEN "reject"
  ELSE "quarantine"

(***************************************************************************)
(* check_key_continuity: same identity, then either the same keys or a     *)
(* rotation that the old keys or the admission evidence vouch for.         *)
(***************************************************************************)
CheckKeyContinuity(old, new, rotation, evidence) ==
  IF old.node # new.node \/ old.org # new.org THEN "reject"
  ELSE IF old.keys = new.keys THEN "accept"
  ELSE IF ~rotation THEN "reject"
  ELSE IF new.signer \in old.keys \/ evidence = "ok" THEN "accept"
  ELSE IF evidence = "rotation_denied" THEN "reject"
  ELSE "quarantine"

(* Fault: an older revision is taken for a newer one. *)
ClassifyAnyRevision(old, new, rotation, evidence) ==
  LET continuity == CheckKeyContinuity(old, new, rotation, evidence)
  IN  IF continuity # "accept"
        THEN [action |-> continuity, manifest |-> NoManifest]
      ELSE [action |-> IF new.rev = old.rev THEN "unchanged" ELSE "accept",
            manifest |-> new]

(* refresh_peer_manifest for a fetched manifest `new' against `old'. *)
ClassifyManifest(old, new, rotation, evidence) ==
  LET continuity == CheckKeyContinuity(old, new, rotation, evidence)
  IN  IF new.rev < old.rev
        THEN [action |-> "reject", manifest |-> NoManifest]
      ELSE IF continuity # "accept"
        THEN [action |-> continuity, manifest |-> NoManifest]
      ELSE [action |-> IF new.rev = old.rev THEN "unchanged" ELSE "accept",
            manifest |-> new]

(* refresh_peer_manifest for a fetch that failed with one of FetchErrors. *)
ClassifyFailure(error) ==
  [action   |-> IF error = "bad_manifest" THEN "reject" ELSE "quarantine",
   manifest |-> NoManifest]

(* Every decision refresh_peer_manifest can return for a peer whose        *)
(* manifest was `old' when the fetch began; what the peer serves is        *)
(* outside the node's control.                                             *)
RefreshPeerManifest(old, rotation) ==
  {ClassifyFailure(error) : error \in FetchErrors}
    \cup {ClassifyManifest(old, new, rotation, evidence) :
            new \in Manifests, evidence \in Evidence}

(* Who vouches for `new' as the successor of `old', said without the order *)
(* in which the code asks.                                                 *)
Succeeds(old, new, rotation, evidence) ==
  /\ new.node = old.node
  /\ new.org = old.org
  /\ new.rev >= old.rev
  /\ \/ new.keys = old.keys
     \/ rotation /\ (new.signer \in old.keys \/ evidence = "ok")
=============================================================================
