----------------------------- MODULE Admission -----------------------------
(***************************************************************************)
(* The decisions about a manifest nothing is known of yet, as operators:   *)
(* check_manifest (signing.py), admit_manifest with the callbacks of the   *)
(* host (admission.py), and build_signed_manifest (publication.py), the    *)
(* manifest a node offers to the others' check.                            *)
(*                                                                         *)
(* A manifest is a record of the fields the decisions read: node, signature*)
(* ("verified", or why it is not: "unsigned", "unknown_key",               *)
(* "bad_signature"), issued_at and expires_at in ticks, the sets           *)
(* federations, protocol_versions and auth_methods, the endpoint, and      *)
(* evidence, the domain of a DomainProofEvidence.  A host name and a       *)
(* domain are sequences of labels; an endpoint without host has none, a    *)
(* manifest without such evidence or with an empty domain has none.        *)
(***************************************************************************)
EXTENDS Integers, SequencesExt

CONSTANTS
  Manifests,   \* the manifests that are published
  Verdicts,    \* Verdicts[c][m]: what callback c of the host may say of manifest m
  MaxSkew,     \* max_skew_seconds, in ticks
  Second,      \* ticks in a second
  NoTime       \* a timestamp that is None

Decisions == {"accepted", "rejected", "raised"}

ASSUME AdmissionAssumption ==
  /\ MaxSkew \in Nat /\ Second \in Nat \ {0} /\ NoTime \notin Int
  /\ \A m \in Manifests :
       /\ {"signature", "issued_at", "expires_at"} \subseteq DOMAIN m
       /\ {m.issued_at, m.expires_at} \subseteq Int \cup {NoTime}
  /\ \A c \in DOMAIN Verdicts : Verdicts[c] \in [Manifests -> (SUBSET Decisions) \ {{}}]

(* check_manifest: signed by a key it advertises, and fresh. *)
CheckManifest(m, time) ==
  /\ m.signature = "verified"
  /\ m.expires_at # NoTime => time <= m.expires_at + MaxSkew
  /\ m.issued_at # NoTime => time >= m.issued_at - MaxSkew

(* The gates of admit_manifest up to the verifiers of authentication       *)
(* methods.                                                                *)
Fits(m, policy) ==
  /\ policy.require_expires_at => m.expires_at # NoTime
  /\ policy.federation_id \in m.federations
  /\ m.protocol_versions \cap policy.protocol_versions # {}
  /\ policy.require_signed_http => "signed_http" \in m.auth_methods

(* _host_in_domain *)
HostInDomain(host, domain) == domain # <<>> /\ IsSuffix(domain, host)

(* _check_endpoint finds nothing to object to. *)
EndpointAllowed(endpoint, policy) ==
  /\ endpoint.host # <<>>
  /\ policy.require_https => endpoint.https
  /\ policy.allowed_endpoint_domains # {} =>
       \E d \in policy.allowed_endpoint_domains : HostInDomain(endpoint.host, d)
  /\ endpoint.private_ip => policy.allow_private_hosts

(* domain_evidence_verifier *)
DomainEvidence(m) == IF HostInDomain(m.endpoint.host, m.evidence) THEN "accepted" ELSE "rejected"

(* What the evidence_verifier of the policy may say. *)
EvidenceVerdicts(m, policy) ==
  IF policy.evidence_verifier = "none" THEN {"accepted"}
  ELSE IF policy.evidence_verifier = "domain" THEN {DomainEvidence(m)}
  ELSE Verdicts["evidence"][m]

(* The verifiers admit_manifest calls, in the order the manifest lists its *)
(* methods, until one does not accept.                                     *)
Asked(m, policy) == m.auth_methods \cap policy.auth_method_verifiers

(* Fault: the verifiers are called and their verdicts not looked at. *)
AdmitManifestUnasked(m, policy, time) ==
  IF ~CheckManifest(m, time) \/ ~Fits(m, policy) \/ ~EndpointAllowed(m.endpoint, policy)
  THEN {"rejected"}
  ELSE {"accepted"}

(* The ways admit_manifest may end.  A verifier that refuses, or raises,   *)
(* ends it at once; the endpoint and the evidence come after them.         *)
AdmitManifest(m, policy, time) ==
  IF ~CheckManifest(m, time) \/ ~Fits(m, policy) THEN {"rejected"}
  ELSE LET refusals == UNION {Verdicts[c][m] \ {"accepted"} : c \in Asked(m, policy)}
       IN  refusals \cup
             IF \E c \in Asked(m, policy) : "accepted" \notin Verdicts[c][m] THEN {}
             ELSE IF ~EndpointAllowed(m.endpoint, policy) THEN {"rejected"}
             ELSE EvidenceVerdicts(m, policy)

(* A timestamp as iso_z writes it into the signed JSON: whole seconds. *)
Truncated(time) == IF time = NoTime THEN NoTime ELSE (time \div Second) * Second

(* build_signed_manifest for the coordinates of m.  The expiry is counted  *)
(* from issued_at, unless the host sets it or there is no time to live.    *)
BuildSignedManifest(m, issued, expires, ttl) ==
  [m EXCEPT !.signature = "verified", !.issued_at = Truncated(issued),
            !.expires_at = Truncated(IF expires = NoTime /\ ttl # NoTime THEN issued + ttl
                                     ELSE expires)]

----------------------------------------------------------------------------
(* What a policy promises, gate by gate: the reference for admit_manifest. *)
MeetsPolicy(m, policy, time) ==
  /\ CheckManifest(m, time) /\ Fits(m, policy) /\ EndpointAllowed(m.endpoint, policy)
  /\ \A c \in Asked(m, policy) : "accepted" \in Verdicts[c][m]
  /\ "accepted" \in EvidenceVerdicts(m, policy)
=============================================================================
