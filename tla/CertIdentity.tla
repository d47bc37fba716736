---------------------------- MODULE CertIdentity ----------------------------
(***************************************************************************)
(* The identity a peer presents in its TLS certificate, and the one the    *)
(* host expects of a node (certauth.py): a pure comparison, in which every *)
(* field the host leaves empty constrains nothing.                         *)
(***************************************************************************)
CONSTANTS
  Subjects, Sans, Spkis,   \* subject names, alternative names and key digests
  Unset                    \* a field that is None

CertificateIdentity ==
  [subject_dn : Subjects \cup {Unset}, sans : SUBSET Sans, spki_sha256 : Spkis \cup {Unset}]

(* No field of the expected identity is set. *)
Unconstrained(expected) ==
  expected.spki_sha256 = Unset /\ expected.subject_dn = Unset /\ expected.sans = {}

(* presented.matches(expected) *)
Matches(presented, expected) ==
  /\ ~Unconstrained(expected)
  /\ expected.spki_sha256 # Unset => presented.spki_sha256 = expected.spki_sha256
  /\ expected.subject_dn # Unset => presented.subject_dn = expected.subject_dn
  /\ expected.sans \subseteq presented.sans

(* The node verify_certificate_identity binds the certificate to, of those *)
(* in the host's table of expected identities; it raises for the others.   *)
VerifyCertificateIdentity(presented, expected) ==
  {n \in DOMAIN expected : Matches(presented, expected[n])}
=============================================================================
