-------------------------- MODULE MCFederationNode --------------------------
(* Small instances of FederationNode for TLC. *)
EXTENDS FederationNodeRegistry, TLC

CONSTANTS p, q, self, t1, t2, k1, k2, o1, o2, absent, nobody, notask

Manifest(n, o, r, ks, k) == [node |-> n, org |-> o, rev |-> r, keys |-> ks, signer |-> k]

(* p publishes two revisions, the second signed by a rotated key, and may  *)
(* later claim another organisation; q has one manifest.                   *)
P1 == Manifest(p, o1, 1, {k1}, k1)
P2 == Manifest(p, o1, 2, {k1, k2}, k1)
P3 == Manifest(p, o2, 2, {k1}, k1)
Q1 == Manifest(q, o1, 1, {k2}, k2)

MCNodes == {p, q, self}
OnePeer == {p, self}
TwoManifests == {P1, Q1}
PeerP == {P1, P2, P3}
PeerPAdmissible == {P1, P2}
AllManifests == {P1, P2, P3, Q1}
AllAdmissible == {P1, P2, Q1}
OneTask == {t1}
TwoTasks == {t1, t2}

TaskSymmetry == Permutations(Tasks)
=============================================================================
