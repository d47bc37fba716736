---------------------- MODULE MCFederationNodeReturns ----------------------
(* Small instances of FederationNodeReturns for TLC. *)
EXTENDS FederationNodeReturns

CONSTANTS p, self, t1, t2, k1, k2, o1, o2, absent, nobody, notask

Manifest(o, r, ks) == [node |-> p, org |-> o, rev |-> r, keys |-> ks, signer |-> k1]

(* p publishes two revisions, the second with a key more; P3 claims its    *)
(* node for another organisation and is not admissible.                    *)
P1 == Manifest(o1, 1, {k1})
P2 == Manifest(o1, 2, {k1, k2})
P3 == Manifest(o2, 2, {k1})

OnePeer == {p, self}
PeerP == {P1, P2, P3}
PeerPAdmissible == {P1, P2}
TwoTasks == {t1, t2}
=============================================================================
