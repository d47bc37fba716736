-------------------------- MODULE MCSignedRequests --------------------------
(* Small instances of SignedRequests for TLC: two senders whose nonces     *)
(* coincide and whose manifests the verifier has cached.  Names have the   *)
(* shape of the README's, "node:org", or another: "fed" with "node:a" and  *)
(* "fed:node" with "a" are joined to the same key.                         *)
EXTENDS SignedRequests, TLC

CONSTANTS k1, get, upload, v1, v2

MCSelf == <<"node", "self">>
MCNodes == {<<"node", "a">>, <<"a">>, MCSelf}
MCFederations == {<<"fed">>, <<"fed", "node">>}
MCNonces == {<<"n1">>}
MCDrifts == {-1, 2}
MCPublicKeys == [n \in Nodes |-> IF n = Self THEN {} ELSE {k1}]
VerificationSymmetry == Permutations(Verifications)
=============================================================================
