---------------------------- MODULE MCPeerHealth ----------------------------
(* Small instances of PeerHealth for TLC. *)
EXTENDS Disclosure, TLC

CONSTANTS t1, t2, unlimited

ReporterSymmetry == Permutations(Reporters)
=============================================================================
