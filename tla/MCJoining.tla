----------------------------- MODULE MCJoining -----------------------------
(* A small instance of Joining for TLC. *)
EXTENDS Joining

CONSTANTS self, a, b, c, ua, ub, uc, never, absent, nothing, trickle

MCNodes == {self, a, b, c}
MCUrls == {ua, ub, uc}

Acme == <<"acme", "example">>

(* The coordinates of a manifest as its publisher builds them *)
Coordinates(n) ==
  [node |-> n, signature |-> "unsigned", issued_at |-> never, expires_at |-> never,
   federations |-> {"fed"}, protocol_versions |-> {"1.0"}, auth_methods |-> {"signed_http"},
   endpoint |-> [host |-> <<"node">> \o Acme, https |-> TRUE, private_ip |-> FALSE],
   evidence |-> Acme]

(* Three well-built manifests: of a seed; of a second seed, about to       *)
(* expire; of a peer that also advertises mtls.                            *)
A == BuildSignedManifest(Coordinates(a), 1, never, 7)
B == BuildSignedManifest(Coordinates(b), -5, never, 3)
C == BuildSignedManifest([Coordinates(c) EXCEPT !.auth_methods = {"signed_http", "mtls"}], 0, never, 9)

(* Some that a policy or a check must refuse. *)
Unsigned    == Coordinates(c)
WrongDomain == BuildSignedManifest([Coordinates(c) EXCEPT !.evidence = <<"other">>], 0, never, 9)
Elsewhere_B == BuildSignedManifest([Coordinates(b) EXCEPT !.endpoint.host = Acme \o <<"evil">>], 0, never, 9)

MCManifests == {A, B, C, Unsigned, WrongDomain, Elsewhere_B}

(* The verifier of mtls refuses, accepts or raises at its pleasure. *)
MCVerdicts == [v \in {"mtls"} |-> [m \in MCManifests |-> Decisions]]

MCPolicy ==
  [federation_id |-> "fed", protocol_versions |-> {"1.0", "2.0"}, require_expires_at |-> TRUE,
   require_signed_http |-> TRUE, require_https |-> TRUE, allow_private_hosts |-> FALSE,
   allowed_endpoint_domains |-> {Acme}, evidence_verifier |-> "domain",
   auth_method_verifiers |-> {"mtls"}]

MCResolves == [u \in MCUrls |-> {"public"}]

(* What the URLs serve: each of ua and ub is a seed's; ub may be the one   *)
(* of a peer that introduces itself as well.                               *)
Serving(at_a, at_b, at_c) == [u \in MCUrls |-> CASE u = ua -> at_a [] u = ub -> at_b [] u = uc -> at_c]
MCWebs ==
  {Serving(A, B, C), Serving(A, B, WrongDomain), Serving(A, C, Elsewhere_B),
   Serving(A, trickle, C), Serving(nothing, B, Unsigned)}

(* A right hint, one that names the wrong URL, one that names the wrong    *)
(* node.                                                                   *)
Hinted(n, u) == [node |-> n, url |-> u]
MCRefs == {Hinted(c, uc), Hinted(c, ub), Hinted(b, uc)}
=============================================================================
