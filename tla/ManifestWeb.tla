---------------------------- MODULE ManifestWeb ----------------------------
(***************************************************************************)
(* The peers' side of FederationClient.fetch_manifest: what their URLs     *)
(* serve, the clock the manifests are checked against, and what a fetch    *)
(* may come back with.                                                     *)
(***************************************************************************)
EXTENDS Admission

CONSTANTS
  Nodes,         \* node identifiers
  Urls,          \* manifest URLs
  Resolves,      \* Resolves[u]: the kinds of address the host of u resolves to
  AllowPrivate,  \* FederationClient.allow_private
  Policy,        \* the AdmissionPolicy of this node
  MaxNow,        \* bound of the model: the clock stops here
  NoManifest,
  Nothing,       \* what a URL serves that answers with no manifest, or not at all
  Trickle        \* a body that never ends

ASSUME WebAssumption == NoManifest \notin Manifests /\ MaxNow \in Nat

VARIABLES
  web,   \* what each URL serves
  now    \* utc_now()

WebType == web \in [Urls -> Manifests \cup {Nothing, Trickle}] /\ now \in 0 .. MaxNow

(* _assert_public_host lets the URL pass: its host resolves, and to public *)
(* addresses only.                                                         *)
PublicHost(u) == Resolves[u] # {} /\ ("private" \in Resolves[u] => AllowPrivate)

(* The manifests fetch_manifest may return; it may always fail as well,    *)
(* unless the body trickles in: the client's timeout is one for each read. *)
Fetches(u) ==
  IF PublicHost(u) /\ web[u] \in Manifests /\ CheckManifest(web[u], now) THEN {web[u]} ELSE {}
FetchMayFail(u) == PublicHost(u) => web[u] # Trickle

(* Manifest m met the policy at some time up to now. *)
WasAdmissible(m) == \E time \in 0 .. now : MeetsPolicy(m, Policy, time)

Tick == now < MaxNow /\ now' = now + 1 /\ UNCHANGED web
=============================================================================
