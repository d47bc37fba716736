--------------------------- MODULE SignedRequests ---------------------------
(***************************************************************************)
(* Signed requests between federation nodes (signing.py, the sending half  *)
(* of client.py, verify_inbound and verify_known_inbound of node.py).  The *)
(* network may lose, delay, reorder, duplicate and alter a request; one    *)
(* node, Self, verifies what arrives, several requests at a time.  The     *)
(* nonce cache is the host's; a call on it may suspend the verification.   *)
(*                                                                         *)
(* A name is the sequence of its parts between colons, "node:org-a:prod"   *)
(* of three, so that joining names with a colon concatenates sequences.    *)
(***************************************************************************)
EXTENDS Integers, Sequences

CONSTANTS
  Nodes, Self,      \* names of the nodes; the node that verifies
  Federations,      \* names a sender may give its federation; nobody checks them
  Keys,             \* key identifiers
  PublicKeys,       \* the keys each cached manifest advertises; {} if none is cached
  Calls,            \* what a request asks for: its method, path and body
  TooLarge,         \* the calls whose body exceeds max_body_bytes
  Nonces,           \* names, each of which a node uses once
  Verifications,    \* inbound requests being verified at the same time
  MaxSkew,          \* max_skew_seconds
  Drifts,           \* how far a sender's clock may be ahead of the verifier's
  MaxTime           \* bound of the model: the clock stops here

ASSUME RequestsAssumption ==
  /\ Self \in Nodes
  /\ PublicKeys \in [Nodes -> SUBSET Keys]
  /\ TooLarge \subseteq Calls
  /\ MaxSkew \in Nat \ {0}
  /\ Drifts \subseteq Int /\ MaxTime \in Nat

VARIABLES
  now,          \* the verifier's clock
  sent,         \* the requests built so far; the network keeps them all
  nonce_cache,  \* when the claim of a nonce expires; 0 if it was never made
  task,         \* what each verification is doing
  claims        \* history: the claims the cache granted, and when

vars == <<now, sent, nonce_cache, task, claims>>

(* `intact' says that the signature is the source's over all the other     *)
(* fields, so that verify_model succeeds.                                  *)
SignedRequest ==
  [federation : Federations, source : Nodes, target : Nodes, call : Calls, nonce : Nonces,
   timestamp : Int, key : Keys, intact : BOOLEAN]

(* _nonce_cache_key: the four names joined with colons, none of them escaped *)
NonceKey(env) == env.federation \o env.source \o env.target \o env.nonce

NonceKeys ==
  {NonceKey(scope) :
     scope \in [federation : Federations, source : Nodes, target : Nodes, nonce : Nonces]}

Answers == {"none", "ok", "refused", "replay", "error"}
Verification ==
  [pc : {"idle"}, answer : Answers]
    \cup [pc : {"claim"}, env : SignedRequest, call : Calls, checked : Nat]

Claim == [env : SignedRequest, call : Calls, at : Nat]

TypeOK ==
  /\ now \in Nat
  /\ sent \subseteq SignedRequest
  /\ nonce_cache \in [NonceKeys -> Nat]
  /\ task \in [Verifications -> Verification]
  /\ claims \subseteq Claim

Init ==
  /\ now = 0
  /\ sent = {}
  /\ nonce_cache = [k \in NonceKeys |-> 0]
  /\ task = [v \in Verifications |-> [pc |-> "idle", answer |-> "none"]]
  /\ claims = {}

----------------------------------------------------------------------------
(* build_signed_request: a nonce the sender has not used, the sender's own *)
(* clock, and whatever it calls the federation.                            *)
BuildSignedRequest ==
  /\ \E f \in Federations, s \in Nodes \ {Self}, r \in Nodes, c \in Calls, n \in Nonces,
        k \in Keys, drift \in Drifts :
       /\ \A env \in sent : env.source # s \/ env.nonce # n
       /\ sent' = sent \cup {[federation |-> f, source |-> s, target |-> r, call |-> c, nonce |-> n,
                              timestamp |-> now + drift, key |-> k, intact |-> TRUE]}
  /\ UNCHANGED <<now, nonce_cache, task, claims>>

(* What the network may hand to the verifier: a request as it was sent, or *)
(* one that was altered on the way.                                        *)
Altered(env) ==
  {[env EXCEPT !.intact = FALSE, !.nonce = n, !.target = Self] : n \in Nonces}
Arrivals == sent \cup UNION {Altered(e) : e \in sent}

(* Fault: the request is not compared with what the route received. *)
AddressedOnly(env, source, call) ==
  /\ PublicKeys[source] # {}
  /\ env.source = source
  /\ env.key \in PublicKeys[source]
  /\ env.target = Self

(* The checks of verify_known_inbound, verify_peer_request and             *)
(* verify_signed_request that come before the nonce is claimed; `source'   *)
(* is the node the host takes the request for, `call' what its route       *)
(* really received.                                                        *)
WellAddressed(env, source, call) ==
  /\ PublicKeys[source] # {}
  /\ env.source = source
  /\ env.key \in PublicKeys[source]
  /\ env.target = Self
  /\ env.call = call /\ call \notin TooLarge

(* Fault: a window twice as long as the nonces live. *)
FreshTwice(env) == -MaxSkew <= now - env.timestamp /\ now - env.timestamp <= 2 * MaxSkew

Fresh(env) == -MaxSkew <= now - env.timestamp /\ now - env.timestamp <= MaxSkew

(* Fault: the nonce is claimed before the signature is verified. *)
VerifiesUnsigned(env, source, call) == WellAddressed(env, source, call) /\ Fresh(env)

Verifies(env, source, call) ==
  WellAddressed(env, source, call) /\ Fresh(env) /\ env.intact

(* missing_signature, malformed_envelope, unsigned: nothing is looked up. *)
Malformed(v) ==
  /\ task[v].pc = "idle"
  /\ task' = [task EXCEPT ![v] = [pc |-> "idle", answer |-> "refused"]]
  /\ UNCHANGED <<now, sent, nonce_cache, claims>>

Refuse(v) ==
  /\ task[v].pc = "idle"
  /\ \E env \in Arrivals, source \in Nodes, call \in Calls : ~Verifies(env, source, call)
  /\ task' = [task EXCEPT ![v] = [pc |-> "idle", answer |-> "refused"]]
  /\ UNCHANGED <<now, sent, nonce_cache, claims>>

VerifySignedRequest(v) ==
  /\ task[v].pc = "idle"
  /\ \E env \in Arrivals, source \in Nodes, call \in Calls :
       /\ Verifies(env, source, call)
       /\ task' = [task EXCEPT ![v] = [pc |-> "claim", env |-> env, call |-> call,
                                       checked |-> now]]
  /\ UNCHANGED <<now, sent, nonce_cache, claims>>

(* Fault: the TTL is a tick short; a whole window is subtracted. *)
ExpirySoon == now + MaxSkew - 1
ExpiryBefore == now - 2 * MaxSkew

(* NonceCache.set(key, 1, expire=max_skew_seconds, exist=False) *)
Claimed(env) == now < nonce_cache[NonceKey(env)]
Expiry == now + MaxSkew

ClaimNonce(v, answer) ==
  LET l == task[v] IN
  /\ l.pc = "claim"
  /\ ~Claimed(l.env)
  /\ nonce_cache' = [nonce_cache EXCEPT ![NonceKey(l.env)] = Expiry]
  /\ claims' = claims \cup {[env |-> l.env, call |-> l.call, at |-> now]}
  /\ task' = [task EXCEPT ![v] = [pc |-> "idle", answer |-> answer]]
  /\ UNCHANGED <<now, sent>>

Accept(v) == ClaimNonce(v, "ok")

(* The cache stores the nonce and its answer is lost. *)
LoseAnswer(v) == ClaimNonce(v, "error")

Replay(v) ==
  /\ task[v].pc = "claim"
  /\ Claimed(task[v].env)
  /\ task' = [task EXCEPT ![v] = [pc |-> "idle", answer |-> "replay"]]
  /\ UNCHANGED <<now, sent, nonce_cache, claims>>

(* The cache cannot be reached, or the host cancels the request. *)
Fail(v) ==
  /\ task[v].pc = "claim"
  /\ task' = [task EXCEPT ![v] = [pc |-> "idle", answer |-> "error"]]
  /\ UNCHANGED <<now, sent, nonce_cache, claims>>

Tick ==
  /\ now < MaxTime
  /\ now' = now + 1
  /\ UNCHANGED <<sent, nonce_cache, task, claims>>

Next ==
  \/ BuildSignedRequest \/ Tick
  \/ \E v \in Verifications :
       \/ Malformed(v) \/ Refuse(v) \/ VerifySignedRequest(v)
       \/ Accept(v) \/ LoseAnswer(v) \/ Replay(v) \/ Fail(v)

Spec == Init /\ [][Next]_vars
----------------------------------------------------------------------------
(* Properties *)

(* The cache grants a claim to this verification. *)
Grants(v) ==
  /\ task[v].pc = "claim" /\ task'[v].pc = "idle"
  /\ task'[v].answer = "ok" \/ claims' # claims

(* What the nonce cache itself gives: whatever the clocks and however long *)
(* a claim takes, two grants of the same nonce are at least                *)
(* max_skew_seconds apart (verify_signed_request: the claim's TTL).        *)
GrantsFarApart ==
  [][\A v \in Verifications : Grants(v) =>
       \A c \in claims : NonceKey(c.env) = NonceKey(task[v].env) => now >= c.at + MaxSkew]_vars

(* A duplicate of a request is not handled again, at whatever time it      *)
(* arrives and whichever verification it meets, unless it was first        *)
(* claimed before the time it says it was signed at, by a sender whose     *)
(* clock is ahead, or no later than that by more than the second claim     *)
(* waited for the cache (verify_signed_request: abs() lets a timestamp lie *)
(* in the future, and the TTL runs from the claim).                        *)
TwiceOnlyIfAhead ==
  [][\A v \in Verifications : Grants(v) =>
       \A c \in claims : c.env = task[v].env =>
         c.at <= c.env.timestamp + (now - task[v].checked)]_vars

(* "Failed unauthenticated requests do not consume nonces" (README): a     *)
(* nonce is claimed only for a request its source signed for this node.    *)
OnlySignedRequestsClaim ==
  \A k \in NonceKeys : nonce_cache[k] > 0 =>
    \E env \in sent : NonceKey(env) = k /\ env.target = Self

(* The call a route handles is the one the source signed for this node:    *)
(* verify_peer_request binds the signature to the method, path and body    *)
(* that were really received.                                              *)
HandledAsSigned ==
  \A c \in claims : c.env \in sent /\ c.env.target = Self /\ c.env.call = c.call

(* The names in two requests have as many parts between colons. *)
Alike(env, other) ==
  Len(env.federation) = Len(other.federation) /\ Len(env.source) = Len(other.source)

(* "The nonce key is scoped by federation, source node, target node, and   *)
(* nonce" (README): a request is refused as a replay only if the same      *)
(* request was granted before; neither another node's request nor an       *)
(* altered copy stands in its way.  The exception is that of a join that   *)
(* escapes nothing (_nonce_cache_key): a request whose names have more or  *)
(* fewer parts, and which gives the same key when they are joined.         *)
NoFalseReplay ==
  [][\A v \in Verifications : task[v].pc = "claim" /\ task'[v].pc = "idle"
         /\ task'[v].answer = "replay" =>
       \E c \in claims :
         \/ c.env = task[v].env
         \/ NonceKey(c.env) = NonceKey(task[v].env) /\ ~Alike(c.env, task[v].env)]_vars
=============================================================================
