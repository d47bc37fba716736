-------------------------- MODULE Contracts_proofs --------------------------
(***************************************************************************)
(* What the parts promise whoever composes them: the pure decisions of     *)
(* Admission and CertIdentity for every manifest, policy, callback and     *)
(* certificate, and FanOut for any set of peers and any pool.              *)
(***************************************************************************)
EXTENDS Admission, CertIdentity, FanOut, TLAPS

(* The policies whose callbacks Verdicts knows *)
IsPolicy(policy) ==
  /\ policy.auth_method_verifiers \subseteq DOMAIN Verdicts
  /\ policy.evidence_verifier \in {"none", "domain", "host"}
  /\ policy.evidence_verifier = "host" => "evidence" \in DOMAIN Verdicts

(* Every gate of q is one of p. *)
Stricter(p, q) ==
  /\ p.federation_id = q.federation_id /\ p.protocol_versions \subseteq q.protocol_versions
  /\ q.require_expires_at => p.require_expires_at
  /\ q.require_signed_http => p.require_signed_http
  /\ q.require_https => p.require_https
  /\ p.allow_private_hosts => q.allow_private_hosts
  /\ q.allowed_endpoint_domains = {} \/
       (p.allowed_endpoint_domains # {} /\ p.allowed_endpoint_domains \subseteq q.allowed_endpoint_domains)
  /\ q.evidence_verifier \in {"none", p.evidence_verifier}
  /\ q.auth_method_verifiers \subseteq p.auth_method_verifiers

(* A callback of the host accepts, rejects or raises. *)
LEMMA EvidenceDecides ==
  ASSUME NEW m \in Manifests, NEW policy, IsPolicy(policy)
  PROVE  EvidenceVerdicts(m, policy) \in (SUBSET Decisions) \ {{}}
<1>1. CASE policy.evidence_verifier = "none"
  BY <1>1 DEF EvidenceVerdicts, Decisions
<1>2. CASE policy.evidence_verifier = "domain"
  BY <1>2 DEF EvidenceVerdicts, DomainEvidence, Decisions
<1>3. CASE policy.evidence_verifier = "host"
  BY <1>3, AdmissionAssumption DEF EvidenceVerdicts, IsPolicy
<1>. QED BY <1>1, <1>2, <1>3 DEF IsPolicy

(* admit_manifest ends in one of the ways of Decisions, and in one at      *)
(* least: it accepts, names a reason, or lets a callback's exception pass. *)
THEOREM AdmissionDecides ==
  ASSUME NEW m \in Manifests, NEW policy, IsPolicy(policy), NEW time
  PROVE  AdmitManifest(m, policy, time) \in (SUBSET Decisions) \ {{}}
<1>1. \A c \in Asked(m, policy) : Verdicts[c][m] \in (SUBSET Decisions) \ {{}}
  BY AdmissionAssumption DEF Asked, IsPolicy
<1>2. UNION {Verdicts[c][m] \ {"accepted"} : c \in Asked(m, policy)} \subseteq Decisions
  BY <1>1
<1>3. CASE \E c \in Asked(m, policy) : "accepted" \notin Verdicts[c][m]
  <2>1. PICK c \in Asked(m, policy) : "accepted" \notin Verdicts[c][m]
    BY <1>3
  <2>2. PICK d \in Verdicts[c][m] \ {"accepted"} : TRUE
    BY <1>1, <2>1
  <2>3. d \in UNION {Verdicts[e][m] \ {"accepted"} : e \in Asked(m, policy)}
    BY <2>2
  <2>. QED BY <1>2, <1>3, <2>3 DEF AdmitManifest, Decisions
<1>4. CASE ~ \E c \in Asked(m, policy) : "accepted" \notin Verdicts[c][m]
  BY <1>2, <1>4, EvidenceDecides DEF AdmitManifest, Decisions
<1>. QED BY <1>3, <1>4

(* admit_manifest accepts exactly the manifests that pass every gate of    *)
(* the policy: none of its early returns forgets one.                      *)
THEOREM AcceptedMeetsPolicy ==
  ASSUME NEW m, NEW policy, NEW time
  PROVE  "accepted" \in AdmitManifest(m, policy, time) <=> MeetsPolicy(m, policy, time)
<1>1. "accepted" \notin UNION {Verdicts[c][m] \ {"accepted"} : c \in Asked(m, policy)}
  OBVIOUS
<1>. QED BY <1>1 DEF AdmitManifest, MeetsPolicy

(* A host that tightens its AdmissionPolicy admits no manifest that it     *)
(* would have refused before.  An empty set of allowed domains allows all, *)
(* so taking the last domain out is not a restriction.                     *)
THEOREM StricterAdmitsLess ==
  ASSUME NEW m \in Manifests, NEW p, NEW q, Stricter(p, q), NEW time,
         "accepted" \in AdmitManifest(m, p, time)
  PROVE  "accepted" \in AdmitManifest(m, q, time)
<1>1. MeetsPolicy(m, p, time)
  BY AcceptedMeetsPolicy
<1>2. Fits(m, q)
  BY <1>1 DEF MeetsPolicy, Fits, Stricter
<1>3. EndpointAllowed(m.endpoint, q)
  BY <1>1 DEF MeetsPolicy, EndpointAllowed, Stricter
<1>4. \A c \in Asked(m, q) : "accepted" \in Verdicts[c][m]
  BY <1>1 DEF MeetsPolicy, Asked, Stricter
<1>5. "accepted" \in EvidenceVerdicts(m, q)
  BY <1>1 DEF MeetsPolicy, EvidenceVerdicts, Stricter
<1>. QED BY <1>1, <1>2, <1>3, <1>4, <1>5, AcceptedMeetsPolicy DEF MeetsPolicy

(* iso_z cuts a timestamp down by less than a second. *)
LEMMA TruncatedBounds ==
  ASSUME NEW time \in Int
  PROVE  /\ Truncated(time) \in Int
         /\ Truncated(time) <= time /\ time < Truncated(time) + Second
<1>1. Second \in Nat \ {0} /\ time # NoTime
  BY AdmissionAssumption
<1>2. /\ time \div Second \in Int /\ time % Second \in 0 .. Second - 1
      /\ time = Second * (time \div Second) + (time % Second)
  BY <1>1
<1>3. Second * (time \div Second) = (time \div Second) * Second
  BY <1>1, <1>2
<1>4. (time \div Second) * Second \in Int
  BY <1>1, <1>2
<1>. QED BY <1>1, <1>2, <1>3, <1>4 DEF Truncated

(* What build_signed_manifest publishes passes check_manifest at once at   *)
(* every node whose clock is at most MaxSkew behind, and until its time to *)
(* live is over, although the signed timestamps are cut down to seconds;   *)
(* with a skew of less than a second it could expire early.                *)
THEOREM PublishedIsFresh ==
  ASSUME NEW m \in Manifests, NEW issued \in Int, NEW ttl \in Nat, NEW time \in Int,
         MaxSkew >= Second, issued - MaxSkew <= time, time <= issued + ttl
  PROVE  CheckManifest(BuildSignedManifest(m, issued, NoTime, ttl), time)
<1> DEFINE built == BuildSignedManifest(m, issued, NoTime, ttl)
<1>1. issued # NoTime /\ ttl # NoTime /\ MaxSkew \in Nat /\ Second \in Nat
  BY AdmissionAssumption
<1>2. {"signature", "issued_at", "expires_at"} \subseteq DOMAIN m
  BY AdmissionAssumption
<1>3. /\ built.signature = "verified"
      /\ built.issued_at = Truncated(issued) /\ built.expires_at = Truncated(issued + ttl)
  BY <1>1, <1>2 DEF BuildSignedManifest
<1>4. /\ Truncated(issued) \in Int /\ Truncated(issued) <= issued
      /\ Truncated(issued + ttl) \in Int /\ issued + ttl < Truncated(issued + ttl) + Second
  BY TruncatedBounds
<1>5. time <= built.expires_at + MaxSkew /\ time >= built.issued_at - MaxSkew
  BY <1>1, <1>3, <1>4
<1>. QED BY <1>3, <1>5 DEF CheckManifest

(* What matches an identity matches every weaker one: if e, taken for a    *)
(* presented identity, matches the constraints of f, then so does whatever *)
(* matches e.                                                              *)
THEOREM MatchesComposes ==
  ASSUME NEW p \in CertificateIdentity, NEW e \in CertificateIdentity,
         NEW f \in CertificateIdentity, Matches(p, e), Matches(e, f)
  PROVE  Matches(p, f)
<1>1. f.spki_sha256 # Unset => e.spki_sha256 # Unset /\ p.spki_sha256 = f.spki_sha256
  BY DEF Matches
<1>2. f.subject_dn # Unset => p.subject_dn = f.subject_dn
  BY DEF Matches
<1>3. f.sans \subseteq p.sans
  BY DEF Matches
<1>. QED BY <1>1, <1>2, <1>3 DEF Matches

(* verify_certificate_identity binds a certificate to one node at most,    *)
(* when the host expects of any two nodes a key, or a subject, that differ.*)
THEOREM CertificateNamesOneNode ==
  ASSUME NEW presented, NEW expected,
         \A n, o \in DOMAIN expected : n # o =>
           \/ /\ Unset \notin {expected[n].spki_sha256, expected[o].spki_sha256}
              /\ expected[n].spki_sha256 # expected[o].spki_sha256
           \/ /\ Unset \notin {expected[n].subject_dn, expected[o].subject_dn}
              /\ expected[n].subject_dn # expected[o].subject_dn,
         NEW n \in VerifyCertificateIdentity(presented, expected),
         NEW o \in VerifyCertificateIdentity(presented, expected)
  PROVE  n = o
BY DEF VerifyCertificateIdentity, Matches

----------------------------------------------------------------------------
(* FanOut *)

(* Between two fan-outs nothing is called and nothing is on the wire; a    *)
(* good answer on the wire is the answer of one who executed.              *)
FanInv ==
  /\ FanType /\ SucceededHasExecuted
  /\ fan.pc = "idle" => fan.call = NoCalls
  /\ fan.pc = "returned" => \A p \in Peers : fan.call[p] \notin {"queued", "sent"}
  /\ fan.pc # "calls" => wire = NothingSent
  /\ \A p \in Peers : wire[p] = "good" => p \in executed

(* What _failure_reason makes of an answer is one of the outcomes.         *)
LEMMA ReasonsAreOutcomes ==
  \A a \in Answers : Reason[a] \in CallOutcomes /\ (Reason[a] = "ok" => a = "good")
BY DEF Answers, Reason, CallOutcomes

(* The fan-out starts in its invariant.                                    *)
LEMMA FanInitial == FanInit => FanInv
BY DEF FanInit, FanInv, FanType, SucceededHasExecuted, FanIdle, NoCalls, NothingSent

(* No step of the client, of a peer or of the network breaks it. *)
LEMMA CallStepKeeps ==
  ASSUME FanInv, NEW p \in Peers, CallStep(p)
  PROVE  FanInv'
<1>. USE DEF FanInv, FanType, SucceededHasExecuted, NoCalls, NothingSent
<1>1. CASE Send(p)
  BY <1>1 DEF Send
<1>2. CASE Receive(p)
  BY <1>2, ReasonsAreOutcomes DEF Receive, CallOutcomes
<1>3. CASE ClientTimesOut(p)
  BY <1>3 DEF ClientTimesOut, Ends, CallOutcomes
<1>4. CASE TimesOut(p)
  BY <1>4 DEF TimesOut, Ends, CallOutcomes
<1>. QED BY <1>1, <1>2, <1>3, <1>4 DEF CallStep

(* No step of a peer breaks it.                                            *)
LEMMA PeerStepKeeps ==
  ASSUME FanInv, NEW p \in Peers, PeerStep(p)
  PROVE  FanInv'
<1>. USE DEF FanInv, FanType, SucceededHasExecuted, NoCalls, NothingSent
<1>1. CASE Execute(p)
  BY <1>1 DEF Execute, Answers
<1>2. CASE Refuse(p)
  BY <1>2 DEF Refuse, Answers
<1>3. CASE Disconnect(p)
  BY <1>3 DEF Disconnect, Ends, CallOutcomes
<1>. QED BY <1>1, <1>2, <1>3 DEF PeerStep

(* No step of fan_out_operation breaks it.                                 *)
LEMMA FanOutKeeps ==
  ASSUME FanInv, (\E targets \in SUBSET Peers : FanOutCalled(targets)) \/ FanOutReturns \/ FanOutTaken
  PROVE  FanInv'
<1>. USE DEF FanInv, FanType, SucceededHasExecuted, NoCalls, NothingSent
<1>1. CASE \E targets \in SUBSET Peers : FanOutCalled(targets)
  BY <1>1 DEF FanOutCalled, IsTimed
<1>2. CASE FanOutReturns
  BY <1>2 DEF FanOutReturns
<1>3. CASE FanOutTaken
  BY <1>3 DEF FanOutTaken, FanIdle
<1>. QED BY <1>1, <1>2, <1>3

(* Every step of the fan-out keeps the invariant.                          *)
LEMMA FanKeeps == FanInv /\ [FanNext]_fanVars => FanInv'
<1>. SUFFICES ASSUME FanInv, [FanNext]_fanVars PROVE FanInv'
  OBVIOUS
<1>1. CASE FanNext
  BY <1>1, CallStepKeeps, PeerStepKeeps, FanOutKeeps DEF FanNext
<1>2. CASE UNCHANGED fanVars
  BY <1>2 DEF fanVars, FanInv, FanType, SucceededHasExecuted
<1>. QED BY <1>1, <1>2

(* The inductive invariant of the fan-out. *)
THEOREM FanOutInvariance == FanSpec => []FanInv
BY FanInitial, FanKeeps, PTL DEF FanSpec

(* Who is reported in `succeeded' has executed the operation.              *)
THEOREM SucceededMeansExecuted == FanSpec => []SucceededHasExecuted
<1>1. FanInv => SucceededHasExecuted
  BY DEF FanInv
<1>. QED BY <1>1, FanOutInvariance, PTL

----------------------------------------------------------------------------
(* The fan-out implements the abstract report. *)

(* A call that ends settles its peer's outcome. *)
LEMMA EndsSettles ==
  ASSUME FanInv, NEW p \in Peers, NEW o \in CallOutcomes,
         fan.call[p] \in {"queued", "sent"}, fan' = [fan EXCEPT !.call[p] = o]
  PROVE  FanReport!Next
<1>1. fan.pc = "calls"
  BY DEF FanInv, FanType, NoCalls
<1>2. FanReport!Settle(p, o)
  BY <1>1 DEF FanReport!Settle, FanInv, FanType, CallOutcomes
<1>. QED BY <1>2 DEF FanReport!Next

(* The fan-out starts as the abstract report does.                         *)
LEMMA FanReportInitial == FanInit => FanReport!Init
BY DEF FanInit, FanIdle, NoCalls, FanReport!Init, FanReport!NoOutcomes

(* Each step of the fan-out is one of the abstract report, or a stutter.   *)
LEMMA FanReportStep == FanInv /\ FanInv' /\ [FanNext]_fanVars => [FanReport!Next]_(FanReport!reportVars)
<1>. SUFFICES ASSUME FanInv, FanInv', [FanNext]_fanVars
              PROVE  [FanReport!Next]_(FanReport!reportVars)
  OBVIOUS
<1>1. CASE \E targets \in SUBSET Peers : FanOutCalled(targets)
  BY <1>1 DEF FanOutCalled, FanReport!Next, FanReport!Begin, FanInv, FanType, NoCalls
<1>2. ASSUME NEW p \in Peers, CallStep(p) PROVE [FanReport!Next]_(FanReport!reportVars)
  <2>1. CASE Send(p)
    BY <2>1 DEF Send, FanReport!reportVars, FanInv, FanType
  <2>2. CASE Receive(p)
    BY <2>2, EndsSettles, ReasonsAreOutcomes DEF Receive
  <2>3. CASE ClientTimesOut(p) \/ TimesOut(p)
    BY <2>3, EndsSettles DEF ClientTimesOut, TimesOut, Ends, CallOutcomes
  <2>. QED BY <1>2, <2>1, <2>2, <2>3 DEF CallStep
<1>3. ASSUME NEW p \in Peers, PeerStep(p) PROVE [FanReport!Next]_(FanReport!reportVars)
  <2>1. CASE Execute(p) \/ Refuse(p)
    BY <2>1 DEF Execute, Refuse, FanReport!reportVars
  <2>2. CASE Disconnect(p)
    BY <2>2, EndsSettles DEF Disconnect, Ends, CallOutcomes
  <2>. QED BY <1>3, <2>1, <2>2 DEF PeerStep
<1>4. CASE FanOutReturns
  BY <1>4 DEF FanOutReturns, FanReport!Next, FanReport!Return, FanInv, FanType
<1>5. CASE FanOutTaken
  BY <1>5 DEF FanOutTaken, FanReport!Next, FanReport!Take, FanReport!NoOutcomes, FanIdle, NoCalls
<1>6. CASE UNCHANGED fanVars
  BY <1>6 DEF fanVars, FanReport!reportVars
<1>. QED BY <1>1, <1>2, <1>3, <1>4, <1>5, <1>6 DEF FanNext

(* "Never raises for a peer failure -- every target lands in `succeeded`   *)
(* or `failed`" (fan_out_operation): every target is reported once.        *)
THEOREM FanOutReportsEveryone == FanSpec => FanImplementsReports
BY FanReportInitial, FanReportStep, FanOutInvariance, PTL DEF FanSpec, FanImplementsReports, FanReport!Spec
=============================================================================
