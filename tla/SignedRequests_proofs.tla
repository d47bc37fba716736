----------------------- MODULE SignedRequests_proofs -----------------------
(***************************************************************************)
(* What verify_signed_request guarantees for every number of nodes,        *)
(* requests and concurrent verifications, and for every clock.             *)
(***************************************************************************)
EXTENDS SignedRequests, SequenceTheorems, TLAPS

(* Requests on the network are their source's; no source uses a nonce twice. *)
SentOK ==
  /\ \A env \in sent : env.intact
  /\ \A e, f \in sent : e.source = f.source /\ e.nonce = f.nonce => e = f

(* A verification that has come as far as the claim has a request that     *)
(* was sent to this node, and was fresh when it was checked.               *)
VerifiedOK(l) ==
  /\ l.env \in sent /\ l.env.target = Self /\ l.env.call = l.call
  /\ l.checked <= l.env.timestamp + MaxSkew
  /\ l.checked <= now

(* The nonce of a granted claim lives for MaxSkew from then on. *)
GrantedOK(c) ==
  /\ c.env \in sent /\ c.env.target = Self /\ c.env.call = c.call
  /\ c.at <= now
  /\ c.at + MaxSkew <= nonce_cache[NonceKey(c.env)]

(* Every nonce in the cache was claimed. *)
CacheOK ==
  \A k \in NonceKeys : nonce_cache[k] > 0 => \E c \in claims : NonceKey(c.env) = k

RInv ==
  /\ TypeOK
  /\ SentOK
  /\ \A v \in Verifications : task[v].pc = "claim" => VerifiedOK(task[v])
  /\ \A c \in claims : GrantedOK(c)
  /\ CacheOK

----------------------------------------------------------------------------
(* An intact request that arrives is one that was sent. *)
LEMMA IntactArrivals ==
  ASSUME NEW env \in Arrivals, env.intact, TypeOK
  PROVE  env \in sent
<1>1. CASE env \in sent
  BY <1>1
<1>2. CASE env \in UNION {Altered(e) : e \in sent}
  <2>1. PICK e \in sent, n \in Nonces :
               env = [e EXCEPT !.intact = FALSE, !.nonce = n, !.target = Self]
    BY <1>2 DEF Altered
  <2>2. env.intact = FALSE
    BY <2>1 DEF TypeOK, SignedRequest
  <2>. QED BY <2>2
<1>. QED BY <1>1, <1>2 DEF Arrivals

(* Where a request's nonce is in the cache. *)
LEMMA NonceKeyType ==
  ASSUME NEW env \in SignedRequest
  PROVE  NonceKey(env) \in NonceKeys
<1>1. /\ env.federation \in Federations /\ env.source \in Nodes
      /\ env.target \in Nodes /\ env.nonce \in Nonces
  BY DEF SignedRequest
<1>2. PICK scope \in [federation : Federations, source : Nodes, target : Nodes, nonce : Nonces] :
        scope = [federation |-> env.federation, source |-> env.source,
                 target |-> env.target, nonce |-> env.nonce]
  BY <1>1
<1>3. NonceKey(scope) = NonceKey(env)
  BY <1>2 DEF NonceKey
<1>. QED BY <1>3 DEF NonceKeys

(* Nothing is sent and nothing claimed at first. *)
LEMMA RInit == Init => RInv
  BY RequestsAssumption
     DEF Init, RInv, TypeOK, SentOK, VerifiedOK, GrantedOK, CacheOK, Verification, Answers

(* build_signed_request uses a nonce of its own. *)
LEMMA RBuild == RInv /\ BuildSignedRequest => RInv'
<1>. SUFFICES ASSUME RInv, BuildSignedRequest PROVE RInv'
  OBVIOUS
<1>. USE RequestsAssumption
<1>1. PICK f \in Federations, s \in Nodes \ {Self}, r \in Nodes, c \in Calls, n \in Nonces,
           k \in Keys, drift \in Drifts :
        /\ \A env \in sent : env.source # s \/ env.nonce # n
        /\ sent' = sent \cup {[federation |-> f, source |-> s, target |-> r, call |-> c,
                               nonce |-> n, timestamp |-> now + drift, key |-> k,
                               intact |-> TRUE]}
  BY DEF BuildSignedRequest
<1>. DEFINE new == [federation |-> f, source |-> s, target |-> r, call |-> c, nonce |-> n,
                    timestamp |-> now + drift, key |-> k, intact |-> TRUE]
<1>2. UNCHANGED <<now, nonce_cache, task, claims>>
  BY DEF BuildSignedRequest
<1>3. new \in SignedRequest /\ new.intact
  BY DEF RInv, TypeOK, SignedRequest
<1>4. \A env \in sent : env.source # new.source \/ env.nonce # new.nonce
  BY <1>1
<1>5. sent' = sent \cup {new}
  BY <1>1
<1>. HIDE DEF new
<1>6. TypeOK'
  BY <1>2, <1>3, <1>5 DEF RInv, TypeOK
<1>7. SentOK'
  BY <1>3, <1>4, <1>5 DEF RInv, SentOK
<1>8. \A v \in Verifications : task'[v].pc = "claim" => VerifiedOK(task[v])'
  BY <1>2, <1>5 DEF RInv, VerifiedOK
<1>9. \A g \in claims' : GrantedOK(g)'
  BY <1>2, <1>5 DEF RInv, GrantedOK, NonceKey
<1>10. CacheOK'
  BY <1>2 DEF RInv, CacheOK, NonceKey
<1>. QED BY <1>6, <1>7, <1>8, <1>9, <1>10 DEF RInv

(* A request that passes every check waits for its claim. *)
LEMMA RVerify ==
  ASSUME RInv, NEW v \in Verifications, VerifySignedRequest(v)
  PROVE  RInv'
<1>. USE RequestsAssumption
<1>1. PICK env \in Arrivals, source \in Nodes, call \in Calls :
        /\ Verifies(env, source, call)
        /\ task' = [task EXCEPT ![v] = [pc |-> "claim", env |-> env, call |-> call,
                                        checked |-> now]]
  BY DEF VerifySignedRequest
<1>2. UNCHANGED <<now, sent, nonce_cache, claims>>
  BY DEF VerifySignedRequest
<1>3. env \in sent /\ env \in SignedRequest
  BY <1>1, IntactArrivals DEF Verifies, RInv, TypeOK
<1>. DEFINE l == [pc |-> "claim", env |-> env, call |-> call, checked |-> now]
<1>4. l \in Verification
  BY <1>3 DEF Verification, RInv, TypeOK
<1>5. VerifiedOK(l)
  BY <1>1, <1>3 DEF VerifiedOK, Verifies, WellAddressed, Fresh, RInv, TypeOK, SignedRequest
<1>6. TypeOK'
  BY <1>1, <1>2, <1>4 DEF RInv, TypeOK
<1>7. SentOK' /\ CacheOK'
  BY <1>2 DEF RInv, SentOK, CacheOK, NonceKey
<1>8. \A g \in claims' : GrantedOK(g)'
  BY <1>2 DEF RInv, GrantedOK, NonceKey
<1>9. \A w \in Verifications : task'[w].pc = "claim" => VerifiedOK(task[w])'
  <2>. SUFFICES ASSUME NEW w \in Verifications, task'[w].pc = "claim"
                PROVE  VerifiedOK(task[w])'
    OBVIOUS
  <2>1. CASE w = v
    BY <1>1, <1>2, <1>5, <2>1 DEF RInv, TypeOK, VerifiedOK
  <2>2. CASE w # v
    BY <1>1, <1>2, <2>2 DEF RInv, TypeOK, VerifiedOK
  <2>. QED BY <2>1, <2>2
<1>. QED BY <1>6, <1>7, <1>8, <1>9 DEF RInv

(* A granted claim puts its nonce in the cache for MaxSkew, which is later *)
(* than any earlier claim left it there for.                               *)
LEMMA RClaim ==
  ASSUME RInv, NEW v \in Verifications, NEW answer \in Answers, ClaimNonce(v, answer)
  PROVE  RInv'
<1>. USE RequestsAssumption
<1>l. PICK l : l = task[v]
  OBVIOUS
<1>k. PICK k : k = NonceKey(l.env)
  OBVIOUS
<1>g. PICK g : g = [env |-> l.env, call |-> l.call, at |-> now]
  OBVIOUS
<1>1. /\ l.pc = "claim"
      /\ ~(now < nonce_cache[k])
      /\ nonce_cache' = [nonce_cache EXCEPT ![k] = now + MaxSkew]
      /\ claims' = claims \cup {g}
      /\ task' = [task EXCEPT ![v] = [pc |-> "idle", answer |-> answer]]
      /\ UNCHANGED <<now, sent>>
  BY <1>l, <1>k, <1>g DEF ClaimNonce, Claimed, Expiry
<1>2. l.env \in SignedRequest /\ l.call \in Calls /\ l.checked \in Nat /\ VerifiedOK(l)
  BY <1>1, <1>l DEF RInv, TypeOK, Verification
<1>3. k \in NonceKeys /\ g \in Claim
  BY <1>2, <1>k, <1>g, NonceKeyType DEF Claim, RInv, TypeOK
<1>4. [pc |-> "idle", answer |-> answer] \in Verification
  BY DEF Verification
<1>5. nonce_cache' \in [NonceKeys -> Nat] /\ nonce_cache'[k] = now + MaxSkew
  BY <1>1, <1>3 DEF RInv, TypeOK
<1>6. \A j \in NonceKeys : nonce_cache'[j] >= nonce_cache[j]
  BY <1>1, <1>3 DEF RInv, TypeOK
<1>7. TypeOK'
  BY <1>1, <1>3, <1>4, <1>5 DEF RInv, TypeOK
<1>8. SentOK'
  BY <1>1 DEF RInv, SentOK, NonceKey
<1>9. GrantedOK(g)'
  <2>1. now \in Nat /\ l.checked \in Nat
    BY <1>2 DEF RInv, TypeOK, SignedRequest
  <2>2. g.env = l.env /\ g.call = l.call /\ g.at = now /\ nonce_cache'[NonceKey(g.env)] = now + MaxSkew
    BY <1>5, <1>k, <1>g
  <2>3. UNCHANGED <<now, sent>>
    BY <1>1
  <2>. QED BY <1>2, <2>1, <2>2, <2>3 DEF GrantedOK, VerifiedOK, NonceKey
<1>10. \A h \in claims : GrantedOK(h)'
  <2>. SUFFICES ASSUME NEW h \in claims PROVE GrantedOK(h)'
    OBVIOUS
  <2>1. NonceKey(h.env) \in NonceKeys /\ h.at \in Nat
    BY NonceKeyType DEF RInv, TypeOK, Claim
  <2>2. nonce_cache[NonceKey(h.env)] \in Nat /\ nonce_cache'[NonceKey(h.env)] \in Nat
    BY <1>5, <2>1 DEF RInv, TypeOK
  <2>3. h.at + MaxSkew <= nonce_cache'[NonceKey(h.env)]
    BY <1>6, <2>1, <2>2 DEF RInv, GrantedOK
  <2>. QED BY <1>1, <2>3 DEF RInv, GrantedOK, NonceKey
<1>11. CacheOK'
  <2>. SUFFICES ASSUME NEW j \in NonceKeys, nonce_cache'[j] > 0
                PROVE  \E c \in claims' : NonceKey(c.env) = j
    BY DEF CacheOK, NonceKey
  <2>1. CASE j = k
    <3>1. g \in claims' /\ NonceKey(g.env) = k
      BY <1>1, <1>k, <1>g
    <3>. QED BY <2>1, <3>1
  <2>2. CASE j # k
    BY <1>1, <2>2 DEF RInv, TypeOK, CacheOK
  <2>. QED BY <2>1, <2>2
<1>12. \A w \in Verifications : task'[w].pc = "claim" => VerifiedOK(task[w])'
  <2>. SUFFICES ASSUME NEW w \in Verifications, task'[w].pc = "claim"
                PROVE  VerifiedOK(task[w])'
    OBVIOUS
  <2>1. w # v /\ task'[w] = task[w]
    BY <1>1 DEF RInv, TypeOK
  <2>. QED BY <1>1, <2>1 DEF RInv, VerifiedOK
<1>. QED BY <1>1, <1>7, <1>8, <1>9, <1>10, <1>11, <1>12 DEF RInv

(* A verification that ends without a claim, and the clock. *)
LEMMA RRest ==
  ASSUME RInv,
         \/ \E v \in Verifications : Malformed(v) \/ Refuse(v) \/ Replay(v) \/ Fail(v)
         \/ Tick
         \/ UNCHANGED vars
  PROVE  RInv'
<1>. USE RequestsAssumption
<1>1. CASE \E v \in Verifications : Malformed(v) \/ Refuse(v) \/ Replay(v) \/ Fail(v)
  <2>1. PICK v \in Verifications, answer \in Answers :
               task' = [task EXCEPT ![v] = [pc |-> "idle", answer |-> answer]]
    BY <1>1 DEF Malformed, Refuse, Replay, Fail, Answers
  <2>2. UNCHANGED <<now, sent, nonce_cache, claims>>
    BY <1>1 DEF Malformed, Refuse, Replay, Fail
  <2>3. TypeOK'
    BY <2>1, <2>2 DEF RInv, TypeOK, Verification
  <2>4. \A w \in Verifications : task'[w].pc = "claim" => VerifiedOK(task[w])'
    BY <2>1, <2>2 DEF RInv, TypeOK, VerifiedOK
  <2>5. SentOK' /\ CacheOK'
    BY <2>2 DEF RInv, SentOK, CacheOK, NonceKey
  <2>6. \A c \in claims' : GrantedOK(c)'
    BY <2>2 DEF RInv, GrantedOK, NonceKey
  <2>. QED BY <2>3, <2>4, <2>5, <2>6 DEF RInv
<1>2. CASE Tick
  <2>1. now' = now + 1 /\ UNCHANGED <<sent, nonce_cache, task, claims>> /\ now \in Nat
    BY <1>2 DEF Tick, RInv, TypeOK
  <2>2. TypeOK' /\ SentOK' /\ CacheOK'
    <3>1. TypeOK'
      BY <2>1 DEF RInv, TypeOK
    <3>2. SentOK' /\ CacheOK'
      BY <2>1 DEF RInv, SentOK, CacheOK, NonceKey
    <3>. QED BY <3>1, <3>2
  <2>3. \A w \in Verifications : task'[w].pc = "claim" => VerifiedOK(task[w])'
    <3>. SUFFICES ASSUME NEW w \in Verifications, task[w].pc = "claim"
                  PROVE  VerifiedOK(task[w])'
      BY <2>1
    <3>1. task[w].checked \in Nat
      BY DEF RInv, TypeOK, Verification
    <3>. QED BY <2>1, <3>1 DEF RInv, VerifiedOK
  <2>4. \A c \in claims' : GrantedOK(c)'
    <3>. SUFFICES ASSUME NEW c \in claims PROVE GrantedOK(c)'
      BY <2>1
    <3>1. c.at \in Nat
      BY DEF RInv, TypeOK, Claim
    <3>. QED BY <2>1, <3>1 DEF RInv, GrantedOK, NonceKey
  <2>. QED BY <2>2, <2>3, <2>4 DEF RInv
<1>3. CASE UNCHANGED vars
  BY <1>3 DEF vars, RInv, TypeOK, SentOK, VerifiedOK, GrantedOK, CacheOK, NonceKey
<1>. QED BY <1>1, <1>2, <1>3

(* Every step preserves the invariant. *)
LEMMA RNext == RInv /\ [Next]_vars => RInv'
<1>. SUFFICES ASSUME RInv, [Next]_vars PROVE RInv'
  OBVIOUS
<1>1. CASE BuildSignedRequest
  BY <1>1, RBuild
<1>2. CASE \E v \in Verifications : VerifySignedRequest(v)
  BY <1>2, RVerify
<1>3. CASE \E v \in Verifications : Accept(v) \/ LoseAnswer(v)
  BY <1>3, RClaim DEF Accept, LoseAnswer, Answers
<1>4. CASE \/ \E v \in Verifications : Malformed(v) \/ Refuse(v) \/ Replay(v) \/ Fail(v)
           \/ Tick
           \/ UNCHANGED vars
  BY <1>4, RRest
<1>. QED BY <1>1, <1>2, <1>3, <1>4 DEF Next

(* The inductive invariant of the verifier. *)
THEOREM RequestsInvariance == Spec => []RInv
  BY RInit, RNext, PTL DEF Spec

----------------------------------------------------------------------------
(* A grant is a claim the cache made now, for a nonce that was free. *)
LEMMA GrantIsClaim ==
  ASSUME RInv, [Next]_vars, NEW v \in Verifications, Grants(v)
  PROVE  /\ ~Claimed(task[v].env)
         /\ VerifiedOK(task[v])
         /\ task[v].env \in SignedRequest /\ task[v].checked \in Nat
<1>1. task[v].pc = "claim" /\ task'[v].pc = "idle" /\ task \in [Verifications -> Verification]
  BY DEF Grants, RInv, TypeOK
<1>2. PICK w \in Verifications, answer \in Answers : ClaimNonce(w, answer) /\ w = v
  <2>1. ~UNCHANGED vars
    BY <1>1 DEF vars
  <2>2. CASE \E w \in Verifications : Accept(w) \/ LoseAnswer(w)
    <3>1. PICK w \in Verifications, answer \in Answers : ClaimNonce(w, answer)
      BY <2>2 DEF Accept, LoseAnswer, Answers
    <3>2. w = v
      BY <1>1, <3>1 DEF ClaimNonce
    <3>. QED BY <3>1, <3>2
  <2>3. CASE BuildSignedRequest \/ Tick
    BY <1>1, <2>3 DEF BuildSignedRequest, Tick
  <2>4. CASE \E w \in Verifications : VerifySignedRequest(w)
    BY <1>1, <2>4 DEF VerifySignedRequest
  <2>5. CASE \E w \in Verifications : Malformed(w) \/ Refuse(w) \/ Replay(w) \/ Fail(w)
    BY <1>1, <2>5 DEF Malformed, Refuse, Replay, Fail, Grants
  <2>. QED BY <2>1, <2>2, <2>3, <2>4, <2>5 DEF Next
<1>3. task[v].env \in SignedRequest /\ task[v].checked \in Nat
  BY <1>1 DEF Verification
<1>. QED BY <1>1, <1>2, <1>3 DEF ClaimNonce, RInv

(* Two grants of one nonce are at least max_skew_seconds apart, whatever   *)
(* the clocks and however slow the cache (verify_signed_request, the TTL). *)
THEOREM NonceOutlivesItsTTL == Spec => GrantsFarApart
<1>1. RInv /\ [Next]_vars =>
        [\A v \in Verifications : Grants(v) =>
           \A c \in claims : NonceKey(c.env) = NonceKey(task[v].env) => now >= c.at + MaxSkew]_vars
  <2>. SUFFICES ASSUME RInv, [Next]_vars, NEW v \in Verifications, Grants(v), NEW c \in claims,
                       NonceKey(c.env) = NonceKey(task[v].env)
                PROVE  now >= c.at + MaxSkew
    OBVIOUS
  <2>1. ~(now < nonce_cache[NonceKey(c.env)])
    BY GrantIsClaim DEF Claimed
  <2>2. c.at + MaxSkew <= nonce_cache[NonceKey(c.env)] /\ now \in Nat /\ c.at \in Nat
    BY DEF RInv, GrantedOK, TypeOK, Claim
  <2>3. nonce_cache[NonceKey(c.env)] \in Nat
    BY NonceKeyType DEF RInv, TypeOK, Claim
  <2>. QED BY <2>1, <2>2, <2>3, RequestsAssumption
<1>. QED BY <1>1, RequestsInvariance, PTL DEF Spec, GrantsFarApart

(* A duplicate is handled a second time only if the request was first      *)
(* claimed before its own timestamp, or no later than that by more than    *)
(* the second claim waited for the cache; for every clock and every cache  *)
(* (verify_signed_request: the TTL runs from the claim, the window from    *)
(* the timestamp, and both are max_skew_seconds).                          *)
THEOREM DuplicatesNeedClocksAhead == Spec => TwiceOnlyIfAhead
<1>1. RInv /\ [Next]_vars =>
        [\A v \in Verifications : Grants(v) =>
           \A c \in claims : c.env = task[v].env =>
             c.at <= c.env.timestamp + (now - task[v].checked)]_vars
  <2>. SUFFICES ASSUME RInv, [Next]_vars, NEW v \in Verifications, Grants(v), NEW c \in claims,
                       c.env = task[v].env
                PROVE  c.at <= c.env.timestamp + (now - task[v].checked)
    OBVIOUS
  <2>1. PICK env : env = task[v].env
    OBVIOUS
  <2>2. ~(now < nonce_cache[NonceKey(env)]) /\ VerifiedOK(task[v])
        /\ env \in SignedRequest /\ task[v].checked \in Nat
    BY <2>1, GrantIsClaim DEF Claimed
  <2>3. task[v].checked <= env.timestamp + MaxSkew /\ c.at + MaxSkew <= nonce_cache[NonceKey(env)]
    BY <2>1, <2>2 DEF VerifiedOK, RInv, GrantedOK
  <2>4. now \in Nat /\ c.at \in Nat /\ nonce_cache[NonceKey(env)] \in Nat /\ env.timestamp \in Int
    BY <2>2, NonceKeyType DEF RInv, TypeOK, Claim, SignedRequest
  <2>. QED BY <2>1, <2>2, <2>3, <2>4, RequestsAssumption
<1>. QED BY <1>1, RequestsInvariance, PTL DEF Spec, TwiceOnlyIfAhead

(* The key of a nonce this node claims. *)
Joined(f, s, n) == f \o s \o Self \o n

(* A join of names for one target can be taken apart again, where one      *)
(* knows how many parts the names have.                                    *)
Unambiguous ==
  \A f, g \in Federations, s, t \in Nodes, n, o \in Nonces :
    Len(f) = Len(g) /\ Len(s) = Len(t) /\ Joined(f, s, n) = Joined(g, t, o) => s = t /\ n = o

(* Two joined names, with the definition of \o out of the provers' sight. *)
Join(a, b) == a \o b

(* Joins of sequences whose first parts have the same length. *)
LEMMA JoinsOfEqualLength ==
  ASSUME NEW S, NEW a \in Seq(S), NEW b \in Seq(S), NEW c \in Seq(S), NEW d \in Seq(S),
         Len(a) = Len(c), Join(a, b) = Join(c, d)
  PROVE  a = c /\ b = d
<1>1. Len(a) \in Nat /\ Len(b) \in Nat /\ Len(d) \in Nat /\ Len(a \o b) = Len(a) + Len(b)
      /\ Len(c \o d) = Len(c) + Len(d) /\ a \o b = c \o d
  BY ConcatProperties, LenProperties DEF Join
<1>2. Len(b) = Len(d)
  BY <1>1
<1>3. ASSUME NEW i \in 1 .. Len(a) PROVE a[i] = c[i]
  BY <1>1, <1>2, ConcatProperties
<1>4. ASSUME NEW i \in 1 .. Len(b) PROVE b[i] = d[i]
  <2>1. i + Len(a) \in 1 .. (Len(a) + Len(b)) /\ i + Len(a) > Len(a) /\ (i + Len(a)) - Len(a) = i
    BY <1>1
  <2>2. (a \o b)[i + Len(a)] = b[i]
    <3>1. \A j \in 1 .. (Len(a) + Len(b)) :
            (a \o b)[j] = IF j <= Len(a) THEN a[j] ELSE b[j - Len(a)]
      BY ConcatProperties
    <3>. QED BY <1>1, <2>1, <3>1
  <2>3. (c \o d)[i + Len(a)] = d[i]
    <3>1. \A j \in 1 .. (Len(c) + Len(d)) :
            (c \o d)[j] = IF j <= Len(c) THEN c[j] ELSE d[j - Len(c)]
      BY ConcatProperties
    <3>. QED BY <1>1, <1>2, <2>1, <3>1
  <2>. QED BY <1>1, <2>2, <2>3
<1>5. a = c
  BY <1>3, SeqEqual
<1>6. b = d
  BY <1>2, <1>4, SeqEqual
<1>. QED BY <1>5, <1>6

(* A join is as long as its parts together. *)
LEMMA JoinLength ==
  ASSUME NEW S, NEW a \in Seq(S), NEW b \in Seq(S)
  PROVE  Join(a, b) \in Seq(S) /\ Len(Join(a, b)) = Len(a) + Len(b)
  BY ConcatProperties DEF Join

(* Names that have as many parts as each other can be taken apart          *)
(* (_nonce_cache_key: the join needs no escaping then).                    *)
THEOREM NamesAlikeAreUnambiguous ==
  ASSUME NEW Parts, Federations \subseteq Seq(Parts), Nodes \subseteq Seq(Parts),
         Nonces \subseteq Seq(Parts)
  PROVE  Unambiguous
<1>. SUFFICES ASSUME NEW f \in Federations, NEW g \in Federations, NEW s \in Nodes,
                     NEW t \in Nodes, NEW n \in Nonces, NEW o \in Nonces,
                     Len(f) = Len(g), Len(s) = Len(t), Joined(f, s, n) = Joined(g, t, o)
              PROVE  s = t /\ n = o
  BY DEF Unambiguous
<1>. DEFINE Names == Seq(Parts)
<1>1. /\ f \in Names /\ g \in Names /\ s \in Names /\ t \in Names
      /\ n \in Names /\ o \in Names /\ Self \in Names
      /\ Len(f) = Len(g) /\ Len(s) = Len(t)
  BY RequestsAssumption
<1>a. \A a, b \in Names : Join(a, b) \in Names /\ Len(Join(a, b)) = Len(a) + Len(b)
  BY JoinLength
<1>b. \A a, b, c, d \in Names : Len(a) = Len(c) /\ Join(a, b) = Join(c, d) => a = c /\ b = d
  BY JoinsOfEqualLength
<1>. HIDE DEF Names
<1>2. /\ Join(f, s) \in Names /\ Join(g, t) \in Names
      /\ Len(Join(f, s)) = Len(Join(g, t))
  <2>1. Join(f, s) \in Names /\ Len(Join(f, s)) = Len(f) + Len(s)
    BY <1>1, <1>a, Zenon
  <2>2. Join(g, t) \in Names /\ Len(Join(g, t)) = Len(g) + Len(t)
    BY <1>1, <1>a, Zenon
  <2>. QED BY <1>1, <2>1, <2>2, Zenon
<1>3. /\ Join(Join(f, s), Self) \in Names /\ Join(Join(g, t), Self) \in Names
      /\ Len(Join(Join(f, s), Self)) = Len(Join(Join(g, t), Self))
  <2>1. /\ Join(Join(f, s), Self) \in Names
        /\ Len(Join(Join(f, s), Self)) = Len(Join(f, s)) + Len(Self)
    BY <1>1, <1>2, <1>a, Zenon
  <2>2. /\ Join(Join(g, t), Self) \in Names
        /\ Len(Join(Join(g, t), Self)) = Len(Join(g, t)) + Len(Self)
    BY <1>1, <1>2, <1>a, Zenon
  <2>. QED BY <1>2, <2>1, <2>2, Zenon
<1>4. Join(Join(Join(f, s), Self), n) = Join(Join(Join(g, t), Self), o)
  BY DEF Joined, Join
<1>5. Join(Join(f, s), Self) = Join(Join(g, t), Self) /\ n = o
  BY <1>1, <1>3, <1>4, <1>b
<1>6. Join(f, s) = Join(g, t)
  BY <1>1, <1>2, <1>5, <1>b
<1>7. s = t
  BY <1>1, <1>6, <1>b
<1>. QED BY <1>5, <1>7

(* Whatever the names are, a request is refused as a replay only after the *)
(* same request was granted, or one with other numbers of parts in its     *)
(* names that are joined to the same key (_nonce_cache_key).               *)
THEOREM ReplaysWereGranted ==
  ASSUME NEW Parts, Federations \subseteq Seq(Parts), Nodes \subseteq Seq(Parts),
         Nonces \subseteq Seq(Parts)
  PROVE  Spec => NoFalseReplay
<1>0. Unambiguous
  BY NamesAlikeAreUnambiguous
<1>1. RInv /\ [Next]_vars =>
        [\A v \in Verifications : task[v].pc = "claim" /\ task'[v].pc = "idle"
             /\ task'[v].answer = "replay" =>
           \E c \in claims :
             \/ c.env = task[v].env
             \/ NonceKey(c.env) = NonceKey(task[v].env) /\ ~Alike(c.env, task[v].env)]_vars
  <2>. SUFFICES ASSUME RInv, Next, NEW v \in Verifications, task[v].pc = "claim",
                       task'[v].pc = "idle", task'[v].answer = "replay"
                PROVE  \E c \in claims :
                         \/ c.env = task[v].env
                         \/ NonceKey(c.env) = NonceKey(task[v].env) /\ ~Alike(c.env, task[v].env)
    BY DEF vars
  <2>1. task \in [Verifications -> Verification] /\ now \in Nat
    BY DEF RInv, TypeOK
  <2>2. Claimed(task[v].env)
    <3>1. CASE \E w \in Verifications : Replay(w)
      BY <2>1, <3>1 DEF Replay
    <3>2. CASE BuildSignedRequest \/ Tick
      BY <3>2 DEF BuildSignedRequest, Tick
    <3>3. CASE \E w \in Verifications : Malformed(w) \/ Refuse(w) \/ VerifySignedRequest(w)
      BY <2>1, <3>3 DEF Malformed, Refuse, VerifySignedRequest
    <3>4. CASE \E w \in Verifications : Accept(w) \/ LoseAnswer(w) \/ Fail(w)
      BY <2>1, <3>4 DEF Accept, LoseAnswer, ClaimNonce, Fail
    <3>. QED BY <3>1, <3>2, <3>3, <3>4 DEF Next
  <2>3. task[v].env \in SignedRequest /\ task[v].env \in sent
    BY <2>1 DEF RInv, Verification, VerifiedOK
  <2>4. NonceKey(task[v].env) \in NonceKeys /\ nonce_cache[NonceKey(task[v].env)] \in Nat
    BY <2>3, NonceKeyType DEF RInv, TypeOK
  <2>5. PICK c \in claims : NonceKey(c.env) = NonceKey(task[v].env)
    BY <2>1, <2>2, <2>4 DEF Claimed, RInv, CacheOK
  <2>6. c.env \in SignedRequest /\ c.env \in sent /\ c.env.target = Self /\ task[v].env.target = Self
    BY <2>1 DEF RInv, TypeOK, Claim, GrantedOK, VerifiedOK
  <2>7. ASSUME Alike(c.env, task[v].env)
        PROVE  c.env.source = task[v].env.source /\ c.env.nonce = task[v].env.nonce
    <3>1. PICK d \in SignedRequest, e \in SignedRequest : d = c.env /\ e = task[v].env
      BY <2>3, <2>6
    <3>2. Joined(d.federation, d.source, d.nonce) = Joined(e.federation, e.source, e.nonce)
      BY <2>5, <2>6, <3>1 DEF NonceKey, Joined
    <3>3. /\ d.federation \in Federations /\ d.source \in Nodes /\ d.nonce \in Nonces
          /\ e.federation \in Federations /\ e.source \in Nodes /\ e.nonce \in Nonces
      BY DEF SignedRequest
    <3>4. d.source = e.source /\ d.nonce = e.nonce
      BY <1>0, <2>7, <3>1, <3>2, <3>3 DEF Unambiguous, Alike
    <3>. QED BY <3>1, <3>4
  <2>. QED BY <2>3, <2>5, <2>6, <2>7 DEF RInv, SentOK
<1>. QED BY <1>1, RequestsInvariance, PTL DEF Spec, NoFalseReplay

(* Only requests that were signed for this node use nonces up              *)
(* (verify_signed_request checks everything else first).                   *)
THEOREM OnlySignedRequestsUseNonces == Spec => []OnlySignedRequestsClaim
<1>1. RInv => OnlySignedRequestsClaim
  BY DEF RInv, CacheOK, GrantedOK, OnlySignedRequestsClaim
<1>. QED BY <1>1, RequestsInvariance, PTL

(* A route handles only the call that was signed (verify_peer_request).    *)
THEOREM CallsAreAsSigned == Spec => []HandledAsSigned
<1>1. RInv => HandledAsSigned
  BY DEF RInv, GrantedOK, HandledAsSigned
<1>. QED BY <1>1, RequestsInvariance, PTL

(* Type correctness of the verifier. *)
THEOREM RequestsTypeCorrect == Spec => []TypeOK
<1>1. RInv => TypeOK
  BY DEF RInv
<1>. QED BY <1>1, RequestsInvariance, PTL
=============================================================================
