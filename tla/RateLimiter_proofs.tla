-------------------------- MODULE RateLimiter_proofs --------------------------
(***************************************************************************)
(* The rate limiter lets no peer exceed its rate and never puts off one it *)
(* has refused, for every rate, clock resolution and order of times.       *)
(***************************************************************************)
EXTENDS RateLimiter, TLAPS

(* What was allowed and what is left are covered by a burst and the refills *)
(* since the observer started.                                             *)
Covered(b, w, rate) ==
  /\ b.tokens <= rate * Second
  /\ w.count * Second + b.tokens <= rate * (Second + b.updated_at - w.from)

(* The refills since the first refusal r are all still in the bucket, or   *)
(* it holds a token.                                                       *)
Kept(b, r, rate) ==
  r # Never => /\ r <= b.updated_at
               /\ b.tokens < Second => (b.updated_at - r) * rate <= b.tokens

AInv ==
  /\ TypeOK
  /\ \A p \in Peers :
       IF buckets[p] = NoBucket THEN refused[p] = Never
       ELSE /\ Limited(p)
            /\ Covered(buckets[p], window[p], Rates[p])
            /\ Kept(buckets[p], refused[p], Rates[p])
            /\ refused[p] # Never => buckets[p].tokens < Second

(* A limited peer's rate is a positive integer. *)
LEMMA PositiveRate == \A p \in Peers : Limited(p) => Rates[p] \in Nat \ {0}
  BY RateAssumption DEF Limited

(* A refill keeps both accounts. *)
LEMMA RefillAccounted ==
  ASSUME NEW b \in Bucket, NEW w \in [from : Nat, count : Nat],
         NEW r \in Nat \cup {Never}, NEW rate \in Nat \ {0}, NEW now \in Nat,
         Covered(b, w, rate), Kept(b, r, rate), r # Never => b.tokens < Second
  PROVE  /\ Refilled(b, rate, now) \in Bucket
         /\ Covered(Refilled(b, rate, now), w, rate)
         /\ Kept(Refilled(b, rate, now), r, rate)
<1> DEFINE b1 == Refilled(b, rate, now)
           gain == (now - b.updated_at) * rate
<1>1. CASE now <= b.updated_at
  BY <1>1 DEF Refilled
<1>2. CASE now > b.updated_at
  <2>1. /\ b1.updated_at = now
        /\ b1.tokens = Capped(b.tokens + gain, rate)
        /\ b1 = [tokens |-> Capped(b.tokens + gain, rate), updated_at |-> now]
    BY <1>2 DEF Refilled, Bucket
  <2>2. /\ rate * Second \in Nat /\ gain \in Nat /\ b.tokens \in Nat /\ b.updated_at \in Nat
        /\ w.count \in Nat /\ w.from \in Nat /\ w.count * Second \in Nat
        /\ rate * Second >= Second /\ Second \in Nat
    BY <1>2, RateAssumption DEF Bucket
  <2>3. /\ b1.tokens \in Nat /\ b1.tokens <= rate * Second /\ b1.tokens <= b.tokens + gain
        /\ b1.tokens < Second => b1.tokens = b.tokens + gain
    <3> HIDE DEF gain, b1
    <3>. QED  BY <2>1, <2>2 DEF Capped
  <2>4. rate * (Second + now - w.from) = rate * (Second + b.updated_at - w.from) + gain
    BY <2>2, RateAssumption
  <2>5. w.count * Second + b1.tokens <= rate * (Second + b1.updated_at - w.from)
    <3>1. rate * (Second + b.updated_at - w.from) \in Int
      BY <2>2
    <3>2. w.count * Second + b.tokens <= rate * (Second + b.updated_at - w.from)
      BY DEF Covered
    <3> DEFINE x == rate * (Second + b.updated_at - w.from)
               y == w.count * Second
    <3> HIDE DEF x, y, gain, b1
    <3>3. x \in Int /\ y + b.tokens <= x /\ y \in Nat
      BY <3>1, <3>2, <2>2 DEF x, y
    <3>4. y + b1.tokens <= x + gain
      BY <2>2, <2>3, <3>3
    <3>. QED
      BY <2>1, <2>4, <3>4 DEF x, y
  <2>6. ASSUME r # Never, b1.tokens < Second
        PROVE  (b1.updated_at - r) * rate <= b1.tokens
    <3>1. r \in Nat /\ (b.updated_at - r) * rate <= b.tokens
      BY <2>6 DEF Kept
    <3>2. (now - r) * rate = (b.updated_at - r) * rate + gain
      BY <2>2, <3>1
    <3> DEFINE z == (b.updated_at - r) * rate
    <3>3. z \in Int
      BY <2>2, <3>1
    <3> HIDE DEF z, gain, b1
    <3>. QED
      BY <2>1, <2>2, <2>3, <2>6, <3>1, <3>2, <3>3 DEF z
  <2>7. r # Never => r <= b1.updated_at
    BY <1>2, <2>1, <2>2 DEF Kept
  <2>8. b1 \in Bucket
    BY <2>1, <2>3 DEF Bucket
  <2>. QED
    BY <2>3, <2>5, <2>6, <2>7, <2>8 DEF Covered, Kept
<1>. QED
  BY <1>1, <1>2 DEF Bucket

(* The bucket a request finds, with what has been counted so far. *)
LEMMA BucketAccounted ==
  ASSUME AInv, NEW p \in Peers, NEW now \in Nat, Limited(p)
  PROVE  /\ BucketAt(p, now) \in Bucket
         /\ Counted(p, now) \in [from : Nat, count : Nat]
         /\ Covered(BucketAt(p, now), Counted(p, now), Rates[p])
         /\ Kept(BucketAt(p, now), refused[p], Rates[p])
<1>1. Rates[p] \in Nat \ {0}
  BY PositiveRate
<1>2. CASE buckets[p] = NoBucket
  <2>1. Rates[p] * Second \in Nat /\ Second \in Nat
    BY <1>1, RateAssumption
  <2>2. Rates[p] * (Second + now - now) = Rates[p] * Second
    BY <1>1, <2>1
  <2>3. refused[p] = Never
    BY <1>2 DEF AInv
  <2>. QED
    BY <1>2, <2>1, <2>2, <2>3 DEF BucketAt, Counted, Covered, Kept, Bucket
<1>3. CASE buckets[p] # NoBucket
  <2>1. /\ buckets[p] \in Bucket /\ window[p] \in [from : Nat, count : Nat]
        /\ refused[p] \in Nat \cup {Never}
    BY <1>3 DEF AInv, TypeOK
  <2>2. /\ Covered(buckets[p], window[p], Rates[p]) /\ Kept(buckets[p], refused[p], Rates[p])
        /\ refused[p] # Never => buckets[p].tokens < Second
    BY <1>3 DEF AInv
  <2>. QED
    BY <1>1, <1>3, <2>1, <2>2, RefillAccounted DEF BucketAt, Counted
<1>. QED
  BY <1>2, <1>3

(* What a step on one peer's bucket has to give for the invariant. *)
LEMMA OnePeer ==
  ASSUME AInv, NEW p \in Peers, Limited(p),
         NEW b \in Bucket, NEW w \in [from : Nat, count : Nat],
         NEW r \in Nat \cup {Never}, NEW a \in {"none", "allowed", "refused"},
         Covered(b, w, Rates[p]), Kept(b, r, Rates[p]), r # Never => b.tokens < Second,
         buckets' = [buckets EXCEPT ![p] = b], window' = [window EXCEPT ![p] = w],
         refused' = [refused EXCEPT ![p] = r], answer' = [answer EXCEPT ![p] = a]
  PROVE  AInv'
<1>1. TypeOK'
  BY DEF AInv, TypeOK
<1>2. b # NoBucket
  BY RateAssumption DEF Bucket
<1>3. ASSUME NEW q \in Peers
      PROVE  IF buckets'[q] = NoBucket THEN refused'[q] = Never
             ELSE /\ Limited(q)
                  /\ Covered(buckets'[q], window'[q], Rates[q])
                  /\ Kept(buckets'[q], refused'[q], Rates[q])
                  /\ refused'[q] # Never => buckets'[q].tokens < Second
  <2>1. CASE q = p
    <3>1. buckets'[q] = b /\ window'[q] = w /\ refused'[q] = r
      BY <2>1 DEF AInv, TypeOK
    <3>. QED
      BY <1>2, <2>1, <3>1
  <2>2. CASE q # p
    <3>1. buckets'[q] = buckets[q] /\ window'[q] = window[q] /\ refused'[q] = refused[q]
      BY <2>2 DEF AInv, TypeOK
    <3>. QED
      BY <3>1 DEF AInv
  <2>. QED
    BY <2>1, <2>2
<1>. QED
  BY <1>1, <1>3 DEF AInv, Limited, Covered, Kept

(* A request that is allowed: one token leaves, one request is counted. *)
LEMMA AllowKeeps == ASSUME AInv, NEW p \in Peers, NEW now \in Times, Allow(p, now) PROVE AInv'
<1> DEFINE b == BucketAt(p, now)
           w == Counted(p, now)
           b1 == [b EXCEPT !.tokens = @ - Second]
           w1 == [w EXCEPT !.count = @ + 1]
<1>1. now \in Nat /\ Limited(p) /\ b.tokens >= Second /\ Second \in Nat
  BY RateAssumption DEF Allow
<1>2. /\ b \in Bucket /\ w \in [from : Nat, count : Nat] /\ Covered(b, w, Rates[p])
      /\ Rates[p] \in Nat \ {0}
  BY <1>1, BucketAccounted, PositiveRate
<1>3. /\ b1 \in Bucket /\ b1.tokens = b.tokens - Second /\ b1.updated_at = b.updated_at
      /\ w1 \in [from : Nat, count : Nat] /\ w1.count = w.count + 1 /\ w1.from = w.from
  BY <1>1, <1>2 DEF Bucket
<1>4. Covered(b1, w1, Rates[p])
  <2>1. w1.count * Second + b1.tokens = w.count * Second + b.tokens
    BY <1>1, <1>2, <1>3 DEF Bucket
  <2>2. Rates[p] * Second \in Nat /\ b.tokens \in Nat
    BY <1>1, <1>2 DEF Bucket
  <2>. QED
    BY <1>1, <1>2, <1>3, <2>1, <2>2 DEF Covered
<1>5. Kept(b1, Never, Rates[p])
  BY DEF Kept
<1>6. /\ buckets' = [buckets EXCEPT ![p] = b1] /\ window' = [window EXCEPT ![p] = w1]
      /\ refused' = [refused EXCEPT ![p] = Never] /\ answer' = [answer EXCEPT ![p] = "allowed"]
  BY DEF Allow
<1> HIDE DEF b1, w1
<1>. QED
  BY <1>1, <1>3, <1>4, <1>5, <1>6, OnePeer

(* A request that is refused: only the refill stays. *)
LEMMA RefuseKeeps == ASSUME AInv, NEW p \in Peers, NEW now \in Times, Refuse(p, now) PROVE AInv'
<1> DEFINE b == BucketAt(p, now)
           w == Counted(p, now)
           r == IF refused[p] = Never THEN b.updated_at ELSE refused[p]
<1>1. now \in Nat /\ Limited(p) /\ b.tokens < Second
  BY RateAssumption DEF Refuse
<1>2. /\ b \in Bucket /\ w \in [from : Nat, count : Nat] /\ Covered(b, w, Rates[p])
      /\ Kept(b, refused[p], Rates[p]) /\ Rates[p] \in Nat \ {0}
  BY <1>1, BucketAccounted, PositiveRate
<1>3. r \in Nat \cup {Never}
  BY <1>2 DEF AInv, TypeOK, Bucket
<1>4. Kept(b, r, Rates[p])
  <2>1. CASE refused[p] = Never
    <3>1. b.updated_at \in Nat /\ b.tokens \in Nat
      BY <1>2 DEF Bucket
    <3>2. (b.updated_at - b.updated_at) * Rates[p] = 0
      BY <1>2, <3>1
    <3>. QED
      BY <2>1, <3>1, <3>2 DEF Kept
  <2>. QED
    BY <1>2, <2>1
<1>5. /\ buckets' = [buckets EXCEPT ![p] = b] /\ window' = [window EXCEPT ![p] = w]
      /\ refused' = [refused EXCEPT ![p] = r] /\ answer' = [answer EXCEPT ![p] = "refused"]
  BY DEF Refuse, AInv, TypeOK
<1> HIDE DEF b, w, r
<1>. QED
  BY <1>1, <1>2, <1>3, <1>4, <1>5, OnePeer

(* The observer starts again: what is left is at most a burst. *)
LEMMA ObserveKeeps == ASSUME AInv, NEW p \in Peers, Observe(p) PROVE AInv'
<1> DEFINE w == [from |-> buckets[p].updated_at, count |-> 0]
<1>1. /\ buckets[p] \in Bucket /\ Limited(p) /\ Covered(buckets[p], window[p], Rates[p])
      /\ Kept(buckets[p], refused[p], Rates[p])
      /\ refused[p] # Never => buckets[p].tokens < Second
      /\ refused[p] \in Nat \cup {Never} /\ answer[p] \in {"none", "allowed", "refused"}
  BY DEF Observe, AInv, TypeOK
<1>2. w \in [from : Nat, count : Nat] /\ Rates[p] \in Nat \ {0}
  BY <1>1, PositiveRate DEF Bucket
<1>3. Rates[p] * (Second + buckets[p].updated_at - w.from) = Rates[p] * Second
  BY <1>1, <1>2, RateAssumption DEF Bucket
<1>4. w.count * Second + buckets[p].tokens = buckets[p].tokens
  BY <1>1, RateAssumption DEF Bucket
<1>5. Covered(buckets[p], w, Rates[p])
  BY <1>1, <1>3, <1>4 DEF Covered
<1>6. /\ buckets' = [buckets EXCEPT ![p] = buckets[p]] /\ window' = [window EXCEPT ![p] = w]
      /\ refused' = [refused EXCEPT ![p] = refused[p]] /\ answer' = [answer EXCEPT ![p] = answer[p]]
  BY DEF Observe, AInv, TypeOK
<1> HIDE DEF w
<1>. QED
  BY <1>1, <1>2, <1>5, <1>6, OnePeer

(* A peer without a bucket, and a step that changes nothing *)
LEMMA RestKeeps ==
  /\ \A p \in Peers : AInv /\ AnswerAtOnce(p) => AInv'
  /\ AInv /\ UNCHANGED vars => AInv'
<1>1. ASSUME AInv, NEW p \in Peers, AnswerAtOnce(p) PROVE AInv'
  <2>1. TypeOK'
    BY <1>1 DEF AInv, TypeOK, AnswerAtOnce
  <2>. QED
    BY <1>1, <2>1 DEF AInv, AnswerAtOnce, Limited, Covered, Kept
<1>2. ASSUME AInv, UNCHANGED vars PROVE AInv'
  BY <1>2 DEF AInv, TypeOK, vars, Limited, Covered, Kept
<1>. QED
  BY <1>1, <1>2

(* The inductive invariant of the limiter: whatever the order of times,    *)
(* each bucket stays within its capacity and accounts for every request    *)
(* allowed and every refill since a refusal.                               *)
THEOREM LimiterInvariance == Spec => []AInv
<1>1. Init => AInv
  BY RateAssumption DEF Init, AInv, TypeOK, Bucket
<1>2. AInv /\ [Next]_vars => AInv'
  BY AllowKeeps, RefuseKeeps, ObserveKeeps, RestKeeps DEF Next
<1>. QED
  BY <1>1, <1>2, PTL DEF Spec

(* No peer is allowed more than a burst and its rate over any stretch of   *)
(* time, whatever its rate and however late callers are.                   *)
THEOREM NoPeerExceedsItsRate == Spec => []WithinRate
<1>1. AInv => WithinRate
  <2> SUFFICES ASSUME AInv, NEW p \in Peers, buckets[p] # NoBucket
               PROVE  window[p].count * Second
                        <= Rates[p] * (Second + buckets[p].updated_at - window[p].from)
    BY DEF WithinRate
  <2>1. /\ buckets[p] \in Bucket /\ window[p] \in [from : Nat, count : Nat]
        /\ Limited(p) /\ Covered(buckets[p], window[p], Rates[p])
    BY DEF AInv, TypeOK
  <2> DEFINE x == Rates[p] * (Second + buckets[p].updated_at - window[p].from)
             y == window[p].count * Second
  <2>2. x \in Int /\ y \in Nat /\ buckets[p].tokens \in Nat /\ y + buckets[p].tokens <= x
    BY <2>1, PositiveRate, RateAssumption DEF Bucket, Covered
  <2> HIDE DEF x, y
  <2>3. y <= x
    BY <2>2
  <2>. QED
    BY <2>3 DEF x, y
<1>. QED
  BY <1>1, LimiterInvariance, PTL

(* A peer that was refused and asks again, at any time and as often as it  *)
(* likes, is refused for less than the time of one token.                  *)
THEOREM RefusalsAreShort == Spec => []RefusalsEnd
<1>1. AInv => RefusalsEnd
  <2> SUFFICES ASSUME AInv, NEW p \in Peers, refused[p] # Never
               PROVE  (buckets[p].updated_at - refused[p]) * Rates[p] < Second
    BY DEF RefusalsEnd
  <2>1. /\ buckets[p] \in Bucket /\ Limited(p) /\ refused[p] \in Nat
        /\ Kept(buckets[p], refused[p], Rates[p]) /\ buckets[p].tokens < Second
    BY DEF AInv, TypeOK
  <2> DEFINE x == (buckets[p].updated_at - refused[p]) * Rates[p]
  <2>2. x \in Int /\ x <= buckets[p].tokens /\ buckets[p].tokens \in Nat /\ Second \in Nat
    BY <2>1, PositiveRate, RateAssumption DEF Bucket, Kept
  <2> HIDE DEF x
  <2>3. x < Second
    BY <2>1, <2>2
  <2>. QED
    BY <2>3 DEF x
<1>. QED
  BY <1>1, LimiterInvariance, PTL

(* Type correctness of the limiter: with times in any order, no bucket     *)
(* leaves the range from empty to full.                                    *)
THEOREM LimiterTypeCorrect == Spec => []TypeOK
<1>1. AInv => TypeOK
  BY DEF AInv
<1>. QED BY <1>1, LimiterInvariance, PTL
=============================================================================
