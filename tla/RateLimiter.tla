----------------------------- MODULE RateLimiter -----------------------------
(***************************************************************************)
(* TokenBucketRateLimiter (protocols/rate_limit.py).  Every caller passes  *)
(* the time it read itself, and may be late: the times that reach one      *)
(* bucket are in no order.  Time is counted in ticks, Second to a second,  *)
(* and tokens in parts of which Second make one, so that a tick refills    *)
(* exactly `rate' parts (the code's floats are exact here).                *)
(***************************************************************************)
EXTENDS Integers

CONSTANTS
  Peers,      \* node_ids of callers
  Rates,      \* max_operation_rps_per_peer of each, or Unlimited
  Unlimited,  \* no ManifestLimits, or none on the rate
  Second,     \* ticks in a second
  Times,      \* the values callers pass as `now'
  NoBucket, Never

ASSUME RateAssumption ==
  /\ Unlimited \notin Int
  /\ Rates \in [Peers -> Int \cup {Unlimited}]
  /\ Second \in Nat \ {0}
  /\ Times \subseteq Nat
  /\ NoBucket \notin [tokens : Nat, updated_at : Nat]
  /\ Never \notin Nat

VARIABLES
  buckets,  \* _buckets
  answer,   \* what allow last returned to each peer
  window,   \* history: since when an observer counts, and what was allowed
  refused   \* history: first refusal since a request was last allowed

vars == <<buckets, answer, window, refused>>

Bucket == [tokens : Nat, updated_at : Nat]
Limited(p) == Rates[p] # Unlimited /\ Rates[p] > 0

TypeOK ==
  /\ buckets \in [Peers -> Bucket \cup {NoBucket}]
  /\ answer \in [Peers -> {"none", "allowed", "refused"}]
  /\ window \in [Peers -> [from : Nat, count : Nat]]
  /\ refused \in [Peers -> Nat \cup {Never}]

Init ==
  /\ buckets = [p \in Peers |-> NoBucket]
  /\ answer = [p \in Peers |-> "none"]
  /\ window = [p \in Peers |-> [from |-> 0, count |-> 0]]
  /\ refused = [p \in Peers |-> Never]

----------------------------------------------------------------------------
Capped(tokens, rate) == IF tokens > rate * Second THEN rate * Second ELSE tokens

(* Fault: a bucket is filled without end. *)
RefilledUncapped(b, rate, now) ==
  IF now <= b.updated_at THEN b
  ELSE [tokens |-> b.tokens + (now - b.updated_at) * rate, updated_at |-> now]

(* Fault: only whole tokens are credited, and the rest of the time is lost. *)
RefilledWhole(b, rate, now) ==
  IF now <= b.updated_at THEN b
  ELSE [tokens |-> Capped(b.tokens + (((now - b.updated_at) * rate) \div Second) * Second, rate),
        updated_at |-> now]

(* Fault: a late caller's time counts like any other. *)
RefilledBackwards(b, rate, now) ==
  [tokens |-> Capped(b.tokens + (now - b.updated_at) * rate, rate), updated_at |-> now]

(* allow, the refill: a time before the bucket's own changes nothing. *)
Refilled(b, rate, now) ==
  IF now <= b.updated_at THEN b
  ELSE [tokens |-> Capped(b.tokens + (now - b.updated_at) * rate, rate), updated_at |-> now]

(* The bucket of p at `now', made full on its first request. *)
BucketAt(p, now) ==
  IF buckets[p] = NoBucket THEN [tokens |-> Rates[p] * Second, updated_at |-> now]
  ELSE Refilled(buckets[p], Rates[p], now)

(* What the observer has counted; it starts with the bucket. *)
Counted(p, now) ==
  IF buckets[p] = NoBucket THEN [from |-> now, count |-> 0] ELSE window[p]

(* No await between the read of the bucket and its change: allow is one    *)
(* step.                                                                   *)
Allow(p, now) ==
  LET b == BucketAt(p, now)
      w == Counted(p, now)
  IN
  /\ Limited(p)
  /\ b.tokens >= Second
  /\ buckets' = [buckets EXCEPT ![p] = [b EXCEPT !.tokens = @ - Second]]
  /\ answer' = [answer EXCEPT ![p] = "allowed"]
  /\ window' = [window EXCEPT ![p] = [w EXCEPT !.count = @ + 1]]
  /\ refused' = [refused EXCEPT ![p] = Never]

Refuse(p, now) ==
  LET b == BucketAt(p, now) IN
  /\ Limited(p)
  /\ b.tokens < Second
  /\ buckets' = [buckets EXCEPT ![p] = b]
  /\ answer' = [answer EXCEPT ![p] = "refused"]
  /\ window' = [window EXCEPT ![p] = Counted(p, now)]
  /\ refused' = [refused EXCEPT ![p] = IF @ = Never THEN b.updated_at ELSE @]

(* No rate is set, or one that lets nothing through: there is no bucket. *)
AnswerAtOnce(p) ==
  /\ ~Limited(p)
  /\ answer' = [answer EXCEPT ![p] = IF Rates[p] = Unlimited THEN "allowed" ELSE "refused"]
  /\ UNCHANGED <<buckets, window, refused>>

(* The observer starts to count again. *)
Observe(p) ==
  /\ buckets[p] # NoBucket
  /\ window' = [window EXCEPT ![p] = [from |-> buckets[p].updated_at, count |-> 0]]
  /\ UNCHANGED <<buckets, answer, refused>>

Next ==
  \E p \in Peers :
    \/ \E now \in Times : Allow(p, now) \/ Refuse(p, now)
    \/ AnswerAtOnce(p) \/ Observe(p)

Spec == Init /\ [][Next]_vars
----------------------------------------------------------------------------
(* Properties *)

(* Whenever one starts to count, a peer is allowed no more than a burst of *)
(* `rate' requests and `rate' for each second the limiter has since seen   *)
(* pass, in whatever order the callers' times arrive                       *)
(* (TokenBucketRateLimiter, max_operation_rps_per_peer).                   *)
WithinRate ==
  \A p \in Peers : buckets[p] # NoBucket =>
    window[p].count * Second <= Rates[p] * (Second + buckets[p].updated_at - window[p].from)

(* However often a refused peer asks again, the refusals end once the      *)
(* limiter has seen the time of one token pass: asking does not put the    *)
(* next token off.                                                         *)
RefusalsEnd ==
  \A p \in Peers : refused[p] # Never =>
    (buckets[p].updated_at - refused[p]) * Rates[p] < Second
=============================================================================
