------------------------- MODULE Disclosure_proofs -------------------------
(***************************************************************************)
(* For any tasks, cooldown schedule and length of admission: the closed    *)
(* form of next_cooldown is the schedule by doubling and raises from some  *)
(* failure on; the n-th failure in a row starts the n-th cooldown of that  *)
(* schedule; no failure and no success lifts a revocation it has read; and *)
(* polling with a since cursor misses no write that makes a member visible *)
(* and leaves a stamp after the cursor.                                    *)
(***************************************************************************)
EXTENDS Disclosure, TLAPS, WellFoundedInduction

----------------------------------------------------------------------------
(* The schedule of next_cooldown *)

(* Induction over the naturals, as the library's well-foundedness gives    *)
(* it: a set of naturals that is not empty has a least element.            *)
LEMMA LeastElement ==
  ASSUME NEW S \in SUBSET Nat, S # {}
  PROVE  \E x \in S : \A y \in S : x <= y
<1>1. IsWellFoundedOn(OpToRel(<, Nat), Nat)
  BY NatLessThanWellFounded
<1>2. \E x \in S : \A y \in S : <<y, x>> \notin OpToRel(<, Nat)
  BY <1>1, WFMin
<1>3. \A x, y \in Nat : y < x => <<y, x>> \in OpToRel(<, Nat)
  BY DEF OpToRel
<1>4. PICK x \in S : \A y \in S : ~ y < x
  BY <1>2, <1>3
<1>. QED BY <1>4

(* The powers of two as far as n, without the recursion of Shifted         *)
PowersTo(g, n) ==
  /\ g \in [0 .. n -> Nat \ {0}]
  /\ g[0] = 1 /\ \A k \in 1 .. n : g[k] = 2 * g[k - 1]

LEMMA PowersExist == \A n \in Nat : \E g : PowersTo(g, n)
<1> DEFINE S == {n \in Nat : ~ \E g : PowersTo(g, n)}
<1>1. SUFFICES ASSUME S # {} PROVE FALSE
  OBVIOUS
<1>2. PICK n \in S : \A m \in S : n <= m
  BY <1>1, LeastElement
<1>3. CASE n = 0
  <2>1. PowersTo([k \in 0 .. 0 |-> 1], 0)
    BY DEF PowersTo
  <2>. QED BY <1>2, <1>3, <2>1
<1>4. CASE n # 0
  <2>1. n \in Nat /\ n - 1 \in Nat /\ n - 1 \notin S
    BY <1>2, <1>4
  <2>2. PICK g : PowersTo(g, n - 1)
    BY <2>1
  <2> DEFINE h == [k \in 0 .. n |-> IF k = n THEN 2 * g[n - 1] ELSE g[k]]
  <2>3. \A k \in 0 .. n : h[k] = IF k = n THEN 2 * g[n - 1] ELSE g[k]
    OBVIOUS
  <2>4. \A k \in 0 .. n - 1 : g[k] \in Nat \ {0}
    BY <2>1, <2>2 DEF PowersTo
  <2>5. h \in [0 .. n -> Nat \ {0}]
    BY <2>1, <2>4, <1>4
  <2>. HIDE DEF h
  <2>6. h[0] = 1
    BY <2>1, <2>2, <2>3, <1>4 DEF PowersTo
  <2>7. ASSUME NEW k \in 1 .. n PROVE h[k] = 2 * h[k - 1]
    <3>1. CASE k = n
      BY <2>1, <2>3, <3>1
    <3>2. CASE k # n
      <4>1. k \in 1 .. n - 1 /\ k \in 0 .. n /\ k - 1 \in 0 .. n /\ k - 1 # n
        BY <2>1, <3>2
      <4>2. h[k] = g[k] /\ h[k - 1] = g[k - 1]
        BY <2>3, <3>2, <4>1
      <4>. QED BY <2>2, <4>1, <4>2 DEF PowersTo
    <3>. QED BY <3>1, <3>2
  <2>8. PowersTo(h, n)
    BY <2>5, <2>6, <2>7 DEF PowersTo
  <2>. QED BY <1>2, <2>8
<1>. QED BY <1>3, <1>4

LEMMA PowersAgree ==
  ASSUME NEW m \in Nat, NEW n \in Nat, NEW g, NEW h, PowersTo(g, m), PowersTo(h, n), m <= n
  PROVE  \A k \in 0 .. m : g[k] = h[k]
<1> DEFINE S == {k \in 0 .. m : g[k] # h[k]}
<1>1. SUFFICES ASSUME S # {} PROVE FALSE
  OBVIOUS
<1>0. S \in SUBSET Nat
  OBVIOUS
<1>2. PICK k \in S : \A j \in S : k <= j
  <2>. HIDE DEF S
  <2>. QED BY <1>0, <1>1, LeastElement
<1>3. k # 0
  BY <1>2 DEF PowersTo
<1>4. k - 1 \notin S /\ k \in 1 .. m /\ k - 1 \in 0 .. m
  BY <1>2, <1>3
<1>5. g[k - 1] = h[k - 1]
  BY <1>4
<1>6. g[k] = 2 * g[k - 1] /\ h[k] = 2 * h[k - 1]
  BY <1>4 DEF PowersTo
<1>. QED BY <1>2, <1>5, <1>6

(* 1 << k is 1 for k = 0 and doubles with k.                               *)
LEMMA ShiftedDoubles ==
  /\ Shifted \in [Nat -> Nat \ {0}]
  /\ Shifted[0] = 1 /\ \A k \in Nat : Shifted[k + 1] = 2 * Shifted[k]
<1> DEFINE g(n) == CHOOSE g : PowersTo(g, n)
           f == [n \in Nat |-> g(n)[n]]
           E(s) == s = [k \in Nat |-> IF k = 0 THEN 1 ELSE 2 * s[k - 1]]
<1>1. \A n \in Nat : PowersTo(g(n), n)
  BY PowersExist
<1>. HIDE DEF g
<1>2. ASSUME NEW n \in Nat PROVE f[n] \in Nat \ {0}
  BY <1>1 DEF PowersTo
<1>3. f[0] = 1
  BY <1>1 DEF PowersTo
<1>4. ASSUME NEW n \in Nat, n # 0 PROVE f[n] = 2 * f[n - 1]
  <2>1. n - 1 \in Nat
    BY <1>4
  <2>2. \A k \in 0 .. n - 1 : g(n - 1)[k] = g(n)[k]
    BY <1>1, <2>1, PowersAgree
  <2>3. g(n - 1)[n - 1] = g(n)[n - 1]
    BY <2>1, <2>2
  <2>4. g(n)[n] = 2 * g(n)[n - 1]
    BY <1>1, <1>4 DEF PowersTo
  <2>. QED BY <2>1, <2>3, <2>4
<1>5. f = [k \in Nat |-> f[k]]
  OBVIOUS
<1>. HIDE DEF f
<1>6. E(f)
  BY <1>3, <1>4, <1>5
<1>7. Shifted = CHOOSE s : E(s)
  BY DEF Shifted
<1>8. E(Shifted)
  BY <1>6, <1>7
<1>9. \A k \in Nat : Shifted[k] = IF k = 0 THEN 1 ELSE 2 * Shifted[k - 1]
  BY <1>8
<1>10. Shifted[0] = 1 /\ \A k \in Nat : Shifted[k + 1] = 2 * Shifted[k]
  BY <1>9
<1> DEFINE S == {k \in Nat : Shifted[k] \notin Nat \ {0}}
<1>11. S = {}
  <2>. SUFFICES ASSUME S # {} PROVE FALSE
    OBVIOUS
  <2>1. PICK k \in S : \A j \in S : k <= j
    BY LeastElement
  <2>2. k # 0
    BY <1>9, <2>1
  <2>3. k - 1 \in Nat /\ k - 1 \notin S
    BY <2>1, <2>2
  <2>. QED BY <1>9, <2>1, <2>2, <2>3
<1>12. Shifted = [k \in Nat |-> Shifted[k]]
  BY <1>8
<1>. QED BY <1>10, <1>11, <1>12

(* It grows with k.                                                        *)
LEMMA ShiftedGrows == \A k \in Nat : Shifted[k] > k
<1> DEFINE S == {k \in Nat : ~ Shifted[k] > k}
<1>1. SUFFICES ASSUME S # {} PROVE FALSE
  OBVIOUS
<1>2. PICK k \in S : \A j \in S : k <= j
  BY <1>1, LeastElement
<1>3. k # 0
  BY <1>2, ShiftedDoubles
<1>4. k \in Nat /\ k - 1 \in Nat /\ k - 1 \notin S
  BY <1>2, <1>3
<1>5. Shifted[k] = 2 * Shifted[k - 1]
  BY <1>4, ShiftedDoubles
<1>6. Shifted[k - 1] \in Nat /\ Shifted[k - 1] > k - 1
  BY <1>4, ShiftedDoubles
<1>. QED BY <1>2, <1>4, <1>5, <1>6

LEMMA MaxOfTwo == \A a, b \in Int : Max({a, b}) = IF a >= b THEN a ELSE b
<1>. SUFFICES ASSUME NEW a \in Int, NEW b \in Int PROVE Max({a, b}) = IF a >= b THEN a ELSE b
  OBVIOUS
<1>1. \E x \in {a, b} : \A y \in {a, b} : x >= y
  OBVIOUS
<1>2. Max({a, b}) \in {a, b} /\ \A y \in {a, b} : Max({a, b}) >= y
  BY <1>1 DEF Max
<1>. QED BY <1>2

LEMMA MinOfTwo == \A a, b \in Int : Min({a, b}) = IF a <= b THEN a ELSE b
<1>. SUFFICES ASSUME NEW a \in Int, NEW b \in Int PROVE Min({a, b}) = IF a <= b THEN a ELSE b
  OBVIOUS
<1>1. \E x \in {a, b} : \A y \in {a, b} : x <= y
  OBVIOUS
<1>2. Min({a, b}) \in {a, b} /\ \A y \in {a, b} : Min({a, b}) <= y
  BY <1>1 DEF Min
<1>. QED BY <1>2

(* Products of positive naturals *)
LEMMA Products ==
  ASSUME NEW a \in Nat \ {0}, NEW b \in Nat \ {0}
  PROVE  a * b \in Nat \ {0} /\ a * b >= b /\ a * (2 * b) = 2 * (a * b)
<1>1. a * b \in Nat /\ a * (2 * b) = 2 * (a * b)
  OBVIOUS
<1>2. a * b >= b
  OBVIOUS
<1>. QED BY <1>1, <1>2

LEMMA BackoffDoubles ==
  ASSUME NEW n \in Nat \ {0}
  PROVE  /\ Backoff(n) \in Nat \ {0} /\ Backoff(n) >= n
         /\ Backoff(1) = BaseCooldown /\ Backoff(n + 1) = 2 * Backoff(n)
<1>1. n - 1 \in Nat /\ Max({n - 1, 0}) = n - 1 /\ Max({(n + 1) - 1, 0}) = (n - 1) + 1 /\ Max({1 - 1, 0}) = 0
  BY MaxOfTwo
<1>2. BaseCooldown \in Nat \ {0}
  BY HealthAssumption
<1>3. /\ Backoff(n) = BaseCooldown * Shifted[n - 1] /\ Backoff(1) = BaseCooldown * Shifted[0]
      /\ Backoff(n + 1) = BaseCooldown * Shifted[(n - 1) + 1]
  BY <1>1 DEF Backoff
<1> DEFINE s == Shifted[n - 1]
<1>4. s \in Nat \ {0} /\ s >= n /\ Shifted[(n - 1) + 1] = 2 * s /\ Shifted[0] = 1
  <2>1. Shifted[n - 1] > n - 1
    BY <1>1, ShiftedGrows
  <2>. QED BY <1>1, <2>1, ShiftedDoubles
<1>. HIDE DEF s
<1>5. BaseCooldown * s \in Nat \ {0} /\ BaseCooldown * s >= s /\ BaseCooldown * (2 * s) = 2 * (BaseCooldown * s)
  BY <1>2, <1>4, Products
<1>6. Backoff(n) = BaseCooldown * s /\ Backoff(n + 1) = BaseCooldown * (2 * s)
  BY <1>3, <1>4 DEF s
<1>7. Backoff(1) = BaseCooldown
  BY <1>2, <1>3, <1>4
<1>. QED BY <1>4, <1>5, <1>6, <1>7

(* next_cooldown after the n-th failure: positive, never beyond the cap,   *)
(* and each the double of the one before, as far as the cap allows.        *)
LEMMA NextCooldownDoubles ==
  ASSUME NEW n \in Nat \ {0}
  PROVE  /\ NextCooldown(n) \in 1 .. MaxCooldown
         /\ NextCooldown(1) = Min({BaseCooldown, MaxCooldown})
         /\ NextCooldown(n + 1) = Min({2 * NextCooldown(n), MaxCooldown})
<1> DEFINE b == Backoff(n)
<1>1. b \in Nat \ {0} /\ Backoff(n + 1) = 2 * b /\ Backoff(1) = BaseCooldown
  BY BackoffDoubles
<1>. HIDE DEF b
<1>2. MaxCooldown \in Nat \ {0}
  BY HealthAssumption
<1>3. NextCooldown(n) = Min({b, MaxCooldown}) /\ NextCooldown(n + 1) = Min({2 * b, MaxCooldown})
  BY <1>1 DEF NextCooldown, b
<1>4. Min({b, MaxCooldown}) = IF b <= MaxCooldown THEN b ELSE MaxCooldown
  BY <1>1, <1>2, MinOfTwo
<1> DEFINE c == NextCooldown(n)
<1>5. c = IF b <= MaxCooldown THEN b ELSE MaxCooldown
  BY <1>3, <1>4
<1>. HIDE DEF c
<1>6. c \in 1 .. MaxCooldown
  BY <1>1, <1>2, <1>5
<1>7. /\ Min({2 * b, MaxCooldown}) = IF 2 * b <= MaxCooldown THEN 2 * b ELSE MaxCooldown
      /\ Min({2 * c, MaxCooldown}) = IF 2 * c <= MaxCooldown THEN 2 * c ELSE MaxCooldown
  BY <1>1, <1>2, <1>6, MinOfTwo
<1>8. Min({2 * b, MaxCooldown}) = Min({2 * c, MaxCooldown})
  BY <1>1, <1>2, <1>5, <1>7
<1>9. NextCooldown(1) = Min({BaseCooldown, MaxCooldown})
  BY <1>1 DEF NextCooldown
<1>. QED BY <1>3, <1>6, <1>8, <1>9 DEF c

(* The closed form of next_cooldown is the schedule by doubling.           *)
THEOREM CooldownsDouble == \A n \in 1 .. MaxFailures : NextCooldown(n) = Doubling[n]
<1> DEFINE E(d) == d = [n \in 1 .. MaxFailures |->
                     IF n = 1 THEN Min({BaseCooldown, MaxCooldown}) ELSE Min({2 * d[n - 1], MaxCooldown})]
           D == [n \in 1 .. MaxFailures |-> NextCooldown(n)]
<1>0. MaxFailures \in Nat
  BY HealthAssumption
<1>1. ASSUME NEW n \in 1 .. MaxFailures, n # 1
      PROVE  /\ n - 1 \in 1 .. MaxFailures
             /\ NextCooldown(n) = Min({2 * NextCooldown(n - 1), MaxCooldown})
  <2>1. n - 1 \in Nat \ {0} /\ n - 1 \in 1 .. MaxFailures /\ (n - 1) + 1 = n
    BY <1>0, <1>1
  <2>2. NextCooldown((n - 1) + 1) = Min({2 * NextCooldown(n - 1), MaxCooldown})
    BY <2>1, NextCooldownDoubles
  <2>. QED BY <2>1, <2>2
<1>2. NextCooldown(1) = Min({BaseCooldown, MaxCooldown})
  <2>1. 1 \in Nat \ {0}
    OBVIOUS
  <2>. QED BY <2>1, NextCooldownDoubles
<1>3. \A n \in 1 .. MaxFailures : D[n] = NextCooldown(n)
  OBVIOUS
<1>4. D = [n \in 1 .. MaxFailures |-> D[n]]
  OBVIOUS
<1>. HIDE DEF D
<1>5. E(D)
  <2>1. ASSUME NEW n \in 1 .. MaxFailures
        PROVE  D[n] = IF n = 1 THEN Min({BaseCooldown, MaxCooldown}) ELSE Min({2 * D[n - 1], MaxCooldown})
    <3>1. CASE n = 1
      BY <1>2, <1>3, <3>1
    <3>2. CASE n # 1
      BY <1>1, <1>3, <3>2
    <3>. QED BY <3>1, <3>2
  <2>. QED BY <1>4, <2>1
<1>6. E(Doubling)
  <2>1. Doubling = CHOOSE d : E(d)
    BY DEF Doubling
  <2>. QED BY <1>5, <2>1
<1>7. \A n \in 1 .. MaxFailures :
        Doubling[n] = IF n = 1 THEN Min({BaseCooldown, MaxCooldown}) ELSE Min({2 * Doubling[n - 1], MaxCooldown})
  BY <1>6
<1> DEFINE S == {n \in 1 .. MaxFailures : NextCooldown(n) # Doubling[n]}
<1>8. SUFFICES ASSUME S # {} PROVE FALSE
  OBVIOUS
<1>9. S \in SUBSET Nat
  BY <1>0
<1>10. PICK n \in S : \A m \in S : n <= m
  <2>. HIDE DEF S
  <2>. QED BY <1>8, <1>9, LeastElement
<1>11. n # 1
  BY <1>2, <1>7, <1>10
<1>12. n \in 1 .. MaxFailures /\ n - 1 \in 1 .. MaxFailures /\ n - 1 \notin S
  BY <1>0, <1>1, <1>10, <1>11
<1>13. NextCooldown(n - 1) = Doubling[n - 1]
  BY <1>12
<1>. QED BY <1>1, <1>7, <1>10, <1>11, <1>12, <1>13

(* However the policy is set, consecutive failures bring the peer to the   *)
(* longest cooldown, and beyond it next_cooldown raises: at the latest at  *)
(* the failure number MaxDelta + 1, and from then on at every failure.     *)
THEOREM ScheduleEnds ==
  ASSUME NEW n \in Nat \ {0}
  PROVE  /\ n >= MaxCooldown => NextCooldown(n) = MaxCooldown
         /\ n > MaxDelta => Overflows(n)
         /\ Overflows(n) => Overflows(n + 1)
<1> DEFINE b == Backoff(n)
<1>1. b \in Nat \ {0} /\ b >= n /\ Backoff(n + 1) = 2 * b
  BY BackoffDoubles
<1>. HIDE DEF b
<1>2. MaxCooldown \in Nat \ {0} /\ MaxDelta \in Nat
  BY HealthAssumption
<1>3. NextCooldown(n) = IF b <= MaxCooldown THEN b ELSE MaxCooldown
  BY <1>1, <1>2, MinOfTwo DEF NextCooldown, b
<1>4. n >= MaxCooldown => NextCooldown(n) = MaxCooldown
  BY <1>1, <1>2, <1>3
<1>5. (Overflows(n) <=> b > MaxDelta) /\ (Overflows(n + 1) <=> 2 * b > MaxDelta)
  BY <1>1 DEF Overflows, b
<1>. QED BY <1>1, <1>2, <1>4, <1>5

----------------------------------------------------------------------------
(* Disclosure *)

IsRecord(r) ==
  /\ r = [state |-> r.state, failures |-> r.failures, cooldown |-> r.cooldown,
          accepted |-> r.accepted, last_refresh |-> r.last_refresh]
  /\ r.last_refresh \in Stamps

IsReport(r) ==
  /\ r = [pc |-> r.pc, op |-> r.op, rec |-> r.rec, read |-> r.read] /\ IsRecord(r.rec)
  /\ r.pc \in {"idle", "persist", "raised"}

(* The writes that name a state, whatever the record is in                 *)
Names == {"probe", "admit"}

(* A report that read a revoked record leaves it revoked, if it names no   *)
(* state; one that is not overtaken by a poll carries a stamp after the    *)
(* cursor, or none.  What is visible and stamped before the cursor was     *)
(* told, or is accounted for.                                              *)
DisclosureInv ==
  /\ IsRecord(record) /\ task = [t \in Reporters |-> task[t]] /\ \A t \in Reporters : IsReport(task[t])
  /\ \A t \in Reporters : task[t].pc = "persist" /\ task[t].read = "revoked" /\ task[t].op \notin Names
                          => task[t].rec.state = "revoked"
  /\ \A t \in Reporters : task[t].pc = "persist" /\ t \notin overtaken => DisclosedAfter(task[t].rec)
  /\ denied \in BOOLEAN /\ told \in BOOLEAN /\ overlooked \in BOOLEAN
  /\ IsEligible(record) /\ ~denied /\ ~DisclosedAfter(record) => told \/ overlooked

(* What a report makes of a record it read: its stamp is new, and a record *)
(* that was revoked stays so, unless the report names a state.             *)
Reported(op, rec) ==
  /\ IsRecord(rec) /\ rec.last_refresh = Stamp
  /\ record.state = "revoked" /\ op \notin Names => rec.state = "revoked"

(* A record with a new stamp that lifts a revocation only by the state it  *)
(* names is a report.                                                      *)
LEMMA TouchedIsRecord ==
  ASSUME NEW op, NEW s, NEW f, NEW c, NEW a, record.state = "revoked" /\ op \notin Names => s = "revoked"
  PROVE  Reported(op, [state |-> s, failures |-> f, cooldown |-> c, accepted |-> a, last_refresh |-> Stamp])
BY DEF Reported, IsRecord, Stamps, Stamp

(* What the policy functions of membership.py and health.py make of a      *)
(* record they read, field by field.                                       *)
Made(s, f, c, a) == [state |-> s, failures |-> f, cooldown |-> c, accepted |-> a, last_refresh |-> Stamp]

LEMMA PolicyMakes ==
  ASSUME IsRecord(record)
  PROVE  /\ RecordFailure(record) =
              Made(record.state, record.failures + 1, NextCooldown(record.failures + 1), record.accepted)
         /\ RecordSuccess(record) =
              Made(IF record.state = "cooldown" THEN "active" ELSE record.state, 0, 0, record.accepted)
         /\ \A s : SetState(record, s) = Made(s, record.failures, record.cooldown, record.accepted)
         /\ \A until : Admit(record, until) = Made("active", 0, 0, until)
<1>0. PICK st, fa, co, ac, la :
        record = [state |-> st, failures |-> fa, cooldown |-> co, accepted |-> ac, last_refresh |-> la]
  BY DEF IsRecord
<1>1. record.state = st /\ record.failures = fa /\ record.cooldown = co /\ record.accepted = ac
  BY <1>0
<1>2. RecordFailure(record) = Made(st, fa + 1, NextCooldown(fa + 1), ac)
  <2> DEFINE c == NextCooldown(fa + 1)
             n == fa + 1
  <2>1. RecordFailure(record) = [record EXCEPT !.failures = n, !.cooldown = c, !.last_refresh = Stamp]
    BY <1>1 DEF RecordFailure, Touch
  <2>. HIDE DEF c, n
  <2>2. RecordFailure(record) = Made(st, n, c, ac)
    BY <1>0, <2>1 DEF Made
  <2>. QED BY <2>2 DEF c, n
<1>3. ASSUME NEW r, r = RecordSuccess(record)
      PROVE  r = Made(IF st = "cooldown" THEN "active" ELSE st, 0, 0, ac)
  BY <1>0, <1>3 DEF RecordSuccess, Touch, Made
<1>4. ASSUME NEW s, NEW r, r = SetState(record, s) PROVE r = Made(s, fa, co, ac)
  BY <1>0, <1>4 DEF SetState, Touch, Made
<1>5. ASSUME NEW until, NEW r, r = Admit(record, until) PROVE r = Made("active", 0, 0, until)
  BY <1>0, <1>5 DEF Admit, Touch, Made
<1>. QED BY <1>1, <1>2, <1>3, <1>4, <1>5

(* It is a report.                                                         *)
LEMMA PolicyReports ==
  ASSUME IsRecord(record)
  PROVE  /\ Reported("failure", RecordFailure(record)) /\ Reported("success", RecordSuccess(record))
         /\ Reported("revoke", SetState(record, "revoked"))
         /\ \A s : Reported("probe", SetState(record, s))
         /\ \A until : Reported("admit", Admit(record, until))
<1>1. \A op, s, f, c, a : (record.state = "revoked" /\ op \notin Names => s = "revoked") =>
                          Reported(op, Made(s, f, c, a))
  BY TouchedIsRecord DEF Made
<1>. QED BY <1>1, PolicyMakes DEF Names

(* The operations of the tasks, as one: a report is about to be persisted, *)
(* with a store that returns the object it holds it is already visible.    *)
Applies(t) ==
  \E op \in {"failure", "success", "probe", "admit", "revoke"}, rec \in {task'[t].rec} :
    Reported(op, rec) /\ Apply(t, op, rec)

(* What each step of Disclosure may be.                                    *)
LEMMA StepCases ==
  ASSUME DisclosureInv, Next
  PROVE  \/ \E t \in Reporters : Applies(t) \/ ReportOverflow(t) \/ Persist(t) \/ GiveUp(t)
         \/ Tick \/ NextSecond
<1>1. ASSUME NEW t \in Reporters, NEW rec, NEW op \in {"failure", "success", "probe", "admit", "revoke"},
             Apply(t, op, rec), Reported(op, rec)
      PROVE  Applies(t)
  <2>1. task'[t].rec = rec
    BY <1>1 DEF Apply, DisclosureInv
  <2>. QED BY <1>1, <2>1 DEF Applies
<1>2. IsRecord(record)
  BY DEF DisclosureInv
<1>3. ASSUME NEW t \in Reporters, ReportFailure(t) \/ ReportSuccess(t) \/ ApplyProbe(t) \/ AdmitPeer(t) \/ Revoke(t)
      PROVE  Applies(t)
  BY <1>1, <1>2, <1>3, PolicyReports DEF ReportFailure, ReportSuccess, ApplyProbe, AdmitPeer, Revoke
<1>. QED BY <1>3 DEF Next

(* A task at rest has no report to write.                                  *)
LEMMA RestingIsReport == IsReport(Resting)
BY DEF Resting, Fresh, IsReport, IsRecord, Stamps

(* A write by one of the tasks, or by time passing *)
LEMMA WriteKeeps == DisclosureInv /\ Write => DisclosureInv'
<1>. SUFFICES ASSUME DisclosureInv, Write PROVE DisclosureInv'
  OBVIOUS
<1>0. /\ told' = (told /\ IsEligible(record')) /\ denied' = denied
      /\ overtaken' = {t \in Reporters : /\ task'[t].pc = "persist"
                                         /\ t \in overtaken \/ (task[t].pc = "idle" /\ Stamp = "before")}
      /\ overlooked' = ((overlooked \/ Unstamped) /\ ~DisclosedAfter(record') /\ ~told')
  BY DEF Write
<1>1. ASSUME NEW t \in Reporters, NEW r, IsReport(r), task' = [task EXCEPT ![t] = r],
             r.pc = "persist" => /\ r.read = "revoked" /\ r.op \notin Names => r.rec.state = "revoked"
                                 /\ DisclosedAfter(r.rec) \/ t \in overtaken'
      PROVE  /\ task' = [u \in Reporters |-> task'[u]] /\ \A u \in Reporters : IsReport(task'[u])
             /\ \A u \in Reporters : task'[u].pc = "persist" /\ task'[u].read = "revoked" /\ task'[u].op \notin Names
                  => task'[u].rec.state = "revoked"
             /\ \A u \in Reporters : task'[u].pc = "persist" /\ u \notin overtaken' => DisclosedAfter(task'[u].rec)
  <2>1. \A u \in Reporters : task'[u] = IF u = t THEN r ELSE task[u]
    BY <1>1 DEF DisclosureInv
  <2>2. task' = [u \in Reporters |-> task'[u]]
    BY <1>1 DEF DisclosureInv
  <2>. QED BY <1>0, <1>1, <2>1, <2>2 DEF DisclosureInv
<1>2. ASSUME IsRecord(record'),
             IsEligible(record') /\ ~DisclosedAfter(record') =>
               Unstamped \/ (IsEligible(record) /\ ~DisclosedAfter(record))
      PROVE  /\ IsRecord(record') /\ denied' \in BOOLEAN /\ told' \in BOOLEAN /\ overlooked' \in BOOLEAN
             /\ IsEligible(record') /\ ~denied' /\ ~DisclosedAfter(record') => told' \/ overlooked'
  BY <1>0, <1>2 DEF DisclosureInv, IsEligible, DisclosedAfter
<1>3. Resting = [pc |-> "idle", op |-> Resting.op, rec |-> Resting.rec, read |-> Resting.read] /\ IsReport(Resting)
  BY RestingIsReport DEF Resting
<1>4. ASSUME NEW t \in Reporters, Applies(t) PROVE DisclosureInv'
  <2>0. PICK op \in {"failure", "success", "probe", "admit", "revoke"} : \E rec : Reported(op, rec) /\ Apply(t, op, rec)
    BY <1>4 DEF Applies
  <2>1. PICK rec : Reported(op, rec) /\ Apply(t, op, rec)
    BY <2>0
  <2>2. /\ IsRecord(rec) /\ rec.last_refresh = Stamp
        /\ record.state = "revoked" /\ op \notin Names => rec.state = "revoked"
    BY <2>1 DEF Reported
  <2> DEFINE r == [pc |-> "persist", op |-> op, rec |-> rec, read |-> record.state]
  <2>3. task' = [task EXCEPT ![t] = r] /\ record' \in {record, rec}
    BY <2>1 DEF Apply
  <2>4. IsReport(r) /\ r.read = record.state /\ r.rec = rec /\ r.op = op /\ r.pc = "persist"
    BY <2>2 DEF IsReport
  <2>. HIDE DEF r
  <2>5. IsRecord(record') /\ (record' = record \/ DisclosedAfter(record'))
    <3>1. Durable \/ Stamp = "after"
      BY HealthAssumption DEF Stamp
    <3>. QED BY <2>1, <2>2, <2>3, <3>1 DEF DisclosureInv, Apply, DisclosedAfter
  <2>6. DisclosedAfter(rec) \/ t \in overtaken'
    <3>1. task[t].pc = "idle" /\ task'[t] = r
      BY <2>1, <2>3 DEF Apply, DisclosureInv
    <3>. QED BY <1>0, <2>2, <2>4, <3>1 DEF DisclosedAfter
  <2>7. r.read = "revoked" /\ r.op \notin Names => r.rec.state = "revoked"
    BY <2>2, <2>4
  <2>8. IsEligible(record') /\ ~DisclosedAfter(record') =>
          Unstamped \/ (IsEligible(record) /\ ~DisclosedAfter(record))
    BY <2>5
  <2>9. DisclosedAfter(r.rec) \/ t \in overtaken'
    BY <2>4, <2>6
  <2>10. IsRecord(record')
    BY <2>5
  <2>. QED BY <1>1, <1>2, <2>3, <2>4, <2>7, <2>8, <2>9, <2>10 DEF DisclosureInv
<1>5. ASSUME NEW t \in Reporters, ReportOverflow(t) PROVE DisclosureInv'
  <2> DEFINE r == [pc |-> "raised", op |-> "failure", rec |-> record, read |-> record.state]
             n == record.failures + 1
  <2>1. task' = [task EXCEPT ![t] = r] /\ record' \in {record, [record EXCEPT !.failures = n]}
    BY <1>5 DEF ReportOverflow
  <2>2. IsReport(r) /\ r.pc = "raised"
    BY DEF IsReport, DisclosureInv
  <2>. HIDE DEF r, n
  <2>3. /\ IsRecord(record') /\ (IsEligible(record') <=> IsEligible(record))
        /\ (DisclosedAfter(record') <=> DisclosedAfter(record))
    BY <2>1 DEF DisclosureInv, IsRecord, IsEligible, DisclosedAfter
  <2>. QED BY <1>1, <1>2, <2>1, <2>2, <2>3 DEF DisclosureInv
<1>6. ASSUME NEW t \in Reporters, Persist(t) PROVE DisclosureInv'
  <2>1. /\ task' = [task EXCEPT ![t] = Resting] /\ task[t].pc = "persist"
        /\ record' = record \/ record' = task[t].rec
    BY <1>6 DEF Persist
  <2>2. IsRecord(record')
    BY <2>1 DEF DisclosureInv, IsReport
  <2>3. record' = record \/ DisclosedAfter(record') \/ t \in overtaken
    BY <2>1 DEF DisclosureInv
  <2>4. t \in overtaken => Unstamped
    BY <1>6 DEF Unstamped
  <2>. QED BY <1>1, <1>2, <1>3, <2>1, <2>2, <2>3, <2>4 DEF DisclosureInv
<1>7. ASSUME NEW t \in Reporters, GiveUp(t) PROVE DisclosureInv'
  <2>1. task' = [task EXCEPT ![t] = Resting] /\ record' = record
    BY <1>7 DEF GiveUp
  <2>. QED BY <1>1, <1>2, <1>3, <2>1 DEF DisclosureInv
<1>8. CASE Tick
  <2> DEFINE c == Later(record.cooldown)
             a == Later(record.accepted)
  <2>1. record' = [record EXCEPT !.cooldown = c, !.accepted = a] /\ task' = task
    BY <1>8 DEF Tick
  <2>2. Unstamped \/ IsEligible(record)
    BY <1>8 DEF Unstamped
  <2>. HIDE DEF c, a
  <2>3. IsRecord(record') /\ (DisclosedAfter(record') <=> DisclosedAfter(record))
    BY <2>1 DEF DisclosureInv, IsRecord, DisclosedAfter
  <2>. QED BY <1>0, <1>2, <2>1, <2>2, <2>3 DEF DisclosureInv
<1>9. CASE NextSecond
  <2>1. record' = record /\ task' = task
    BY <1>9 DEF NextSecond
  <2>. QED BY <1>0, <1>2, <2>1 DEF DisclosureInv
<1>. QED BY <1>4, <1>5, <1>6, <1>7, <1>8, <1>9, StepCases DEF Write

(* A poll keeps the invariant.                                             *)
LEMMA PollKeeps ==
  ASSUME DisclosureInv, NEW full \in BOOLEAN, DiscloseMembers(full)
  PROVE  DisclosureInv'
<1>. USE DEF DiscloseMembers
<1>1. \A r : IsRecord(r) => IsRecord(Passed(r)) /\ Passed(r).state = r.state
               /\ (IsEligible(Passed(r)) <=> IsEligible(r)) /\ ~ (Passed(r).last_refresh = "after")
  BY DEF IsRecord, Passed, Stamps, IsEligible
<1>2. IsRecord(record') /\ (IsEligible(record') <=> IsEligible(record))
  BY <1>1 DEF DisclosureInv
<1>3. \A t \in Reporters : /\ task'[t] = [task[t] EXCEPT !.rec = Passed(task[t].rec)]
                           /\ IsRecord(task[t].rec)
  BY DEF DisclosureInv, IsReport
<1>4. \A t \in Reporters : /\ IsReport(task'[t]) /\ task'[t].pc = task[t].pc /\ task'[t].read = task[t].read
                           /\ task'[t].op = task[t].op
                           /\ task'[t].rec = Passed(task[t].rec) /\ task'[t].rec.state = task[t].rec.state
  <2>. SUFFICES ASSUME NEW t \in Reporters
                PROVE  /\ IsReport(task'[t]) /\ task'[t].pc = task[t].pc /\ task'[t].read = task[t].read
                       /\ task'[t].op = task[t].op
                       /\ task'[t].rec = Passed(task[t].rec) /\ task'[t].rec.state = task[t].rec.state
    OBVIOUS
  <2> DEFINE q == Passed(task[t].rec)
  <2>1. task'[t] = [task[t] EXCEPT !.rec = q] /\ IsRecord(q) /\ q.state = task[t].rec.state
    BY <1>1, <1>3
  <2>2. /\ task[t] = [pc |-> task[t].pc, op |-> task[t].op, rec |-> task[t].rec, read |-> task[t].read]
        /\ task[t].pc \in {"idle", "persist", "raised"}
    BY DEF DisclosureInv, IsReport
  <2>. HIDE DEF q
  <2>3. task'[t] = [pc |-> task[t].pc, op |-> task[t].op, rec |-> q, read |-> task[t].read]
    BY <2>1, <2>2
  <2>. QED BY <2>1, <2>2, <2>3 DEF IsReport, q
<1>5. \A t \in Reporters : task'[t].pc = "persist" /\ t \notin overtaken' => DisclosedAfter(task'[t].rec)
  BY <1>3, <1>4 DEF DisclosureInv, DisclosedAfter, Passed
<1>6. task' = [t \in Reporters |-> task'[t]]
  BY <1>3
<1>7. IsEligible(record') /\ ~denied' /\ ~DisclosedAfter(record') => told' \/ overlooked'
  BY <1>2 DEF DisclosureInv, Disclosed
<1>8. denied' \in BOOLEAN /\ told' \in BOOLEAN /\ overlooked' \in BOOLEAN
  BY DEF DisclosureInv, Disclosed, IsEligible, DisclosedAfter
<1>9. \A t \in Reporters : task'[t].pc = "persist" /\ task'[t].read = "revoked" /\ task'[t].op \notin Names
                          => task'[t].rec.state = "revoked"
  BY <1>4 DEF DisclosureInv
<1>10. IsRecord(record') /\ \A t \in Reporters : IsReport(task'[t])
  BY <1>2, <1>4
<1>. QED BY <1>5, <1>6, <1>7, <1>8, <1>9, <1>10 DEF DisclosureInv

(* A change of the requester's policy keeps the invariant.                 *)
LEMMA PolicyChangeKeeps == DisclosureInv /\ ChangePolicy => DisclosureInv'
BY DEF DisclosureInv, ChangePolicy, vars, DisclosedAfter, IsRecord, IsReport

(* The inductive invariant of disclosure: what a task is about to write,   *)
(* and which writes a requester has still to be told of.                   *)
THEOREM DisclosureInvariance == DisclosureSpec => []DisclosureInv
<1>1. DisclosureInit => DisclosureInv
  <2>. SUFFICES ASSUME DisclosureInit PROVE DisclosureInv
    OBVIOUS
  <2>1. IsRecord(Fresh) /\ DisclosedAfter(Fresh)
    BY DEF Fresh, IsRecord, Stamps, DisclosedAfter
  <2>2. IsReport(Resting) /\ Resting.pc = "idle"
    BY RestingIsReport DEF Resting
  <2>. HIDE DEF Fresh, Resting
  <2>. QED BY <2>1, <2>2 DEF DisclosureInit, Init, DisclosureInv
<1>2. DisclosureInv /\ [DisclosureNext]_disclosureVars => DisclosureInv'
  <2>1. DisclosureInv /\ UNCHANGED disclosureVars => DisclosureInv'
    BY DEF disclosureVars, vars, DisclosureInv, DisclosedAfter, IsRecord, IsReport
  <2>. QED BY <2>1, WriteKeeps, PollKeeps, PolicyChangeKeeps DEF DisclosureNext
<1>. QED BY <1>1, <1>2, PTL DEF DisclosureSpec

(* A requester that polls with a since cursor learns of every write that   *)
(* makes a member visible and that leaves a stamp after the cursor.        *)
THEOREM NoWriteIsMissed == DisclosureSpec => []NothingMissed
<1>1. DisclosureInv => NothingMissed
  BY DEF DisclosureInv, NothingMissed, Disclosed
<1>. QED BY <1>1, DisclosureInvariance, PTL

(* A revocation is lifted only by a write that names a state, or by a      *)
(* report that read the record before it was revoked.                      *)
THEOREM RevocationIsTerminal == DisclosureSpec => RevokedStays
<1> DEFINE Lifts(t) == /\ task'[t] # task[t] /\ WriteOf(t).pc = "persist"
                       /\ WriteOf(t).op \in {"admit", "probe"} \/ WriteOf(t).read # "revoked"
<1>1. ASSUME DisclosureInv, [DisclosureNext]_disclosureVars, record.state = "revoked", record'.state # "revoked"
      PROVE  \E t \in Reporters : Lifts(t)
  <2>1. CASE Next
    <3>1. ASSUME NEW t \in Reporters, Applies(t) PROVE Lifts(t)
      <4>1. PICK op \in {"failure", "success", "probe", "admit", "revoke"} : \E rec : Reported(op, rec) /\ Apply(t, op, rec)
        BY <3>1 DEF Applies
      <4>2. PICK rec : Reported(op, rec) /\ Apply(t, op, rec)
        BY <4>1
      <4> DEFINE r == [pc |-> "persist", op |-> op, rec |-> rec, read |-> record.state]
      <4>3. task[t].pc = "idle" /\ task'[t] = r /\ record' = rec /\ ~Durable
        BY <1>1, <4>2 DEF Apply, DisclosureInv
      <4>4. r.pc = "persist" /\ r.op = op
        OBVIOUS
      <4>. HIDE DEF r
      <4>5. op \in {"admit", "probe"}
        BY <1>1, <4>2, <4>3 DEF Reported, Names
      <4>. QED BY <4>3, <4>4, <4>5 DEF WriteOf
    <3>2. ASSUME NEW t \in Reporters, Persist(t) PROVE Lifts(t)
      <4>1. Durable /\ record' = task[t].rec /\ task[t].pc = "persist" /\ task'[t] = Resting
        BY <1>1, <3>2 DEF Persist, DisclosureInv
      <4>2. task[t].op \in Names \/ task[t].read # "revoked"
        BY <1>1, <4>1 DEF DisclosureInv
      <4>3. task'[t] # task[t]
        BY <4>1 DEF Resting
      <4>. QED BY <4>1, <4>2, <4>3 DEF WriteOf, Names
    <3>3. ASSUME NEW t \in Reporters, GiveUp(t) PROVE FALSE
      BY <1>1, <3>3 DEF GiveUp
    <3>4. ASSUME NEW t \in Reporters, ReportOverflow(t) PROVE FALSE
      <4> DEFINE n == record.failures + 1
      <4>1. record' \in {record, [record EXCEPT !.failures = n]}
        BY <3>4 DEF ReportOverflow
      <4>. HIDE DEF n
      <4>. QED BY <1>1, <4>1 DEF DisclosureInv, IsRecord
    <3>5. ASSUME Tick PROVE FALSE
      <4> DEFINE c == Later(record.cooldown)
                 a == Later(record.accepted)
      <4>1. record' = [record EXCEPT !.cooldown = c, !.accepted = a]
        BY <3>5 DEF Tick
      <4>. HIDE DEF c, a
      <4>. QED BY <1>1, <4>1 DEF DisclosureInv, IsRecord
    <3>6. ASSUME NextSecond PROVE FALSE
      BY <1>1, <3>6 DEF NextSecond
    <3>. HIDE DEF Lifts
    <3>. QED BY <1>1, <2>1, <3>1, <3>2, <3>3, <3>4, <3>5, <3>6, StepCases
  <2>2. CASE \E full \in BOOLEAN : DiscloseMembers(full)
    BY <1>1, <2>2 DEF DiscloseMembers, Passed, DisclosureInv, IsRecord
  <2>3. CASE ChangePolicy \/ UNCHANGED disclosureVars
    BY <1>1, <2>3 DEF ChangePolicy, disclosureVars, vars
  <2>. QED BY <1>1, <2>1, <2>2, <2>3 DEF DisclosureNext, Write
<1>2. DisclosureInv /\ [DisclosureNext]_disclosureVars =>
        [record.state = "revoked" /\ record'.state # "revoked" => \E t \in Reporters : Lifts(t)]_vars
  BY <1>1
<1>. QED BY <1>2, DisclosureInvariance, PTL DEF DisclosureSpec, RevokedStays

----------------------------------------------------------------------------
(* The records and the reports *)

(* What the policy functions make of a record: of the type of the records, *)
(* not eligible unless it has no failures or a state that a probe set, and *)
(* after a failure with the cooldown of its count.                         *)
Written(op, rec) ==
  /\ rec \in MemberRecord
  /\ op # "probe" => rec.failures = 0 \/ ~IsEligible(rec)
  /\ op = "failure" => rec.failures \in 1 .. MaxFailures /\ rec.cooldown = NextCooldown(rec.failures)
  /\ op \in {"success", "admit"} => rec.failures = 0
  /\ op # "none"

(* How a report counts failures, from the record that it read.             *)
Counts(op, n) ==
  /\ op = "failure" => n = record.failures + 1 /\ ~Overflows(n)
  /\ op \in {"success", "admit"} => n = 0
  /\ op \in {"probe", "revoke"} => n = record.failures

(* A task that is about to persist a record holds one the policy made.     *)
ScheduleInv ==
  /\ DisclosureTypeOK
  /\ \A t \in Reporters : task[t].pc = "persist" => Written(task[t].op, task[t].rec)

(* A record of the store, by its fields                                    *)
LEMMA RecordFields ==
  \A s, f, c, a, l :
    [state |-> s, failures |-> f, cooldown |-> c, accepted |-> a, last_refresh |-> l] \in MemberRecord
      <=> s \in States /\ f \in Nat /\ c \in 0 .. MaxCooldown /\ a \in Nat \cup {NoLimit} /\ l \in Stamps
BY DEF MemberRecord

LEMMA RecordsAreRecords ==
  ASSUME NEW r \in MemberRecord
  PROVE  /\ IsRecord(r)
         /\ r.state \in States /\ r.failures \in Nat /\ r.cooldown \in 0 .. MaxCooldown
         /\ r.accepted \in Nat \cup {NoLimit}
BY DEF MemberRecord, IsRecord

Fields(s, f, c, a) == s \in States /\ f \in Nat /\ c \in 0 .. MaxCooldown /\ a \in Nat \cup {NoLimit}

LEMMA MadeIsRecord ==
  \A s, f, c, a : Fields(s, f, c, a) =>
    /\ Made(s, f, c, a) \in MemberRecord
    /\ Made(s, f, c, a).state = s /\ Made(s, f, c, a).failures = f /\ Made(s, f, c, a).cooldown = c
<1>1. Stamp \in Stamps
  BY DEF Stamps, Stamp
<1>. QED BY <1>1, RecordFields DEF Made, Fields

LEMMA PolicyWrites ==
  ASSUME record \in MemberRecord
  PROVE  /\ record.failures < MaxFailures => Written("failure", RecordFailure(record))
         /\ Written("success", RecordSuccess(record)) /\ Written("revoke", SetState(record, "revoked"))
         /\ \A s \in {"active", "cooldown"} : Written("probe", SetState(record, s))
         /\ \A until \in AcceptedFor : Written("admit", Admit(record, until))
         /\ RecordFailure(record).failures = record.failures + 1
         /\ RecordSuccess(record).failures = 0 /\ \A until \in AcceptedFor : Admit(record, until).failures = 0
         /\ \A s \in {"active", "cooldown", "revoked"} : SetState(record, s).failures = record.failures
<1> DEFINE n == record.failures + 1
<1>0. /\ MaxCooldown \in Nat /\ MaxFailures \in Nat /\ AcceptedFor \subseteq Nat \cup {NoLimit}
      /\ IsRecord(record) /\ record.state \in States /\ record.failures \in Nat
      /\ record.cooldown \in 0 .. MaxCooldown /\ record.accepted \in Nat \cup {NoLimit}
      /\ {"active", "cooldown", "revoked"} \subseteq States /\ 0 \in 0 .. MaxCooldown /\ 0 \in Nat
  BY HealthAssumption, RecordsAreRecords DEF States
<1>1. ASSUME record.failures < MaxFailures PROVE Written("failure", RecordFailure(record))
  <2> DEFINE c == NextCooldown(n)
             r == RecordFailure(record)
  <2>1. n \in 1 .. MaxFailures /\ n \in Nat \ {0} /\ n \in Nat
    BY <1>0, <1>1
  <2>2. c \in 1 .. MaxCooldown
    BY <2>1, NextCooldownDoubles
  <2>3. c \in 0 .. MaxCooldown /\ c # 0
    BY <1>0, <2>2
  <2>4. r = Made(record.state, n, c, record.accepted)
    BY <1>0, PolicyMakes
  <2>5. r \in MemberRecord /\ r.failures = n /\ r.cooldown = c
    <3>. HIDE DEF n, c, r
    <3>1. Fields(record.state, n, c, record.accepted)
      BY <1>0, <2>1, <2>3 DEF Fields
    <3>. QED BY <2>4, <3>1, MadeIsRecord
  <2>. HIDE DEF r, c, n
  <2>6. Written("failure", r)
    BY <2>1, <2>3, <2>5 DEF Written, IsEligible, c
  <2>. QED BY <2>6 DEF r
<1>2. Written("success", RecordSuccess(record))
  <2> DEFINE s == IF record.state = "cooldown" THEN "active" ELSE record.state
  <2>1. RecordSuccess(record) = Made(s, 0, 0, record.accepted) /\ s \in States
    BY <1>0, PolicyMakes
  <2>. HIDE DEF s
  <2>2. Fields(s, 0, 0, record.accepted)
    BY <1>0, <2>1 DEF Fields
  <2>. QED BY <2>1, <2>2, MadeIsRecord DEF Written
<1>3. ASSUME NEW s \in {"active", "cooldown", "revoked"}
      PROVE  /\ SetState(record, s) \in MemberRecord /\ SetState(record, s).state = s
             /\ SetState(record, s).failures = record.failures
  <2>1. SetState(record, s) = Made(s, record.failures, record.cooldown, record.accepted) /\ s \in States
    BY <1>0, PolicyMakes
  <2>2. Fields(s, record.failures, record.cooldown, record.accepted)
    BY <1>0, <2>1 DEF Fields
  <2>. QED BY <2>1, <2>2, MadeIsRecord
<1>4. ASSUME NEW until \in AcceptedFor PROVE Written("admit", Admit(record, until))
  <2>1. Admit(record, until) = Made("active", 0, 0, until) /\ until \in Nat \cup {NoLimit}
    BY <1>0, PolicyMakes
  <2>2. Fields("active", 0, 0, until)
    BY <1>0, <2>1 DEF Fields
  <2>. QED BY <2>1, <2>2, MadeIsRecord DEF Written
<1>5. /\ Written("revoke", SetState(record, "revoked"))
      /\ \A s \in {"active", "cooldown"} : Written("probe", SetState(record, s))
  BY <1>3 DEF Written, IsEligible
<1>6. /\ RecordFailure(record).failures = record.failures + 1 /\ RecordSuccess(record).failures = 0
      /\ \A until : Admit(record, until).failures = 0
  <2> DEFINE c == NextCooldown(n)
             q == IF record.state = "cooldown" THEN "active" ELSE record.state
  <2>1. /\ RecordFailure(record) = Made(record.state, n, c, record.accepted)
        /\ RecordSuccess(record) = Made(q, 0, 0, record.accepted)
        /\ \A until : Admit(record, until) = Made("active", 0, 0, until)
    BY <1>0, PolicyMakes
  <2>. HIDE DEF c, q, n
  <2>2. /\ RecordFailure(record).failures = n /\ RecordSuccess(record).failures = 0
        /\ \A until : Admit(record, until).failures = 0
    BY <2>1 DEF Made
  <2>. QED BY <2>2 DEF n
<1>7. \A s \in {"active", "cooldown", "revoked"} : SetState(record, s).failures = record.failures
  BY <1>3
<1>. QED BY <1>1, <1>2, <1>4, <1>5, <1>6, <1>7

(* The operations of the tasks, as one: a report is about to be persisted. *)
Writes(t) ==
  \E op \in {"failure", "success", "probe", "admit", "revoke"}, rec \in MemberRecord :
    Written(op, rec) /\ Counts(op, rec.failures) /\ Apply(t, op, rec)

LEMMA WriteCases ==
  ASSUME ScheduleInv, Next
  PROVE  \/ \E t \in Reporters : Writes(t) \/ ReportOverflow(t) \/ Persist(t) \/ GiveUp(t)
         \/ Tick \/ NextSecond
<1>1. record \in MemberRecord
  BY DEF ScheduleInv, DisclosureTypeOK, TypeOK
<1>2. ASSUME NEW t \in Reporters, NEW rec, NEW op \in {"failure", "success", "probe", "admit", "revoke"},
             Apply(t, op, rec), Written(op, rec), Counts(op, rec.failures)
      PROVE  Writes(t)
  BY <1>2 DEF Writes, Written
<1>3. ASSUME NEW t \in Reporters, ReportFailure(t) PROVE Writes(t)
  <2>1. Counts("failure", RecordFailure(record).failures)
    BY <1>1, <1>3, PolicyWrites DEF ReportFailure, Counts
  <2>. QED BY <1>1, <1>2, <1>3, <2>1, PolicyWrites DEF ReportFailure
<1>4. ASSUME NEW t \in Reporters, ReportSuccess(t) PROVE Writes(t)
  <2>1. Counts("success", RecordSuccess(record).failures)
    BY <1>1, PolicyWrites DEF Counts
  <2>. QED BY <1>1, <1>2, <1>4, <2>1, PolicyWrites DEF ReportSuccess
<1>5. ASSUME NEW t \in Reporters, ApplyProbe(t) PROVE Writes(t)
  <2>1. PICK s \in {"active", "cooldown"} : Apply(t, "probe", SetState(record, s))
    BY <1>5 DEF ApplyProbe
  <2>2. Counts("probe", SetState(record, s).failures)
    BY <1>1, PolicyWrites DEF Counts
  <2>. QED BY <1>1, <1>2, <2>1, <2>2, PolicyWrites
<1>6. ASSUME NEW t \in Reporters, AdmitPeer(t) PROVE Writes(t)
  <2>1. PICK until \in AcceptedFor : Apply(t, "admit", Admit(record, until))
    BY <1>6 DEF AdmitPeer
  <2>2. Counts("admit", Admit(record, until).failures)
    BY <1>1, PolicyWrites DEF Counts
  <2>. QED BY <1>1, <1>2, <2>1, <2>2, PolicyWrites
<1>7. ASSUME NEW t \in Reporters, Revoke(t) PROVE Writes(t)
  <2>1. Counts("revoke", SetState(record, "revoked").failures)
    BY <1>1, PolicyWrites DEF Counts
  <2>. QED BY <1>1, <1>2, <1>7, <2>1, PolicyWrites DEF Revoke
<1>. QED BY <1>3, <1>4, <1>5, <1>6, <1>7 DEF Next

(* Seen from a later cursor, a record has the same fields but the stamp.   *)
LEMMA PassedKeeps ==
  ASSUME NEW r \in MemberRecord
  PROVE  /\ Passed(r) \in MemberRecord
         /\ Passed(r).failures = r.failures /\ Passed(r).cooldown = r.cooldown
         /\ (IsEligible(Passed(r)) <=> IsEligible(r))
         /\ \A op : Written(op, r) => Written(op, Passed(r))
<1>1. /\ Passed(r) \in MemberRecord
      /\ Passed(r).failures = r.failures /\ Passed(r).cooldown = r.cooldown
      /\ (IsEligible(Passed(r)) <=> IsEligible(r))
  BY DEF MemberRecord, Stamps, Passed, IsEligible
<1>. QED BY <1>1 DEF Written

LEMMA ReportFields ==
  \A pc, op, rec, read :
    /\ [pc |-> pc, op |-> op, rec |-> rec, read |-> read].pc = pc
    /\ [pc |-> pc, op |-> op, rec |-> rec, read |-> read].op = op
    /\ [pc |-> pc, op |-> op, rec |-> rec, read |-> read].rec = rec
    /\ [pc |-> pc, op |-> op, rec |-> rec, read |-> read] \in Report
        <=> /\ pc \in {"idle", "persist", "raised"}
            /\ op \in {"none", "failure", "success", "probe", "admit", "revoke"}
            /\ rec \in MemberRecord /\ read \in States
BY DEF Report

LEMMA FreshIsTyped == Fresh \in MemberRecord /\ Resting \in Report /\ Resting.pc = "idle"
<1>1. MaxCooldown \in Nat
  BY HealthAssumption
<1>2. Fresh \in MemberRecord /\ Fresh.state \in States
  BY <1>1 DEF Fresh, MemberRecord, States, Stamps
<1>. QED BY <1>2, ReportFields DEF Resting

(* A write by one of the tasks, or by time passing, keeps the types and    *)
(* what the policy made.                                                   *)
LEMMA WriteKeepsSchedule == ScheduleInv /\ Write => ScheduleInv'
<1>. SUFFICES ASSUME ScheduleInv, Write PROVE ScheduleInv'
  OBVIOUS
<1>0. /\ denied' \in BOOLEAN /\ told' \in BOOLEAN /\ overlooked' \in BOOLEAN
      /\ overtaken' \subseteq {t \in Reporters : task'[t].pc = "persist"}
  BY DEF Write, ScheduleInv, DisclosureTypeOK, IsEligible
<1>7. same_second' \in BOOLEAN /\ row' \in Nat \cup {Lost}
  <2>1. same_second \in BOOLEAN /\ row \in Nat \cup {Lost} /\ \A op : RowAfter(op) \in Nat \cup {Lost}
    BY DEF ScheduleInv, DisclosureTypeOK, TypeOK, RowAfter, Lost
  <2>. QED BY <2>1, WriteCases DEF Write, Writes, Apply, ReportOverflow, Persist, GiveUp, Tick, NextSecond
<1>1. record \in MemberRecord /\ task \in [Reporters -> Report]
  BY DEF ScheduleInv, DisclosureTypeOK, TypeOK
<1>2. ASSUME NEW t \in Reporters, NEW r \in Report, task' = [task EXCEPT ![t] = r], record' \in MemberRecord,
             r.pc = "persist" => Written(r.op, r.rec)
      PROVE  ScheduleInv'
  <2>1. task' \in [Reporters -> Report] /\ \A u \in Reporters : task'[u] = IF u = t THEN r ELSE task[u]
    BY <1>1, <1>2
  <2>2. \A u \in Reporters : task'[u].pc = "persist" => Written(task'[u].op, task'[u].rec)
    BY <1>2, <2>1 DEF ScheduleInv
  <2>3. DisclosureTypeOK'
    BY <1>0, <1>2, <1>7, <2>1 DEF DisclosureTypeOK, TypeOK
  <2>. QED BY <2>2, <2>3 DEF ScheduleInv
<1>3. ASSUME NEW t \in Reporters, Writes(t) PROVE ScheduleInv'
  <2>1. PICK op \in {"failure", "success", "probe", "admit", "revoke"}, rec \in MemberRecord :
          Written(op, rec) /\ Apply(t, op, rec)
    BY <1>3 DEF Writes
  <2> DEFINE r == [pc |-> "persist", op |-> op, rec |-> rec, read |-> record.state]
  <2>2. task' = [task EXCEPT ![t] = r] /\ record' \in MemberRecord
    BY <1>1, <2>1 DEF Apply
  <2>3. record.state \in States
    BY <1>1, RecordsAreRecords
  <2>4. r \in Report /\ r.op = op /\ r.rec = rec
    BY <2>3, ReportFields
  <2>. HIDE DEF r
  <2>. QED BY <1>2, <2>1, <2>2, <2>4
<1>4. ASSUME NEW t \in Reporters, ReportOverflow(t) PROVE ScheduleInv'
  <2> DEFINE r == [pc |-> "raised", op |-> "failure", rec |-> record, read |-> record.state]
             n == record.failures + 1
  <2>1. task' = [task EXCEPT ![t] = r] /\ record' \in {record, [record EXCEPT !.failures = n]}
    BY <1>4 DEF ReportOverflow
  <2>2. record.state \in States /\ n \in Nat
    BY <1>1, RecordsAreRecords
  <2>3. r \in Report /\ r.pc = "raised"
    BY <1>1, <2>2, ReportFields
  <2>. HIDE DEF r, n
  <2>4. record' \in MemberRecord
    BY <1>1, <2>1, <2>2 DEF MemberRecord
  <2>. QED BY <1>2, <2>1, <2>3, <2>4
<1>5. ASSUME NEW t \in Reporters, Persist(t) \/ GiveUp(t) PROVE ScheduleInv'
  <2>1. task' = [task EXCEPT ![t] = Resting] /\ (record' = record \/ record' = task[t].rec)
    BY <1>5 DEF Persist, GiveUp
  <2>2. task[t].rec \in MemberRecord
    BY <1>1 DEF Report
  <2>. QED BY <1>1, <1>2, <2>1, <2>2, FreshIsTyped
<1>6. CASE Tick
  <2> DEFINE c == Later(record.cooldown)
             a == Later(record.accepted)
  <2>1. record' = [record EXCEPT !.cooldown = c, !.accepted = a] /\ task' = task
    BY <1>6 DEF Tick
  <2>2. record.cooldown \in 0 .. MaxCooldown /\ record.accepted \in Nat \cup {NoLimit} /\ MaxCooldown \in Nat
    BY <1>1, RecordsAreRecords, HealthAssumption
  <2>3. c \in 0 .. MaxCooldown
    BY <2>2 DEF Later
  <2>4. a \in Nat \cup {NoLimit}
    BY <2>2 DEF Later
  <2>. HIDE DEF c, a
  <2>5. record' \in MemberRecord
    BY <1>1, <2>1, <2>3, <2>4 DEF MemberRecord
  <2>. QED BY <1>0, <1>1, <1>7, <2>1, <2>5 DEF ScheduleInv, DisclosureTypeOK, TypeOK
<1>8. CASE NextSecond
  BY <1>0, <1>1, <1>7, <1>8 DEF NextSecond, ScheduleInv, DisclosureTypeOK, TypeOK
<1>. QED BY <1>3, <1>4, <1>5, <1>6, <1>8, WriteCases DEF Write

(* So does a poll.                                                         *)
LEMMA PollKeepsSchedule ==
  ASSUME ScheduleInv, NEW full \in BOOLEAN, DiscloseMembers(full)
  PROVE  ScheduleInv'
<1>0. /\ task' = [t \in Reporters |-> [task[t] EXCEPT !.rec = Passed(task[t].rec)]]
      /\ record' = Passed(record)
      /\ overtaken' = overtaken \cup {t \in Reporters : task[t].pc = "persist" /\ DisclosedAfter(task[t].rec)}
  BY DEF DiscloseMembers
<1>1. record \in MemberRecord /\ task \in [Reporters -> Report]
  BY DEF ScheduleInv, DisclosureTypeOK, TypeOK
<1>2. ASSUME NEW t \in Reporters
      PROVE  /\ task'[t] \in Report /\ task'[t].pc = task[t].pc /\ task'[t].op = task[t].op
             /\ task'[t].rec = Passed(task[t].rec) /\ task[t].rec \in MemberRecord
  <2> DEFINE q == Passed(task[t].rec)
  <2>1. task[t] \in Report /\ task'[t] = [task[t] EXCEPT !.rec = q]
    BY <1>0, <1>1
  <2>2. task[t].rec \in MemberRecord
    BY <2>1 DEF Report
  <2>3. q \in MemberRecord
    BY <2>2, PassedKeeps
  <2>. HIDE DEF q
  <2>4. task'[t] \in Report /\ task'[t].pc = task[t].pc /\ task'[t].op = task[t].op /\ task'[t].rec = q
    BY <2>1, <2>3 DEF Report
  <2>. QED BY <2>2, <2>4 DEF q
<1>3. \A t \in Reporters : task'[t].pc = "persist" => Written(task'[t].op, task'[t].rec)
  BY <1>2, PassedKeeps DEF ScheduleInv
<1>4. record' \in MemberRecord
  BY <1>0, <1>1, PassedKeeps
<1>5. task' \in [Reporters -> Report]
  <2>1. task' = [t \in Reporters |-> task'[t]]
    BY <1>0
  <2>. QED BY <1>2, <2>1
<1>6. overtaken' \subseteq {t \in Reporters : task'[t].pc = "persist"}
  BY <1>0, <1>2 DEF ScheduleInv, DisclosureTypeOK
<1>7. /\ denied' \in BOOLEAN /\ told' \in BOOLEAN /\ overlooked' \in BOOLEAN
      /\ same_second' \in BOOLEAN /\ row' \in Nat \cup {Lost}
  BY DEF TypeOK, DiscloseMembers, ScheduleInv, DisclosureTypeOK, Disclosed, IsEligible, DisclosedAfter
<1>. QED BY <1>3, <1>4, <1>5, <1>6, <1>7 DEF ScheduleInv, DisclosureTypeOK, TypeOK

(* What tasks are about to persist is what the policy made of a record.    *)
THEOREM ScheduleInvariance == DisclosureSpec => []ScheduleInv
<1>1. DisclosureInit => ScheduleInv
  <2>. SUFFICES ASSUME DisclosureInit PROVE ScheduleInv
    OBVIOUS
  <2>1. /\ record \in MemberRecord /\ task \in [Reporters -> Report] /\ \A t \in Reporters : task[t].pc # "persist"
        /\ same_second \in BOOLEAN /\ row \in Nat \cup {Lost}
    BY FreshIsTyped DEF DisclosureInit, Init
  <2>. QED BY <2>1 DEF DisclosureInit, ScheduleInv, DisclosureTypeOK, TypeOK
<1>2. ScheduleInv /\ [DisclosureNext]_disclosureVars => ScheduleInv'
  <2>1. ScheduleInv /\ ChangePolicy => ScheduleInv'
    BY DEF ScheduleInv, ChangePolicy, vars, DisclosureTypeOK, TypeOK, DisclosedAfter
  <2>2. ScheduleInv /\ UNCHANGED disclosureVars => ScheduleInv'
    BY DEF ScheduleInv, disclosureVars, vars, DisclosureTypeOK, TypeOK
  <2>. QED BY <2>1, <2>2, WriteKeepsSchedule, PollKeepsSchedule DEF DisclosureNext
<1>. QED BY <1>1, <1>2, PTL DEF DisclosureSpec

(* The records of the store, the reports under way and the history of the  *)
(* polls have their types: no cooldown exceeds the cap of the policy.      *)
THEOREM DisclosureTypeCorrect == DisclosureSpec => []DisclosureTypeOK
<1>1. ScheduleInv => DisclosureTypeOK
  BY DEF ScheduleInv
<1>. QED BY <1>1, ScheduleInvariance, PTL

(* Once next_cooldown raises it raises for every higher count.             *)
LEMMA OverflowStays == \A n \in Nat \ {0} : Overflows(n) => Overflows(n + 1)
BY ScheduleEnds

(* The record counts the row of failures that were reported: exactly, if   *)
(* its store holds the object itself, until next_cooldown raises; with a   *)
(* store of copies as long as the row is known, which it is while at most  *)
(* one report is under way.                                                *)
RowInv ==
  /\ ~Durable => row # Lost /\ (record.failures = row \/ (record.failures # 0 /\ Overflows(record.failures)))
  /\ Durable /\ row # Lost =>
       /\ record.failures = row
       /\ \A t \in Reporters : task[t].pc = "persist" =>
            InFlight = {t} /\ Counts(task[t].op, task[t].rec.failures)

(* A step that leaves the counts as they are keeps the row.                *)
LEMMA SameCountsSameRow ==
  ASSUME RowInv, row' = row, record'.failures = record.failures,
         \A t \in Reporters :
           /\ task'[t].pc = "persist" <=> task[t].pc = "persist"
           /\ task'[t].pc = "persist" =>
                task'[t].op = task[t].op /\ task'[t].rec.failures = task[t].rec.failures
  PROVE  RowInv'
<1>1. InFlight' = InFlight
  BY DEF InFlight
<1>2. \A op, n : Counts(op, n)' <=> Counts(op, n)
  BY DEF Counts, Overflows, Backoff
<1>3. Overflows(record.failures)' <=> Overflows(record.failures)
  BY DEF Overflows, Backoff
<1>. QED BY <1>1, <1>2, <1>3 DEF RowInv

(* A report that is applied joins no other, or the row is lost.            *)
LEMMA ApplyKeepsRow ==
  ASSUME ScheduleInv, RowInv, NEW t \in Reporters, Writes(t)
  PROVE  RowInv'
<1>1. PICK op \in {"failure", "success", "probe", "admit", "revoke"}, rec \in MemberRecord :
        Written(op, rec) /\ Counts(op, rec.failures) /\ Apply(t, op, rec)
  BY DEF Writes
<1> DEFINE r == [pc |-> "persist", op |-> op, rec |-> rec, read |-> record.state]
<1>2. /\ task' = [task EXCEPT ![t] = r] /\ task[t].pc = "idle"
      /\ record' = (IF Durable THEN record ELSE rec)
      /\ row' = (IF ~Durable THEN RowAfter(op) ELSE IF InFlight = {} THEN row ELSE Lost)
  BY <1>1 DEF Apply
<1>3. r.pc = "persist" /\ r.op = op /\ r.rec = rec
  BY ReportFields
<1>. HIDE DEF r
<1>4. task' \in [Reporters -> {task[u] : u \in Reporters} \cup {r}]
      /\ \A u \in Reporters : task'[u] = IF u = t THEN r ELSE task[u]
  BY <1>2 DEF ScheduleInv, DisclosureTypeOK, TypeOK
<1>5. record.failures \in Nat /\ rec.failures \in Nat /\ row \in Nat \cup {Lost}
  BY RecordsAreRecords, <1>1 DEF ScheduleInv, DisclosureTypeOK, TypeOK
<1>6. CASE Durable /\ InFlight = {}
  <2>1. InFlight' = {t}
    BY <1>3, <1>4, <1>6 DEF InFlight
  <2>2. \A u \in Reporters : task'[u].pc = "persist" => u = t
    BY <1>4, <1>6 DEF InFlight
  <2>3. Counts(op, rec.failures)'
    BY <1>1, <1>2, <1>6 DEF Counts, Overflows, Backoff
  <2>. QED BY <1>2, <1>3, <1>4, <1>6, <2>1, <2>2, <2>3 DEF RowInv
<1>7. CASE Durable /\ InFlight # {}
  BY <1>2, <1>7 DEF RowInv
<1>8. CASE ~Durable
  <2> DEFINE n == rec.failures
             Over == Overflows(record.failures)
             OverN == Overflows(n)
  <2>1. record'.failures = n /\ row' = RowAfter(op) /\ row # Lost /\ row \in Nat
    BY <1>2, <1>5, <1>8 DEF RowInv
  <2>2. RowAfter(op) = (IF op \in {"success", "admit"} THEN 0 ELSE IF op = "failure" THEN row + 1 ELSE row)
    BY <2>1 DEF RowAfter
  <2>3. Over /\ record.failures # 0 => Overflows(record.failures + 1)
    BY <1>5, OverflowStays
  <2>4. record.failures = row \/ (record.failures # 0 /\ Over)
    BY <1>8 DEF RowInv
  <2>5. n = record.failures => (OverN <=> Over)
    OBVIOUS
  <2>6. /\ op = "failure" => n = record.failures + 1 /\ ~OverN
        /\ op \in {"success", "admit"} => n = 0
        /\ op \in {"probe", "revoke"} => n = record.failures
    BY <1>1 DEF Counts
  <2>7. n = record.failures + 1 => (OverN <=> Overflows(record.failures + 1))
    OBVIOUS
  <2>8. Overflows(record.failures)' <=> OverN
    BY <2>1 DEF Overflows, Backoff
  <2>. HIDE DEF Over, OverN, n
  <2>9. row' # Lost
    BY <2>1, <2>2 DEF Lost
  <2>10. n = row' \/ (n # 0 /\ OverN)
    BY <2>1, <2>2, <2>3, <2>4, <2>5, <2>6, <2>7
  <2>. QED BY <1>8, <2>1, <2>8, <2>9, <2>10 DEF RowInv
<1>. QED BY <1>6, <1>7, <1>8

(* A report that is persisted is the only one, or the row is lost until a  *)
(* success or an admission starts another.                                 *)
LEMMA PersistKeepsRow ==
  ASSUME ScheduleInv, RowInv, NEW t \in Reporters, Persist(t)
  PROVE  /\ RowInv'
         /\ row # Lost /\ row' = row + 1 =>
              Durable /\ task[t].op = "failure" /\ record' = task[t].rec /\ task[t].rec.failures = row'
<1> DEFINE op == task[t].op
           n == task[t].rec.failures
<1>1. /\ task' = [task EXCEPT ![t] = Resting] /\ task[t].pc = "persist"
      /\ record' = (IF Durable THEN task[t].rec ELSE record)
      /\ row' = (IF Durable /\ InFlight = {t} THEN RowAfter(op) ELSE row)
  BY DEF Persist
<1>2. task[t] \in Report /\ record.failures \in Nat /\ row \in Nat \cup {Lost}
  BY RecordsAreRecords DEF ScheduleInv, DisclosureTypeOK, TypeOK
<1>3. op \in {"failure", "success", "probe", "admit", "revoke", "none"} /\ n \in Nat
  BY <1>2, RecordsAreRecords DEF Report
<1>4. \A u \in Reporters : task'[u] = IF u = t THEN Resting ELSE task[u]
  BY <1>1 DEF ScheduleInv, DisclosureTypeOK, TypeOK
<1>5. Resting.pc = "idle"
  BY FreshIsTyped
<1>6. op # "none"
  BY <1>1 DEF ScheduleInv, Written
<1>. HIDE DEF op, n
<1>7. CASE ~Durable
  <2>1. record' = record /\ row' = row
    BY <1>1, <1>7
  <2>2. Overflows(record.failures)' <=> Overflows(record.failures)
    BY <2>1 DEF Overflows, Backoff
  <2>3. RowInv'
    BY <1>7, <2>1, <2>2 DEF RowInv
  <2>4. row # Lost => row' # row + 1
    BY <1>2, <2>1
  <2>. QED BY <2>3, <2>4
<1>8. CASE Durable /\ InFlight = {t}
  <2>1. record' = task[t].rec /\ record'.failures = n /\ row' = RowAfter(op)
    BY <1>1, <1>8 DEF n
  <2>2. \A u \in Reporters : task'[u].pc # "persist"
    BY <1>4, <1>5, <1>8 DEF InFlight
  <2>3. row # Lost => record.failures = row /\ Counts(op, n)
    BY <1>1, <1>8 DEF RowInv, op, n
  <2>4. row' = (IF op \in {"success", "admit"} THEN 0 ELSE IF op = "failure" /\ row # Lost THEN row + 1 ELSE row)
    BY <2>1 DEF RowAfter
  <2>5. row' # Lost => n = row'
    <3>1. CASE row = Lost
      <4>1. op \in {"success", "admit"} \/ row' = Lost
        BY <2>4, <3>1
      <4>2. op \in {"success", "admit"} => n = 0 /\ row' = 0
        <5>1. op \in {"success", "admit"} => n = 0
          BY <1>1 DEF ScheduleInv, Written, op, n
        <5>. QED BY <2>4, <5>1
      <4>. QED BY <4>1, <4>2
    <3>2. CASE row # Lost
      BY <1>3, <1>6, <2>3, <2>4, <3>2 DEF Counts
    <3>. QED BY <3>1, <3>2
  <2>6. RowInv'
    BY <1>8, <2>1, <2>2, <2>5 DEF RowInv
  <2>7. row # Lost /\ row' = row + 1 => op = "failure"
    BY <1>2, <2>4 DEF Lost
  <2>8. row # Lost /\ row' = row + 1 => row' # Lost
    BY <1>2 DEF Lost
  <2>. QED BY <1>8, <2>1, <2>5, <2>6, <2>7, <2>8 DEF op, n
<1>9. CASE Durable /\ InFlight # {t}
  <2>1. row = Lost
    BY <1>1, <1>9 DEF RowInv
  <2>2. row' = Lost
    BY <1>1, <1>9, <2>1
  <2>. QED BY <1>9, <2>1, <2>2 DEF RowInv
<1>. QED BY <1>7, <1>8, <1>9

(* Every step keeps the row, and a row grows by a failure that is written  *)
(* with its count and its cooldown.                                        *)
LEMMA StepKeepsRow ==
  ASSUME ScheduleInv, ScheduleInv', RowInv, [DisclosureNext]_disclosureVars
  PROVE  /\ RowInv'
         /\ row # Lost /\ row' = row + 1 =>
              record'.failures = row' /\ record'.cooldown = Doubling[row']
<1>0. record \in MemberRecord /\ task \in [Reporters -> Report] /\ row \in Nat \cup {Lost}
  BY DEF ScheduleInv, DisclosureTypeOK, TypeOK
<1>1. row' = row => ~ (row # Lost /\ row' = row + 1)
  BY <1>0
<1>2. ASSUME row' = row, record' = record, task' = task PROVE RowInv'
  BY <1>2, SameCountsSameRow
<1>3. ASSUME Next
      PROVE  /\ RowInv'
             /\ row # Lost /\ row' = row + 1 =>
                  record'.failures = row' /\ record'.cooldown = Doubling[row']
  <2>1. ASSUME NEW t \in Reporters, Writes(t), row # Lost, row' = row + 1
        PROVE  record'.failures = row' /\ record'.cooldown = Doubling[row']
    <3>1. PICK op \in {"failure", "success", "probe", "admit", "revoke"}, rec \in MemberRecord :
            Written(op, rec) /\ Counts(op, rec.failures) /\ Apply(t, op, rec)
      BY <2>1 DEF Writes
    <3>2. row \in Nat /\ row' \in Nat \ {0} /\ row' # row
      BY <1>0, <2>1
    <3>3. ~Durable /\ record' = rec /\ row' = RowAfter(op)
      BY <2>1, <3>1, <3>2 DEF Apply, Lost
    <3>4. op = "failure"
      BY <2>1, <3>2, <3>3 DEF RowAfter
    <3>5. rec.failures = record.failures + 1 /\ ~Overflows(record.failures + 1) /\ record.failures \in Nat
      BY <1>0, <3>1, <3>4, RecordsAreRecords DEF Counts
    <3>6. record.failures = row
      BY <3>3, <3>5, OverflowStays DEF RowInv
    <3>7. rec.failures = row'
      BY <2>1, <3>5, <3>6
    <3>8. rec.failures \in 1 .. MaxFailures /\ rec.cooldown = NextCooldown(rec.failures)
      BY <3>1, <3>4 DEF Written
    <3>. QED BY <3>3, <3>7, <3>8, CooldownsDouble
  <2>2. ASSUME NEW t \in Reporters, Persist(t), row # Lost, row' = row + 1
        PROVE  record'.failures = row' /\ record'.cooldown = Doubling[row']
    <3>1. /\ task[t].op = "failure" /\ task[t].pc = "persist" /\ record' = task[t].rec
          /\ task[t].rec.failures = row'
      BY <2>2, PersistKeepsRow DEF Persist
    <3>2. task[t].rec.failures \in 1 .. MaxFailures /\ task[t].rec.cooldown = NextCooldown(task[t].rec.failures)
      BY <3>1 DEF ScheduleInv, Written
    <3>. QED BY <3>1, <3>2, CooldownsDouble
  <2>3. ASSUME NEW t \in Reporters, ReportOverflow(t) PROVE RowInv' /\ row' = row
    <3> DEFINE r == [pc |-> "raised", op |-> "failure", rec |-> record, read |-> record.state]
               n == record.failures + 1
    <3>1. /\ task' = [task EXCEPT ![t] = r] /\ task[t].pc = "idle" /\ row' = row
          /\ record' = IF Durable THEN record ELSE [record EXCEPT !.failures = n]
          /\ Overflows(n)
      BY <2>3 DEF ReportOverflow
    <3>2. r.pc = "raised"
      BY ReportFields
    <3>3. n \in Nat \ {0}
      BY <1>0, RecordsAreRecords
    <3>. HIDE DEF r
    <3>4. \A u \in Reporters : task'[u] = IF u = t THEN r ELSE task[u]
      BY <1>0, <3>1
    <3>5. CASE Durable
      <4>1. \A u \in Reporters : /\ task'[u].pc = "persist" <=> task[u].pc = "persist"
                                 /\ task'[u].pc = "persist" => task'[u] = task[u]
        BY <3>1, <3>2, <3>4
      <4>. QED BY <3>1, <3>5, <4>1, SameCountsSameRow
    <3>6. CASE ~Durable
      <4> HIDE DEF n
      <4>1. record'.failures = n
        BY <1>0, <3>1, <3>6 DEF MemberRecord
      <4>2. Overflows(record.failures)'
        BY <3>1, <4>1 DEF Overflows, Backoff
      <4>. QED BY <3>1, <3>3, <3>6, <4>1, <4>2 DEF RowInv
    <3>. QED BY <3>1, <3>5, <3>6
  <2>4. ASSUME NEW t \in Reporters, GiveUp(t) PROVE RowInv' /\ row' = row
    <3>1. /\ task' = [task EXCEPT ![t] = Resting] /\ task[t].pc = "raised" /\ row' = row /\ record' = record
          /\ Resting.pc = "idle"
      BY <2>4, FreshIsTyped DEF GiveUp
    <3>2. \A u \in Reporters : task'[u] = IF u = t THEN Resting ELSE task[u]
      BY <1>0, <3>1
    <3>3. \A u \in Reporters : /\ task'[u].pc = "persist" <=> task[u].pc = "persist"
                               /\ task'[u].pc = "persist" => task'[u] = task[u]
      BY <3>1, <3>2
    <3>. QED BY <3>1, <3>3, SameCountsSameRow
  <2>5. ASSUME Tick PROVE RowInv' /\ row' = row
    <3> DEFINE c == Later(record.cooldown)
               a == Later(record.accepted)
    <3>1. record' = [record EXCEPT !.cooldown = c, !.accepted = a] /\ task' = task /\ row' = row
      BY <2>5 DEF Tick
    <3>. HIDE DEF c, a
    <3>2. record'.failures = record.failures
      BY <1>0, <3>1 DEF MemberRecord
    <3>. QED BY <3>1, <3>2, SameCountsSameRow
  <2>6. ASSUME NextSecond PROVE RowInv' /\ row' = row
    BY <1>2, <2>6 DEF NextSecond
  <2>. QED BY <1>1, <1>3, <2>1, <2>2, <2>3, <2>4, <2>5, <2>6, ApplyKeepsRow, PersistKeepsRow, WriteCases
<1>4. ASSUME NEW full \in BOOLEAN, DiscloseMembers(full) PROVE RowInv' /\ row' = row
  <2>1. /\ task' = [t \in Reporters |-> [task[t] EXCEPT !.rec = Passed(task[t].rec)]]
        /\ record' = Passed(record) /\ row' = row
    BY <1>4 DEF DiscloseMembers
  <2>2. record'.failures = record.failures
    BY <1>0, <2>1, PassedKeeps
  <2>3. ASSUME NEW t \in Reporters
        PROVE  /\ task'[t].pc = task[t].pc /\ task'[t].op = task[t].op
               /\ task'[t].rec.failures = task[t].rec.failures
    <3> DEFINE q == Passed(task[t].rec)
    <3>1. task[t] \in Report /\ task'[t] = [task[t] EXCEPT !.rec = q]
      BY <1>0, <2>1
    <3>2. q.failures = task[t].rec.failures
      BY <3>1, PassedKeeps DEF Report
    <3>. HIDE DEF q
    <3>. QED BY <3>1, <3>2 DEF Report
  <2>. QED BY <2>1, <2>2, <2>3, SameCountsSameRow
<1>5. ASSUME ChangePolicy \/ UNCHANGED disclosureVars PROVE RowInv' /\ row' = row
  BY <1>2, <1>5 DEF ChangePolicy, disclosureVars, vars
<1>. QED BY <1>1, <1>3, <1>4, <1>5 DEF DisclosureNext, Write

(* The record counts the row of failures that were reported.               *)
THEOREM RowInvariance == DisclosureSpec => []RowInv
<1>1. DisclosureInit => RowInv
  <2>1. Fresh.failures = 0
    BY DEF Fresh
  <2>. QED BY <2>1, FreshIsTyped DEF DisclosureInit, Init, RowInv, Lost
<1>2. ScheduleInv /\ ScheduleInv' /\ RowInv /\ [DisclosureNext]_disclosureVars => RowInv'
  BY StepKeepsRow
<1>. QED BY <1>1, <1>2, ScheduleInvariance, PTL DEF DisclosureSpec

(* The n-th failure in a row is recorded as the n-th and puts the peer off *)
(* for the n-th term of the doubling schedule, whatever else writes the    *)
(* record meanwhile, as long as no two reports overlap in a store of       *)
(* copies.                                                                 *)
THEOREM FailuresFollowTheSchedule == DisclosureSpec => BackoffSchedule
<1>1. ScheduleInv /\ ScheduleInv' /\ RowInv /\ [DisclosureNext]_disclosureVars =>
        [row # Lost /\ row' = row + 1 =>
           record'.failures = row' /\ record'.cooldown = Doubling[row']]_vars
  BY StepKeepsRow
<1>. QED BY <1>1, ScheduleInvariance, RowInvariance, PTL DEF DisclosureSpec, BackoffSchedule

(* A write that adds failures leaves the peer ineligible, unless it is a   *)
(* probe's copy, as long as next_cooldown raises for no count that is      *)
(* reached or the store returns copies: with MembershipTable, whose get    *)
(* returns the object it holds, the failure that raises is counted and     *)
(* starts no cooldown.                                                     *)
THEOREM FailuresAreFollowedByCooldowns ==
  ASSUME Durable \/ \A n \in 1 .. MaxFailures : ~Overflows(n)
  PROVE  DisclosureSpec => FailuresCool
<1>1. ASSUME ScheduleInv, [DisclosureNext]_disclosureVars, record'.failures > record.failures
      PROVE  \/ ~IsEligible(record')
             \/ \E t \in InFlight : task[t].op = "probe" /\ task'[t] = Resting
  <2>0. record \in MemberRecord /\ record.failures \in Nat
    BY <1>1, RecordsAreRecords DEF ScheduleInv, DisclosureTypeOK, TypeOK
  <2>1. CASE Next
    <3>1. ASSUME NEW t \in Reporters, Writes(t) PROVE ~IsEligible(record')
      <4>1. PICK op \in {"failure", "success", "probe", "admit", "revoke"}, rec \in MemberRecord :
              Written(op, rec) /\ Counts(op, rec.failures) /\ Apply(t, op, rec)
        BY <3>1 DEF Writes
      <4>2. record' = rec
        BY <1>1, <2>0, <4>1 DEF Apply
      <4>. QED BY <1>1, <2>0, <4>1, <4>2 DEF Written, Counts
    <3>2. ASSUME NEW t \in Reporters, ReportOverflow(t) PROVE FALSE
      <4> DEFINE n == record.failures + 1
      <4>1. n \in 1 .. MaxFailures
        BY <2>0, <3>2, HealthAssumption DEF ReportOverflow
      <4>2. Durable
        BY <3>2, <4>1 DEF ReportOverflow
      <4>. QED BY <1>1, <2>0, <3>2, <4>2 DEF ReportOverflow
    <3>3. ASSUME NEW t \in Reporters, Persist(t)
          PROVE  ~IsEligible(record') \/ (t \in InFlight /\ task[t].op = "probe" /\ task'[t] = Resting)
      <4>1. record' = task[t].rec /\ task[t].pc = "persist" /\ task' = [task EXCEPT ![t] = Resting]
        BY <1>1, <2>0, <3>3 DEF Persist
      <4>2. t \in InFlight /\ task'[t] = Resting
        BY <1>1, <4>1 DEF InFlight, ScheduleInv, DisclosureTypeOK, TypeOK
      <4>. QED BY <1>1, <2>0, <4>1, <4>2 DEF ScheduleInv, Written
    <3>4. ASSUME NEW t \in Reporters, GiveUp(t) PROVE FALSE
      BY <1>1, <2>0, <3>4 DEF GiveUp
    <3>5. ASSUME Tick PROVE FALSE
      <4> DEFINE c == Later(record.cooldown)
                 a == Later(record.accepted)
      <4>1. record' = [record EXCEPT !.cooldown = c, !.accepted = a]
        BY <3>5 DEF Tick
      <4>. HIDE DEF c, a
      <4>2. record'.failures = record.failures
        BY <2>0, <4>1 DEF MemberRecord
      <4>. QED BY <1>1, <2>0, <4>2
    <3>6. ASSUME NextSecond PROVE FALSE
      BY <1>1, <2>0, <3>6 DEF NextSecond
    <3>. QED BY <1>1, <2>1, <3>1, <3>2, <3>3, <3>4, <3>5, <3>6, WriteCases
  <2>2. CASE \E full \in BOOLEAN : DiscloseMembers(full)
    <3>1. record'.failures = record.failures
      BY <2>0, <2>2, PassedKeeps DEF DiscloseMembers
    <3>. QED BY <1>1, <2>0, <3>1
  <2>3. CASE ChangePolicy \/ UNCHANGED disclosureVars
    BY <1>1, <2>0, <2>3 DEF ChangePolicy, disclosureVars, vars
  <2>. QED BY <1>1, <2>1, <2>2, <2>3 DEF DisclosureNext, Write
<1>2. ScheduleInv /\ [DisclosureNext]_disclosureVars =>
        [record'.failures > record.failures =>
           \/ ~IsEligible(record')
           \/ \E t \in InFlight : task[t].op = "probe" /\ task'[t] = Resting]_vars
  BY <1>1
<1>. QED BY <1>2, ScheduleInvariance, PTL DEF DisclosureSpec, FailuresCool
=============================================================================
