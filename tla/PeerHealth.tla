----------------------------- MODULE PeerHealth -----------------------------
(***************************************************************************)
(* The health and backoff policy of membership.py over the record of one   *)
(* peer; records of different peers do not interact.  The host follows the *)
(* documented pattern, read, apply the policy, persist, from several tasks *)
(* at once, and the facade revokes in the same way.                        *)
(*                                                                         *)
(* Times are kept as the ticks that are left: cooldown until               *)
(* cooldown_until, accepted until accepted_until.  A tick is at least a    *)
(* second, and a store call takes less than a tick.  last_refresh is kept  *)
(* relative to the since cursor of one requester of the membership (module *)
(* Disclosure): it is None, not after the cursor, or after it; without a   *)
(* cursor every stamp is after it.                                         *)
(***************************************************************************)
EXTENDS Integers, FiniteSetsExt

CONSTANTS
  Reporters,      \* tasks that write the record
  Durable,        \* TRUE: a store whose get returns a copy; FALSE: MembershipTable,
                  \* whose get returns the object it holds
  WholeSeconds,   \* the store keeps records as JSON, their times cut to whole seconds
  BaseCooldown,   \* CooldownPolicy.base_cooldown
  MaxCooldown,    \* CooldownPolicy.max_cooldown
  MaxDelta,       \* timedelta.max
  AcceptedFor,    \* how long the host admits the peer for
  NoLimit,        \* no accepted_until
  MaxFailures     \* bound of the model: failures are reported up to this count

ASSUME HealthAssumption ==
  /\ Durable \in BOOLEAN /\ WholeSeconds \in BOOLEAN /\ (WholeSeconds => Durable)
  /\ BaseCooldown \in Nat \ {0} /\ MaxCooldown \in Nat \ {0} /\ MaxDelta \in Nat
  /\ AcceptedFor \subseteq Nat \cup {NoLimit} /\ NoLimit \notin Nat
  /\ MaxFailures \in Nat

VARIABLES
  record,       \* the MemberRecord the store holds
  task,         \* what each reporter is about to persist
  same_second,  \* it is still the second of the since cursor
  row           \* history: the failures recorded in a row, or Lost

vars == <<record, task, same_second, row>>

States == {"active", "cooldown", "stale_manifest", "rejected", "revoked"}

Stamps == {"never", "before", "after"}

MemberRecord ==
  [state : States, failures : Nat, cooldown : 0 .. MaxCooldown, accepted : Nat \cup {NoLimit},
   last_refresh : Stamps]

(* What a reporter is about to persist; `read' is history, the state of    *)
(* the record it started from.                                             *)
Report ==
  [pc : {"idle", "persist", "raised"},
   op : {"none", "failure", "success", "probe", "admit", "revoke"},
   rec : MemberRecord, read : States]

(* Reports that overlap in a store of copies overwrite each other: no row  *)
(* is counted then, until a success or an admission that overlaps nothing. *)
Lost == -1

TypeOK ==
  /\ record \in MemberRecord /\ task \in [Reporters -> Report]
  /\ same_second \in BOOLEAN /\ row \in Nat \cup {Lost}

Fresh == [state |-> "active", failures |-> 0, cooldown |-> 0, accepted |-> NoLimit,
          last_refresh |-> "never"]
Resting == [pc |-> "idle", op |-> "none", rec |-> Fresh, read |-> Fresh.state]

Init ==
  /\ record = Fresh /\ task = [t \in Reporters |-> Resting]
  /\ same_second = FALSE /\ row = 0

----------------------------------------------------------------------------
(* The policy *)

(* is_eligible *)
IsEligible(rec) == rec.state = "active" /\ rec.cooldown = 0 /\ rec.accepted # 0

(* 1 << k *)
Shifted[k \in Nat] == IF k = 0 THEN 1 ELSE 2 * Shifted[k - 1]

(* Fault: the first failure already counts double. *)
BackoffEarly(failures) == BaseCooldown * Shifted[failures]

(* base_cooldown * (1 << max(failures - 1, 0)), a timedelta *)
Backoff(failures) == BaseCooldown * Shifted[Max({failures - 1, 0})]

(* timedelta arithmetic raises OverflowError beyond timedelta.max. *)
Overflows(failures) == Backoff(failures) > MaxDelta

(* Fault: the backoff is not capped. *)
NextCooldownUncapped(failures) == Backoff(failures)

(* next_cooldown, where it returns *)
NextCooldown(failures) == Min({Backoff(failures), MaxCooldown})

(* The present time, as the store will keep it.  Cut to its second, a time *)
(* in the second of the cursor is not after the cursor (_ser_ts, iso_z).   *)
Stamp == IF WholeSeconds /\ same_second THEN "before" ELSE "after"

(* _touch: the stamp that since cursors read *)
Touch(rec) == [rec EXCEPT !.last_refresh = Stamp]

(* Fault: the failure is counted and no cooldown is started. *)
RecordFailureCountsOnly(rec) == Touch([rec EXCEPT !.failures = @ + 1])

RecordFailure(rec) ==
  Touch([rec EXCEPT !.failures = @ + 1, !.cooldown = NextCooldown(rec.failures + 1)])

(* Fault: a success makes any record ACTIVE. *)
RecordSuccessActivates(rec) ==
  Touch([rec EXCEPT !.failures = 0, !.cooldown = 0, !.state = "active"])

(* Fault: a success is not stamped. *)
RecordSuccessUnstamped(rec) ==
  [rec EXCEPT !.failures = 0, !.cooldown = 0,
              !.state = IF @ = "cooldown" THEN "active" ELSE @]

RecordSuccess(rec) ==
  Touch([rec EXCEPT !.failures = 0, !.cooldown = 0,
                    !.state = IF @ = "cooldown" THEN "active" ELSE @])

Admit(rec, until) ==
  Touch([rec EXCEPT !.state = "active", !.accepted = until, !.failures = 0, !.cooldown = 0])

SetState(rec, state) == Touch([rec EXCEPT !.state = state])

----------------------------------------------------------------------------
(* History *)
InFlight == {t \in Reporters : task[t].pc = "persist"}

RowAfter(op) ==
  IF op \in {"success", "admit"} THEN 0
  ELSE IF op = "failure" /\ row # Lost THEN row + 1 ELSE row

(* Task t has read the record, applied the policy and calls upsert.  With  *)
(* MembershipTable it has changed the very object the table holds.         *)
Apply(t, op, rec) ==
  /\ task[t].pc = "idle"
  /\ task' = [task EXCEPT ![t] =
              [pc |-> "persist", op |-> op, rec |-> rec, read |-> record.state]]
  /\ record' = IF Durable THEN record ELSE rec
  /\ row' = IF ~Durable THEN RowAfter(op) ELSE IF InFlight = {} THEN row ELSE Lost
  /\ UNCHANGED same_second

ReportFailure(t) ==
  /\ record.failures < MaxFailures /\ ~Overflows(record.failures + 1)
  /\ Apply(t, "failure", RecordFailure(record))

(* record_failure counts the failure, then raises. *)
ReportOverflow(t) ==
  /\ task[t].pc = "idle"
  /\ record.failures < MaxFailures /\ Overflows(record.failures + 1)
  /\ record' = IF Durable THEN record ELSE [record EXCEPT !.failures = @ + 1]
  /\ task' = [task EXCEPT ![t] =
              [pc |-> "raised", op |-> "failure", rec |-> record, read |-> record.state]]
  /\ UNCHANGED <<same_second, row>>

ReportSuccess(t) == Apply(t, "success", RecordSuccess(record))

(* set_state with the state that probe_peer_health suggests; neither looks *)
(* at the state the record is in.                                          *)
ApplyProbe(t) ==
  \E state \in {"active", "cooldown"} : Apply(t, "probe", SetState(record, state))

(* The host admits the peer, for as long as it likes. *)
AdmitPeer(t) == \E until \in AcceptedFor : Apply(t, "admit", Admit(record, until))

Revoke(t) == Apply(t, "revoke", SetState(record, "revoked"))

(* upsert *)
Persist(t) ==
  /\ task[t].pc = "persist"
  /\ record' = IF Durable THEN task[t].rec ELSE record
  /\ task' = [task EXCEPT ![t] = Resting]
  /\ row' = IF Durable /\ InFlight = {t} THEN RowAfter(task[t].op) ELSE row
  /\ UNCHANGED same_second

GiveUp(t) ==
  /\ task[t].pc = "raised"
  /\ task' = [task EXCEPT ![t] = Resting]
  /\ UNCHANGED <<record, same_second, row>>

Later(ticks) == IF ticks \in Nat \ {0} THEN ticks - 1 ELSE ticks

Tick ==
  /\ \A t \in Reporters : task[t].pc = "idle"
  /\ record' = [record EXCEPT !.cooldown = Later(@), !.accepted = Later(@)]
  /\ same_second' = FALSE
  /\ UNCHANGED <<task, row>>

(* A second begins; what is under way goes on. *)
NextSecond ==
  /\ same_second /\ same_second' = FALSE
  /\ UNCHANGED <<record, task, row>>

Next ==
  \/ \E t \in Reporters :
       \/ ReportFailure(t) \/ ReportOverflow(t) \/ ReportSuccess(t) \/ ApplyProbe(t)
       \/ AdmitPeer(t) \/ Revoke(t) \/ Persist(t) \/ GiveUp(t)
  \/ Tick \/ NextSecond

Spec == Init /\ [][Next]_vars
----------------------------------------------------------------------------
(* Properties *)

(* A peer is not selected again before a cooldown has passed: no write     *)
(* that adds to its failures leaves it eligible ("MembershipTable can      *)
(* model cooldown for repeatedly failing peers", README).  The copy that a *)
(* probe sets a state in may carry the failures a success has cleared      *)
(* since: that write adds failures which have had their cooldown.          *)
FailuresCool ==
  [][record'.failures > record.failures =>
       \/ ~IsEligible(record')
       \/ \E t \in InFlight : task[t].op = "probe" /\ task'[t] = Resting]_vars

(* The schedule by doubling: base, twice that, and so on up to the cap. *)
Doubling[n \in 1 .. MaxFailures] ==
  IF n = 1 THEN Min({BaseCooldown, MaxCooldown}) ELSE Min({2 * Doubling[n - 1], MaxCooldown})

(* The n-th failure in a row puts the peer off for the n-th term of the    *)
(* doubling schedule (CooldownPolicy: "Exponential backoff schedule").     *)
(* The row counts what was reported, apart from the record's own count; it *)
(* is lost while reports overlap in a store of copies, where one of two    *)
(* failures is overwritten.                                                *)
BackoffSchedule ==
  [][row # Lost /\ row' = row + 1 =>
       record'.failures = row' /\ record'.cooldown = Doubling[row']]_vars

(* The report whose write is the present step: persisted in a store of     *)
(* copies, applied to the very object in MembershipTable.                  *)
WriteOf(t) == IF Durable THEN task[t] ELSE task'[t]

(* No failure and no success that finds the record revoked brings the peer *)
(* back (record_success: only COOLDOWN becomes ACTIVE).  A revocation is   *)
(* undone by a write that names a state, an admission or the outcome of a  *)
(* probe, or by a report that read the record before it was revoked.       *)
RevokedStays ==
  [][record.state = "revoked" /\ record'.state # "revoked" =>
       \E t \in Reporters :
         /\ task'[t] # task[t] /\ WriteOf(t).pc = "persist"
         /\ WriteOf(t).op \in {"admit", "probe"} \/ WriteOf(t).read # "revoked"]_vars
=============================================================================
