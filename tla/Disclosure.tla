----------------------------- MODULE Disclosure -----------------------------
(***************************************************************************)
(* What a node tells a requester about one of its members: the response to *)
(* GET /members, disclose_members over the stored records, polled with a   *)
(* since cursor while the health policy of PeerHealth writes the record.   *)
(*                                                                         *)
(* The cursor a requester comes back with is the time at which the store   *)
(* was read for the last response it received, the latest that loses no    *)
(* finished write; a response that is lost moves no cursor and is a step   *)
(* that changes nothing.  Polling moves the cursor, so a stamp after it    *)
(* becomes one before it, in the store and in every report under way.      *)
(***************************************************************************)
EXTENDS PeerHealth

VARIABLES
  denied,     \* the peer is in DisclosurePolicy.denied
  told,       \* the requester was told of the peer since it became eligible
  overtaken,  \* history: the reports not yet persisted whose stamp, as the store
              \* will keep it, is not after the cursor
  overlooked  \* history: the peer was made visible by something that left no
              \* stamp after the cursor

disclosureVars == <<vars, denied, told, overtaken, overlooked>>

DisclosureTypeOK ==
  /\ TypeOK
  /\ denied \in BOOLEAN /\ told \in BOOLEAN /\ overlooked \in BOOLEAN
  /\ overtaken \subseteq {t \in Reporters : task[t].pc = "persist"}

DisclosureInit ==
  /\ Init
  /\ denied \in BOOLEAN /\ told = FALSE /\ overtaken = {} /\ overlooked = FALSE

(* _disclosed_after: records without a stamp are disclosed, not hidden; a  *)
(* stamp has to be later than the cursor, not equal to it.                 *)
DisclosedAfter(rec) == rec.last_refresh # "before"

(* disclose_members, with a cursor or for the full set *)
Disclosed(rec, full) == IsEligible(rec) /\ ~denied /\ (full \/ DisclosedAfter(rec))

(* Seen from the cursor that is now, a stamp lies before it. *)
Passed(rec) == IF rec.last_refresh = "after" THEN [rec EXCEPT !.last_refresh = "before"] ELSE rec

DiscloseMembers(full) ==
  /\ told' = (told \/ Disclosed(record, full))
  /\ record' = Passed(record) /\ same_second' = TRUE
  /\ task' = [t \in Reporters |-> [task[t] EXCEPT !.rec = Passed(@)]]
  /\ overtaken' = overtaken \cup {t \in Reporters : task[t].pc = "persist" /\ DisclosedAfter(task[t].rec)}
  /\ overlooked' = (overlooked /\ ~told')
  /\ UNCHANGED <<denied, row>>

(* A write of the record, or time passing.  A cooldown that ends stamps    *)
(* nothing; a report that a poll overtook, or that is stored in whole      *)
(* seconds and was stamped in the second of the poll, nothing after it.    *)
Unstamped ==
  \/ Tick /\ ~IsEligible(record)
  \/ \E t \in overtaken : Persist(t)

Write ==
  /\ Next
  /\ told' = (told /\ IsEligible(record'))
  /\ overtaken' = {t \in Reporters :
       /\ task'[t].pc = "persist"
       /\ t \in overtaken \/ (task[t].pc = "idle" /\ Stamp = "before")}
  /\ overlooked' = ((overlooked \/ Unstamped) /\ ~DisclosedAfter(record') /\ ~told')
  /\ UNCHANGED denied

(* The host edits DisclosurePolicy.denied. *)
ChangePolicy ==
  /\ denied' = ~denied
  /\ told' = (told /\ ~denied')
  /\ overlooked' = ((overlooked \/ denied) /\ ~DisclosedAfter(record) /\ ~told')
  /\ UNCHANGED <<vars, overtaken>>

DisclosureNext == Write \/ ChangePolicy \/ \E full \in BOOLEAN : DiscloseMembers(full)

DisclosureSpec == DisclosureInit /\ [][DisclosureNext]_disclosureVars

(* An eligible member the requester has not been told of is in the next    *)
(* response, whatever cursor it comes with: no admission, report or state  *)
(* change goes unseen (_touch: "Stamp the lifecycle-write timestamp read   *)
(* by since disclosure cursors").  Four things leave no stamp after the    *)
(* cursor and are left out: a cooldown that ends, a policy that changes, a *)
(* report that was stamped before a poll and persisted after it, and one   *)
(* stamped in the very second of a poll that a store keeps as JSON, whose  *)
(* times are whole seconds.                                                *)
NothingMissed ==
  IsEligible(record) /\ ~denied /\ ~told /\ ~overlooked => Disclosed(record, FALSE)
=============================================================================
