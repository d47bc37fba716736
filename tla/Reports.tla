------------------------------ MODULE Reports ------------------------------
(***************************************************************************)
(* What federlet's batch operations promise their caller ("every target    *)
(* lands in `succeeded` or `failed`", fanout.py; SeedBootstrapReport,      *)
(* DiscoveryRefreshReport): each item of the batch is reported exactly     *)
(* once, under one outcome, and the report is handed over only when all    *)
(* are.  A source of discovery is replaced by the items it contributes.    *)
(***************************************************************************)
CONSTANTS
  Items, Outcomes,
  Sources,      \* the items that may be replaced by others
  MayRaise      \* an item may fail with an exception that ends the operation

VARIABLES
  phase,    \* where the operation is
  batch,    \* the items to be reported
  outcome   \* the outcome of each, or "none"

reportVars == <<phase, batch, outcome>>

NoOutcomes == [i \in Items |-> "none"]

Init == phase = "idle" /\ batch = {} /\ outcome = NoOutcomes

Begin ==
  /\ phase = "idle" /\ phase' = "running"
  /\ batch' \subseteq Items
  /\ UNCHANGED outcome

Settle(i, o) ==
  /\ phase = "running" /\ i \in batch /\ outcome[i] = "none"
  /\ outcome' = [outcome EXCEPT ![i] = o]
  /\ UNCHANGED <<phase, batch>>

(* A source answers: it gives way to items that are not in the batch yet. *)
Expand(i) ==
  /\ phase = "running" /\ i \in batch \cap Sources /\ outcome[i] = "none"
  /\ batch \ {i} \subseteq batch' /\ batch' \subseteq Items \ {i}
  /\ UNCHANGED <<phase, outcome>>

Return ==
  /\ phase = "running" /\ phase' = "returned"
  /\ \A i \in batch : outcome[i] # "none"
  /\ UNCHANGED <<batch, outcome>>

(* No report: an item's exception, where that is possible. *)
Raise ==
  /\ MayRaise /\ phase = "running" /\ phase' = "raised"
  /\ batch' = {} /\ outcome' = NoOutcomes

(* The caller takes note and may start again. *)
Take ==
  /\ phase \in {"returned", "raised"} /\ phase' = "idle"
  /\ batch' = {} /\ outcome' = NoOutcomes

Next ==
  \/ Begin \/ Return \/ Raise \/ Take
  \/ \E i \in Items : Expand(i) \/ \E o \in Outcomes : Settle(i, o)

Spec == Init /\ [][Next]_reportVars
=============================================================================
