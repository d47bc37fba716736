----------------------- MODULE FederationNodeReturns -----------------------
(***************************************************************************)
(* FederationNode where an awaited call need not end.  The HTTP client     *)
(* limits each read and not the response, and the stores of the host have  *)
(* no limit: a peer that sends its manifest or its members byte by byte, a *)
(* store that does not answer, keep a task where it is, and with it the    *)
(* lifecycle lock if the task holds it.                                    *)
(***************************************************************************)
EXTENDS FederationNode

VARIABLE stuck  \* tasks in a call that never ends

returnsVars == <<vars, stuck>>

(* What is read next, is read under the lock. *)
NeedsLock(l) == l.pc \in {"record", "apply", "revoke"}

(* The task awaits a peer or a store. *)
Awaits(l) ==
  \/ l.pc \in {"fetch", "fetching", "record", "revoke", "persist", "admit", "quarantine",
               "reject", "delete", "mark_revoked"}
  \/ l.pc = "sweep" /\ l.srcs \cup l.refs # {}
  \/ l.pc = "apply" /\ Undone(l) # {}

(* The call that task t awaits does not end. *)
Hang(t) ==
  /\ t \notin stuck /\ Awaits(task[t])
  /\ IF NeedsLock(task[t]) THEN Acquire(t) ELSE UNCHANGED lifecycle_lock
  /\ stuck' = stuck \cup {t}
  /\ UNCHANGED <<membership_table, manifest_store, peer_manifests, up, task>>

ReturnsInit == Init /\ stuck = {}

(* Some calls end after all, or are given up with their task. *)
ReturnsNext ==
  \/ Next /\ stuck' = {t \in stuck : task'[t] = task[t]}
  \/ \E t \in Tasks : Hang(t)

(* Every call of task t ends. *)
GoOn(t) == t \notin stuck /\ Step(t) /\ UNCHANGED stuck
GetLock(t) == t \notin stuck /\ TakeLock(t) /\ UNCHANGED stuck

(* The event loop runs every ready task; asyncio.Lock wakes its waiters in *)
(* the order they came, so a task that finds the lock free again and again *)
(* takes it.  Nothing obliges the host to call an operation, and nothing   *)
(* obliges a call to end.                                                  *)
Fairness == \A t \in Tasks : WF_returnsVars(GoOn(t)) /\ SF_returnsVars(GetLock(t))

FairSpec == ReturnsInit /\ [][ReturnsNext]_returnsVars /\ Fairness
----------------------------------------------------------------------------
(* Every operation that a task has started returns, unless a call of its   *)
(* own never ends or one that is made inside the lifecycle lock never      *)
(* does: no path through the facade leaves the lock held or waits for it   *)
(* in vain, and a peer that does not finish its answer, which is awaited   *)
(* outside the lock, keeps nobody else (_lifecycle_lock, node.py).         *)
OperationsReturn ==
  \A t \in Tasks : ~At(t, "idle") ~>
    At(t, "idle") \/ t \in stuck \/ lifecycle_lock \in stuck
=============================================================================
