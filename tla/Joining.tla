------------------------------ MODULE Joining ------------------------------
(***************************************************************************)
(* How a node joins a federation and uses it (README, "Joining a           *)
(* federation"): it bootstraps from its seeds, records those that accepted *)
(* it, discovers further peers from them, and fans an operation out to the *)
(* peers it may select.  The modules composed are one helper each; this    *)
(* one adds what the facade does between them, while the clock runs and    *)
(* other peers introduce themselves.                                       *)
(***************************************************************************)
EXTENDS SeedBootstrap, DiscoverySweep, FanOut

CONSTANTS
  Webs,         \* what the URLs may serve
  Introducers,  \* nodes that may introduce themselves to this one
  Revocable     \* nodes that may have been revoked before

ASSUME JoiningAssumption ==
  /\ Webs \subseteq [Urls -> Manifests \cup {Nothing, Trickle}]
  /\ Peers = Nodes /\ Revocable \subseteq Nodes /\ Introducers \subseteq Nodes

VARIABLES
  stage,   \* what the host of this node is at
  left,    \* the manifests of the last report still to be recorded
  stalled, \* the answer that the join awaits trickles in
  lost     \* history: a discovery raised

joinVars == <<web, now, bootVars, sweepVars, fanVars, stage, left, stalled, lost>>

Stages == {"start", "boot", "record", "discover", "remember", "select", "operate", "done"}

JoinTypeOK ==
  /\ WebType /\ BootType /\ SweepType /\ FanType
  /\ stage \in Stages /\ left \subseteq Manifests /\ stalled \in BOOLEAN /\ lost \in BOOLEAN

JoinInit ==
  /\ web \in Webs /\ now = 0
  /\ BootInit /\ sweep = SweepIdle /\ FanInit
  /\ \E R \in SUBSET Revocable : table = [n \in Nodes |-> IF n \in R THEN "revoked" ELSE "absent"]
  /\ peer_manifests = [n \in Nodes |-> NoManifest]
  /\ stage = "start" /\ left = {} /\ stalled = FALSE /\ lost = FALSE

At(s) == stage = s
Goto(s) == stage' = s

Begin ==
  /\ At("start") /\ Goto("boot") /\ BootCalled
  /\ UNCHANGED <<web, now, sweepVars, fanVars, left, lost>>

Bootstrap ==
  /\ At("boot") /\ BootStep
  /\ UNCHANGED <<web, now, sweepVars, fanVars, stage, left, lost>>

(* The report is there; an exception of the bootstrap leaves nothing to    *)
(* record, and the host goes on with the peers it has.                     *)
BootstrapDone ==
  /\ At("boot") /\ Goto("record") /\ BootTaken
  /\ left' = {web[u] : u \in {v \in Seeds : boot.report[v] = "accepted"}}
  /\ UNCHANGED <<web, now, sweepVars, fanVars, lost>>

(* _record_peer, as one step: a REVOKED record stays as it is. *)
RecordManifest(m) ==
  IF table[m.node] = "revoked" THEN UNCHANGED <<table, peer_manifests>>
  ELSE /\ table' = [table EXCEPT ![m.node] = "active"]
       /\ peer_manifests' = [peer_manifests EXCEPT ![m.node] = m]

RecordSeed ==
  /\ At("record")
  /\ \E m \in left : RecordManifest(m) /\ left' = left \ {m}
  /\ UNCHANGED <<web, now, bootVars, sweep, fanVars, stage, lost>>

Discover ==
  /\ At("record") /\ left = {} /\ Goto("discover") /\ SweepCalled
  /\ UNCHANGED <<web, now, bootVars, fanVars, left, lost>>

Sweep ==
  /\ At("discover") /\ SweepStep
  /\ UNCHANGED <<web, now, bootVars, fanVars, stage, left, lost>>

SweepDone ==
  /\ At("discover") /\ sweep.pc \in {"returned", "raised"} /\ Goto("remember")
  /\ left' = sweep.accepted /\ lost' = (sweep.pc = "raised")
  /\ sweep' = SweepIdle
  /\ UNCHANGED <<web, now, bootVars, table, peer_manifests, fanVars>>

(* discover, after the sweep: _remember_manifest *)
RememberDiscovered ==
  /\ At("remember")
  /\ \E m \in left :
       peer_manifests' = [peer_manifests EXCEPT ![m.node] = m] /\ left' = left \ {m}
  /\ UNCHANGED <<web, now, bootVars, table, sweep, fanVars, stage, lost>>

DiscoverDone ==
  /\ At("remember") /\ left = {} /\ Goto("select")
  /\ UNCHANGED <<web, now, bootVars, sweepVars, fanVars, left, lost>>

(* select_peers *)
SelectPeers == {n \in EligiblePeers : peer_manifests[n] # NoManifest}

Operate ==
  /\ At("select") /\ Goto("operate") /\ FanOutCalled(SelectPeers)
  /\ UNCHANGED <<web, now, bootVars, sweepVars, left, lost>>

(* The calls, and the peers at any time *)
CallProgress(p) ==
  /\ CallStep(p)
  /\ UNCHANGED <<web, now, bootVars, sweepVars, stage, left, stalled, lost>>

FanProgress ==
  /\ FanOutReturns
  /\ UNCHANGED <<web, now, bootVars, sweepVars, stage, left, lost>>

OperateDone ==
  /\ At("operate") /\ Goto("done") /\ FanOutTaken
  /\ UNCHANGED <<web, now, bootVars, sweepVars, left, lost>>

(* A peer introduces itself and another task of the host admits it. *)
IntroducesItself(m) ==
  /\ m.node \in Introducers /\ peer_manifests[m.node] # m
  /\ "accepted" \in AdmitManifest(m, Policy, now)
  /\ RecordManifest(m)
  /\ UNCHANGED <<web, now, bootVars, sweep, fanVars, stage, left, stalled, lost>>

(* The response of the seed that client.introduce, or of the source that   *)
(* client.get_members awaits, trickles in: each read of it is in time, and *)
(* nothing limits how many there are.                                      *)
AnswerTrickles ==
  /\ \/ At("boot") /\ boot.pc = "introduce"
     \/ At("discover") /\ sweep.pc = "source" /\ \E n \in sweep.sources : peer_manifests[n] # NoManifest
  /\ stalled' = TRUE
  /\ UNCHANGED <<web, now, bootVars, sweepVars, fanVars, stage, left, lost>>

(* It has ended after all. *)
AnswerEnds ==
  /\ stalled /\ stalled' = FALSE
  /\ UNCHANGED <<web, now, bootVars, sweepVars, fanVars, stage, left, lost>>

(* What the other side does: a seed decides, a peer executes or breaks     *)
(* off; and time passes, as long as something still reads the clock.       *)
Elsewhere ==
  \/ /\ SeedDecides
     /\ UNCHANGED <<web, now, sweepVars, fanVars, stage, left, stalled, lost>>
  \/ /\ \E p \in Peers : PeerStep(p)
     /\ UNCHANGED <<web, now, bootVars, sweepVars, stage, left, stalled, lost>>
  \/ /\ Tick /\ stage \notin {"operate", "done"}
     /\ UNCHANGED <<bootVars, sweepVars, fanVars, stage, left, stalled, lost>>
  \/ AnswerTrickles \/ AnswerEnds

(* The host's own task *)
HostStep ==
  /\ ~stalled /\ UNCHANGED stalled
  /\ \/ Begin \/ Bootstrap \/ BootstrapDone \/ RecordSeed \/ Discover \/ Sweep \/ SweepDone
     \/ RememberDiscovered \/ DiscoverDone \/ Operate \/ FanProgress \/ OperateDone

JoinNext ==
  \/ HostStep \/ Elsewhere
  \/ \E p \in Peers : CallProgress(p)
  \/ \E m \in Manifests : IntroducesItself(m)

JoinSpec == JoinInit /\ [][JoinNext]_joinVars

(* The event loop runs each ready task, and httpx ends a read that stays   *)
(* silent (client.py: timeout=10.0); an answer that trickles in it awaits. *)
(* Nothing obliges a peer or a seed.                                       *)
JoinFairness == WF_joinVars(HostStep) /\ \A p \in Peers : WF_joinVars(CallProgress(p))

JoinFairSpec == JoinSpec /\ JoinFairness
----------------------------------------------------------------------------
(* Properties *)

(* An operation is sent only to peers whose manifest was verified and met  *)
(* the local policy when it was admitted, and to none that was revoked     *)
(* before this node joined, whoever named them and whatever was late,      *)
(* lost, duplicated or wrong on the way.                                   *)
OnlyAdmittedCalled ==
  \A n \in Nodes : fan.call[n] # "none" =>
    WasAdmissible(peer_manifests[n]) /\ peer_manifests[n].node = n /\ table[n] = "active"

(* After a discovery, each active record has its manifest (select_peers    *)
(* can use it), unless a callback raised in the middle of the sweep: then  *)
(* the peers already recorded are left without one.                        *)
RecordsHaveManifests ==
  stage \in {"select", "operate", "done"} /\ ~lost =>
    \A n \in EligiblePeers : peer_manifests[n] # NoManifest

(* Joining comes to an end from wherever it is, whichever seeds, sources   *)
(* and peers are silent, wrong or gone; only a peer whose answer trickles  *)
(* in can keep the host waiting: fetch_manifest, introduce, get_members    *)
(* and a call without a timeout have a limit for each read and none for    *)
(* the whole.                                                              *)
JoinEnds ==
  stage \notin {"start", "done"} ~>
    \/ stage = "done" \/ stalled
    \/ (\E u \in Urls : web[u] = Trickle) \/ (\E p \in Peers : wire[p] = "trickle")
=============================================================================
