--------------------------- MODULE SeedBootstrap ---------------------------
(***************************************************************************)
(* bootstrap_from_seeds (bootstrap.py): each seed in turn is fetched,      *)
(* admitted and introduced to.  `decided' is the seeds' side, what each    *)
(* made of the introduction: a request that this node has given up may     *)
(* still arrive, and an answer may be lost, or not verify, after the seed  *)
(* has decided.                                                            *)
(***************************************************************************)
EXTENDS ManifestWeb

CONSTANTS Seeds   \* seed_manifest_urls

ASSUME SeedAssumption == Seeds \subseteq Urls /\ Urls # {}

VARIABLES
  boot,     \* where bootstrap_from_seeds is, its locals and its report
  decided   \* what each seed decided about this node's introduction

bootVars == <<boot, decided>>

BootOutcomes == {"accepted", "rejected", "failed"}
NotReported == [u \in Seeds |-> "none"]

(* url is the seed at hand, todo those that follow, manifest what url      *)
(* served.                                                                 *)
BootType ==
  /\ boot \in [pc : {"idle", "next", "admit", "introduce", "returned", "raised"},
               todo : SUBSET Seeds, url : Urls, manifest : Manifests \cup {NoManifest},
               report : [Seeds -> BootOutcomes \cup {"none"}]]
  /\ decided \in [Seeds -> {"unasked", "asked", "accepted", "refused"}]

BootIdle ==
  [pc |-> "idle", todo |-> {}, url |-> CHOOSE u \in Urls : TRUE, manifest |-> NoManifest,
   report |-> NotReported]

Unasked == [u \in Seeds |-> "unasked"]

BootInit == boot = BootIdle /\ decided = Unasked

BootCalled ==
  /\ boot.pc = "idle"
  /\ boot' = [BootIdle EXCEPT !.pc = "next", !.todo = Seeds]
  /\ UNCHANGED decided

(* On to the next seed, this one being reported. *)
Reported(u, o) ==
  boot' = [boot EXCEPT !.pc = "next", !.todo = @ \ {u}, !.url = BootIdle.url,
                       !.manifest = NoManifest, !.report[u] = o]

FetchSeed ==
  /\ boot.pc = "next"
  /\ \E u \in boot.todo : \E m \in Fetches(u) :
       boot' = [boot EXCEPT !.pc = "admit", !.url = u, !.manifest = m]
  /\ UNCHANGED decided

(* Fault: a seed that cannot be fetched is left out of the report. *)
FetchSeedUnreported ==
  /\ boot.pc = "next"
  /\ \E u \in boot.todo : FetchMayFail(u) /\ boot' = [boot EXCEPT !.todo = @ \ {u}]
  /\ UNCHANGED decided

FetchSeedFails ==
  /\ boot.pc = "next"
  /\ \E u \in boot.todo : FetchMayFail(u) /\ Reported(u, "failed")
  /\ UNCHANGED decided

(* admit_manifest is called outside of the loop's try: an exception of a   *)
(* callback ends the bootstrap, and the outcomes so far are lost.          *)
AdmitSeed ==
  /\ boot.pc = "admit"
  /\ \E d \in AdmitManifest(boot.manifest, Policy, now) :
       \/ d = "accepted" /\ boot' = [boot EXCEPT !.pc = "introduce"]
                          /\ decided' = [decided EXCEPT ![boot.url] = "asked"]
       \/ d = "rejected" /\ Reported(boot.url, "rejected") /\ UNCHANGED decided
       \/ d = "raised"   /\ boot' = [BootIdle EXCEPT !.pc = "raised"] /\ UNCHANGED decided

(* The seed's handler of POST /members/introduce decides, sooner or later. *)
SeedDecides ==
  /\ \E u \in Seeds, d \in {"accepted", "refused"} :
       decided[u] = "asked" /\ decided' = [decided EXCEPT ![u] = d]
  /\ UNCHANGED boot

(* client.introduce returns the signed response. *)
Introduced ==
  /\ boot.pc = "introduce" /\ decided[boot.url] \in {"accepted", "refused"}
  /\ Reported(boot.url, IF decided[boot.url] = "accepted" THEN "accepted" ELSE "rejected")
  /\ UNCHANGED decided

(* Fault: an introduction that fails is reported as a rejection. *)
IntroductionRejected ==
  /\ boot.pc = "introduce"
  /\ Reported(boot.url, "rejected")
  /\ UNCHANGED decided

(* Fault: the client waits for the seed to decide. *)
IntroductionAwaited ==
  /\ boot.pc = "introduce" /\ decided[boot.url] # "asked"
  /\ Reported(boot.url, "failed")
  /\ UNCHANGED decided

(* client.introduce raises: the request or the answer was lost, or the     *)
(* answer is an HTTP error, malformed, or not signed by the seed.  As long *)
(* as an answer trickles in it does not (Joining: AnswerTrickles).         *)
IntroductionFails ==
  /\ boot.pc = "introduce"
  /\ Reported(boot.url, "failed")
  /\ UNCHANGED decided

BootReturns ==
  /\ boot.pc = "next" /\ boot.todo = {}
  /\ boot' = [boot EXCEPT !.pc = "returned"]
  /\ UNCHANGED decided

(* The caller has used the report; introductions that are still under way  *)
(* are not followed any further.                                           *)
BootTaken ==
  /\ boot.pc \in {"returned", "raised"}
  /\ boot' = BootIdle /\ decided' = Unasked

BootStep ==
  \/ FetchSeed \/ FetchSeedFails \/ AdmitSeed
  \/ Introduced \/ IntroductionFails \/ BootReturns
----------------------------------------------------------------------------
(* Properties *)

(* The report says of no seed more than both sides have done: an accepted  *)
(* seed met the local policy and has accepted this node; a seed that has   *)
(* accepted this node is accepted or, its answer being lost, failed, never *)
(* rejected (SeedBootstrapReport).                                         *)
SeedsAgree ==
  \A u \in Seeds :
    /\ boot.report[u] = "accepted" => decided[u] = "accepted" /\ WasAdmissible(web[u])
    /\ boot.report[u] = "rejected" => decided[u] # "accepted"

BootReport == INSTANCE Reports WITH
  Items <- Seeds, Outcomes <- BootOutcomes, Sources <- {}, MayRaise <- TRUE,
  phase <- IF boot.pc \in {"idle", "returned", "raised"} THEN boot.pc ELSE "running",
  batch <- IF boot.pc \in {"idle", "raised"} THEN {} ELSE Seeds,
  outcome <- boot.report

(* bootstrap_from_seeds reports every seed once, whatever fails.  Only an  *)
(* exception of a callback of the host leaves no report.                   *)
BootImplementsReports == BootReport!Spec
=============================================================================
