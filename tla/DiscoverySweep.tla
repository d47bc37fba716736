--------------------------- MODULE DiscoverySweep ---------------------------
(***************************************************************************)
(* One sweep of refresh_discovered_members (discovery.py) in the order of  *)
(* the code: the responses of the sources, the hints of each response one  *)
(* by one, and the report.  FederationNode has the same sweep interleaved  *)
(* with the other operations of the facade, its responses being sets.      *)
(***************************************************************************)
EXTENDS ManifestWeb

CONSTANTS
  Self,        \* client.node_id
  Refs,        \* the hints sources may give: [node, url]
  MaxHints,    \* bound of the model: hints in one response
  PerPeerCap   \* per_peer_cap

ASSUME SweepAssumption ==
  /\ Self \in Nodes /\ MaxHints \in Nat /\ PerPeerCap \in Nat
  /\ \A ref \in Refs : ref.node \in Nodes /\ ref.url \in Urls

VARIABLES
  table,           \* the MembershipStore: the state of each node's record
  peer_manifests,  \* the manifests the facade holds
  sweep            \* where the sweep is, its locals and its report

sweepVars == <<table, peer_manifests, sweep>>

SweepOutcomes == {"accepted", "rejected", "skipped", "failed"}

(* What is reported: the hints by source and position, and, at position 0, *)
(* a source that contributed none because its request failed.              *)
SweepItems == Nodes \X (0 .. MaxHints)
NothingReported == [i \in SweepItems |-> "none"]

(* sources are still to be asked; hints are the responses so far; source   *)
(* and index are the hint at hand, fetched the hints looked up (the code   *)
(* keeps their node_ids and URLs), accepted what is to be remembered.      *)
SweepType ==
  /\ table \in [Nodes -> {"absent", "active", "revoked"}]
  /\ peer_manifests \in [Nodes -> Manifests \cup {NoManifest}]
  /\ sweep \in [pc : {"idle", "source", "hint", "fetch", "admit", "returned", "raised"},
                sources : SUBSET Nodes, hints : [Nodes -> Seq(Refs)], source : Nodes, index : Nat,
                fetched : SUBSET SweepItems, manifest : Manifests \cup {NoManifest},
                accepted : SUBSET Manifests, report : [SweepItems -> SweepOutcomes \cup {"none"}]]

SweepIdle ==
  [pc |-> "idle", sources |-> {}, hints |-> [n \in Nodes |-> <<>>], source |-> Self, index |-> 0,
   fetched |-> {}, manifest |-> NoManifest, accepted |-> {}, report |-> NothingReported]

EligiblePeers == {n \in Nodes : table[n] = "active"}

SweepCalled ==
  /\ sweep.pc = "idle"
  /\ sweep' = [SweepIdle EXCEPT !.pc = "source", !.sources = EligiblePeers]
  /\ UNCHANGED <<table, peer_manifests>>

(* The hint at a position, and the one at hand *)
Ref(i) == sweep.hints[i[1]][i[2]]
Hint == Ref(<<sweep.source, sweep.index>>)

(* On to the next hint of this response, or else to the next source. *)
Advance(s) ==
  IF s.index < Len(s.hints[s.source]) THEN [s EXCEPT !.pc = "hint", !.index = @ + 1]
  ELSE [s EXCEPT !.pc = "source", !.source = Self, !.index = 0]

SourceAnswers ==
  /\ sweep.pc = "source"
  /\ \E n \in sweep.sources, response \in SeqOf(Refs, MaxHints) :
       /\ peer_manifests[n] # NoManifest
       /\ sweep' = Advance([sweep EXCEPT !.sources = @ \ {n}, !.source = n, !.hints[n] = response])
  /\ UNCHANGED <<table, peer_manifests>>

(* No manifest to ask it with, or get_members raises, which it does not as *)
(* long as an answer trickles in (Joining: AnswerTrickles).                *)
SourceFails ==
  /\ sweep.pc = "source"
  /\ \E n \in sweep.sources :
       sweep' = [sweep EXCEPT !.sources = @ \ {n}, !.report[<<n, 0>>] = "failed"]
  /\ UNCHANGED <<table, peer_manifests>>

(* The hint at hand is done with, and reported as o. *)
Settled(o) == Advance([sweep EXCEPT !.report[<<sweep.source, sweep.index>>] = o, !.manifest = NoManifest])

(* Fault: only a hint that was admitted is remembered as seen. *)
SeenIfAdmitted ==
  \E i \in sweep.fetched :
    sweep.report[i] = "accepted" /\ (Ref(i).node = Hint.node \/ Ref(i).url = Hint.url)

(* A hint of this node_id, or of this URL, was looked up before. *)
Seen == \E i \in sweep.fetched : Ref(i).node = Hint.node \/ Ref(i).url = Hint.url

(* Fault: the cap is taken for an index that starts at 1. *)
IsSkippedEarly ==
  \/ sweep.index >= PerPeerCap
  \/ Hint.node = Self
  \/ table[Hint.node] # "absent"
  \/ Seen

(* Past the cap (the code's index starts at 0), this node itself, a peer   *)
(* the table knows, or a duplicate.                                        *)
IsSkipped ==
  \/ sweep.index > PerPeerCap
  \/ Hint.node = Self
  \/ table[Hint.node] # "absent"
  \/ Seen

HintSkipped ==
  /\ sweep.pc = "hint" /\ IsSkipped
  /\ sweep' = Settled("skipped")
  /\ UNCHANGED <<table, peer_manifests>>

HintTaken ==
  /\ sweep.pc = "hint" /\ ~IsSkipped
  /\ sweep' = [sweep EXCEPT !.pc = "fetch", !.fetched = @ \cup {<<sweep.source, sweep.index>>}]
  /\ UNCHANGED <<table, peer_manifests>>

(* _process_ref, the fetch *)
FetchHintFails ==
  /\ sweep.pc = "fetch" /\ FetchMayFail(Hint.url)
  /\ sweep' = Settled("failed")
  /\ UNCHANGED <<table, peer_manifests>>

(* Fault: the manifest of another node goes unreported. *)
HintMismatchUnreported ==
  /\ sweep.pc = "fetch"
  /\ \E m \in Fetches(Hint.url) : m.node # Hint.node
  /\ sweep' = Advance(sweep)
  /\ UNCHANGED <<table, peer_manifests>>

(* The URL serves another node's manifest. *)
HintMismatched ==
  /\ sweep.pc = "fetch"
  /\ \E m \in Fetches(Hint.url) : m.node # Hint.node
  /\ sweep' = Settled("skipped")
  /\ UNCHANGED <<table, peer_manifests>>

HintFetched ==
  /\ sweep.pc = "fetch"
  /\ \E m \in Fetches(Hint.url) :
       m.node = Hint.node /\ sweep' = [sweep EXCEPT !.pc = "admit", !.manifest = m]
  /\ UNCHANGED <<table, peer_manifests>>

(* Fault: the record is written before the policy is asked. *)
AdmitHintRecordsFirst ==
  /\ sweep.pc = "admit"
  /\ \E d \in AdmitManifest(sweep.manifest, Policy, now) \ {"raised"} :
       /\ table' = [table EXCEPT ![sweep.manifest.node] = "active"]
       /\ sweep' = [Settled(d) EXCEPT !.accepted =
                      IF d = "accepted" THEN @ \cup {sweep.manifest} ELSE @]
  /\ UNCHANGED peer_manifests

(* _process_ref, the policy and the record, whatever the table holds by    *)
(* now.  A callback that raises ends the sweep: the records written so far *)
(* stay, and what they were admitted with is lost with the report.         *)
AdmitHint ==
  /\ sweep.pc = "admit"
  /\ \E d \in AdmitManifest(sweep.manifest, Policy, now) :
       \/ /\ d = "accepted"
          /\ table' = [table EXCEPT ![sweep.manifest.node] = "active"]
          /\ sweep' = [Settled("accepted") EXCEPT !.accepted = @ \cup {sweep.manifest}]
       \/ d = "rejected" /\ sweep' = Settled("rejected") /\ UNCHANGED table
       \/ d = "raised" /\ sweep' = [SweepIdle EXCEPT !.pc = "raised"] /\ UNCHANGED table
  /\ UNCHANGED peer_manifests

SweepReturns ==
  /\ sweep.pc = "source" /\ sweep.sources = {}
  /\ sweep' = [sweep EXCEPT !.pc = "returned"]
  /\ UNCHANGED <<table, peer_manifests>>

SweepStep ==
  \/ SourceAnswers \/ SourceFails \/ HintSkipped \/ HintTaken
  \/ FetchHintFails \/ HintMismatched \/ HintFetched \/ AdmitHint \/ SweepReturns
----------------------------------------------------------------------------
(* Properties *)

(* The hints received so far *)
Hints == {i \in SweepItems : i[2] \in 1 .. Len(sweep.hints[i[1]])}

(* A hint within the cap whose URL serves the manifest of the node it names*)
IsGood(i) ==
  /\ i[2] <= PerPeerCap /\ Ref(i).node # Self
  /\ web[Ref(i).url] \in Manifests /\ web[Ref(i).url].node = Ref(i).node

(* Another hint of its node or its URL was looked up in the place of i. *)
Masked(i) ==
  \E j \in sweep.fetched \ {i} : Ref(j).node = Ref(i).node \/ Ref(j).url = Ref(i).url

(* Nobody is overlooked: when the sweep returns, each good hint has led to *)
(* a record, unless its own fetch or admission failed or another hint of   *)
(* its node or URL, possibly a wrong one, was looked up in its place and   *)
(* made it a "duplicate".                                                  *)
HintsAreFollowed ==
  sweep.pc = "returned" =>
    \A i \in Hints : IsGood(i) =>
      table[Ref(i).node] # "absent" \/ sweep.report[i] \in {"failed", "rejected"} \/ Masked(i)

(* However many sources name them, a URL and a node are looked up once in  *)
(* a sweep, and no source causes more lookups than per_peer_cap.           *)
LooksUpOnce ==
  /\ \A i, j \in sweep.fetched : Ref(i).node = Ref(j).node \/ Ref(i).url = Ref(j).url => i = j
  /\ \A n \in Nodes : Cardinality({i \in sweep.fetched : i[1] = n}) <= PerPeerCap

SweepReport == INSTANCE Reports WITH
  Items <- SweepItems, Outcomes <- SweepOutcomes, Sources <- Nodes \X {0}, MayRaise <- TRUE,
  phase <- IF sweep.pc \in {"idle", "returned", "raised"} THEN sweep.pc ELSE "running",
  batch <- Hints \cup {<<n, 0>> : n \in sweep.sources} \cup {i \in SweepItems : sweep.report[i] # "none"},
  outcome <- sweep.report

(* Every source asked, every hint it gave is reported once, under one      *)
(* heading.                                                                *)
SweepImplementsReports == SweepReport!Spec
=============================================================================
