--------------------------- MODULE Joining_proofs ---------------------------
(***************************************************************************)
(* The composition keeps what its parts promise, for any nodes, seeds,     *)
(* manifests, hints and policy.                                            *)
(***************************************************************************)
EXTENDS Joining, Contracts_proofs, FiniteSetTheorems, FunctionTheorems

(* Every step of Joining is a step of the parts, or leaves them alone. *)
LEMMA FanPart == [JoinNext]_joinVars => [FanNext]_fanVars
<1>. SUFFICES ASSUME [JoinNext]_joinVars PROVE [FanNext]_fanVars
  OBVIOUS
<1>1. ASSUME HostStep PROVE [FanNext]_fanVars
  <2>1. SelectPeers \in SUBSET Peers
    BY JoiningAssumption DEF SelectPeers, EligiblePeers
  <2>2. CASE Operate
    BY <2>1, <2>2 DEF Operate, FanNext
  <2>3. CASE FanProgress \/ OperateDone
    BY <2>3 DEF FanProgress, OperateDone, FanNext
  <2>4. CASE Begin \/ Bootstrap \/ BootstrapDone \/ RecordSeed \/ Discover \/ Sweep \/ SweepDone
    BY <2>4 DEF Begin, Bootstrap, BootstrapDone, RecordSeed, Discover, Sweep, SweepDone, fanVars
  <2>5. CASE RememberDiscovered \/ DiscoverDone
    BY <2>5 DEF RememberDiscovered, DiscoverDone, fanVars
  <2>. QED BY <1>1, <2>2, <2>3, <2>4, <2>5 DEF HostStep
<1>2. ASSUME Elsewhere PROVE [FanNext]_fanVars
  BY <1>2 DEF Elsewhere, AnswerTrickles, AnswerEnds, FanNext
<1>3. ASSUME NEW p \in Peers, CallProgress(p) PROVE [FanNext]_fanVars
  BY <1>3 DEF CallProgress, FanNext
<1>4. ASSUME NEW m \in Manifests, IntroducesItself(m) PROVE [FanNext]_fanVars
  BY <1>4 DEF IntroducesItself
<1>5. ASSUME UNCHANGED joinVars PROVE [FanNext]_fanVars
  BY <1>5 DEF joinVars
<1>. QED BY <1>1, <1>2, <1>3, <1>4, <1>5 DEF JoinNext

(* Joining uses the fan-out as it is specified. *)
THEOREM JoiningFansOut == JoinSpec => FanSpec
<1>1. JoinInit => FanInit
  BY DEF JoinInit
<1>. QED BY <1>1, FanPart, PTL DEF JoinSpec, FanSpec

----------------------------------------------------------------------------
(* The web and the clock *)

BootNext == BootCalled \/ BootStep \/ BootTaken \/ SeedDecides
SweepNext == SweepCalled \/ SweepStep

(* What URLs serve is fixed and the clock does not run backwards. *)
LEMMA WebPart ==
  ASSUME WebType, [JoinNext]_joinVars
  PROVE  WebType' /\ web' = web /\ now <= now'
<1>1. CASE HostStep
  BY <1>1, WebAssumption DEF HostStep, Begin, Bootstrap, BootstrapDone, RecordSeed, Discover, Sweep, SweepDone,
     RememberDiscovered, DiscoverDone, Operate, FanProgress, OperateDone, WebType
<1>2. CASE Elsewhere
  BY <1>2, WebAssumption DEF Elsewhere, AnswerTrickles, AnswerEnds, Tick, WebType
<1>3. CASE \E p \in Peers : CallProgress(p)
  BY <1>3, WebAssumption DEF CallProgress, WebType
<1>4. CASE \E m \in Manifests : IntroducesItself(m)
  BY <1>4, WebAssumption DEF IntroducesItself, WebType
<1>5. CASE UNCHANGED joinVars
  BY <1>5, WebAssumption DEF joinVars, WebType
<1>. QED BY <1>1, <1>2, <1>3, <1>4, <1>5 DEF JoinNext

(* The manifests that met the policy at some time *)
EverAdmissible == {m \in Manifests : WasAdmissible(m)}

(* What was admissible stays so. *)
LEMMA AdmissibleForGood ==
  ASSUME WebType, WebType', now <= now'
  PROVE  EverAdmissible \subseteq EverAdmissible'
BY WebAssumption DEF EverAdmissible, WasAdmissible, WebType

(* What admit_manifest accepts now is admissible. *)
LEMMA AcceptedIsAdmissible ==
  ASSUME WebType, NEW m \in Manifests, "accepted" \in AdmitManifest(m, Policy, now)
  PROVE  m \in EverAdmissible
BY AcceptedMeetsPolicy, WebAssumption DEF EverAdmissible, WasAdmissible, WebType

(* Every step of Joining is a step of the bootstrap, or leaves it alone.   *)
LEMMA BootPart == [JoinNext]_joinVars => [BootNext]_bootVars
<1>. SUFFICES ASSUME [JoinNext]_joinVars PROVE [BootNext]_bootVars
  OBVIOUS
<1>1. CASE HostStep
  BY <1>1 DEF HostStep, Begin, Bootstrap, BootstrapDone, RecordSeed, Discover, Sweep, SweepDone,
     RememberDiscovered, DiscoverDone, Operate, FanProgress, OperateDone, BootNext
<1>2. CASE Elsewhere
  BY <1>2 DEF Elsewhere, AnswerTrickles, AnswerEnds, BootNext
<1>3. CASE \E p \in Peers : CallProgress(p)
  BY <1>3 DEF CallProgress
<1>4. CASE \E m \in Manifests : IntroducesItself(m)
  BY <1>4 DEF IntroducesItself
<1>5. CASE UNCHANGED joinVars
  BY <1>5 DEF joinVars
<1>. QED BY <1>1, <1>2, <1>3, <1>4, <1>5 DEF JoinNext

----------------------------------------------------------------------------
(* The bootstrap *)

(* A seed is reported once it is no longer to do, the one at hand is to do *)
(* and served the manifest at hand, and no seed was asked before it was    *)
(* introduced to.                                                          *)
BootInv ==
  /\ BootType
  /\ boot.pc \in {"idle", "raised"} => boot.report = NotReported
  /\ boot.pc = "idle" => decided = Unasked
  /\ boot.pc = "returned" => boot.todo = {}
  /\ boot.pc \notin {"idle", "raised"} =>
       \A u \in Seeds : boot.report[u] = "none" <=> u \in boot.todo
  /\ boot.pc \in {"admit", "introduce"} =>
       boot.url \in boot.todo /\ boot.manifest \in Manifests /\ boot.manifest = web[boot.url]
  /\ boot.pc = "introduce" => boot.manifest \in EverAdmissible
  /\ \A u \in boot.todo : decided[u] # "unasked" => boot.pc = "introduce" /\ u = boot.url
  /\ \A u \in Seeds : boot.report[u] = "rejected" => decided[u] \in {"unasked", "refused"}
  /\ \A u \in Seeds : boot.report[u] = "accepted" => decided[u] = "accepted" /\ web[u] \in EverAdmissible

(* The bootstrap starts in its invariant.                                  *)
LEMMA BootInitial == BootInit => BootInv
BY SeedAssumption DEF BootInit, BootInv, BootType, BootIdle, NotReported, Unasked

(* Every step of bootstrap_from_seeds and of a seed keeps its invariant.   *)
LEMMA BootKeeps ==
  ASSUME WebType, WebType', web' = web, now <= now', BootInv, [BootNext]_bootVars
  PROVE  BootInv'
<1>. USE DEF BootInv, BootType, BootOutcomes
<1>1. EverAdmissible \subseteq EverAdmissible'
  BY AdmissibleForGood
<1>2. ASSUME NEW u \in boot.todo, NEW o \in BootOutcomes, Reported(u, o), UNCHANGED decided,
             boot.pc \in {"next", "admit", "introduce"}, u = boot.url \/ boot.pc = "next",
             o = "accepted" => decided[u] = "accepted" /\ web[u] \in EverAdmissible,
             o = "rejected" => decided[u] \in {"unasked", "refused"}
      PROVE  BootInv'
  <2>1. boot' = [boot EXCEPT !.pc = "next", !.todo = @ \ {u}, !.url = BootIdle.url,
                             !.manifest = NoManifest, !.report = [@ EXCEPT ![u] = o]]
    BY <1>2 DEF Reported
  <2>2. BootIdle.url \in Urls
    BY SeedAssumption DEF BootIdle
  <2>3. BootType'
    BY <1>2, <2>1, <2>2
  <2>4. \A v \in Seeds : boot'.report[v] = "none" <=> v \in boot'.todo
    BY <1>2, <2>1
  <2>5. \A v \in boot'.todo : decided'[v] = "unasked"
    BY <1>2, <2>1
  <2>6. \A v \in Seeds : boot'.report[v] = "rejected" => decided'[v] \in {"unasked", "refused"}
    BY <1>2, <2>1
  <2>7. \A v \in Seeds : boot'.report[v] = "accepted" => decided'[v] = "accepted" /\ web'[v] \in EverAdmissible'
    BY <1>1, <1>2, <2>1
  <2>. QED BY <2>1, <2>3, <2>4, <2>5, <2>6, <2>7
<1>3. CASE BootCalled
  BY <1>1, <1>3, SeedAssumption DEF BootCalled, BootIdle, NotReported, Unasked
<1>4. CASE FetchSeed
  <2>0. PICK u \in boot.todo : \E m \in Fetches(u) :
          boot' = [boot EXCEPT !.pc = "admit", !.url = u, !.manifest = m]
    BY <1>4 DEF FetchSeed
  <2>1. PICK m \in Fetches(u) : boot' = [boot EXCEPT !.pc = "admit", !.url = u, !.manifest = m]
    BY <2>0
  <2>2. m \in Manifests /\ m = web[u] /\ u \in Urls
    BY <2>1, SeedAssumption DEF Fetches
  <2>3. BootType'
    BY <1>4, <2>1, <2>2 DEF FetchSeed
  <2>4. \A v \in boot'.todo : decided'[v] = "unasked"
    BY <1>4, <2>1 DEF FetchSeed
  <2>5. /\ boot'.pc = "admit" /\ boot'.url = u /\ boot'.manifest = m /\ boot'.todo = boot.todo
        /\ boot'.report = boot.report /\ boot.pc = "next" /\ decided' = decided
    BY <1>1, <1>4, <2>1 DEF FetchSeed
  <2>. QED BY <1>1, <2>2, <2>3, <2>4, <2>5
<1>5. CASE FetchSeedFails
  BY <1>2, <1>5 DEF FetchSeedFails
<1>6. CASE AdmitSeed
  <2>1. CASE /\ "accepted" \in AdmitManifest(boot.manifest, Policy, now)
             /\ boot' = [boot EXCEPT !.pc = "introduce"]
             /\ decided' = [decided EXCEPT ![boot.url] = "asked"]
    BY <1>1, <1>6, <2>1, AcceptedIsAdmissible DEF AdmitSeed
  <2>2. CASE Reported(boot.url, "rejected") /\ UNCHANGED decided
    BY <1>2, <1>6, <2>2 DEF AdmitSeed
  <2>3. CASE boot' = [BootIdle EXCEPT !.pc = "raised"] /\ UNCHANGED decided
    BY <1>1, <1>6, <2>3, SeedAssumption DEF AdmitSeed, BootIdle, NotReported
  <2>. QED BY <1>6, <2>1, <2>2, <2>3 DEF AdmitSeed
<1>7. CASE Introduced
  BY <1>2, <1>7 DEF Introduced
<1>8. CASE IntroductionFails
  BY <1>2, <1>8 DEF IntroductionFails
<1>9. CASE BootReturns
  BY <1>1, <1>9 DEF BootReturns
<1>10. CASE BootTaken
  BY <1>1, <1>10, SeedAssumption DEF BootTaken, BootIdle, NotReported, Unasked
<1>11. CASE SeedDecides
  <2>1. PICK u \in Seeds, d \in {"accepted", "refused"} :
          decided[u] = "asked" /\ decided' = [decided EXCEPT ![u] = d]
    BY <1>11 DEF SeedDecides
  <2>2. boot' = boot
    BY <1>11 DEF SeedDecides
  <2>3. BootType' /\ (boot.pc = "idle" => decided' = Unasked)
    BY <2>1, <2>2 DEF Unasked
  <2>4. \A v \in Seeds : decided'[v] = decided[v] \/ v = u
    BY <2>1
  <2>5. boot.report[u] \notin {"accepted", "rejected"}
    BY <2>1
  <2>. QED BY <1>1, <2>1, <2>2, <2>3, <2>4, <2>5
<1>12. CASE UNCHANGED bootVars
  BY <1>1, <1>12 DEF bootVars
<1>. QED BY <1>3, <1>4, <1>5, <1>6, <1>7, <1>8, <1>9, <1>10, <1>11, <1>12 DEF BootNext, BootStep


(* Each step of the bootstrap is one of the abstract report, or a stutter. *)
LEMMA BootReportStep == BootInv /\ BootInv' /\ [BootNext]_bootVars => [BootReport!Next]_(BootReport!reportVars)
<1>. SUFFICES ASSUME BootInv, BootInv', [BootNext]_bootVars
              PROVE  [BootReport!Next]_(BootReport!reportVars)
  OBVIOUS
<1>. USE DEF BootInv, BootType, BootReport!reportVars
<1>1. ASSUME NEW u \in boot.todo, NEW o \in BootOutcomes, Reported(u, o),
             boot.pc \in {"next", "admit", "introduce"}
      PROVE  BootReport!Next
  <2>1. BootReport!Settle(u, o)
    BY <1>1 DEF Reported, BootReport!Settle
  <2>. QED BY <2>1, <1>1 DEF BootReport!Next
<1>2. CASE BootCalled
  BY <1>2 DEF BootCalled, BootIdle, BootReport!Next, BootReport!Begin
<1>3. CASE FetchSeed
  BY <1>3 DEF FetchSeed
<1>4. CASE FetchSeedFails
  BY <1>1, <1>4 DEF FetchSeedFails, BootOutcomes
<1>5. CASE AdmitSeed
  <2>1. CASE boot' = [boot EXCEPT !.pc = "introduce"]
    BY <1>5, <2>1 DEF AdmitSeed
  <2>2. CASE Reported(boot.url, "rejected")
    BY <1>1, <1>5, <2>2 DEF AdmitSeed, BootOutcomes
  <2>3. CASE boot' = [BootIdle EXCEPT !.pc = "raised"]
    BY <1>5, <2>3 DEF AdmitSeed, BootIdle, NotReported, BootReport!Next, BootReport!Raise, BootReport!NoOutcomes
  <2>. QED BY <1>5, <2>1, <2>2, <2>3 DEF AdmitSeed
<1>6. CASE Introduced
  BY <1>1, <1>6 DEF Introduced, BootOutcomes
<1>7. CASE IntroductionFails
  BY <1>1, <1>7 DEF IntroductionFails, BootOutcomes
<1>8. CASE BootReturns
  BY <1>8 DEF BootReturns, BootReport!Next, BootReport!Return
<1>9. CASE BootTaken
  BY <1>9 DEF BootTaken, BootIdle, NotReported, BootReport!Next, BootReport!Take, BootReport!NoOutcomes
<1>10. CASE SeedDecides
  BY <1>10 DEF SeedDecides
<1>11. CASE UNCHANGED bootVars
  BY <1>11 DEF bootVars
<1>. QED BY <1>2, <1>3, <1>4, <1>5, <1>6, <1>7, <1>8, <1>9, <1>10, <1>11 DEF BootNext, BootStep

(* The inductive invariant of the bootstrap, as part of joining            *)
THEOREM BootInvariance == JoinSpec => [](WebType /\ BootInv)
<1>1. JoinInit => WebType /\ BootInv
  BY JoiningAssumption, WebAssumption, BootInitial DEF JoinInit, WebType
<1>2. WebType /\ BootInv /\ [JoinNext]_joinVars => (WebType /\ BootInv)'
  BY WebPart, BootPart, BootKeeps
<1>. QED BY <1>1, <1>2, PTL DEF JoinSpec

(* What bootstrap_from_seeds reports of a seed agrees with what both sides *)
(* decided, whatever was lost on the way.                                  *)
THEOREM SeedsAgreeWithReport == JoinSpec => []SeedsAgree
<1>1. BootInv => SeedsAgree
  BY DEF BootInv, SeedsAgree, EverAdmissible
<1>. QED BY <1>1, BootInvariance, PTL

(* bootstrap_from_seeds reports every seed once, or none if a callback     *)
(* raises.                                                                 *)
THEOREM BootstrapReportsEverySeed == JoinSpec => BootImplementsReports
<1>1. JoinInit => BootReport!Init
  BY DEF JoinInit, BootInit, BootIdle, NotReported, BootReport!Init, BootReport!NoOutcomes
<1>2. WebType /\ BootInv /\ (WebType /\ BootInv)' /\ [JoinNext]_joinVars => [BootReport!Next]_(BootReport!reportVars)
  BY BootPart, BootReportStep
<1>. QED BY <1>1, <1>2, BootInvariance, PTL DEF JoinSpec, BootImplementsReports, BootReport!Spec

----------------------------------------------------------------------------
(* The sweep: its own state *)

SweepAlone == SweepCalled \/ SweepStep \/ (sweep.pc \in {"returned", "raised"} /\ sweep' = SweepIdle)

SweepPlaces == {"idle", "source", "hint", "fetch", "admit", "returned", "raised"}
HintLists == [Nodes -> Seq(Refs)]
SweepReports == [SweepItems -> SweepOutcomes \cup {"none"}]

SweepRecord ==
  [pc : SweepPlaces, sources : SUBSET Nodes, hints : HintLists, source : Nodes, index : Nat,
   fetched : SUBSET SweepItems, manifest : Manifests \cup {NoManifest},
   accepted : SUBSET Manifests, report : SweepReports]

SweepFrom(c, S) ==
  [pc |-> c, sources |-> S, hints |-> [n \in Nodes |-> <<>>], source |-> Self, index |-> 0,
   fetched |-> {}, manifest |-> NoManifest, accepted |-> {}, report |-> NothingReported]

(* The hint at hand, and those of its response that follow *)
AtHand == <<sweep.source, sweep.index>>
IsPending(i) == sweep.pc \in {"hint", "fetch", "admit"} /\ i[1] = sweep.source /\ sweep.index <= i[2]

(* The hints before the one at hand are reported, those from it on are not;*)
(* a source that was not asked yet has neither hints nor a report; only    *)
(* hints within the cap are looked up, no two of one node or URL.          *)
SweepOK ==
  /\ sweep \in SweepRecord
  /\ sweep.pc \in {"idle", "raised"} => sweep = SweepFrom(sweep.pc, {})
  /\ sweep.pc = "returned" => sweep.sources = {}
  /\ sweep.pc = "source" => sweep.index = 0
  /\ sweep.pc = "admit" => sweep.manifest \in Manifests
  /\ \A n \in Nodes : Len(sweep.hints[n]) <= MaxHints
  /\ \A n \in sweep.sources : sweep.hints[n] = <<>> /\ \A k \in 0 .. MaxHints : sweep.report[<<n, k>>] = "none"
  /\ sweep.pc \in {"hint", "fetch", "admit"} =>
       sweep.source \notin sweep.sources /\ sweep.index \in 1 .. Len(sweep.hints[sweep.source])
  /\ \A i \in Hints : sweep.report[i] # "none" <=> ~IsPending(i)
  /\ \A i \in sweep.fetched :
       /\ i \in Hints /\ i[2] <= PerPeerCap
       /\ IsPending(i) => sweep.pc # "hint" /\ i = AtHand
  /\ \A i, j \in sweep.fetched : Ref(i).node = Ref(j).node \/ Ref(i).url = Ref(j).url => i = j

(* A hint is known by its source and its place in the response.            *)
LEMMA ItemsArePairs ==
  /\ \A i \in SweepItems : i[1] \in Nodes /\ i[2] \in 0 .. MaxHints /\ i = <<i[1], i[2]>>
  /\ \A n \in Nodes, k \in 0 .. MaxHints : <<n, k>> \in SweepItems
BY DEF SweepItems

(* The host is one of the nodes.                                           *)
LEMMA SelfIsANode == Self \in Nodes
BY SweepAssumption

(* A record with fields of these types is a state of the sweep.            *)
LEMMA SweepRecordOf ==
  ASSUME NEW c \in SweepPlaces, NEW S \in SUBSET Nodes, NEW h \in HintLists, NEW n \in Nodes,
         NEW k \in Nat, NEW F \in SUBSET SweepItems, NEW m \in Manifests \cup {NoManifest},
         NEW X \in SUBSET Manifests, NEW R \in SweepReports
  PROVE  [pc |-> c, sources |-> S, hints |-> h, source |-> n, index |-> k, fetched |-> F,
          manifest |-> m, accepted |-> X, report |-> R] \in SweepRecord
BY DEF SweepRecord

(* A sweep that is only elsewhere is still of its type.                    *)
LEMMA SweepMoves ==
  ASSUME NEW s \in SweepRecord, NEW c \in SweepPlaces, NEW n \in Nodes, NEW k \in Nat
  PROVE  [s EXCEPT !.pc = c, !.source = n, !.index = k] \in SweepRecord
BY DEF SweepRecord

(* A sweep that has just been called, and one that is over *)
FreshIsOK ==
  \A c \in {"idle", "raised", "source"}, S \in SUBSET Nodes :
    sweep = SweepFrom(c, S) /\ (c # "source" => S = {}) => SweepOK /\ Hints = {}

(* A sweep without hints satisfies the invariant.                          *)
LEMMA Fresh == FreshIsOK
<1>. SUFFICES ASSUME NEW c \in {"idle", "raised", "source"}, NEW S \in SUBSET Nodes,
                     sweep = SweepFrom(c, S), c # "source" => S = {}
              PROVE  SweepOK /\ Hints = {}
  BY DEF FreshIsOK
<1> DEFINE h == [n \in Nodes |-> <<>>]
<1>1. h \in HintLists
  BY DEF HintLists
<1>2. NothingReported \in SweepReports
  BY DEF NothingReported, SweepReports
<1>3. c \in SweepPlaces
  BY DEF SweepPlaces
<1>4. sweep \in SweepRecord
  BY <1>1, <1>2, <1>3, SelfIsANode, SweepRecordOf DEF SweepFrom
<1>5. /\ sweep.pc = c /\ sweep.sources = S /\ sweep.hints = h /\ sweep.index = 0
      /\ sweep.fetched = {} /\ sweep.report = NothingReported
  BY DEF SweepFrom
<1>6. \A n \in Nodes : sweep.hints[n] = <<>>
  BY <1>5
<1>7. Hints = {}
  BY <1>6, ItemsArePairs DEF Hints
<1>8. c # "source" => sweep = SweepFrom(sweep.pc, {})
  BY <1>5
<1>9. \A n \in Nodes, k \in 0 .. MaxHints : sweep.report[<<n, k>>] = "none"
  BY <1>5, ItemsArePairs DEF NothingReported
<1>10. \A n \in Nodes : Len(sweep.hints[n]) <= MaxHints
  BY <1>6, SweepAssumption
<1>. QED BY <1>4, <1>5, <1>6, <1>7, <1>8, <1>9, <1>10 DEF SweepOK

(* The same of the next state.                                             *)
LEMMA FreshNext == FreshIsOK'
BY Fresh, PTL

(* Calling the sweep, ending it and raising leave a sweep without hints.   *)
LEMMA FreshSweeps ==
  /\ SweepIdle = SweepFrom("idle", {})
  /\ [SweepIdle EXCEPT !.pc = "raised"] = SweepFrom("raised", {})
  /\ [SweepIdle EXCEPT !.pc = "source", !.sources = EligiblePeers] = SweepFrom("source", EligiblePeers)
<1> DEFINE h == [n \in Nodes |-> <<>>]
<1>1. SweepIdle = [pc |-> "idle", sources |-> {}, hints |-> h, source |-> Self, index |-> 0,
                   fetched |-> {}, manifest |-> NoManifest, accepted |-> {}, report |-> NothingReported]
  BY DEF SweepIdle
<1>2. \A c, S : SweepFrom(c, S) =
        [pc |-> c, sources |-> S, hints |-> h, source |-> Self, index |-> 0,
         fetched |-> {}, manifest |-> NoManifest, accepted |-> {}, report |-> NothingReported]
  BY DEF SweepFrom
<1>. HIDE DEF h
<1>3. SweepIdle = SweepFrom("idle", {})
  BY <1>1, <1>2
<1>4. [SweepIdle EXCEPT !.pc = "raised"] = SweepFrom("raised", {})
  <2>1. SweepFrom("raised", {}) =
          [pc |-> "raised", sources |-> {}, hints |-> h, source |-> Self, index |-> 0,
           fetched |-> {}, manifest |-> NoManifest, accepted |-> {}, report |-> NothingReported]
    BY <1>2
  <2>. QED BY <1>1, <2>1
<1>5. [SweepIdle EXCEPT !.pc = "source", !.sources = EligiblePeers] = SweepFrom("source", EligiblePeers)
  <2>1. [SweepIdle EXCEPT !.pc = "source"] = SweepFrom("source", {})
    <3>1. SweepFrom("source", {}) =
            [pc |-> "source", sources |-> {}, hints |-> h, source |-> Self, index |-> 0,
             fetched |-> {}, manifest |-> NoManifest, accepted |-> {}, report |-> NothingReported]
      BY <1>2
    <3>. QED BY <1>1, <3>1
  <2>2. [SweepFrom("source", {}) EXCEPT !.sources = EligiblePeers] = SweepFrom("source", EligiblePeers)
    BY <1>2
  <2>. QED BY <2>1, <2>2
<1>. QED BY <1>3, <1>4, <1>5

(* What Advance does to a sweep whose other fields it leaves alone *)
LEMMA Advances ==
  ASSUME NEW s \in SweepRecord
  PROVE  /\ Advance(s) \in SweepRecord
         /\ Advance(s).sources = s.sources /\ Advance(s).hints = s.hints /\ Advance(s).fetched = s.fetched
         /\ Advance(s).manifest = s.manifest /\ Advance(s).accepted = s.accepted
         /\ Advance(s).report = s.report
         /\ IF s.index < Len(s.hints[s.source])
            THEN Advance(s).pc = "hint" /\ Advance(s).source = s.source /\ Advance(s).index = s.index + 1
            ELSE Advance(s).pc = "source" /\ Advance(s).source = Self /\ Advance(s).index = 0
<1>1. "hint" \in SweepPlaces /\ "source" \in SweepPlaces /\ s.index + 1 \in Nat /\ s.source \in Nodes
  BY DEF SweepPlaces, SweepRecord
<1>2. CASE s.index < Len(s.hints[s.source])
  <2>1. Advance(s) = [s EXCEPT !.pc = "hint", !.index = s.index + 1]
    BY <1>2 DEF Advance
  <2>2. [s EXCEPT !.pc = "hint", !.index = s.index + 1] \in SweepRecord
    BY <1>1 DEF SweepRecord
  <2>. QED BY <1>2, <2>1, <2>2 DEF SweepRecord
<1>3. CASE ~ (s.index < Len(s.hints[s.source]))
  <2>1. Advance(s) = [s EXCEPT !.pc = "source", !.source = Self, !.index = 0]
    BY <1>3 DEF Advance
  <2>2. [s EXCEPT !.pc = "source", !.source = Self, !.index = 0] \in SweepRecord
    BY <1>1, SelfIsANode, SweepMoves
  <2>. QED BY <1>3, <2>1, <2>2 DEF SweepRecord
<1>. QED BY <1>2, <1>3

(* The hint at hand is one of those received, and may be settled. *)
LEMMA HandIsHint ==
  ASSUME SweepOK, sweep.pc \in {"hint", "fetch", "admit"}
  PROVE  /\ AtHand \in Hints /\ AtHand \in SweepItems /\ IsPending(AtHand)
         /\ Ref(AtHand) = Hint /\ sweep.report[AtHand] = "none"
<1>1. sweep.source \in Nodes /\ sweep.index \in 1 .. Len(sweep.hints[sweep.source])
  BY DEF SweepOK, SweepRecord
<1>2. sweep.hints[sweep.source] \in Seq(Refs) /\ Len(sweep.hints[sweep.source]) <= MaxHints
  BY <1>1 DEF SweepOK, SweepRecord, HintLists
<1>3. sweep.index \in 0 .. MaxHints
  BY <1>1, <1>2, SweepAssumption
<1>4. AtHand \in SweepItems
  BY <1>1, <1>3, ItemsArePairs DEF AtHand
<1>5. AtHand \in Hints
  BY <1>1, <1>4 DEF Hints, AtHand
<1>6. IsPending(AtHand)
  BY <1>1 DEF IsPending, AtHand
<1>. QED BY <1>4, <1>5, <1>6 DEF SweepOK, Hint, AtHand

(* Settling the hint at hand changes its report and moves on.              *)
LEMMA SettledFields ==
  ASSUME SweepOK, NEW o \in SweepOutcomes, NEW t, t = Settled(o), sweep.pc \in {"hint", "fetch", "admit"}
  PROVE  /\ t \in SweepRecord
         /\ t.sources = sweep.sources /\ t.hints = sweep.hints /\ t.fetched = sweep.fetched
         /\ t.accepted = sweep.accepted /\ t.report = [sweep.report EXCEPT ![AtHand] = o]
         /\ IF sweep.index < Len(sweep.hints[sweep.source])
            THEN t.pc = "hint" /\ t.source = sweep.source /\ t.index = sweep.index + 1
            ELSE t.pc = "source" /\ t.source = Self /\ t.index = 0
<1> DEFINE r == [sweep.report EXCEPT ![AtHand] = o]
           s == [sweep EXCEPT !.report = r, !.manifest = NoManifest]
<1>1. t = Advance(s)
  BY DEF Settled, AtHand
<1>2. sweep.report \in SweepReports /\ sweep \in SweepRecord
  BY DEF SweepOK, SweepRecord
<1>3. r \in SweepReports
  BY <1>2 DEF SweepReports
<1>4. s \in SweepRecord
  <2>. HIDE DEF r
  <2>. QED BY <1>2, <1>3 DEF SweepRecord
<1>5. /\ s.sources = sweep.sources /\ s.hints = sweep.hints /\ s.fetched = sweep.fetched
      /\ s.accepted = sweep.accepted /\ s.report = r
      /\ s.index = sweep.index /\ s.source = sweep.source
  <2>. HIDE DEF r
  <2>. QED BY <1>2 DEF SweepRecord
<1>. HIDE DEF s
<1>. QED BY <1>1, <1>4, <1>5, Advances

(* A hint that is settled keeps the invariant of the sweep.                *)
LEMMA SettledKeeps ==
  ASSUME SweepOK, NEW o \in SweepOutcomes, sweep.pc \in {"hint", "fetch", "admit"},
         sweep' \in SweepRecord, sweep'.sources = sweep.sources, sweep'.hints = sweep.hints,
         sweep'.fetched = sweep.fetched, sweep'.report = [sweep.report EXCEPT ![AtHand] = o],
         IF sweep.index < Len(sweep.hints[sweep.source])
         THEN sweep'.pc = "hint" /\ sweep'.source = sweep.source /\ sweep'.index = sweep.index + 1
         ELSE sweep'.pc = "source" /\ sweep'.source = Self /\ sweep'.index = 0
  PROVE  SweepOK'
<1>1. Hints' = Hints /\ \A i : Ref(i)' = Ref(i)
  BY DEF Hints, Ref
<1>2. \A i \in SweepItems : sweep'.report[i] = IF i = AtHand THEN o ELSE sweep.report[i]
  BY HandIsHint DEF SweepOK, SweepRecord, SweepReports
<1>3. sweep.source \in Nodes /\ sweep.index \in 1 .. Len(sweep.hints[sweep.source]) /\ sweep.hints[sweep.source] \in Seq(Refs)
  BY DEF SweepOK, SweepRecord, HintLists
<1>4. \A i \in Hints : /\ i \in SweepItems /\ i = <<i[1], i[2]>> /\ i[2] \in Nat
                       /\ i[2] <= Len(sweep.hints[i[1]])
  BY ItemsArePairs, SweepAssumption DEF Hints
<1>5. \A i \in Hints : IsPending(i)' <=> IsPending(i) /\ i # AtHand
  BY <1>3, <1>4 DEF IsPending, AtHand
<1>6. \A i \in Hints : sweep'.report[i] # "none" <=> ~IsPending(i)'
  BY <1>2, <1>4, <1>5 DEF SweepOK, SweepOutcomes
<1>7. \A n \in sweep.sources, k \in 0 .. MaxHints : <<n, k>> \in SweepItems /\ <<n, k>> # AtHand
  BY ItemsArePairs DEF SweepOK, SweepRecord, AtHand
<1>8. \A n \in sweep'.sources : sweep'.hints[n] = <<>> /\ \A k \in 0 .. MaxHints : sweep'.report[<<n, k>>] = "none"
  BY <1>2, <1>7 DEF SweepOK
<1>9. \A i \in sweep'.fetched : i \in Hints' /\ i[2] <= PerPeerCap /\ ~IsPending(i)'
  BY <1>1, <1>5 DEF SweepOK
<1>10. sweep'.pc \in {"hint", "fetch", "admit"} =>
         sweep'.source \notin sweep'.sources /\ sweep'.index \in 1 .. Len(sweep'.hints[sweep'.source])
  BY <1>3 DEF SweepOK
<1>. QED BY <1>1, <1>6, <1>8, <1>9, <1>10 DEF SweepOK

(* Steps that move the pc and leave the hint at hand where it is *)
LEMMA StillAtHand ==
  ASSUME SweepOK, sweep.pc \in {"hint", "fetch", "admit"}, NEW c \in {"fetch", "admit"},
         NEW m \in Manifests \cup {NoManifest}, c = "admit" => m \in Manifests, NEW F \in SUBSET SweepItems,
         sweep' = [sweep EXCEPT !.pc = c, !.fetched = F, !.manifest = m],
         \A i \in F : i \in sweep.fetched \/ (i = AtHand /\ ~IsSkipped)
  PROVE  SweepOK'
<1>1. sweep \in SweepRecord /\ c \in SweepPlaces
  BY DEF SweepOK, SweepPlaces
<1>2. sweep' \in SweepRecord
  BY <1>1 DEF SweepRecord
<1>3. /\ sweep'.pc = c /\ sweep'.sources = sweep.sources /\ sweep'.hints = sweep.hints
      /\ sweep'.source = sweep.source /\ sweep'.index = sweep.index /\ sweep'.fetched = F
      /\ sweep'.report = sweep.report /\ sweep'.manifest = m
  BY <1>1 DEF SweepRecord
<1>4. Hints' = Hints /\ AtHand' = AtHand /\ \A i : (Ref(i)' = Ref(i)) /\ (IsPending(i)' <=> IsPending(i))
  BY <1>3 DEF Hints, Ref, AtHand, IsPending
<1>5. \A i \in F : i \in Hints /\ i[2] <= PerPeerCap
  <2>1. ~IsSkipped => AtHand[2] <= PerPeerCap
    BY <1>1, SweepAssumption DEF IsSkipped, AtHand, SweepRecord
  <2>. QED BY <2>1, HandIsHint DEF SweepOK
<1>6. \A i \in F : IsPending(i) => i = AtHand
  BY DEF SweepOK
<1>7. \A i, j \in F : Ref(i).node = Ref(j).node \/ Ref(i).url = Ref(j).url => i = j
  <2>1. ~IsSkipped => \A i \in sweep.fetched : Ref(i).node # Ref(AtHand).node /\ Ref(i).url # Ref(AtHand).url
    BY HandIsHint DEF IsSkipped, Seen
  <2>. QED BY <2>1 DEF SweepOK
<1>8. \A i \in F : i \in Hints' /\ i[2] <= PerPeerCap /\ (IsPending(i)' => sweep'.pc # "hint" /\ i = AtHand')
  BY <1>3, <1>4, <1>5, <1>6
<1>9. \A i, j \in F : Ref(i)'.node = Ref(j)'.node \/ Ref(i)'.url = Ref(j)'.url => i = j
  BY <1>4, <1>7
<1>10. sweep'.source \notin sweep'.sources /\ sweep'.index \in 1 .. Len(sweep'.hints[sweep'.source])
  BY <1>3 DEF SweepOK
<1>11. \A i \in Hints' : sweep'.report[i] # "none" <=> ~IsPending(i)'
  BY <1>3, <1>4 DEF SweepOK
<1>12. /\ \A n \in Nodes : Len(sweep'.hints[n]) <= MaxHints
       /\ \A n \in sweep'.sources : sweep'.hints[n] = <<>> /\ \A k \in 0 .. MaxHints : sweep'.report[<<n, k>>] = "none"
  BY <1>3 DEF SweepOK
<1>. QED BY <1>2, <1>3, <1>8, <1>9, <1>10, <1>11, <1>12 DEF SweepOK

(* A source answers: its hints are new, and the first is at hand. *)
LEMMA AnswerFields ==
  ASSUME SweepOK, sweep.pc = "source", NEW n \in sweep.sources, NEW r \in SeqOf(Refs, MaxHints),
         sweep' = Advance([sweep EXCEPT !.sources = @ \ {n}, !.source = n, !.hints[n] = r])
  PROVE  /\ sweep' \in SweepRecord /\ n \in Nodes /\ r \in Seq(Refs) /\ Len(r) <= MaxHints
         /\ sweep'.sources = sweep.sources \ {n} /\ sweep'.hints = [sweep.hints EXCEPT ![n] = r]
         /\ sweep'.fetched = sweep.fetched /\ sweep'.accepted = sweep.accepted /\ sweep'.report = sweep.report
         /\ IF 0 < Len(r) THEN sweep'.pc = "hint" /\ sweep'.source = n /\ sweep'.index = 1
            ELSE sweep'.pc = "source" /\ sweep'.source = Self /\ sweep'.index = 0
<1> DEFINE h == [sweep.hints EXCEPT ![n] = r]
           S == sweep.sources \ {n}
           s == [sweep EXCEPT !.sources = S, !.source = n, !.hints = h]
<1>1. sweep \in SweepRecord /\ sweep.index = 0 /\ sweep.hints \in HintLists /\ n \in Nodes /\ S \in SUBSET Nodes
  BY DEF SweepOK, SweepRecord
<1>2. r \in Seq(Refs) /\ Len(r) <= MaxHints
  BY SweepAssumption DEF SeqOf
<1>3. h \in HintLists /\ h[n] = r
  BY <1>1, <1>2 DEF HintLists
<1>4. s \in SweepRecord
  <2>. HIDE DEF h, S
  <2>. QED BY <1>1, <1>3 DEF SweepRecord
<1>5. /\ s.sources = S /\ s.hints = h /\ s.fetched = sweep.fetched /\ s.source = n
      /\ s.accepted = sweep.accepted /\ s.report = sweep.report /\ s.index = 0
  <2>. HIDE DEF h, S
  <2>. QED BY <1>1 DEF SweepRecord
<1>6. sweep' = Advance(s)
  OBVIOUS
<1>. HIDE DEF s
<1>7. /\ Advance(s) \in SweepRecord
      /\ Advance(s).sources = S /\ Advance(s).hints = h /\ Advance(s).fetched = sweep.fetched
      /\ Advance(s).accepted = sweep.accepted /\ Advance(s).report = sweep.report
      /\ IF 0 < Len(r) THEN Advance(s).pc = "hint" /\ Advance(s).source = n /\ Advance(s).index = 1
         ELSE Advance(s).pc = "source" /\ Advance(s).source = Self /\ Advance(s).index = 0
  <2>1. Len(s.hints[s.source]) = Len(r)
    BY <1>3, <1>5
  <2>. HIDE DEF h, S
  <2>. QED BY <1>4, <1>5, <2>1, Advances
<1>. QED BY <1>1, <1>2, <1>6, <1>7

(* An answer to get_members keeps the invariant of the sweep.              *)
LEMMA AnswerKeeps ==
  ASSUME SweepOK, sweep.pc = "source", NEW n \in sweep.sources, NEW r \in SeqOf(Refs, MaxHints),
         sweep' = Advance([sweep EXCEPT !.sources = @ \ {n}, !.source = n, !.hints[n] = r])
  PROVE  SweepOK' /\ Hints \subseteq Hints'
<1>1. /\ sweep' \in SweepRecord /\ n \in Nodes /\ r \in Seq(Refs) /\ Len(r) <= MaxHints
      /\ sweep'.sources = sweep.sources \ {n} /\ sweep'.hints = [sweep.hints EXCEPT ![n] = r]
      /\ sweep'.fetched = sweep.fetched /\ sweep'.accepted = sweep.accepted /\ sweep'.report = sweep.report
      /\ IF 0 < Len(r) THEN sweep'.pc = "hint" /\ sweep'.source = n /\ sweep'.index = 1
         ELSE sweep'.pc = "source" /\ sweep'.source = Self /\ sweep'.index = 0
  BY AnswerFields
<1>2. \A v \in Nodes : sweep'.hints[v] = IF v = n THEN r ELSE sweep.hints[v]
  BY <1>1 DEF SweepOK, SweepRecord, HintLists
<1>3. Len(sweep.hints[n]) = 0 /\ \A k \in 0 .. MaxHints : sweep.report[<<n, k>>] = "none"
  BY DEF SweepOK
<1>4. \A i \in Hints : i \in SweepItems /\ i[1] # n /\ i[1] \in Nodes /\ ~IsPending(i)
  BY <1>3, ItemsArePairs DEF Hints, IsPending
<1>5. \A i \in Hints : i \in Hints' /\ Ref(i)' = Ref(i) /\ sweep'.report[i] # "none"
  BY <1>1, <1>2, <1>4 DEF Hints, Ref, SweepOK
<1>6. \A i \in Hints' : i \in Hints \/ (i[1] = n /\ i[2] \in 1 .. Len(r) /\ i[2] \in 0 .. MaxHints /\ i = <<n, i[2]>>)
  BY <1>1, <1>2, ItemsArePairs DEF Hints
<1>7. \A i \in Hints : ~IsPending(i)'
  BY <1>1, <1>4, SweepAssumption DEF IsPending
<1>8. \A i \in Hints' : sweep'.report[i] # "none" <=> ~IsPending(i)'
  <2>1. \A k \in 1 .. Len(r) : IsPending(<<n, k>>)'
    BY <1>1 DEF IsPending
  <2>. QED BY <1>1, <1>3, <1>5, <1>6, <1>7, <2>1
<1>9. \A i \in sweep'.fetched : i \in Hints /\ i \in Hints' /\ i[2] <= PerPeerCap /\ ~IsPending(i)' /\ Ref(i)' = Ref(i)
  BY <1>1, <1>5, <1>7 DEF SweepOK
<1>10. \A i, j \in sweep'.fetched : Ref(i)'.node = Ref(j)'.node \/ Ref(i)'.url = Ref(j)'.url => i = j
  BY <1>1, <1>9 DEF SweepOK
<1>11. \A v \in Nodes : Len(sweep'.hints[v]) <= MaxHints
  BY <1>1, <1>2 DEF SweepOK
<1>12. \A v \in sweep'.sources : sweep'.hints[v] = <<>> /\ \A k \in 0 .. MaxHints : sweep'.report[<<v, k>>] = "none"
  <2>1. \A v \in sweep'.sources : v \in sweep.sources /\ v # n /\ v \in Nodes
    BY <1>1 DEF SweepOK, SweepRecord
  <2>. QED BY <1>1, <1>2, <2>1 DEF SweepOK
<1>13. sweep'.pc = "hint" => sweep'.source \notin sweep'.sources /\ sweep'.index \in 1 .. Len(sweep'.hints[sweep'.source])
  BY <1>1, <1>2
<1>. QED BY <1>1, <1>5, <1>8, <1>9, <1>10, <1>11, <1>12, <1>13 DEF SweepOK

(* A failure of get_members keeps the invariant of the sweep.              *)
LEMMA SourceFailsKeeps ==
  ASSUME SweepOK, sweep.pc = "source", NEW n \in sweep.sources,
         sweep' = [sweep EXCEPT !.sources = @ \ {n}, !.report[<<n, 0>>] = "failed"]
  PROVE  /\ SweepOK' /\ n \in Nodes /\ <<n, 0>> \in SweepItems /\ Hints' = Hints
         /\ sweep'.pc = "source" /\ sweep'.sources = sweep.sources \ {n}
         /\ sweep'.report = [sweep.report EXCEPT ![<<n, 0>>] = "failed"] /\ sweep.report[<<n, 0>>] = "none"
<1> DEFINE r == [sweep.report EXCEPT ![<<n, 0>>] = "failed"]
           S == sweep.sources \ {n}
<1>1. /\ sweep \in SweepRecord /\ sweep.report \in SweepReports /\ n \in Nodes /\ S \in SUBSET Nodes
      /\ 0 \in 0 .. MaxHints
  BY SweepAssumption DEF SweepOK, SweepRecord
<1>2. r \in SweepReports /\ <<n, 0>> \in SweepItems
  BY <1>1, ItemsArePairs DEF SweepReports, SweepOutcomes
<1>3. /\ sweep' \in SweepRecord /\ sweep'.pc = "source" /\ sweep'.sources = S /\ sweep'.hints = sweep.hints
      /\ sweep'.fetched = sweep.fetched /\ sweep'.report = r /\ sweep'.index = 0
  <2>1. sweep' = [sweep EXCEPT !.sources = S, !.report = r]
    OBVIOUS
  <2>2. sweep.index = 0
    BY DEF SweepOK
  <2>. HIDE DEF r, S
  <2>. QED BY <1>1, <1>2, <2>1, <2>2 DEF SweepRecord
<1>4. Hints' = Hints /\ \A i : (Ref(i)' = Ref(i)) /\ ~IsPending(i) /\ ~IsPending(i)'
  BY <1>3 DEF Hints, Ref, IsPending
<1>5. \A i \in Hints : i \in SweepItems /\ i # <<n, 0>>
  BY ItemsArePairs DEF Hints
<1>6. \A i \in SweepItems : i # <<n, 0>> => sweep'.report[i] = sweep.report[i]
  BY <1>1, <1>3 DEF SweepReports
<1>7. \A i \in Hints' : sweep'.report[i] # "none" <=> ~IsPending(i)'
  BY <1>4, <1>5, <1>6 DEF SweepOK
<1>8. \A v \in sweep'.sources : sweep'.hints[v] = <<>> /\ \A k \in 0 .. MaxHints : sweep'.report[<<v, k>>] = "none"
  <2>1. \A v \in sweep'.sources, k \in 0 .. MaxHints : v \in sweep.sources /\ <<v, k>> \in SweepItems /\ <<v, k>> # <<n, 0>>
    BY <1>1, <1>3, ItemsArePairs DEF SweepRecord
  <2>2. \A v \in sweep'.sources : sweep'.hints[v] = <<>>
    BY <1>3 DEF SweepOK
  <2>. QED BY <1>6, <2>1, <2>2 DEF SweepOK
<1>9. \A i \in sweep'.fetched : i \in Hints' /\ i[2] <= PerPeerCap
  BY <1>3, <1>4 DEF SweepOK
<1>10. \A i, j \in sweep'.fetched : Ref(i)'.node = Ref(j)'.node \/ Ref(i)'.url = Ref(j)'.url => i = j
  BY <1>3, <1>4 DEF SweepOK
<1>11. SweepOK'
  BY <1>3, <1>4, <1>7, <1>8, <1>9, <1>10 DEF SweepOK
<1>12. sweep.report[<<n, 0>>] = "none"
  BY <1>1 DEF SweepOK
<1>. QED BY <1>1, <1>2, <1>3, <1>4, <1>11, <1>12

(* An accepted manifest joins those that the sweep returns.                *)
LEMMA AcceptedFields ==
  ASSUME SweepOK, sweep.pc = "admit",
         sweep' = [Settled("accepted") EXCEPT !.accepted = @ \cup {sweep.manifest}]
  PROVE  /\ sweep' \in SweepRecord
         /\ sweep'.sources = sweep.sources /\ sweep'.hints = sweep.hints /\ sweep'.fetched = sweep.fetched
         /\ sweep'.accepted = sweep.accepted \cup {sweep.manifest}
         /\ sweep'.report = [sweep.report EXCEPT ![AtHand] = "accepted"]
         /\ IF sweep.index < Len(sweep.hints[sweep.source])
            THEN sweep'.pc = "hint" /\ sweep'.source = sweep.source /\ sweep'.index = sweep.index + 1
            ELSE sweep'.pc = "source" /\ sweep'.source = Self /\ sweep'.index = 0
<1> DEFINE t == Settled("accepted")
<1>1. "accepted" \in SweepOutcomes /\ sweep.manifest \in Manifests
  BY DEF SweepOutcomes, SweepOK
<1>2. /\ t \in SweepRecord
      /\ t.sources = sweep.sources /\ t.hints = sweep.hints /\ t.fetched = sweep.fetched
      /\ t.accepted = sweep.accepted /\ t.report = [sweep.report EXCEPT ![AtHand] = "accepted"]
      /\ IF sweep.index < Len(sweep.hints[sweep.source])
         THEN t.pc = "hint" /\ t.source = sweep.source /\ t.index = sweep.index + 1
         ELSE t.pc = "source" /\ t.source = Self /\ t.index = 0
  BY <1>1, SettledFields
<1>. HIDE DEF t
<1>3. sweep' = [t EXCEPT !.accepted = sweep.accepted \cup {sweep.manifest}]
  BY <1>2 DEF t
<1>4. t.accepted \cup {sweep.manifest} \in SUBSET Manifests
  BY <1>1, <1>2 DEF SweepRecord
<1>5. [t EXCEPT !.accepted = sweep.accepted \cup {sweep.manifest}] \in SweepRecord
  BY <1>2, <1>4 DEF SweepRecord
<1>. QED BY <1>2, <1>3, <1>5 DEF SweepRecord

(* The return of the sweep keeps its invariant.                            *)
LEMMA ReturnedIsOK ==
  ASSUME SweepOK, sweep.pc = "source", sweep.sources = {}, sweep' = [sweep EXCEPT !.pc = "returned"]
  PROVE  SweepOK' /\ Hints' = Hints
<1>1. sweep \in SweepRecord /\ "returned" \in SweepPlaces
  BY DEF SweepOK, SweepPlaces
<1>2. /\ sweep' \in SweepRecord /\ sweep'.pc = "returned" /\ sweep'.sources = {} /\ sweep'.hints = sweep.hints
      /\ sweep'.fetched = sweep.fetched /\ sweep'.report = sweep.report
  BY <1>1 DEF SweepRecord
<1>3. Hints' = Hints /\ \A i : (Ref(i)' = Ref(i)) /\ ~IsPending(i) /\ ~IsPending(i)'
  BY <1>2 DEF Hints, Ref, IsPending
<1>. QED BY <1>2, <1>3 DEF SweepOK

(* Every step of refresh_discovered_members keeps its invariant.           *)
LEMMA SweepKeeps == SweepOK /\ [SweepAlone]_sweep => SweepOK'
<1>. SUFFICES ASSUME SweepOK, [SweepAlone]_sweep PROVE SweepOK'
  OBVIOUS
<1>. USE DEF SweepOutcomes
<1>0. sweep \in SweepRecord
  BY DEF SweepOK
<1>1. ASSUME NEW o \in SweepOutcomes, sweep' = Settled(o), sweep.pc \in {"hint", "fetch", "admit"}
      PROVE  SweepOK'
  BY <1>1, SettledFields, SettledKeeps
<1>2. CASE SweepCalled
  <2>1. sweep' = SweepFrom("source", EligiblePeers)
    BY <1>2, FreshSweeps DEF SweepCalled
  <2>. QED BY <2>1, FreshNext DEF FreshIsOK, EligiblePeers
<1>3. CASE SourceAnswers
  BY <1>3, AnswerKeeps DEF SourceAnswers
<1>4. CASE SourceFails
  BY <1>4, SourceFailsKeeps DEF SourceFails
<1>5. CASE HintSkipped \/ FetchHintFails \/ HintMismatched
  BY <1>1, <1>5 DEF HintSkipped, FetchHintFails, HintMismatched
<1>6. CASE HintTaken
  <2>1. sweep' = [sweep EXCEPT !.pc = "fetch", !.fetched = sweep.fetched \cup {AtHand}, !.manifest = sweep.manifest]
    BY <1>0, <1>6 DEF HintTaken, AtHand, SweepRecord
  <2>2. sweep.fetched \cup {AtHand} \in SUBSET SweepItems /\ sweep.manifest \in Manifests \cup {NoManifest}
    BY <1>0, <1>6, HandIsHint DEF HintTaken, SweepRecord
  <2>. QED BY <1>6, <2>1, <2>2, StillAtHand DEF HintTaken
<1>7. CASE HintFetched
  <2>1. PICK m \in Fetches(Hint.url) : sweep' = [sweep EXCEPT !.pc = "admit", !.manifest = m]
    BY <1>7 DEF HintFetched
  <2>2. m \in Manifests /\ sweep.fetched \in SUBSET SweepItems
    BY <1>0, <2>1 DEF Fetches, SweepRecord
  <2>3. sweep' = [sweep EXCEPT !.pc = "admit", !.fetched = sweep.fetched, !.manifest = m]
    BY <1>0, <2>1 DEF SweepRecord
  <2>. QED BY <1>7, <2>2, <2>3, StillAtHand DEF HintFetched
<1>8. CASE AdmitHint
  <2>1. CASE sweep' = [Settled("accepted") EXCEPT !.accepted = @ \cup {sweep.manifest}]
    BY <1>8, <2>1, AcceptedFields, SettledKeeps DEF AdmitHint
  <2>2. CASE sweep' = Settled("rejected")
    BY <1>1, <1>8, <2>2 DEF AdmitHint
  <2>3. CASE sweep' = [SweepIdle EXCEPT !.pc = "raised"]
    BY <2>3, FreshSweeps, FreshNext DEF FreshIsOK
  <2>. QED BY <1>8, <2>1, <2>2, <2>3 DEF AdmitHint
<1>9. CASE SweepReturns
  <2>1. sweep' = [sweep EXCEPT !.pc = "returned"] /\ sweep.pc = "source" /\ sweep.sources = {}
    BY <1>9 DEF SweepReturns
  <2>. QED BY <2>1, ReturnedIsOK
<1>10. CASE sweep' = SweepIdle
  BY <1>10, FreshSweeps, FreshNext DEF FreshIsOK
<1>11. CASE UNCHANGED sweep
  BY <1>11 DEF SweepOK, Hints, Ref, IsPending, AtHand
<1>. QED BY <1>2, <1>3, <1>4, <1>5, <1>6, <1>7, <1>8, <1>9, <1>10, <1>11 DEF SweepAlone, SweepStep

(* Every step of Joining is a step of the sweep, or leaves it alone.       *)
LEMMA SweepPart == [JoinNext]_joinVars => [SweepAlone]_sweep
<1>. SUFFICES ASSUME [JoinNext]_joinVars PROVE [SweepAlone]_sweep
  OBVIOUS
<1>1. CASE HostStep
  <2>1. CASE Begin \/ Bootstrap \/ BootstrapDone \/ RecordSeed \/ RememberDiscovered \/ DiscoverDone
    BY <2>1 DEF Begin, Bootstrap, BootstrapDone, RecordSeed, RememberDiscovered, DiscoverDone, sweepVars
  <2>2. CASE Operate \/ FanProgress \/ OperateDone
    BY <2>2 DEF Operate, FanProgress, OperateDone, sweepVars
  <2>3. CASE Discover \/ Sweep \/ SweepDone
    BY <2>3 DEF Discover, Sweep, SweepDone, SweepAlone
  <2>. QED BY <1>1, <2>1, <2>2, <2>3 DEF HostStep
<1>2. CASE Elsewhere
  BY <1>2 DEF Elsewhere, AnswerTrickles, AnswerEnds, sweepVars
<1>3. CASE \E p \in Peers : CallProgress(p)
  BY <1>3 DEF CallProgress, sweepVars
<1>4. CASE \E m \in Manifests : IntroducesItself(m)
  BY <1>4 DEF IntroducesItself
<1>5. CASE UNCHANGED joinVars
  BY <1>5 DEF joinVars, sweepVars
<1>. QED BY <1>1, <1>2, <1>3, <1>4, <1>5 DEF JoinNext

(* The inductive invariant of the sweep, as part of joining                *)
THEOREM SweepInvariance == JoinSpec => []SweepOK
<1>1. JoinInit => SweepOK
  BY Fresh, FreshSweeps DEF JoinInit, FreshIsOK
<1>2. SweepOK /\ [JoinNext]_joinVars => SweepOK'
  BY SweepPart, SweepKeeps
<1>. QED BY <1>1, <1>2, PTL DEF JoinSpec

(* refresh_discovered_members looks a node and a URL up once, whoever names*)
(* them, and no more than per_peer_cap hints of a source.                  *)
THEOREM EachHintIsLookedUpOnce == JoinSpec => []LooksUpOnce
<1>1. SweepOK => LooksUpOnce
  <2>. SUFFICES ASSUME SweepOK, NEW n \in Nodes
                PROVE  Cardinality({i \in sweep.fetched : i[1] = n}) <= PerPeerCap
    BY DEF SweepOK, LooksUpOnce
  <2> DEFINE F == {i \in sweep.fetched : i[1] = n}
             G == {i[2] : i \in F}
             f == [i \in F |-> i[2]]
  <2>1. \A i \in F : i = <<n, i[2]>> /\ i[2] \in 1 .. PerPeerCap
    BY ItemsArePairs, SweepAssumption DEF SweepOK, SweepRecord, Hints, HintLists
  <2>2. f \in Injection(F, 1 .. PerPeerCap)
    BY <2>1 DEF Injection, IsInjective
  <2>3. IsFiniteSet(1 .. PerPeerCap) /\ Cardinality(1 .. PerPeerCap) = PerPeerCap
    BY FS_Interval, SweepAssumption
  <2>4. IsFiniteSet(F) /\ Cardinality(F) <= Cardinality(1 .. PerPeerCap)
    BY <2>2, <2>3, FS_Injection
  <2>. QED BY <2>3, <2>4
<1>. QED BY <1>1, SweepInvariance, PTL

----------------------------------------------------------------------------
(* The sweep reports each source and each hint once. *)

SweepBatch == Hints \cup {<<n, 0>> : n \in sweep.sources} \cup {i \in SweepItems : sweep.report[i] # "none"}

(* A hint that is settled is settled in the abstract report.               *)
LEMMA SettleIsReported ==
  ASSUME SweepOK, NEW o \in SweepOutcomes, sweep.pc \in {"hint", "fetch", "admit"},
         sweep'.pc \in {"hint", "source"}, sweep'.sources = sweep.sources, sweep'.hints = sweep.hints,
         sweep'.report = [sweep.report EXCEPT ![AtHand] = o]
  PROVE  SweepReport!Next
<1>1. Hints' = Hints
  BY DEF Hints
<1>2. AtHand \in Hints /\ AtHand \in SweepItems /\ sweep.report[AtHand] = "none"
  BY HandIsHint
<1>3. \A i \in SweepItems : sweep'.report[i] = IF i = AtHand THEN o ELSE sweep.report[i]
  BY DEF SweepOK, SweepRecord, SweepReports
<1>4. SweepBatch' = SweepBatch
  BY <1>1, <1>2, <1>3 DEF SweepBatch, SweepOutcomes
<1>5. SweepReport!Settle(AtHand, o)
  BY <1>1, <1>2, <1>4 DEF SweepReport!Settle, SweepBatch
<1>. QED BY <1>2, <1>5 DEF SweepReport!Next

(* Each step of the sweep is one of the abstract report, or a stutter.     *)
LEMMA SweepReportStep ==
  SweepOK /\ SweepOK' /\ [SweepAlone]_sweep => [SweepReport!Next]_(SweepReport!reportVars)
<1>. SUFFICES ASSUME SweepOK, SweepOK', [SweepAlone]_sweep
              PROVE  [SweepReport!Next]_(SweepReport!reportVars)
  OBVIOUS
<1>0. sweep \in SweepRecord /\ sweep.report \in SweepReports
  BY DEF SweepOK, SweepRecord
<1>1. ASSUME NEW o \in SweepOutcomes, sweep' = Settled(o), sweep.pc \in {"hint", "fetch", "admit"}
      PROVE  SweepReport!Next
  <2>1. /\ sweep'.sources = sweep.sources /\ sweep'.hints = sweep.hints
        /\ sweep'.report = [sweep.report EXCEPT ![AtHand] = o]
        /\ sweep'.pc \in {"hint", "source"}
    BY <1>1, SettledFields
  <2>. QED BY <1>1, <2>1, SettleIsReported
<1>2. CASE SweepCalled
  <2>1. sweep.pc = "idle" /\ sweep' = SweepFrom("source", EligiblePeers)
    BY <1>2, FreshSweeps DEF SweepCalled
  <2>2. sweep = SweepFrom("idle", {})
    BY <2>1 DEF SweepOK
  <2>3. sweep.report = NothingReported /\ sweep'.report = NothingReported /\ sweep'.pc = "source"
    BY <2>1, <2>2 DEF SweepFrom
  <2>4. sweep'.sources \subseteq Nodes /\ Hints' \subseteq SweepItems
    BY DEF SweepOK, SweepRecord, Hints
  <2>5. SweepBatch' \subseteq SweepItems
    BY <2>4, ItemsArePairs, SweepAssumption DEF SweepBatch
  <2>6. SweepReport!Begin
    BY <2>1, <2>3, <2>5 DEF SweepReport!Begin, SweepBatch
  <2>. QED BY <2>6 DEF SweepReport!Next
<1>3. CASE SourceAnswers
  <2>1. PICK n \in sweep.sources, r \in SeqOf(Refs, MaxHints) :
          sweep' = Advance([sweep EXCEPT !.sources = @ \ {n}, !.source = n, !.hints[n] = r])
    BY <1>3 DEF SourceAnswers
  <2>2. sweep.pc = "source"
    BY <1>3 DEF SourceAnswers
  <2>3. /\ n \in Nodes /\ sweep'.sources = sweep.sources \ {n} /\ sweep'.report = sweep.report
        /\ sweep'.pc \in {"hint", "source"}
    BY <2>1, <2>2, AnswerFields
  <2>4. Hints \subseteq Hints'
    BY <2>1, <2>2, AnswerKeeps
  <2>5. <<n, 0>> \in SweepItems /\ sweep.report[<<n, 0>>] = "none"
    BY <2>3, ItemsArePairs, SweepAssumption DEF SweepOK
  <2>6. \A i \in Hints' : i \in SweepItems /\ i # <<n, 0>>
    BY DEF Hints
  <2>7. \A v \in sweep'.sources : <<v, 0>> \in SweepItems /\ <<v, 0>> # <<n, 0>>
    BY <1>0, <2>3, ItemsArePairs, SweepAssumption DEF SweepRecord
  <2>8. SweepBatch \ {<<n, 0>>} \subseteq SweepBatch' /\ SweepBatch' \subseteq SweepItems \ {<<n, 0>>}
    BY <2>3, <2>4, <2>5, <2>6, <2>7 DEF SweepBatch
  <2>9. <<n, 0>> \in SweepBatch
    BY DEF SweepBatch
  <2>10. SweepReport!Expand(<<n, 0>>)
    BY <2>2, <2>3, <2>5, <2>8, <2>9 DEF SweepReport!Expand, SweepBatch
  <2>. QED BY <2>5, <2>10 DEF SweepReport!Next
<1>4. CASE SourceFails
  <2>1. PICK n \in sweep.sources :
          sweep' = [sweep EXCEPT !.sources = @ \ {n}, !.report[<<n, 0>>] = "failed"]
    BY <1>4 DEF SourceFails
  <2>2. sweep.pc = "source"
    BY <1>4 DEF SourceFails
  <2>3. /\ n \in Nodes /\ <<n, 0>> \in SweepItems /\ Hints' = Hints
        /\ sweep'.pc = "source" /\ sweep'.sources = sweep.sources \ {n}
        /\ sweep'.report = [sweep.report EXCEPT ![<<n, 0>>] = "failed"] /\ sweep.report[<<n, 0>>] = "none"
    BY <2>1, <2>2, SourceFailsKeeps
  <2>4. \A i \in SweepItems : sweep'.report[i] = IF i = <<n, 0>> THEN "failed" ELSE sweep.report[i]
    BY <1>0, <2>3 DEF SweepReports
  <2>5. SweepBatch' = SweepBatch /\ <<n, 0>> \in SweepBatch
    BY <2>3, <2>4 DEF SweepBatch
  <2>6. SweepReport!Settle(<<n, 0>>, "failed")
    BY <2>2, <2>3, <2>5 DEF SweepReport!Settle, SweepBatch
  <2>. QED BY <2>3, <2>6 DEF SweepReport!Next, SweepOutcomes
<1>5. CASE HintSkipped \/ FetchHintFails \/ HintMismatched
  BY <1>1, <1>5 DEF HintSkipped, FetchHintFails, HintMismatched, SweepOutcomes
<1>6. CASE HintTaken \/ HintFetched
  <2>1. /\ sweep.pc \in {"hint", "fetch"} /\ sweep'.pc \in {"fetch", "admit"}
        /\ sweep'.hints = sweep.hints /\ sweep'.sources = sweep.sources /\ sweep'.report = sweep.report
    BY <1>0, <1>6 DEF HintTaken, HintFetched, SweepRecord
  <2>2. SweepBatch' = SweepBatch
    BY <2>1 DEF SweepBatch, Hints
  <2>. QED BY <2>1, <2>2 DEF SweepReport!reportVars, SweepBatch
<1>7. CASE AdmitHint
  <2>1. CASE sweep' = [Settled("accepted") EXCEPT !.accepted = @ \cup {sweep.manifest}]
    BY <1>7, <2>1, AcceptedFields, SettleIsReported DEF AdmitHint, SweepOutcomes
  <2>2. CASE sweep' = Settled("rejected")
    BY <1>1, <1>7, <2>2 DEF AdmitHint, SweepOutcomes
  <2>3. CASE sweep' = [SweepIdle EXCEPT !.pc = "raised"]
    <3>1. sweep' = SweepFrom("raised", {}) /\ sweep.pc = "admit"
      BY <1>7, <2>3, FreshSweeps DEF AdmitHint
    <3>2. Hints' = {} /\ sweep'.sources = {} /\ sweep'.report = NothingReported /\ sweep'.pc = "raised"
      BY <3>1, FreshNext DEF FreshIsOK, SweepFrom
    <3>. QED BY <3>1, <3>2 DEF SweepReport!Next, SweepReport!Raise, SweepReport!NoOutcomes, NothingReported
  <2>. QED BY <1>7, <2>1, <2>2, <2>3 DEF AdmitHint
<1>8. CASE SweepReturns
  <2>1. sweep.pc = "source" /\ sweep.sources = {} /\ sweep' = [sweep EXCEPT !.pc = "returned"]
    BY <1>8 DEF SweepReturns
  <2>2. Hints' = Hints /\ sweep'.pc = "returned" /\ sweep'.report = sweep.report /\ sweep'.sources = sweep.sources
    BY <1>0, <2>1, ReturnedIsOK DEF SweepRecord
  <2>3. \A i \in SweepBatch : sweep.report[i] # "none"
    BY <2>1 DEF SweepBatch, SweepOK, IsPending
  <2>4. SweepBatch' = SweepBatch
    BY <2>2 DEF SweepBatch
  <2>5. SweepReport!Return
    BY <2>1, <2>2, <2>3, <2>4 DEF SweepReport!Return, SweepBatch
  <2>. QED BY <2>5 DEF SweepReport!Next
<1>9. CASE sweep.pc \in {"returned", "raised"} /\ sweep' = SweepIdle
  <2>1. sweep' = SweepFrom("idle", {})
    BY <1>9, FreshSweeps
  <2>2. Hints' = {} /\ sweep'.sources = {} /\ sweep'.report = NothingReported /\ sweep'.pc = "idle"
    BY <2>1, FreshNext DEF FreshIsOK, SweepFrom
  <2>. QED BY <1>9, <2>2 DEF SweepReport!Next, SweepReport!Take, SweepReport!NoOutcomes, NothingReported
<1>10. CASE UNCHANGED sweep
  BY <1>10 DEF SweepReport!reportVars, Hints
<1>. QED BY <1>2, <1>3, <1>4, <1>5, <1>6, <1>7, <1>8, <1>9, <1>10 DEF SweepAlone, SweepStep

(* refresh_discovered_members reports every source and every hint once, or *)
(* raises and reports none.                                                *)
THEOREM SweepReportsEveryHint == JoinSpec => SweepImplementsReports
<1>1. JoinInit => SweepReport!Init
  <2>. SUFFICES ASSUME JoinInit PROVE SweepReport!Init
    OBVIOUS
  <2>1. sweep = SweepFrom("idle", {})
    BY FreshSweeps DEF JoinInit
  <2>2. Hints = {} /\ sweep.sources = {} /\ sweep.report = NothingReported /\ sweep.pc = "idle"
    BY <2>1, Fresh DEF FreshIsOK, SweepFrom
  <2>. QED BY <2>2 DEF SweepReport!Init, SweepReport!NoOutcomes, NothingReported
<1>2. SweepOK /\ SweepOK' /\ [JoinNext]_joinVars => [SweepReport!Next]_(SweepReport!reportVars)
  BY SweepPart, SweepReportStep
<1>. QED BY <1>1, <1>2, SweepInvariance, PTL DEF JoinSpec, SweepImplementsReports, SweepReport!Spec

----------------------------------------------------------------------------
(* Whom an operation may be sent to *)

(* What a step of the sweep does to the table and to what it accepted *)
LEMMA SweepStepEffect ==
  ASSUME SweepOK, SweepStep
  PROVE  /\ sweep.pc \notin {"idle", "raised"} /\ sweep'.pc # "idle" /\ UNCHANGED peer_manifests
         /\ \/ sweep'.accepted = sweep.accepted /\ UNCHANGED table /\ sweep'.pc # "raised"
            \/ \E m \in Manifests :
                 /\ "accepted" \in AdmitManifest(m, Policy, now) /\ sweep'.pc # "raised"
                 /\ sweep'.accepted = sweep.accepted \cup {m}
                 /\ table' = [table EXCEPT ![m.node] = "active"]
            \/ sweep'.accepted = {} /\ UNCHANGED table /\ sweep'.pc = "raised"
<1>0. sweep \in SweepRecord
  BY DEF SweepOK
<1>1. CASE SourceAnswers
  BY <1>1, AnswerFields DEF SourceAnswers
<1>2. CASE SourceFails
  <2>1. PICK n \in sweep.sources :
          sweep' = [sweep EXCEPT !.sources = @ \ {n}, !.report = [@ EXCEPT ![<<n, 0>>] = "failed"]]
    BY <1>2 DEF SourceFails
  <2>. QED BY <1>0, <1>2, <2>1 DEF SourceFails, SweepRecord
<1>3. ASSUME NEW o \in SweepOutcomes, sweep' = Settled(o), sweep.pc \in {"hint", "fetch", "admit"}
      PROVE  sweep'.accepted = sweep.accepted /\ sweep'.pc \in {"hint", "source"}
  BY <1>3, SettledFields
<1>4. CASE HintSkipped \/ FetchHintFails \/ HintMismatched
  BY <1>3, <1>4 DEF HintSkipped, FetchHintFails, HintMismatched, SweepOutcomes
<1>5. CASE HintTaken \/ HintFetched \/ SweepReturns
  BY <1>0, <1>5 DEF HintTaken, HintFetched, SweepReturns, SweepRecord
<1>6. CASE AdmitHint
  <2>1. sweep.pc = "admit" /\ sweep.manifest \in Manifests /\ UNCHANGED peer_manifests
    BY <1>6 DEF AdmitHint, SweepOK
  <2>2. CASE /\ "accepted" \in AdmitManifest(sweep.manifest, Policy, now)
             /\ table' = [table EXCEPT ![sweep.manifest.node] = "active"]
             /\ sweep' = [Settled("accepted") EXCEPT !.accepted = @ \cup {sweep.manifest}]
    <3>1. sweep'.accepted = sweep.accepted \cup {sweep.manifest} /\ sweep'.pc \in {"hint", "source"}
      BY <2>1, <2>2, AcceptedFields
    <3>. QED BY <2>1, <2>2, <3>1
  <2>3. CASE sweep' = Settled("rejected") /\ UNCHANGED table
    BY <1>3, <2>1, <2>3 DEF SweepOutcomes
  <2>4. CASE sweep' = [SweepIdle EXCEPT !.pc = "raised"] /\ UNCHANGED table
    BY <2>1, <2>4, FreshSweeps DEF SweepFrom
  <2>. QED BY <1>6, <2>2, <2>3, <2>4 DEF AdmitHint
<1>. QED BY <1>1, <1>2, <1>4, <1>5, <1>6 DEF SweepStep

States == {"absent", "active", "revoked"}

(* Each manifest held, and each still to be recorded, was admissible once; *)
(* an active record has its manifest, or a report does that will be        *)
(* worked through, unless a sweep raised.                                  *)
HeldInv ==
  /\ table \in [Nodes -> States] /\ peer_manifests \in [Nodes -> Manifests \cup {NoManifest}]
  /\ left \subseteq EverAdmissible /\ sweep.accepted \subseteq EverAdmissible
  /\ \A n \in Nodes : peer_manifests[n] # NoManifest =>
       peer_manifests[n] \in EverAdmissible /\ peer_manifests[n].node = n /\ table[n] = "active"
  /\ \A m \in sweep.accepted : m.node \in Nodes => table[m.node] = "active"
  /\ stage = "remember" => \A m \in left : m.node \in Nodes => table[m.node] = "active"
  /\ \A n \in Nodes : table[n] = "active" /\ ~lost /\ sweep.pc # "raised" =>
       peer_manifests[n] # NoManifest \/ \E m \in left \cup sweep.accepted : m.node = n

StageInv ==
  /\ stage \in Stages
  /\ stage \notin {"record", "remember"} => left = {}
  /\ stage # "discover" => sweep.pc = "idle"
  /\ lost \in BOOLEAN /\ (lost => stage \in {"remember", "select", "operate", "done"})

CalledInv == \A n \in Nodes : fan.call[n] # "none" => peer_manifests[n] # NoManifest

(* _record_peer with an admissible manifest *)
LEMMA RecordKeeps ==
  ASSUME WebType, HeldInv, NEW m \in EverAdmissible, RecordManifest(m), NEW L \in SUBSET left,
         left \subseteq L \cup {m}, left' = L, EverAdmissible \subseteq EverAdmissible',
         UNCHANGED <<sweep, lost>>, stage' = "remember" => stage = "remember"
  PROVE  HeldInv' /\ \A n \in Nodes : peer_manifests[n] # NoManifest => peer_manifests'[n] # NoManifest
<1>. USE DEF HeldInv, States
<1>1. m \in Manifests /\ m # NoManifest
  BY WebAssumption DEF EverAdmissible
<1>2. CASE table[m.node] = "revoked"
  <2>1. UNCHANGED <<table, peer_manifests>>
    BY <1>2 DEF RecordManifest
  <2>2. \A n \in Nodes : table[n] = "active" => n # m.node
    BY <1>2
  <2>. QED BY <2>1, <2>2
<1>3. CASE table[m.node] # "revoked"
  <2>1. /\ table' = [table EXCEPT ![m.node] = "active"]
        /\ peer_manifests' = [peer_manifests EXCEPT ![m.node] = m]
    BY <1>3 DEF RecordManifest
  <2>2. table' \in [Nodes -> States] /\ peer_manifests' \in [Nodes -> Manifests \cup {NoManifest}]
    BY <1>1, <2>1
  <2>3. \A n \in Nodes : /\ peer_manifests'[n] = IF n = m.node THEN m ELSE peer_manifests[n]
                         /\ table'[n] = IF n = m.node THEN "active" ELSE table[n]
    BY <2>1
  <2>. QED BY <1>1, <2>2, <2>3
<1>. QED BY <1>2, <1>3

(* Every step of Joining keeps what the table and the manifests hold.      *)
LEMMA HeldKeeps ==
  ASSUME WebType, BootInv, SweepOK, HeldInv, StageInv, CalledInv, FanInv, [JoinNext]_joinVars
  PROVE  HeldInv' /\ StageInv' /\ CalledInv'
<1>0. EverAdmissible \subseteq EverAdmissible'
  BY WebPart, AdmissibleForGood
<1>1. ASSUME UNCHANGED <<sweepVars, left, lost>>, stage' = "remember" => stage = "remember" PROVE HeldInv'
  BY <1>0, <1>1 DEF HeldInv, sweepVars
<1>2. ASSUME UNCHANGED fan,
             \A n \in Nodes : peer_manifests[n] # NoManifest => peer_manifests'[n] # NoManifest
      PROVE  CalledInv'
  BY <1>2 DEF CalledInv
<1>3. CASE Begin \/ Bootstrap
  BY <1>1, <1>2, <1>3 DEF Begin, Bootstrap, At, Goto, sweepVars, fanVars, StageInv, Stages
<1>4. CASE BootstrapDone
  <2>1. left' \subseteq EverAdmissible
    BY <1>4 DEF BootstrapDone, BootTaken, BootInv
  <2>2. /\ left = {} /\ sweep.pc = "idle" /\ UNCHANGED <<table, peer_manifests, sweep, lost, fan>>
        /\ stage = "boot" /\ stage' = "record"
    BY <1>4 DEF BootstrapDone, StageInv, At, Goto, sweepVars, fanVars
  <2>3. HeldInv'
    BY <1>0, <2>1, <2>2 DEF HeldInv
  <2>. QED BY <1>2, <2>2, <2>3 DEF StageInv, Stages
<1>5. CASE RecordSeed
  <2>1. PICK m \in left : RecordManifest(m) /\ left' = left \ {m}
    BY <1>5 DEF RecordSeed
  <2>2. UNCHANGED <<sweep, lost, fan, stage>> /\ stage = "record"
    BY <1>5 DEF RecordSeed, At, fanVars
  <2>3. m \in EverAdmissible
    BY DEF HeldInv
  <2>4. HeldInv' /\ \A n \in Nodes : peer_manifests[n] # NoManifest => peer_manifests'[n] # NoManifest
    BY <1>0, <2>1, <2>2, <2>3, RecordKeeps
  <2>. QED BY <1>2, <2>2, <2>4 DEF StageInv, Stages
<1>6. CASE Discover
  <2>1. sweep = SweepFrom("idle", {})
    BY <1>6 DEF Discover, SweepCalled, SweepOK
  <2>2. sweep' = SweepFrom("source", EligiblePeers)
    BY <1>6, FreshSweeps DEF Discover, SweepCalled
  <2>3. sweep.accepted = {} /\ sweep'.accepted = {} /\ sweep.pc = "idle"
    BY <2>1, <2>2 DEF SweepFrom
  <2>4. UNCHANGED <<table, peer_manifests, left, lost, fan>> /\ left = {} /\ stage = "record" /\ stage' = "discover"
    BY <1>6 DEF Discover, SweepCalled, At, Goto, fanVars
  <2>5. HeldInv'
    BY <1>0, <2>3, <2>4 DEF HeldInv
  <2>. QED BY <1>2, <2>4, <2>5 DEF StageInv, Stages
<1>7. CASE Sweep
  <2>1. UNCHANGED <<stage, left, lost, fan>> /\ stage = "discover" /\ left = {} /\ ~lost
    BY <1>7 DEF Sweep, At, fanVars, StageInv, Stages
  <2>2. UNCHANGED peer_manifests /\ sweep.pc # "raised"
    BY <1>7, SweepStepEffect DEF Sweep
  <2>3. HeldInv'
    <3>1. CASE sweep'.accepted = sweep.accepted /\ UNCHANGED table
      BY <1>0, <2>1, <2>2, <3>1 DEF HeldInv
    <3>2. CASE \E m \in Manifests :
                 /\ "accepted" \in AdmitManifest(m, Policy, now)
                 /\ sweep'.accepted = sweep.accepted \cup {m}
                 /\ table' = [table EXCEPT ![m.node] = "active"]
      <4>1. PICK m \in Manifests : /\ "accepted" \in AdmitManifest(m, Policy, now)
                                   /\ sweep'.accepted = sweep.accepted \cup {m}
                                   /\ table' = [table EXCEPT ![m.node] = "active"]
        BY <3>2
      <4>2. m \in EverAdmissible
        BY <4>1, AcceptedIsAdmissible
      <4>3. table' \in [Nodes -> States] /\ \A n \in Nodes : table'[n] = IF n = m.node THEN "active" ELSE table[n]
        BY <4>1 DEF HeldInv, States
      <4>. QED BY <1>0, <2>1, <2>2, <4>1, <4>2, <4>3 DEF HeldInv
    <3>3. CASE sweep'.accepted = {} /\ UNCHANGED table /\ sweep'.pc = "raised"
      BY <1>0, <2>1, <2>2, <3>3 DEF HeldInv
    <3>. QED BY <1>7, <3>1, <3>2, <3>3, SweepStepEffect DEF Sweep
  <2>. QED BY <1>2, <2>1, <2>2, <2>3 DEF StageInv, Stages
<1>8. CASE SweepDone
  <2>1. sweep' = SweepFrom("idle", {})
    BY <1>8, FreshSweeps DEF SweepDone
  <2>2. sweep'.pc = "idle" /\ sweep'.accepted = {}
    BY <2>1 DEF SweepFrom
  <2>3. /\ sweep.pc \in {"returned", "raised"} /\ left' = sweep.accepted /\ lost' = (sweep.pc = "raised")
        /\ UNCHANGED <<table, peer_manifests, fan>> /\ stage = "discover" /\ stage' = "remember"
    BY <1>8 DEF SweepDone, At, Goto, fanVars
  <2>4. left = {} /\ ~lost
    BY <2>3 DEF StageInv, Stages
  <2>5. HeldInv'
    <3>1. /\ table' \in [Nodes -> States] /\ peer_manifests' \in [Nodes -> Manifests \cup {NoManifest}]
          /\ left' \subseteq EverAdmissible' /\ sweep'.accepted \subseteq EverAdmissible'
      BY <1>0, <2>2, <2>3 DEF HeldInv
    <3>2. \A n \in Nodes : peer_manifests'[n] # NoManifest =>
            peer_manifests'[n] \in EverAdmissible' /\ peer_manifests'[n].node = n /\ table'[n] = "active"
      BY <1>0, <2>3 DEF HeldInv
    <3>3. /\ \A m \in sweep'.accepted : m.node \in Nodes => table'[m.node] = "active"
          /\ \A m \in left' : m.node \in Nodes => table'[m.node] = "active"
      BY <1>0, <2>2, <2>3 DEF HeldInv
    <3>4. \A n \in Nodes : table'[n] = "active" /\ ~lost' =>
            peer_manifests'[n] # NoManifest \/ \E m \in left' \cup sweep'.accepted : m.node = n
      <4>. SUFFICES ASSUME NEW n \in Nodes, table[n] = "active", sweep.pc # "raised", peer_manifests[n] = NoManifest
                    PROVE  \E m \in left' : m.node = n
        BY <2>3
      <4>1. \E m \in left \cup sweep.accepted : m.node = n
        BY <1>0, <2>4 DEF HeldInv
      <4>. QED BY <2>3, <2>4, <4>1
    <3>. QED BY <3>1, <3>2, <3>3, <3>4, <2>2 DEF HeldInv
  <2>. QED BY <1>2, <2>2, <2>3, <2>5 DEF StageInv, Stages
<1>9. CASE RememberDiscovered
  <2>1. PICK m \in left : peer_manifests' = [peer_manifests EXCEPT ![m.node] = m] /\ left' = left \ {m}
    BY <1>9 DEF RememberDiscovered
  <2>2. UNCHANGED <<table, sweep, lost, fan, stage>> /\ stage = "remember"
    BY <1>9 DEF RememberDiscovered, At, fanVars
  <2>3. m \in EverAdmissible /\ m \in Manifests /\ m # NoManifest /\ (m.node \in Nodes => table[m.node] = "active")
    BY <2>2, WebAssumption DEF HeldInv, EverAdmissible
  <2>4. /\ peer_manifests' \in [Nodes -> Manifests \cup {NoManifest}]
        /\ \A n \in Nodes : peer_manifests'[n] = IF n = m.node THEN m ELSE peer_manifests[n]
    BY <2>1, <2>3 DEF HeldInv
  <2>5. HeldInv'
    BY <1>0, <2>1, <2>2, <2>3, <2>4 DEF HeldInv
  <2>. QED BY <1>2, <2>2, <2>3, <2>4, <2>5 DEF StageInv, Stages
<1>10. CASE DiscoverDone
  BY <1>1, <1>2, <1>10 DEF DiscoverDone, At, Goto, sweepVars, fanVars, StageInv, Stages
<1>11. CASE Operate
  <2>1. \A n \in Nodes : fan'.call[n] # "none" => n \in SelectPeers
    BY <1>11, JoiningAssumption DEF Operate, FanOutCalled
  <2>2. UNCHANGED <<sweepVars, left, lost>> /\ stage = "select" /\ stage' = "operate"
    BY <1>11 DEF Operate, At, Goto
  <2>. QED BY <1>1, <2>1, <2>2 DEF CalledInv, SelectPeers, sweepVars, StageInv, Stages
<1>12. CASE FanProgress \/ OperateDone
  <2>1. UNCHANGED <<sweepVars, left, lost>> /\ (stage' = stage \/ (stage = "operate" /\ stage' = "done"))
    BY <1>12 DEF FanProgress, OperateDone, At, Goto
  <2>2. \A n \in Nodes : fan'.call[n] # "none" => fan.call[n] # "none"
    BY <1>12, JoiningAssumption DEF FanProgress, FanOutReturns, OperateDone, FanOutTaken, FanIdle, NoCalls, FanInv, FanType
  <2>. QED BY <1>1, <2>1, <2>2 DEF CalledInv, sweepVars, StageInv, Stages
<1>13. CASE Elsewhere
  <2>1. UNCHANGED <<sweepVars, stage, left, lost>>
    BY <1>13 DEF Elsewhere, AnswerTrickles, AnswerEnds
  <2>2. \A n \in Nodes : fan'.call[n] # "none" => fan.call[n] # "none"
    BY <1>13, JoiningAssumption DEF Elsewhere, AnswerTrickles, AnswerEnds, PeerStep, Execute, Refuse, Disconnect, Ends, fanVars, FanInv, FanType
  <2>. QED BY <1>1, <2>1, <2>2 DEF CalledInv, sweepVars, StageInv, Stages
<1>14. CASE \E p \in Peers : CallProgress(p)
  <2>1. UNCHANGED <<sweepVars, stage, left, lost>>
    BY <1>14 DEF CallProgress
  <2>2. \A n \in Nodes : fan'.call[n] # "none" => fan.call[n] # "none"
    BY <1>14, JoiningAssumption DEF CallProgress, CallStep, Send, Receive, ClientTimesOut, TimesOut, Ends, FanInv, FanType
  <2>. QED BY <1>1, <2>1, <2>2 DEF CalledInv, sweepVars, StageInv, Stages
<1>15. CASE \E m \in Manifests : IntroducesItself(m)
  <2>1. PICK m \in Manifests : IntroducesItself(m)
    BY <1>15
  <2>2. /\ "accepted" \in AdmitManifest(m, Policy, now) /\ RecordManifest(m)
        /\ UNCHANGED <<sweep, fan, stage, left, lost>>
    BY <2>1 DEF IntroducesItself, fanVars
  <2>3. m \in EverAdmissible
    BY <2>2, AcceptedIsAdmissible
  <2>4. HeldInv' /\ \A n \in Nodes : peer_manifests[n] # NoManifest => peer_manifests'[n] # NoManifest
    BY <1>0, <2>2, <2>3, RecordKeeps
  <2>. QED BY <1>2, <2>2, <2>4 DEF StageInv, Stages
<1>16. CASE UNCHANGED joinVars
  BY <1>1, <1>2, <1>16 DEF joinVars, sweepVars, fanVars, StageInv, Stages
<1>. QED BY <1>3, <1>4, <1>5, <1>6, <1>7, <1>8, <1>9, <1>10, <1>11, <1>12, <1>13, <1>14, <1>15, <1>16
         DEF JoinNext, HostStep

(* The inductive invariant of joining: those of its parts, and what the    *)
(* table, the manifests and each stage of the host hold.                   *)
THEOREM JoiningInvariance == JoinSpec => [](WebType /\ BootInv /\ SweepOK /\ FanInv /\ HeldInv /\ StageInv /\ CalledInv)
<1>1. JoinInit => HeldInv /\ StageInv /\ CalledInv
  <2>. SUFFICES ASSUME JoinInit PROVE HeldInv /\ StageInv /\ CalledInv
    OBVIOUS
  <2>1. sweep = SweepFrom("idle", {})
    BY FreshSweeps DEF JoinInit
  <2>2. sweep.pc = "idle" /\ sweep.accepted = {}
    BY <2>1 DEF SweepFrom
  <2>3. HeldInv
    BY <2>2 DEF JoinInit, HeldInv, States
  <2>4. CalledInv
    BY JoiningAssumption DEF JoinInit, FanInit, FanIdle, NoCalls, CalledInv
  <2>. QED BY <2>2, <2>3, <2>4 DEF JoinInit, StageInv, Stages
<1>2. WebType /\ BootInv /\ SweepOK /\ FanInv /\ HeldInv /\ StageInv /\ CalledInv /\ [JoinNext]_joinVars
        => (HeldInv /\ StageInv /\ CalledInv)'
  BY HeldKeeps
<1>3. JoinSpec => []FanInv
  BY JoiningFansOut, FanOutInvariance, PTL
<1>. QED BY <1>1, <1>2, <1>3, BootInvariance, SweepInvariance, PTL DEF JoinSpec

(* The state is of the types JoinTypeOK states.                            *)
THEOREM JoiningTypeCorrect == JoinSpec => []JoinTypeOK
<1>1. SweepOK /\ HeldInv => SweepType
  BY DEF SweepOK, HeldInv, SweepType, States, SweepRecord, SweepPlaces, HintLists, SweepReports
<1>2. WebType /\ BootInv /\ SweepOK /\ FanInv /\ HeldInv /\ StageInv /\ stalled \in BOOLEAN => JoinTypeOK
  BY <1>1 DEF JoinTypeOK, BootInv, FanInv, HeldInv, StageInv, EverAdmissible
<1>3. JoinSpec => [](stalled \in BOOLEAN)
  <2>1. JoinInit => stalled \in BOOLEAN
    BY DEF JoinInit
  <2>2. stalled \in BOOLEAN /\ [JoinNext]_joinVars => (stalled \in BOOLEAN)'
    BY DEF JoinNext, HostStep, Elsewhere, AnswerTrickles, AnswerEnds, CallProgress, IntroducesItself, joinVars
  <2>. QED BY <2>1, <2>2, PTL DEF JoinSpec
<1>. QED BY <1>2, <1>3, JoiningInvariance, PTL

(* An operation is sent to no peer but those admitted: their manifest met  *)
(* the local policy at some time, and their record is active.              *)
THEOREM OnlyTheAdmittedAreCalled == JoinSpec => []OnlyAdmittedCalled
<1>1. HeldInv /\ CalledInv => OnlyAdmittedCalled
  BY DEF HeldInv, CalledInv, OnlyAdmittedCalled, EverAdmissible
<1>. QED BY <1>1, JoiningInvariance, PTL

(* After a discovery that did not raise, each active record has a manifest.*)
THEOREM RecordsKeepTheirManifests == JoinSpec => []RecordsHaveManifests
<1>1. HeldInv /\ StageInv /\ SweepOK => RecordsHaveManifests
  <2>. SUFFICES ASSUME HeldInv, StageInv, SweepOK, stage \in {"select", "operate", "done"}, ~lost,
                       NEW n \in EligiblePeers
                PROVE  peer_manifests[n] # NoManifest
    BY DEF RecordsHaveManifests
  <2>1. sweep = SweepFrom("idle", {}) /\ sweep.pc = "idle"
    BY DEF StageInv, SweepOK
  <2>2. sweep.accepted = {} /\ left = {}
    BY <2>1 DEF SweepFrom, StageInv
  <2>. QED BY <2>1, <2>2 DEF HeldInv, EligiblePeers
<1>. QED BY <1>1, JoiningInvariance, PTL

----------------------------------------------------------------------------
(* Nobody is overlooked. *)

(* A good hint that is done with has led to a record, or failed, or gave   *)
(* way to another; the manifest at hand is that of the node of the hint.   *)
FollowInv ==
  /\ sweep.pc = "admit" => sweep.manifest.node = Hint.node
  /\ \A i \in Hints : IsGood(i) /\ ~IsPending(i) =>
       table[Ref(i).node] # "absent" \/ sweep.report[i] \in {"failed", "rejected"} \/ Masked(i)

(* No record is deleted. *)
LEMMA TableGrows ==
  ASSUME SweepOK, HeldInv, [JoinNext]_joinVars
  PROVE  \A n \in Nodes : table[n] # "absent" => table'[n] # "absent"
<1>1. ASSUME NEW m, RecordManifest(m) PROVE \A n \in Nodes : table[n] # "absent" => table'[n] # "absent"
  BY <1>1 DEF RecordManifest, HeldInv
<1>2. CASE HostStep
  <2>1. CASE Sweep
    BY <2>1, SweepStepEffect DEF Sweep, HeldInv
  <2>2. CASE RecordSeed
    BY <1>1, <2>2 DEF RecordSeed
  <2>. QED BY <1>2, <2>1, <2>2 DEF HostStep, Begin, Bootstrap, BootstrapDone, Discover, SweepCalled, SweepDone,
        RememberDiscovered, DiscoverDone, Operate, FanProgress, OperateDone, sweepVars
<1>3. CASE Elsewhere \/ (\E p \in Peers : CallProgress(p)) \/ UNCHANGED joinVars
  BY <1>3 DEF Elsewhere, AnswerTrickles, AnswerEnds, CallProgress, joinVars, sweepVars
<1>4. CASE \E m \in Manifests : IntroducesItself(m)
  BY <1>1, <1>4 DEF IntroducesItself
<1>. QED BY <1>2, <1>3, <1>4 DEF JoinNext

(* A hint is settled that is not good, or whose end is one of those named. *)
LEMMA SettledFollows ==
  ASSUME SweepOK, HeldInv, FollowInv, NEW o \in SweepOutcomes, sweep.pc \in {"hint", "fetch", "admit"},
         web' = web, \A n \in Nodes : table[n] # "absent" => table'[n] # "absent",
         sweep'.hints = sweep.hints, sweep'.fetched = sweep.fetched,
         sweep'.report = [sweep.report EXCEPT ![AtHand] = o],
         IF sweep.index < Len(sweep.hints[sweep.source])
         THEN sweep'.pc = "hint" /\ sweep'.source = sweep.source /\ sweep'.index = sweep.index + 1
         ELSE sweep'.pc = "source" /\ sweep'.source = Self /\ sweep'.index = 0,
         IsGood(AtHand) => table'[Hint.node] # "absent" \/ o \in {"failed", "rejected"} \/ Masked(AtHand)
  PROVE  FollowInv'
<1>1. Hints' = Hints /\ \A i : Ref(i)' = Ref(i)
  BY DEF Hints, Ref
<1>2. \A i : (IsGood(i)' <=> IsGood(i)) /\ (Masked(i)' <=> Masked(i))
  BY <1>1 DEF IsGood, Masked
<1>3. AtHand \in Hints /\ AtHand \in SweepItems /\ Ref(AtHand) = Hint
  BY HandIsHint
<1>4. \A i \in Hints : i \in SweepItems /\ i[1] \in Nodes /\ i = <<i[1], i[2]>> /\ i[2] \in Nat
                       /\ i[2] <= Len(sweep.hints[i[1]]) /\ Ref(i).node \in Nodes
  <2>1. \A i \in Hints : sweep.hints[i[1]] \in Seq(Refs) /\ i[2] \in 1 .. Len(sweep.hints[i[1]])
    BY ItemsArePairs DEF Hints, SweepOK, SweepRecord, HintLists
  <2>2. \A i \in Hints : Ref(i) \in Refs
    BY <2>1 DEF Ref
  <2>. QED BY <2>1, <2>2, ItemsArePairs, SweepAssumption DEF Hints
<1>5. \A i \in SweepItems : sweep'.report[i] = IF i = AtHand THEN o ELSE sweep.report[i]
  BY DEF SweepOK, SweepRecord, SweepReports
<1>6. sweep.index \in 1 .. Len(sweep.hints[sweep.source]) /\ sweep.hints[sweep.source] \in Seq(Refs)
  BY DEF SweepOK, SweepRecord, HintLists
<1>7. \A i \in Hints : ~IsPending(i)' => ~IsPending(i) \/ i = AtHand
  BY <1>4, <1>6 DEF IsPending, AtHand
<1>8. \A i \in Hints' : IsGood(i)' /\ ~IsPending(i)' =>
        table'[Ref(i).node] # "absent" \/ sweep'.report[i] \in {"failed", "rejected"} \/ Masked(i)
  BY <1>1, <1>2, <1>3, <1>4, <1>5, <1>7 DEF FollowInv
<1>. QED BY <1>1, <1>2, <1>8 DEF FollowInv

(* The other steps settle no hint. *)
LEMMA UnsettledFollows ==
  ASSUME SweepOK, HeldInv, FollowInv, web' = web,
         \A n \in Nodes : table[n] # "absent" => table'[n] # "absent",
         \A i \in Hints' : ~IsPending(i)' => i \in Hints /\ ~IsPending(i) /\ Ref(i)' = Ref(i) /\ sweep'.report[i] = sweep.report[i],
         sweep.fetched \subseteq sweep'.fetched, \A i \in sweep.fetched : Ref(i)' = Ref(i),
         sweep'.pc = "admit" => sweep'.manifest.node = Hint'.node
  PROVE  FollowInv'
<1>1. ASSUME NEW i \in Hints', IsGood(i)', ~IsPending(i)'
      PROVE  table'[Ref(i)'.node] # "absent" \/ sweep'.report[i] \in {"failed", "rejected"} \/ Masked(i)'
  <2>1. i \in Hints /\ ~IsPending(i) /\ Ref(i)' = Ref(i) /\ IsGood(i)
    BY <1>1 DEF IsGood
  <2>2. Ref(i).node \in Nodes
    <3>1. sweep.hints[i[1]] \in Seq(Refs) /\ i[2] \in 1 .. Len(sweep.hints[i[1]])
      BY <2>1, ItemsArePairs DEF Hints, SweepOK, SweepRecord, HintLists
    <3>2. Ref(i) \in Refs
      BY <3>1 DEF Ref
    <3>. QED BY <3>2, SweepAssumption
  <2>3. Masked(i) => Masked(i)'
    BY <2>1 DEF Masked
  <2>. QED BY <1>1, <2>1, <2>2, <2>3 DEF FollowInv
<1>. QED BY <1>1 DEF FollowInv

(* Every step of Joining keeps what is said of the hints settled.          *)
LEMMA FollowKeeps ==
  ASSUME WebType, SweepOK, SweepOK', HeldInv, FollowInv, [JoinNext]_joinVars
  PROVE  FollowInv'
<1>0. sweep \in SweepRecord /\ web' = web /\ \A n \in Nodes : table[n] # "absent" => table'[n] # "absent"
  BY WebPart, TableGrows DEF SweepOK
<1>1. ASSUME UNCHANGED sweep PROVE FollowInv'
  BY <1>0, <1>1, UnsettledFollows DEF Hints, IsPending, Ref, FollowInv, Hint
<1>2. ASSUME NEW o \in SweepOutcomes, sweep' = Settled(o), sweep.pc \in {"hint", "fetch", "admit"},
             IsGood(AtHand) => table'[Hint.node] # "absent" \/ o \in {"failed", "rejected"} \/ Masked(AtHand)
      PROVE  FollowInv'
  <2>1. /\ sweep'.hints = sweep.hints /\ sweep'.fetched = sweep.fetched
        /\ sweep'.report = [sweep.report EXCEPT ![AtHand] = o]
        /\ IF sweep.index < Len(sweep.hints[sweep.source])
           THEN sweep'.pc = "hint" /\ sweep'.source = sweep.source /\ sweep'.index = sweep.index + 1
           ELSE sweep'.pc = "source" /\ sweep'.source = Self /\ sweep'.index = 0
    BY <1>2, SettledFields
  <2>. HIDE <1>2
  <2>2. sweep.pc \in {"hint", "fetch", "admit"}
    BY <1>2
  <2>3. IsGood(AtHand) => table'[Hint.node] # "absent" \/ o \in {"failed", "rejected"} \/ Masked(AtHand)
    BY <1>2
  <2>. QED BY <1>0, <2>1, <2>2, <2>3, SettledFollows
<1>3. ASSUME NEW S \in SUBSET Nodes, NEW c \in {"idle", "raised", "source"}, sweep' = SweepFrom(c, S),
             c # "source" => S = {}
      PROVE  FollowInv'
  <2>1. Hints' = {} /\ sweep'.pc # "admit"
    BY <1>3, FreshNext DEF FreshIsOK, SweepFrom
  <2>. QED BY <2>1 DEF FollowInv
<1>4. CASE SweepCalled
  BY <1>3, <1>4, FreshSweeps DEF SweepCalled, EligiblePeers
<1>5. CASE SourceAnswers
  <2>1. PICK n \in sweep.sources, r \in SeqOf(Refs, MaxHints) :
          sweep' = Advance([sweep EXCEPT !.sources = @ \ {n}, !.source = n, !.hints[n] = r])
    BY <1>5 DEF SourceAnswers
  <2>2. sweep.pc = "source"
    BY <1>5 DEF SourceAnswers
  <2>3. /\ n \in Nodes /\ r \in Seq(Refs) /\ sweep'.hints = [sweep.hints EXCEPT ![n] = r]
        /\ sweep'.fetched = sweep.fetched /\ sweep'.report = sweep.report
        /\ IF 0 < Len(r) THEN sweep'.pc = "hint" /\ sweep'.source = n /\ sweep'.index = 1
           ELSE sweep'.pc = "source" /\ sweep'.source = Self /\ sweep'.index = 0
    BY <2>1, <2>2, AnswerFields
  <2>4. \A v \in Nodes : sweep'.hints[v] = IF v = n THEN r ELSE sweep.hints[v]
    BY <1>0, <2>3 DEF SweepRecord, HintLists
  <2>5. sweep.hints[n] = <<>>
    BY DEF SweepOK
  <2>6. \A i \in Hints' : i[1] = n => IsPending(i)'
    BY <2>3, <2>4, ItemsArePairs DEF Hints, IsPending
  <2>7. \A i \in Hints' : i[1] # n => i \in Hints /\ Ref(i)' = Ref(i)
    BY <2>3, <2>4, ItemsArePairs DEF Hints, Ref
  <2>8. \A i \in Hints : i[1] # n /\ Ref(i)' = Ref(i) /\ ~IsPending(i)
    BY <2>2, <2>4, <2>5, ItemsArePairs DEF Hints, Ref, IsPending
  <2>9. sweep.fetched \subseteq Hints /\ sweep'.pc # "admit"
    BY <2>3 DEF SweepOK
  <2>. QED BY <1>0, <2>3, <2>6, <2>7, <2>8, <2>9, UnsettledFollows
<1>6. CASE SourceFails
  <2>1. PICK n \in sweep.sources :
          sweep' = [sweep EXCEPT !.sources = @ \ {n}, !.report[<<n, 0>>] = "failed"]
    BY <1>6 DEF SourceFails
  <2>2. sweep.pc = "source"
    BY <1>6 DEF SourceFails
  <2>3. /\ n \in Nodes /\ <<n, 0>> \in SweepItems /\ Hints' = Hints /\ sweep'.pc = "source"
        /\ sweep'.report = [sweep.report EXCEPT ![<<n, 0>>] = "failed"]
    BY <2>1, <2>2, SourceFailsKeeps
  <2>4. sweep'.hints = sweep.hints /\ sweep'.fetched = sweep.fetched
    <3>1. sweep' = [sweep EXCEPT !.sources = @ \ {n}, !.report = [@ EXCEPT ![<<n, 0>>] = "failed"]]
      BY <2>1
    <3>. QED BY <1>0, <3>1 DEF SweepRecord
  <2>5. \A i \in Hints : i # <<n, 0>> /\ i \in SweepItems
    BY DEF Hints
  <2>6. \A i \in Hints' : sweep'.report[i] = sweep.report[i] /\ ~IsPending(i) /\ Ref(i)' = Ref(i)
    BY <1>0, <2>2, <2>3, <2>4, <2>5 DEF IsPending, Ref, SweepRecord, SweepReports
  <2>. QED BY <1>0, <2>3, <2>4, <2>6, UnsettledFollows DEF Ref
<1>7. CASE HintSkipped
  <2>1. sweep.pc = "hint" /\ IsSkipped /\ sweep' = Settled("skipped")
    BY <1>7 DEF HintSkipped
  <2>2. Ref(AtHand) = Hint /\ AtHand \in Hints /\ AtHand \in SweepItems /\ IsPending(AtHand)
    BY <2>1, HandIsHint
  <2>3. Hint.node \in Nodes /\ sweep.index \in Nat
    <3>1. sweep.hints[sweep.source] \in Seq(Refs) /\ sweep.index \in 1 .. Len(sweep.hints[sweep.source])
      BY <2>1 DEF SweepOK, SweepRecord, HintLists
    <3>2. Hint \in Refs
      BY <3>1 DEF Hint, Ref
    <3>. QED BY <3>1, <3>2, SweepAssumption
  <2>4. Seen => Masked(AtHand)
    <3>1. \A j \in sweep.fetched : j # AtHand
      BY <2>1, <2>2 DEF SweepOK
    <3>. QED BY <2>2, <3>1 DEF Seen, Masked
  <2>5. IsGood(AtHand) => table'[Hint.node] # "absent" \/ Masked(AtHand)
    BY <1>0, <2>1, <2>2, <2>3, <2>4, SweepAssumption DEF IsGood, IsSkipped, AtHand
  <2>. QED BY <1>2, <2>1, <2>5 DEF SweepOutcomes
<1>8. CASE FetchHintFails
  BY <1>2, <1>8 DEF FetchHintFails, SweepOutcomes
<1>9. CASE HintMismatched
  <2>1. sweep.pc = "fetch" /\ sweep' = Settled("skipped") /\ \E m \in Fetches(Hint.url) : m.node # Hint.node
    BY <1>9 DEF HintMismatched
  <2>2. ~IsGood(AtHand)
    BY <2>1, HandIsHint DEF Fetches, IsGood
  <2>. QED BY <1>2, <2>1, <2>2 DEF SweepOutcomes
<1>10. CASE HintTaken \/ HintFetched
  <2>1. /\ sweep.pc \in {"hint", "fetch"} /\ sweep'.pc \in {"fetch", "admit"}
        /\ sweep'.hints = sweep.hints /\ sweep'.report = sweep.report
        /\ sweep'.source = sweep.source /\ sweep'.index = sweep.index /\ sweep.fetched \subseteq sweep'.fetched
    BY <1>0, <1>10 DEF HintTaken, HintFetched, SweepRecord
  <2>2. Hints' = Hints /\ Hint' = Hint /\ \A i : (Ref(i)' = Ref(i)) /\ (IsPending(i)' <=> IsPending(i))
    BY <2>1 DEF Hints, Hint, Ref, IsPending
  <2>3. sweep'.pc = "admit" => sweep'.manifest.node = Hint.node
    <3>1. CASE HintTaken
      BY <1>0, <3>1 DEF HintTaken, SweepRecord
    <3>2. CASE HintFetched
      <4>1. PICK m \in Fetches(Hint.url) : m.node = Hint.node /\ sweep' = [sweep EXCEPT !.pc = "admit", !.manifest = m]
        BY <3>2 DEF HintFetched
      <4>. QED BY <1>0, <4>1 DEF SweepRecord
    <3>. QED BY <1>10, <3>1, <3>2
  <2>. QED BY <1>0, <2>1, <2>2, <2>3, UnsettledFollows
<1>11. CASE AdmitHint
  <2>1. sweep.pc = "admit" /\ sweep.manifest.node = Hint.node
    BY <1>11 DEF AdmitHint, FollowInv
  <2>2. CASE /\ table' = [table EXCEPT ![sweep.manifest.node] = "active"]
             /\ sweep' = [Settled("accepted") EXCEPT !.accepted = @ \cup {sweep.manifest}]
    <3>1. Hint.node \in Nodes
      <4>1. sweep.hints[sweep.source] \in Seq(Refs) /\ sweep.index \in 1 .. Len(sweep.hints[sweep.source])
        BY <2>1 DEF SweepOK, SweepRecord, HintLists
      <4>2. Hint \in Refs
        BY <4>1 DEF Hint, Ref
      <4>. QED BY <4>2, SweepAssumption
    <3>2. table'[Hint.node] = "active"
      BY <2>1, <2>2, <3>1 DEF HeldInv
    <3>. QED BY <1>0, <2>1, <2>2, <3>2, AcceptedFields, SettledFollows DEF SweepOutcomes
  <2>3. CASE sweep' = Settled("rejected")
    BY <1>2, <2>1, <2>3 DEF SweepOutcomes
  <2>4. CASE sweep' = [SweepIdle EXCEPT !.pc = "raised"]
    BY <1>3, <2>4, FreshSweeps
  <2>. QED BY <1>11, <2>2, <2>3, <2>4 DEF AdmitHint
<1>12. CASE SweepReturns
  <2>1. sweep.pc = "source" /\ sweep.sources = {} /\ sweep' = [sweep EXCEPT !.pc = "returned"]
    BY <1>12 DEF SweepReturns
  <2>2. sweep'.pc = "returned" /\ sweep'.report = sweep.report /\ sweep'.hints = sweep.hints /\ sweep'.fetched = sweep.fetched
    BY <1>0, <2>1 DEF SweepRecord
  <2>. QED BY <1>0, <2>1, <2>2, UnsettledFollows DEF Hints, Ref, IsPending
<1>13. CASE sweep' = SweepIdle
  BY <1>3, <1>13, FreshSweeps
<1>. QED BY <1>1, <1>4, <1>5, <1>6, <1>7, <1>8, <1>9, <1>10, <1>11, <1>12, <1>13, SweepPart DEF SweepAlone, SweepStep

(* Every good hint that was received is followed.                          *)
THEOREM HintsAreNotOverlooked == JoinSpec => []HintsAreFollowed
<1>1. JoinInit => FollowInv
  <2>. SUFFICES ASSUME JoinInit PROVE FollowInv
    OBVIOUS
  <2>1. sweep = SweepFrom("idle", {})
    BY FreshSweeps DEF JoinInit
  <2>2. Hints = {} /\ sweep.pc = "idle"
    BY <2>1, Fresh DEF FreshIsOK, SweepFrom
  <2>. QED BY <2>2 DEF FollowInv
<1>2. WebType /\ SweepOK /\ SweepOK' /\ HeldInv /\ FollowInv /\ [JoinNext]_joinVars => FollowInv'
  BY FollowKeeps
<1>3. FollowInv => HintsAreFollowed
  BY DEF FollowInv, HintsAreFollowed, IsPending
<1>. QED BY <1>1, <1>2, <1>3, JoiningInvariance, PTL DEF JoinSpec

=============================================================================
