# Federlet in TLA+

This directory specifies and verifies the core of federlet, the library a host
embeds to take part in a federation of nodes without a hub: how a node learns of
peers, keeps and refreshes their signed manifests, revokes them, verifies their
signed requests, backs off from those that fail, limits the rate of those
that ask too much, discovers further peers and sends operations to those it
may select. Every definition is translated from `src/src/federlet/`;
`PROJECT.json` maps each to its lines. `node.py:327` below means
`src/src/federlet/node.py`, line 327.

## 1. The system

| Part (source) | State it keeps | Operations | Hard behaviour | What makes it correct |
|---|---|---|---|---|
| Facade (`node.py`) | `peer_manifests` cache, lifecycle lock, the client; the membership and manifest stores are injected | `admit_peer`, `bootstrap_from_seeds`, `discover`, `refresh_peer`, `refresh_all`, `apply_revocation_notice`, `hydrate`, `select_peers`, `verify_known_inbound` | interleaved asyncio tasks, decisions taken before the lock and applied inside it, two stores written one after the other, crashes | operations are atomic, revocation sticks, the stores and the cache agree, operations return |
| Refresh (`refresh.py`, `check_key_continuity` in `admission.py`) | none | classify a fetched manifest against the current one | fetches of unbounded length, partial failure of a batch | no rollback, no change of identity, keys only by succession or evidence |
| Discovery (`discovery.py`) | none of its own, writes the table | one sweep over the eligible peers | reads and writes the table without the lock | only admitted manifests, no known peer overwritten, each node and URL looked up once, no right hint passed over |
| Bootstrap (`bootstrap.py`) | none | fetch, admit, introduce, report | a seed decides on its own, and its answer may be lost; callbacks raise | every seed is reported once, and as it and the policy decided |
| Membership and health (`membership.py`, `health.py`) | one `MemberRecord` per peer, in a store | `admit`, `set_state`, `record_success`, `record_failure`, `is_eligible`, revocation, disclosure with a `since` cursor | lost updates, overflow, time passing, stamps cut to seconds | failures cool down on schedule, reports do not revive the revoked, writes are disclosed |
| Signed requests (`signing.py`) | the nonce cache, injected | build, verify, claim a nonce | duplicates, delays, altered copies, clocks that differ, a cache that is slow or fails | handled as signed, and again only where the clocks allow it; nobody's nonce is used up by another |
| Rate limiter (`protocols/rate_limit.py`) | one token bucket per peer | `allow` | callers' times in any order | never more than burst and rate; refusals end |
| Admission (`admission.py`) | none | `admit_manifest`, `check_manifest` | callbacks of the host, which refuse or raise | every gate is applied, and a published manifest passes |
| Fan-out (`fanout.py`) | none | concurrent calls, one report | a pool of connections, two timeouts, requests that go on when they are given up | every target is reported once, who is reported as succeeded has executed, the call returns |
| Certificate identity (`certauth.py`) | none | match a presented identity | fields the host leaves empty | an empty expectation matches nothing, a certificate names one node |
| Client (`client.py`) | the HTTP client | signed calls, `fetch_manifest` | network failure | only verified answers are returned |
| Publication, models, URLs, network guards, responses, audit, time | none | builders, validation, classification | | |

How they interact: the host's tasks call the facade. The facade calls the
functional helpers (refresh, discovery, bootstrap), which call the client and,
in the case of discovery, the membership store; it then takes the lifecycle lock
and writes the membership store, the cache and the manifest store. Inbound
requests are verified with the cached manifest of their source and claim a nonce
in the injected cache. Health reports go from the host straight to the
membership store, past the facade and its lock.

## 2. Modules

| Module | What it is |
|---|---|
| `ManifestRefresh` | the refresh decisions as pure operators, and `Succeeds`, the independent statement of which manifests a refresh may hand on |
| `FederationNode` | the facade: state, one action per operation and per step between awaits, faults, properties |
| `FederationNodeReturns` | the facade where a call that is awaited need not end; fairness and liveness |
| `PeerRegistry` | abstract: one registry, every operation a single step |
| `FederationNodeRegistry` | the refinement mapping from the facade to the registry |
| `SignedRequests` | building, sending and verifying signed requests |
| `PeerHealth` | one membership record under the health policy, several writers |
| `Disclosure` | `PeerHealth` with `disclose_members` and a requester that polls with a `since` cursor |
| `RateLimiter` | the token bucket |
| `Admission` | `check_manifest`, `admit_manifest` with the host's callbacks, `build_signed_manifest`, as operators |
| `CertIdentity` | `matches` and `verify_certificate_identity`, as operators |
| `ManifestWeb` | what the URLs serve, the clock, and what `fetch_manifest` may come back with |
| `Reports` | abstract: a batch, each item of which is reported exactly once before the report is handed over |
| `SeedBootstrap` | `bootstrap_from_seeds` of `bootstrap.py`; implements `Reports` |
| `DiscoverySweep` | `refresh_discovered_members`, hint by hint; implements `Reports` |
| `FanOut` | `fan_out_operation`; implements `Reports` |
| `Joining` | the composition of the three: bootstrap, record, discover, remember, select, fan out |
| `MC...` | the instances TLC checks |
| `..._proofs` | the theorems (section 4) |

`Joining` extends `SeedBootstrap`, `DiscoverySweep` (both over `ManifestWeb` and
`Admission`) and `FanOut`; `Disclosure` extends `PeerHealth`; `FederationNode`
extends `ManifestRefresh`.

### FederationNode

State: `membership_table` and `manifest_store` are the two durable ports,
`peer_manifests` the cache, `lifecycle_lock` the asyncio lock, `up` says that
the process runs and has been hydrated, and `task` holds, for each task of the
host, the statement it is at (`pc`) and its local variables.

A step is what one task does up to an await another task can notice: a call on
one of the two stores, a fetch, or waiting for the lock. Reading the table and
acquiring the lock is one step where the code does nothing observable between
them (`ApplyRefreshDecision`, `RecordPeer`). Reads of the table by
`eligible_peers` are one call on the store and one step. Inside the lock the
assignment to the cache (`Remember`, `Forget`), the write of the manifest store
(`Persist`, `Delete`) and the write of the record (`RecordUpsert`, `ApplyAdmit`,
`ApplyQuarantine`, `ApplyReject`, `MarkRevoked`) are steps of their own, in the
order of the code: manifest first, record second, except for rejection and
revocation, which write the record first.

Abstractions. A manifest is its node, organisation, revision, keys and signer.
`admit_manifest` is the set `Admissible`: the policy is fixed while the node
runs, and nothing here depends on why a manifest is accepted (`Admission` says why). The gates of
`apply_revocation_notice` (federation, signature, authorisation) are a free
choice. What a peer returns from `get_members` is any set of nodes, what a fetch
returns is any manifest or failure. The facade never sets `accepted_until` or
`cooldown_until`, so eligibility is the ACTIVE state here; the times are in
`PeerHealth`. The elements of a loop over a set or dictionary are taken in any
order. The model's own steps `Calls`, `Begin` and `AfterRecord` are the calls and
loops of Python.

Faults: `Abort` is a store call that raises or a task that is cancelled (the
operation unwinds, the lock is released), `Crash` the death of the process, after
which `Hydrate` reloads the cache. Both stores survive: federlet's default
`MembershipTable` does not, but it is then empty as at the start.

### FederationNodeReturns

`FederationNode` with one more variable: the tasks that are `stuck` in a call which
never ends. Any await on a peer or a store may become one (`Hang`), inside the lock
or outside of it: httpx limits each read and not the response (`client.py:64`), and
the stores are the host's. It may end after all, or be given up with its task.
Only what reads the lock first (`NeedsLock`) takes it before it hangs.

### SignedRequests

The network keeps every request for ever and hands over any of them, or an
altered copy, any number of times (`Arrivals`). A verification reads the clock
and checks the request (`VerifySignedRequest`) and then awaits the nonce cache
(`Accept`, `Replay`, `LoseAnswer`, `Fail`), so several verifications, and time
itself, come in between. `intact` stands for the signature, `call` for method,
path and body together, since the code compares each of them for equality.
`claims` is history. A sender's clock is off by any of `Drifts`; nothing is assumed of
how long a request or a claim takes. The key of a nonce (`NonceKey`) is what the code
makes of it: four names joined with colons, none of them escaped. Names such as
`node:org-a:prod` have colons of their own, so a name is the sequence of its parts and
a join concatenates them; the federation a request names is any of `Federations`,
since nobody compares it with anything.

### PeerHealth

The record of one peer and the tasks that change it. `Durable` chooses between a
store whose `get` returns a copy and `MembershipTable`, whose `get` returns the
object it holds, so that the policy functions change it before `upsert` is
called. `Overflows` is timedelta's range: the code multiplies before it caps
(`membership.py:110`). Times are kept as the ticks left. `ApplyProbe` sets the state
that `probe_peer_health` suggests on whatever the record is, as `set_state` does, and
`AdmitPeer` is the host's own `admit`, which has no guard either.

`last_refresh` is kept by its order to one requester's cursor. A store of JSON cuts
it to whole seconds (`WholeSeconds`, `membership.py:73`): as long as it is the second
of the cursor (`same_second`), what is stamped is not after the cursor (`Stamp`).

`read`, the state a report started from, and `row`, the failures reported in a row,
are history. Two reports that overlap in a store of copies overwrite each other, so
the row is then `Lost` until a success or an admission that overlaps nothing.

### RateLimiter

`allow` has no await and is one step. Its `now` comes from the caller and is any
value at any call, because a caller may read the clock and be scheduled late.
Tokens are counted in parts such that a tick refills exactly `rate` of them, so
the code's float arithmetic is exact here; rounding is not modelled. `window` and
`refused` are history for the two properties.

### Disclosure

`disclose_members` discloses a member that is eligible, not denied, and written
since the cursor. Only the order of stamp and cursor counts, so a record's
`last_refresh` is "before" or "after" the cursor the requester now has, and a poll,
which moves the cursor, turns every "after" into "before", also in the reports of
health that are stamped and not yet persisted, and makes this the second of the
cursor. The comparison is strict. `told` says that the requester knows
the member; `overtaken` and `overlooked` are history: which reports a poll has
overtaken, and whether the member became visible by something that leaves no stamp
after the cursor. In the code these are the end of a cooldown
(`membership.py:217` compares `last_refresh`, which it does not touch), an edit of
`denied`, a report overtaken by a poll, and a report stamped in the second of a poll
that the store cuts to that second. A requester avoids the last one by asking from a
second before its last response.

### Admission, CertIdentity, ManifestWeb

`AdmitManifest(m, policy, time)` is the set of ways in which `admit_manifest` may
end ("accepted", "rejected", "raised"): the gates in the order of the code, then
the host's callbacks, each of which may do what `Verdicts` allows it.
`BuildSignedManifest` has the timestamps that `iso_z` cuts to whole seconds; a
second is `Second` ticks. Host names are sequences of labels, since
`_host_in_domain` compares their ends. `Fetches(u)` is what a fetch of a URL may
return: `_assert_public_host` must let the host pass, the URL must serve a manifest
that verifies, and it may fail in any case. A body that trickles in for ever
(`Trickle`) neither returns nor fails, since httpx limits each read and not the
whole (`client.py:64`).

### SeedBootstrap

`boot` holds the statement at which `bootstrap_from_seeds` is, its locals and its
report; `decided` is the seeds' side. The introduction is asked (`Introduce`), the
seed decides in its own time or never, and the answer may be lost, or fail to
verify, after it has decided; a callback that raises ends the bootstrap without a
report. The seeds are a set: their order, a seed listed twice and a node that is
its own seed are left out.

### DiscoverySweep

`sweep` holds the sources still to be asked, the responses so far as sequences of
hints, the hint at hand, the hints looked up and what was accepted. The steps are
those of the code: a request to each source, the skips (itself, a known node, a
node or URL looked up before, the cap of the source), the fetch, the manifest of
another node, the admission, the write of the record. The table is the facade's,
and in `Joining` it may change between any two steps.

### FanOut

Each call is "queued" for a connection of the pool (`PoolSize`), "sent", or over
with an outcome. `wire` is what becomes of its request, which goes on when the
call is given up: a peer may execute what is reported as failed. A `timeout` of 0
is taken for none, as in `fanout.py:76`. The timeout of httpx ends silence, not a
body that trickles in. A fan-out calls each peer once at most.

### Joining

`stage` is what the host is at. Between the helpers stand the facade's own steps:
recording the seeds that accepted (`RecordSeed`), remembering what was discovered,
`select_peers`. Meanwhile the clock runs, so that manifests expire, and other peers
introduce themselves and are recorded by another task (`IntroducesItself`). A node
revoked before is never recorded again. `stalled` says that the response of the seed
or of the source at hand trickles in (`AnswerTrickles`), which may end or not, and the
host's task does not go on meanwhile. `lost` is history: a discovery raised.
The facade's locked sections are single steps here, which is what
`LockMakesOperationsAtomic` (section 4) proves of them.

## 3. What is checked

TLC explores each instance to the end, with no bound on the depth; only the
constants are small.

| Run | Instance | Shows |
|---|---|---|
| `all_operations` | 2 tasks, 2 peers, all operations | `NoOrphanActive`: `select_peers` leaves no active peer out; `QuietIsForever`: a completed revocation lasts; `OperationsAdvance`: every step of an operation leaves it less to do; `TypeOK` |
| `restart` | 2 tasks, 1 peer with 3 manifests (a key rotation, a changed organisation), all operations, crashes, calls that never end, `FairSpec` | `WriteThrough`: cache and durable copy agree whenever the lock is free; `IdentityAdmitted`: a chain of refreshes keeps the admitted identity; `OperationsReturn`: an operation returns unless a call of its own, or one made inside the lock, never ends |
| `sequential` | 1 task, 2 peers, 4 manifests, aborts and crashes | `RefreshMovesForward`: one operation at a time, no refresh rolls a peer back |
| `atomicity` | 2 tasks, 1 peer, all operations but discovery | `ImplementsRegistry`: the facade refines `PeerRegistry`; `RecordMatchesManifest` |
| `requests` | 2 senders that may choose the same nonce, 2 verifications, a window of 2 ticks, clocks 2 ticks ahead or a tick behind, any transit, names of two shapes | `TwiceOnlyIfAhead`: what a duplicate needs to be handled; `GrantsFarApart`, `HandledAsSigned`, `OnlySignedRequestsClaim`, `NoFalseReplay`, `TypeOK` |
| `backoff` | 2 reporters, a store of copies that keeps whole seconds, up to 4 failures, the cap between the 2nd and 3rd term, the overflow at the 4th; a requester that polls | `FailuresCool`: a recorded failure puts the peer off; `BackoffSchedule`: the n-th in a row for the n-th term; `RevokedStays`: no success or failure takes a revocation back; `NothingMissed`: a member that a write made visible is in the next response; `DisclosureTypeOK` |
| `joining` | 3 peers, 2 seeds, 5 webs with 6 manifests, 3 hints of which two are wrong, a pool of one connection, a peer that introduces itself, one that was revoked, a verifier that accepts, refuses or raises | `SeedsAgree`, `HintsAreFollowed`, `LooksUpOnce`, `SucceededHasExecuted`, `OnlyAdmittedCalled`, `RecordsHaveManifests`, `JoinTypeOK`; `BootImplementsReports`, `SweepImplementsReports`, `FanImplementsReports`; `JoinEnds`, `FanOutEnds` |
| `throttle` | rate 2, 5 ticks to a second, times 0 to 12 in any order; an unlimited and a closed peer | `WithinRate`, `RefusalsEnd`, `TypeOK` |

Why the bounds are enough. Peers interact in the facade only through the lock
and the order of loops, so two peers show every interaction; where the property
is about one peer and needs several manifests, one peer is used. Two tasks give
every pair of overlapping operations. Two revisions, a rotated key and a changed
organisation reach every branch of `refresh_peer_manifest`. Two verifications
meet on one nonce; with a window of two ticks and a clock that reaches three, a
nonce expires, with its request or before it. Five ticks to a second and a rate of two
make a token two and a half ticks, so fractions of tokens occur. In `joining` the
webs have each way in which a URL can be wrong (another node's manifest, an unsigned
one, a domain without evidence, an endpoint elsewhere, silence, a body without end);
a response of two hints with a cap of one, and two sources, reach every skip of the
sweep; the manifest of one seed expires within the one tick that the clock runs,
wherever in the bootstrap or discovery that tick falls. A pool of one makes a
call wait for the other. Symmetry is used
for tasks, verifications and reporters, which are interchangeable, and never in
`restart` and `joining`, which check liveness.

The runs without faults are so because the property needs it: after a crash or an
abort inside `discover` an active record has no manifest (`NoOrphanActive`), and a
raised store call leaves cache and store different (`WriteThrough`, which is
checked under crashes). `QuietIsForever` is proved under all faults.
Deadlock is checked in every run but `joining`, whose host has finished once its
fan-out is reported.

Every property of these runs is also checked to fail when one definition is
replaced by a faulty one; the faulty definitions stand before the right ones,
marked "Fault:".

### Where code and documentation disagree

Four runs find a counterexample to a sentence of the documentation.

- `refresh_revives`. `node.py:334` says "REVOKED stays terminal until an operator
  clears the record", but `_apply_refresh_decision` does not look at the state of
  the record it read: a refresh in flight at the time of the revocation makes the
  peer active again and caches its manifest.
- `discover_revives`. CHANGELOG 69-70 promises that the lifecycle lock avoids
  "revoke/admit interleavings that could resurrect a revoked manifest", but the
  sweep upserts without the lock and `discover` remembers the manifests without
  looking at the records.
- `crash_keeps_evicted`. CHANGELOG 66-68 says that "rejected/revoked peers do not
  survive restart through a stale persisted manifest", but the record is written
  before the manifest is deleted, and hydration does not compare them. The record
  itself stays REVOKED, so the peer is not selected; its inbound requests verify.
- `backoff_overflow`. The README (509) says that cooldown is for "repeatedly
  failing peers", but with the default policy the 43rd consecutive failure raises
  `OverflowError`: `MembershipTable` counts it, no cooldown is set, the peer stays
  eligible.

Three more sentences hold with an exception, which a property of a passing run names.

- ADR-005 (265) says "A signed request cannot be replayed if the receiver uses a nonce
  cache", and `signing.py:235` that the TTL of a nonce equals the skew window. The
  window has two sides: `abs()` accepts timestamps up to `max_skew_seconds` ahead, so a
  request may be fresh for twice as long as its nonce is remembered. What holds is
  `TwiceOnlyIfAhead`: a duplicate is handled only if the sender's clock was ahead of
  the first claim, or behind it by no more than the second claim waited for the cache.
- The README (294) says that the key of a nonce is "scoped by federation, source node,
  target node, and nonce". It is the four names joined with colons (`signing.py:31`):
  `fed` with `node:a` and `fed:node` with `a` give one key, and the later request is
  refused. `NoFalseReplay` excepts names with different numbers of parts.
- `node.py:334`, once more: `set_state` (`membership.py:140`) and `probe_peer_health`
  do not look at the record, so COOLDOWN set after a failed probe replaces REVOKED.
  `RevokedStays` excepts writes that name a state.

`QuietIsForever` is the part of "sticky" that the code does guarantee: once a
revocation is complete and no operation that had already met the node is in
flight, nothing brings it back. `RevokedStays` is its counterpart for health
reports, which take no lock: no failure and no success that finds the record revoked
changes that. One that read the record before the revocation, from a store that
returns copies, still writes the older record back.

### Fairness

`FairSpec` of `FederationNodeReturns` assumes that the event loop runs every ready
task, hence `WF` on `GoOn(t)`, which a task that is stuck cannot take; and that a task
waiting for the lock gets it, since `asyncio.Lock` wakes its waiters first come, first
served, hence `SF` on `GetLock(t)`. Nothing is assumed about when the host calls,
clears a record or fails, nor that a call on a peer or a store ends. So
`OperationsReturn` has the two exceptions of the code: a task in a call without end,
and the others if that call is made inside the lock. What a peer does is awaited
outside the lock, and a peer that never finishes its answer stops only those who asked.

`JoinFairness` assumes the same of joining: the host's task goes on whenever it
can (`WF` on `HostStep`), and so does each call (`WF` on `CallProgress(p)`), since
httpx ends a silent read after its timeout. Nothing is assumed of peers, seeds and
the network: they may stay silent, break off or go on for ever. So `JoinEnds` and
`FanOutEnds` have the exception the code has: a body that never ends keeps a
`fetch_manifest`, an `introduce`, a `get_members`, or a call without a timeout,
waiting for ever.

## 4. What is proved

All theorems hold for every value of the constants that meets the named
assumptions (`ManifestsAssumption`, `NodeAssumption`, `RequestsAssumption`,
`RateAssumption`, `AdmissionAssumption`, `WebAssumption`, `SeedAssumption`,
`SweepAssumption`, `FanOutAssumption`, `JoiningAssumption`), which TLC evaluates on
its instances. A theorem that needs more, such as the absence of a fault, states it
in its `ASSUME`. Section 3 says why the code does not have the property without it.

`FederationNode_proofs`. `RefreshFollowsSuccession`: what
`RefreshPeerManifest` hands on satisfies `Succeeds`. `Invariance` and
`TypeCorrect`: `TypeOK` alone is not inductive, because a step such as
`m == task[t].man` needs `man` to be a manifest at that statement. `IInv` adds
what each local variable means at each statement (`OpOK`, `LocalsOK`,
`RefreshOK`), that a task is in its critical section exactly when it holds the
lock (`LockOK`), that manifests are filed under their own node (`FiledOK`), and
what a task inside the lock may rely on. There is one lemma per action; actions
that leave the shared state alone share the lemmas `Moves`, `MovesAlone` and
`MovesIn`. Crashes and aborts are included.

`FederationNodeSafety_proofs`. Every proof needs the same facts about the steps of a
task, so they are stated once: a step only reads (`Reads`) or is one of a dozen
writes (`Writes`). Each theorem then has its own inductive invariant over `IInv`:

| Theorem | Property | Under | Invariant and argument |
|---|---|---|---|
| `QuietRevocationIsForever` | `QuietIsForever` | all faults | a task not carrying the node writes only elsewhere, an admission reads REVOKED under the lock, a discovery skips the node because the table has a record, a refresh cannot start because the cache has no manifest and the record is not eligible, hydration finds nothing in the store |
| `RefreshKeepsIdentity` | `IdentityAdmitted` | all faults | `VouchedInv`: every manifest held anywhere, the locals of a refresh included, speaks for a node and organisation admitted together |
| `CacheIsWrittenThrough` | `WriteThrough` | crashes, no aborts | `CachedInv`, `UpdateInv`: cache and store differ at a node only while the task inside the lock is between the two writes of it |
| `ActivePeersAreServed` | `NoOrphanActive` | no fault | `OrphanInv`: an active record without a manifest is one a discovery still carries |
| `RecordsCarryRevisions` | `RecordMatchesManifest` | no fault, no discovery | `MatchInv`: record and manifest differ only at the node of the task inside the lock |
| `LoneRefreshMovesForward` | `RefreshMovesForward` | one operation at a time, all faults | `CurrentInv`: what a refresh decided on is what the cache still holds when it applies the decision; `EvictInv`: a refresh that evicts a manifest has not accepted another of that node, so an abort between two peers leaves no accepted manifest to be applied over a newer one |

Two more theorems are the part of `OperationsReturn` that needs no fairness. What an
operation has left to do is ordered like its loops, outermost first (`Nearer`): the
records to visit, the references of the current source, what is to be awaited before
manifests are accepted or decisions made, the manifests to record or remember, the
decisions to apply, the statements of the current write. `OperationsComeNearer`
(`OperationsAdvance`): every step makes it less, although the sweep adds manifests
and the scan adds decisions on the way, and although other tasks write the records
meanwhile. `NoOperationIsEndless`: with finitely many nodes and manifests it cannot
become less for ever. For this `LocalsOK` of `FederationNode_proofs` also says that
the manifest being written is one of those still to be dealt with.

`FederationNodeRegistry_proofs`. `LockMakesOperationsAtomic`: without faults and
discovery, the facade implements `PeerRegistry` (`ImplementsRegistry`). The mapping
shows of each node what the task inside the lock is going to have written when it
leaves; so taking the lock is the one step that shows in the registry, and
everything inside is hidden (`ViewHeld`).

`SignedRequests_proofs`. `RInv` says that what is sent is its source's, that a
verification at its claim has checked it (`VerifiedOK`), and that each granted
claim is remembered until its time to live is over (`GrantedOK`), without which
nothing follows about a second grant. From it: `NonceOutlivesItsTTL`
(`GrantsFarApart`), `OnlySignedRequestsUseNonces` (`OnlySignedRequestsClaim`),
`CallsAreAsSigned` (`HandledAsSigned`), `RequestsTypeCorrect`, and two about the
limits of the code. `DuplicatesNeedClocksAhead` (`TwiceOnlyIfAhead`), with no
assumption on clocks and delays: a nonce lives `max_skew_seconds` from its claim and
a request as long from its timestamp, so a duplicate can pass both only if the first
claim came before the timestamp, or after it by no more than the second claim waited
for the cache. `ReplaysWereGranted` (`NoFalseReplay`) holds for names of any shape;
it rests on `NamesAlikeAreUnambiguous`, by the lengths of the parts of a
concatenation. Where all federations have names of as many parts, and all nodes have,
the exception never applies.

`RateLimiter_proofs`. `AInv` accounts for the bucket: what was allowed since the
observer started plus what is left is covered by a burst and the refills, and the
refills since the first refusal are still in the bucket. From it
`NoPeerExceedsItsRate` (`WithinRate`), `RefusalsAreShort` (`RefusalsEnd`) and
`LimiterTypeCorrect`, for every rate, resolution and order of times.

`Contracts_proofs`. What the parts promise whoever composes them. Of the pure
decisions: `AdmissionDecides` and `AcceptedMeetsPolicy` (`admit_manifest` accepts
exactly what meets every gate of `MeetsPolicy`, the independent statement of a
policy), `StricterAdmitsLess` (a gate more never admits more), `PublishedIsFresh`
(what `build_signed_manifest` publishes passes `check_manifest` over its whole time
to live, if `max_skew_seconds` is a second at least: its timestamps are cut to
seconds, downwards), `CertificateNamesOneNode` (if the expected identities of any two
nodes differ in a key or a subject; alternative names alone do not suffice) and
`MatchesComposes`. Of the fan-out: `FanInv` relates each outcome to the wire and to
who has executed; from it `SucceededMeansExecuted` (`SucceededHasExecuted`) and
`FanOutReportsEveryone` (`FanImplementsReports`), for any number of peers and
connections.

`Joining_proofs`. Every step of `Joining` is one of its parts or leaves them alone
(`FanPart` and its like), so `JoiningFansOut` carries over what is proved of the
fan-out. `JoiningInvariance` has the invariants of the parts (`BootInv`, `SweepOK`,
`FanInv`) and of the composition: whose manifest is held and that it was admissible
at some time (`HeldInv`), what is left over at each stage (`StageInv`) and who is
called (`CalledInv`). From them `JoiningTypeCorrect`, `OnlyTheAdmittedAreCalled`,
`RecordsKeepTheirManifests`, `SeedsAgreeWithReport`, `BootstrapReportsEverySeed`,
`SweepReportsEveryHint`, `EachHintIsLookedUpOnce` (the counting argument: hints of
one source that were looked up have positions in `1 .. PerPeerCap`), and, with
`FollowInv`, what each hint that was left behind has come to, `HintsAreNotOverlooked`.

`Disclosure_proofs`. `DisclosureInv`: a failure or success that read a revoked record
leaves it revoked; a report no poll has overtaken carries a stamp after the cursor; a member
that is visible and stamped before the cursor was told of, or became visible by one
of the four exceptions. From it `NoWriteIsMissed` (`NothingMissed`) and
`RevocationIsTerminal` (`RevokedStays`). Neither needs the amounts of the schedule.

The amounts come from `1 << max(failures - 1, 0)`, the recursive function `Shifted`.
`LeastElement` (a set of naturals that is not empty has a least element, from the
well-foundedness of `<`) gives induction: the powers of two exist up to any exponent
(`PowersExist`), any two such functions agree (`PowersAgree`), so `Shifted` satisfies
its own equation (`ShiftedDoubles`). From that, `CooldownsDouble`: the shift, the
product and the cap of `next_cooldown` are, for any base and cap, the schedule
`Doubling` that `BackoffSchedule` is stated with; and `ScheduleEnds`: the cooldown
reaches its cap, and from some failure on `next_cooldown` raises, whatever the
policy. `ScheduleInv` adds to the types that what a task is about to persist is what
the policy makes of a record (`Written`): a counted failure with its term of the
schedule, anything else without a cooldown of its own. `RowInvariance`: as long as no
two reports overlap in a store of copies, the record counts the row of failures that
were reported. From these `DisclosureTypeCorrect`,
`FailuresFollowTheSchedule` (`BackoffSchedule`) and
`FailuresAreFollowedByCooldowns` (`FailuresCool`). The last one assumes a store that
returns copies, or a schedule that raises at no count up to `MaxFailures`; by
`ScheduleEnds` no policy has the latter for ever, and `backoff_overflow` shows what
`MembershipTable` does then.

Every safety property of the passing runs is stated by a theorem. Only
model-checked: `OperationsReturn`, `JoinEnds` and `FanOutEnds`, since liveness under
fairness is beyond the prover, as is ENABLED. That a task which has not returned can
go on, or waits for one that can, is therefore shown by `restart` alone.

## 5. What is not modelled

Cryptography, canonical JSON, encodings, HTTP and the validation of pydantic are
libraries, modelled by their outcome. The builders of responses, operations and
audit records keep no state and decide nothing. `examples/host.py` is an example of
a host: its routes call the operations modelled here. Of `bootstrap.py` the order of
the seeds, seeds listed twice and the node as its own seed (`bootstrap.py:52`) are
left out; of bootstrap and discovery the names of the reasons, all of which are
"failed". `get_revocations`, `get_protocol` and `get_health` are requests like
`get_members`, and only what the host makes of a revocation notice is modelled.
Of `disclose_members`, the parsing of a cursor and the disclosure label.

Hazards that no property covers:

- `node.py:378`: the cache is assigned before the store is written, so an exception
  of the store leaves them different until the next start. `WriteThrough` is
  therefore checked and proved without aborts.
- `membership.py:81`: a peer quarantined as STALE_MANIFEST is not eligible, so
  `refresh_all` never tries it again. Retries are the host's.
- `membership.py:276`: a notice that comes before its node is recorded is dropped, by
  design.
- `node.py:150`: a peer may be revoked while its request awaits the nonce cache. The
  host authorises the verified peer afterwards.
- `node.py:362`: `admit` after a refresh resets `accepted_until`, which the facade
  itself never sets; it is the host's call of `MembershipTable.admit` that does.

- `node.py:288`: of two refreshes of one peer that overlap, the last to be applied wins,
  even with the older revision. `RefreshMovesForward` is about a host that calls one
  operation at a time.
- `discovery.py:153`: a crash between the write of a discovered record and the
  remembering of its manifest leaves an orphan, which the next `refresh_all` rejects.
- `bootstrap.py:68`: a verifier that raises loses the outcomes of the seeds before;
  `Reports` allows an exception in place of a report.

## 6. Plan

Done, in this order: the refresh operators and the facade, its refinement and
proofs; signed requests and proofs; peer health; the rate limiter and proofs;
disclosure and proofs; admission, the web of manifests, bootstrap, the sweep, the
fan-out and their composition, the abstract batch report, and proofs; certificate
identity; the remaining safety properties of the facade and the registry refinement
proved; the cooldown schedule by induction, and with it the remaining properties of
the health records; the lone refresh with aborts; the termination measure of the
facade's operations.

Left: a composition of `PeerHealth` and `FederationNode`, for `accepted_until` and
cooldowns across refreshes; a termination measure like that of the facade for
`Joining` and `FanOut`, up to the bodies that never end. The liveness properties
themselves remain with TLC.
