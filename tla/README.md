# Yutha: a TLA+ model of the control plane

Yutha is a substrate for swarms of software agents. Agents register with a
control plane, exchange signed envelopes through it, hold capabilities that
narrow as they are delegated, and are judged by a constitution (Cedar policies
plus scoring rules, procedures and enforcement rules). Everything that happens
leaves a signed receipt in a store that is sealed in Merkle batches and anchored
on Sui, and an enforcement engine that reads the receipts coaches, quarantines
and evicts agents.

This directory models that system: its replay filter, transport, admission,
capabilities, enforcement, send path, constitution loader and evaluator, receipt
stores, anchoring, replay sessions, attestors, signers and startup. Paths below
are relative to `src/`.

To check it: `tlc -workers 2 -config MCReplay.cfg Replay` (and likewise the other
runs, section 5), and `tlapm EnvelopeProofs.tla` (and likewise the other `*Proofs`
modules, section 6).

## 1. Inventory of the system

| component | state | operations | what is hard | what makes it correct |
|---|---|---|---|---|
| Replay protection (`yutha-transport/src/replay.rs`) | per sender: a bounded queue of nonces, the newest epoch | `admit` | late, duplicated, reordered envelopes; eviction at the limit; agents that restart their epoch counter; u64 addition | no envelope is admitted twice; the epoch test takes over before the nonce test lets go |
| In-memory transport (`yutha-transport/src/memory.rs`) | inbox and sender per agent, roles, tags, one supersede signal per agent; a forwarder task and a stream per subscription | `register_recipient`, `register_role_member`, `set_agent_tags`, `send`, `receive`, `subscribe` | check-then-register; `notify_waiters` that is not remembered; locks held across awaits; receipts that fail after the queue changed | at most one copy, no loss but in the known race, order kept, receipts before delivery, inboxes drained |
| Admission and revocation (`grpc/admission.rs`, `auth.rs`, `grpc/mod.rs`, `yutha-registry`, `yutha-passport`) | live and revoked passports, the revoked set, revocation signals, receipts | `Register`, `Revoke`, `OperatorRevoke` with cascade, bearer authentication, `Subscribe` streams | store, receipt, cascade and revoked set are separate steps, each of which can fail; streams race revocations | nobody evicted gets in; receipts tell who is in; the cascade is complete; streams end |
| Capability store (`yutha-capability`, `grpc/capability.rs`) | capabilities by id, revoked ids, quarantine source | `issue`, `attenuate`, `revoke`, `check` | the gate and the chain walk read at different times; empty lists mean "no constraint"; two clocks | no link of a permitted chain is revoked, expired or exceeded |
| Enforcement (`yutha-cedar-plus/src/enforcement.rs`, `receipt_publisher.rs`, tasks of `main.rs`) | sliding-window counters, schedule, reputation, stage and quarantine per agent; a bounded channel of receipt views | `on_receipt`, `poll_scheduled`, `activate`, publishing append, forwarder, scheduler tick | append and publish are two steps; receipts arrive late and out of order; chains overlap; amendments; a full channel | detects are paid for by denies inside the window; stages come in order; quarantine agrees with the log and ends |
| Send path and constitution slots (`grpc/envelope.rs`, `grpc/constitution.rs`, `evaluator.rs`) | active slot, shadow slot, the engine's binding | `Send`, `Activate`, `ActivateShadow`, `ClearShadow`, `PromoteShadow` | the slots are read twice, one lock after the other; promotion holds two locks; attributes are looked up one at a time | a receipt names the judge; only a recorded permit sends; no call blocks for ever |
| Constitution loader (`loader.rs`, `validate.rs`, `artifact.rs`) | none: an artifact is accepted or refused | parse, static checks, hash | searches over hash containers whose order varies, bounds, references two levels deep | exactly the sound artifacts are accepted, whatever the iteration order |
| Evaluation, procedures and scoring (`evaluator.rs`, `layer_b.rs`, `scoring.rs`, `procedure.rs`) | slots, procedure instances | evaluate, score, trigger, transition | ids that must agree between two tables; digests over unordered sets; fixed-point scores | evidence is reproducible and stands for one request; a trigger that matches enters |
| Constitution diff (`yutha-diff`) | none | structural diff | policies with and without ids, repeated keys | the diff patches one artifact into the other |
| Receipt store, sealing, Merkle trees (`yutha-receipt`) | the receipt log, seals by receipt | append, get, query, seal, prove, verify | pages over a log that grows, ties on time, overlapping batches | append-only, whole batches, proofs that verify, pages that miss nothing |
| Postgres receipt store (`backends/postgres-receipt`) | the same, in tables | the same, as transactions | row locks taken leaf by leaf, aborts, a commit whose outcome is unknown, reads in several statements | it implements the same log; seals do not deadlock |
| Sui anchoring and its contract (`backends/sui-anchor`, `contracts/sui`) | watermark, batch under way, transactions, the anchor object | wake, fetch, submit, record; `commit_batch` | unknown outcomes, late transactions, crashes, a clock that restarts with the process | seals never run ahead of the chain; the watermark passes over nothing that was there in time |
| Replay sessions (`yutha-replay`, `grpc/replay.rs`, `replay_store.rs`, `backends/postgres-receipt/src/replay.rs`) | session rows, session stores, an engine per session | create, warm, run, query, close | close during a run, two runs of one session, production growing beside them | a session's receipts stay in it; rows count what was reported; a run computes the fold of its window |
| Attestors (`yutha-attestor*`) | key sets and trust bundles, cached | attest, refresh | refreshes that overlap, fail, or are judged recent | an unknown key is refetched before it is refused; stale keys expire; key sets do not go back |
| Signers (`yutha-signer*`) | the public key fetched at connect | sign | the provider rotates its key | signatures verify under the public key reported |
| Control-plane bootstrap (`yutha-control-plane/src/main.rs`, `config.rs`) | what has been built so far | flags, checks, connect, register, serve | failures half-way; checks after effects | it serves only with its own registration on record |
| Data types, CLI, simulation, conformance, SDK clients, blob backends | none that outlives a call | | | not modelled: see section 8 |

How they interact. An RPC handler authenticates the caller (Admission), checks
the capability presented (Capability, which asks the enforcement engine whether
the subject is quarantined), collects attributes and evaluates the constitution
(SendPath, ConstitutionEval) and hands the envelope to the transport, whose
`send` begins with the replay filter. Each of them appends receipts to the store
(ReceiptStore). `PublishingReceiptStore` wraps the store and passes a view of
every receipt through a bounded channel to the forwarder task, which drives the
enforcement engine; the effects of the engine are receipts again. The anchor
driver pages through the store, submits a batch and writes its seals back. A
replay session streams a window of the store through an engine of its own.
`Activate` switches the evaluator and then the engine. `OperatorRevoke` crosses
the registry, the capability store and the open streams. `Register` asks the
attestor (Attestor) before it stores a passport, and the control plane registers
itself that way when it starts (ControlPlane).

## 2. Modules

| module | models | extends |
|---|---|---|
| `ReplayWindow` | the filter as pure operators | |
| `Replay` | the filter, agents that mint and restart, an unreliable network | `ReplayWindow` |
| `Transport` | `MemoryTransport` | |
| `TransportProofs` | theorems about `Transport` | `Transport`, `TLAPS` |
| `Admission` | admission, bearer checks, revocation, streams | |
| `AdmissionProofs` | theorems about `Admission` | `Admission`, `TLAPS` |
| `Capability` | the capability store behind its gRPC handler | |
| `CapabilityProofs` | theorems about `Capability` | `Capability`, `TLAPS` |
| `Enforcement` | the engine, the publisher and its tasks, `Activate` | |
| `SendPath` | `EnvelopeHandler::send` and the operator calls on the slots | |
| `EnvelopeProofs` | theorems about what an envelope meets on its way: `Replay` and `SendPath` | `Replay`, `SendPath`, `TLAPS` |
| `Constitution` | the artifact, the loader's checks, the synthesized Layer B policies | |
| `ConstitutionDiff` | the structural diff | `Constitution` |
| `ConstitutionEval` | the evaluator with its slots: vetting, diffing, attribute lookup, judgement, scoring, procedures | `ConstitutionDiff` |
| `Merkle` | the sorted-pair tree and its proofs, as pure operators | |
| `ReceiptLog` | abstract: what a receipt store promises | |
| `ReceiptStore` | `MemoryStore` and `PostgresStore`, shown to implement `ReceiptLog` | `Merkle`, instance of `ReceiptLog` |
| `ReceiptStoreProofs` | theorems about `ReceiptStore`, its refinement of `ReceiptLog` among them | `ReceiptStore`, `TLAPS` |
| `Anchor` | the anchor driver, the sealer and client it calls, and the Move contract | |
| `AnchorProofs` | theorems about `Anchor` | `Anchor`, `TLAPS` |
| `ReplaySession` | replay handlers, streaming tasks, session stores | |
| `EngineProofs` | theorems about the engine where it enforces and where it replays: `Enforcement` and `ReplaySession` | `Enforcement`, `ReplaySession`, `TLAPS` |
| `Attestor` | the attestors and their key sets | |
| `CommandLine` | the flags and what they imply, as pure operators | |
| `ControlPlane` | startup, signers, registration | `Attestor`, `CommandLine` |
| `ControlPlaneProofs` | theorems about `ControlPlane` and `Attestor` | `ControlPlane`, `TLAPS` |
| `MCTransport`, `MCAdmission`, `MCCapability`, `MCEnforcement`, `MCSendPath`, `MCConstitution`, `MCReceiptStore`, `MCReplaySession`, `MCControlPlane` | instances for TLC | the module of that name (`MCConstitution`: `ConstitutionEval`) |

`Replay` and `Anchor` need no MC module: all their constants are numbers and sets
that the configuration can write down. Where one module of proofs extends two
models, the specification of one has names of its own: `ReplaySpec`, `ReplayNext`
and `ReplayTypeOK` in `Replay`, `SessionSpec` and `SessionNext` in
`ReplaySession`.

The grain of a step is the same everywhere: a handler or a task is a `pc` per
call, and a step ends where the code awaits (a lock, a channel, a store, the
network) and another task may run. What the code does under one lock, or between
two awaits, is one step. Mutants, definitions named `X_Slip` beside the
definition `X` they replace, record one plausible bug per property that the
property catches.

**ReplayWindow, Replay.** `window[s]` is `SenderState`: `nonces_queue` and
`nonces_set` always have the same members, so one sequence stands for both.
`EpochStale` keeps the u64 addition, with `EpochModulus` for 2^64. `Admit` is the
whole of `admit` for an arrival that is accepted; one that is rejected leaves no
trace. `Mint` and `Restart` are what the Python adapter does to its epoch counter
(`sdks/python/src/yutha/crewai/agent.py`); the network is the freedom to deliver
any minted envelope at any time any number of times. `Age` lets an envelope's
time to live pass.

**Transport.** `current` stands for the maps `inboxes` and `senders`, which are
always written together. A channel is a number; its two ends live as long as
somebody holds them (`RxLive`, `TxLive`), which is when `try_send` and `recv`
report it closed. The forwarder of a subscription goes lock, parked (in its
`select!`, with the inbox mutex), record, send and back. `Supersede` is
`notify_waiters`: it reaches the parked forwarders and no others. Receipt appends
fail in `SendFails` and `DeliverFails`. The filter is abstracted to the set of
envelopes it has admitted, which `Replay` justifies; `Reject` also covers what it
refuses as expired or stale. `workload`, chosen in `Init` and never changed, says
which calls a behaviour is made of. `fresh` is history: the subscriptions that
found their agent without an inbox.

**Admission.** Bearer authentication is three reads (revoked set, passport,
revoked set again). `Revoke` and `OperatorRevoke` are passport, receipt, cascade,
revoked set, notification, in that order, with the early returns of each. The
forwarder of a `Subscribe` stream is between selects (`spawned`), in its
`select!` (`parked`) or in a send. `gone` and `barred` are history.

**Capability.** Each call passes through the gate, the store and its receipt.
`Lineage` is the chain that `check_inner` follows, `Visit` one turn of its loop,
`Walk` the turn the loop ends with, and `EffectiveScope` its fold over the scopes. A
capability's action list keeps the code's reading of the empty list as "any";
bounds are numbers up to `MaxAmount`; a caveat holds or does not for a presented
action. Expiry has both of the clocks the code uses.

**Enforcement.** Time is relative: receipts and counter entries have an age,
scheduled stages the time left, so that runs are not bounded in length. `todo` and
`landed` are the receipts a task has yet to append, and the one it has appended
and not yet published. Reputation keeps the fixed scale of 10000 and the default
deltas of the code. `workload` picks the rules in force at genesis, the denies,
the amendments and the faults of a behaviour. `Rank` orders denies that are alike,
so that of two behaviours that differ only in their names one is explored.

**SendPath.** The slots are two `RwLock`s. Only `promote_shadow` awaits with a
guard in hand, so `guard` is the only lock state. What Cedar decides is a table
(`Permitted`). `pin` is the handler's reading of the slots and `got` the
evaluator's.

**Constitution, ConstitutionDiff, ConstitutionEval.** An expression is a sequence
of tokens, each an atomic test of the request or a reference to a predicate; the
loader's checks are in the order of the code and report the first error. Where
the code walks a `HashMap` or `HashSet`, the order is a free choice of that step.
The Cedar parser and authorizer are external: they accept a text or not, a policy
matches or not, and the parser names the policies of a set `policy0`, `policy1`,
... in the order of the text. A score is its sign, its integer part and its
fractional digits, or a shape that is no number; a duration is a number and a unit.
The last stage of the loader, `synthesize`, fails as the others do
(`SynthesisFails`): on a score its own parser refuses, and on a name or action that
breaks the policy text it is put into. A send looks its sender and recipient up one after
the other while attributes change beside it. Digests are the values hashed.

**Merkle, ReceiptLog, ReceiptStore.** `ReceiptLog` has two actions: an address is
appended, and a batch of stored addresses is sealed under its root, a receipt
that is sealed keeping its root. `ReceiptStore` has both stores. An operation of
`MemoryStore` is one step under its lock. An operation of `PostgresStore` is a
transaction of several statements: others see what is committed, a statement
waits for a key or a row that an open transaction holds, a connection may be lost
at any statement, and at a commit the caller may not learn the outcome.
`ImplementsLog` maps committed rows to the abstract log. Content addresses are the
record without its signatures; a signature is over the content address its signer
saw, and is verified against that of the receipt in hand, which for a receipt read
from Postgres need not be the same (`rehydrate_receipt`); hashing is symbolic and a pair of nodes is an
unordered set, which is what the sorted-pair rule makes of it. Leaves of one
batch are distinct.

**Anchor.** The driver wakes on its thresholds, fetches a page above its
watermark, cuts it to a batch, submits it, retries, and after a confirmation
writes the seals and moves the watermark. A transaction whose confirmation timed
out may execute at any later time. `commit_batch` is the contract's range check
and record. A crash loses the driver and the process-local clock; `Boot` seeds the
watermark from the chain. Receipts are stamped in one step and appended in a later
one, so they may arrive late.

**ReplaySession.** The create, run, query and close handlers and the streaming
task of a run interleave at every store call, and each call may fail, the
`touch_session` whose error is dropped among them. A run pages the window of the
source, feeds each view to the session's engine, and links what the engine emits
causally in the session's own store. The engine is reduced to one detect rule with
one follow-on stage; `Enforcement` models it whole. A store is in memory or in
Postgres, and a restart loses the sessions' engines.

**Attestor, CommandLine, ControlPlane.** A credential is its key id and the first
thing wrong with it; an issuer publishes key sets one after the other. `keys` and
`last_refresh_at` are written one after the other under the refresh mutex.
A command line is the options given; `ControlPlane` runs `main` from there to
`serve_grpc`, one stage per awaited construction, any of which may fail, with the
bootstrap registration in the middle. `kms` counts the versions of the key at the
provider. `Limited` are the attestor sources deployed with a `max_staleness`. The same handler registers agents afterwards, which ties the attestor's
verdict, the passport store and the signed receipt together; library deployments
are there because the binary serves no registration with an external attestor
(section 7).

## 3. Hazards

`PROJECT.json` lists, at their lines, the things in this code that a test would
hardly reach, each with the properties that would catch it going wrong. Most are
a state read before an await and used after it, a step of several that fails, or
a wake-up that is not remembered.

## 4. Bounds

Every bound is a CONSTANT whose comment says so (`MaxEpoch`, `MaxRestarts`,
`MaxAdmits`, `MaxFaults`, `MaxWindow`, `MaxItems`, `MaxAmount`, `MaxClock`, `MaxTime`, `MaxFlips`, `MaxBatch`, `MaxReceipts`, `MaxCrashes`, `MaxRotations`, `MaxChanges`)
or a field of a workload (`maxFaults`, `maxDrops`, `maxLag`), and every call of an instance happens at most once.
Deadlock is not checked, because a finite set of calls comes to its end; that
tasks do not block each other is what the liveness properties and `NoLockCycle`
say.

- `replay`: a window of 3 with skew 1 is the smallest that satisfies
  `WindowSize > 2 * MaxEpochSkew`; five admissions of four epochs overflow it, and
  a restart brings low epochs back. `Record_EvictsTwo` shows that one nonce less
  breaks `AdmitOnce`.
- `transport`: inboxes and streams hold one item, so that both refuse and block.
  Six workloads: two subscriptions that supersede each other and three sends, one
  of them a retry and one failing append; a stream that is dropped; a role and a
  swarm send to two agents of which one registers during the fan-out; a receive
  beside a subscription; an unroutable send; and, of an agent without an inbox, two
  first subscriptions that race while one of the streams may be dropped.
- `admission`: one call of every kind about one agent. A second agent would only
  add independent steps: no code path of this component reads the state of one
  agent for another.
- `capability`: a chain of three and a branch with a disjoint scope, at the code's
  depth limit scaled to 3 (`MaxDepth`); the root expires first by the wall clock
  and last by the monotonic one. Issues name no parent here: section 5 has one that
  does.
- `enforcement`: three workloads. Three denies and one in shadow mode, a rule per
  principal with threshold 2 and a global one with threshold 3, views up to two
  ticks late in a window of two, one failing append. Two chains of one rule that
  overlap in every way, the reverse of a quarantine due one tick before its
  eviction. One chain whose rule an amendment removes half-way. The channel is
  larger than what can be in it.
- `send_gate`: one send and one call of each operator RPC, three constitutions,
  one failing step. The theorems of section 6 cover any number of each.
- `constitution`: every escalation graph over three procedures, every pair of
  transitions with and without timeouts out of one state, scores of each sign, with
  up to five fractional digits and with something other than a digit at each place,
  windows of every unit and of zero, names that break a policy text, and artifacts
  with one fault each or at a bound; two artifacts, of which one amends
  the other, are activated and shadowed while two sends are judged and attributes
  change twice. The two sends are interchangeable and the run has only invariants,
  so it uses symmetry.
- `receipt_store`: five appends, two of one receipt, receipts that tie on time, one
  with two predecessors, one of another spec version (times all fit a `BIGINT`, since
  `PagesComplete` needs it; `ReadsVerify` is proved without); two sealers with overlapping batches of up to three, pages
  of one row, one lost connection; both stores. The assumption `MerkleReference`,
  evaluated in this run, compares roots and proofs with their meaning for trees of
  up to seven leaves, which have every shape of odd level.
- `anchor`: four receipts at two times, so that they tie, pages and batches of two,
  one retry, one timeout or failed call, one crash.
- `replay_session`: three denials and a receipt that is filtered out, pages of two
  rows. The first session is warm, with a denial on each side of its start; the
  second is cold with a window that fits a page, cold with one that does not, or warm
  from 0. Two runs that may share a session, a close, one restart or failed call;
  both stores.
- `identity`: two registrations against an issuer that withdraws its key before it
  publishes the next one, a TTL of one tick and a staleness of two within three;
  fifteen deployments, one per attestor source, signer and startup failure that the
  code tells apart, an OIDC issuer and a SPIFFE bundle file with a staleness limit and
  an OIDC key file without; one rotation.

## 5. Runs

| run | configuration | shows |
|---|---|---|
| `replay` | `MCReplay.cfg`, `Replay` | `AdmitOnce`: while a process runs, no envelope is admitted twice, also after its nonce was forgotten. `NoReplayInWindow`: even with restarts a copy stays out for a whole window. |
| `transport` | `MCTransport.cfg`, `MCTransport` | `OnceAndInOrder`: no envelope is in two places, and a stream keeps the order of the sends. `LostOnlyInRace`: what was accepted is in an inbox, a stream or with its reader, or an error was reported, unless two first subscriptions raced and it lies in the inbox that was replaced. `ReceiptsMatch`: every delivery has its receipt first, and the count on a broadcast's receipt is the number of inboxes that took it. `EventuallyDelivered` under fair scheduling: an accepted envelope is read while a subscriber keeps reading, with the same exception. |
| `admission` | `MCAdmissionLifecycle.cfg`, `MCAdmission` | `BarredStayOut`, `ReceiptsAccount`, `CascadeTakesHeld`; `DroppedStreamsEnd` under fair scheduling. |
| `capability` | `MCCapabilityChain.cfg`, `MCCapability` | `CondemnedDenied` (no revoked link, no quarantined holder), `ConstraintsHold`, and the action property `ExpiredChainDenied`. |
| `enforcement` | `MCEnforcement.cfg`, `MCEnforcement` | `DetectsAccounted`: the denies that pay for a detect lie in its window and pay for no other. `LadderOrder`, `QuarantineFollowsLog`; `QuarantineExpires` under fair scheduling, also after an amendment that keeps a scheduled reverse or evict. |
| `send_gate` | `MCSendPathGate.cfg`, `MCSendPath` | `ReceiptNamesJudge`, `SentUnderActive`, `ShadowLeavesOnce`; `CallsEnd` under fair scheduling. |
| `constitution` | `MCConstitution.cfg`, `MCConstitution` | `VettedExactly`: the loader accepts exactly the sound artifacts, once zero windows, scores that are zero in more than two fractional digits or have more than four, and doubled signs are mended (`Mended`), which it lets through against its comments; `Sound` states soundness without its algorithms. `EvidenceExact`: same request, same digest, and the other way round. `SendsAreJudged`. `DiffExact`: a diff patches one artifact into the other. |
| `receipt_store` | `MCReceiptStore.cfg`, `MCReceiptStore` | `ImplementsLog`: both stores refine `ReceiptLog`. `SealsProve`, `PagesComplete`, `NoLockCycle`. `ReadsVerify`: a receipt that was read verifies exactly if its bytes are those of a stored one, which they are if it fits the columns. |
| `anchor` | `MCAnchor.cfg`, `Anchor` | `SealedIsAnchored`, and `PassedOverOnlyIfLate`. |
| `replay_session` | `MCReplaySession.cfg`, `MCReplaySession` | `WalksStayInside`; `CountsAgree` (a row is never ahead of the reports, and behind only by failed touches); `RunMatchesReference` (a run against a straight fold over the same receipts, for windows that are read whole). |
| `identity` | `MCControlPlane.cfg`, `MCControlPlane` | `KeySetNeverGoesBack`, `MissesAreRefetched`, `StaleKeysExpire` (for sources with a limit), `StartupAudited`. |
| `layer_b` | `MCConstitutionLayerB.cfg`, `MCConstitution` | violation of `TriggersEnter`: synthesized policies are looked up by their `@id` while the parser has named them `policy0`, `policy1`, ..., so no procedure is ever entered (`procedure.rs:176`). |

Eleven more configurations reproduce disagreements between the code and what is
said of it. Each checks one property, and TLC finds it violated:

| command | property | what happens |
|---|---|---|
| `tlc -config MCTransportFreshDrop.cfg MCTransport` | `NoSilentDrop` | Two first subscriptions of one agent race; the second replaces the inbox with an acknowledged envelope in it. `transport.rs:20`: "Surface backpressure rather than silently drop." |
| `tlc -config MCAdmissionTearDown.cfg MCAdmission` | `RevokedStreamsEnd` | A stream task in the middle of a send misses the revocation's `notify_waiters` and stays open. RFC 0009: such a stream "MUST be torn down promptly". |
| `tlc -config MCCapabilityGraft.cfg MCCapability` | `ConstraintsHold` | `Issue` takes a parent unchecked, and two disjoint action lists intersect to the empty list, which permits any action. `scope.rs:64`: "at most as permissive as the more restrictive of the two". |
| `tlc -config MCSendPathPanic.cfg MCSendPath` | `NoPanic` | A shadow that is activated between the two reads of a send produces an outcome without metadata, and the `expect` at `envelope.rs:974` panics after the active receipt was written. |
| `tlc -config MCAnchorStall.cfg Anchor` | `AnchoringResumes` | A submission times out and lands. The next one is refused as not monotonic, and the driver never reads the chain again, so it is refused for ever. `spec/verifiability/sui-anchoring.md:572`: "The next cadence tick should succeed." |
| `tlc -config MCReceiptStoreAddress.cfg MCReceiptStore` | `ReadKeepsAddress` | Postgres returns predecessors in no particular order (`lib.rs:766`), and they are part of the canonical bytes, so a receipt read back may have another content address. `causal.rs:20`: "Order is preserved on the wire". |
| `tlc -config MCReplaySessionDetached.cfg MCReplaySession` | `EmissionsQueryable` | `session_store` meets a writer, its `try_read` fails, and the run emits into a store nobody can query. `replay_store.rs:276`: "the slot is always present". |
| `tlc -config MCReplaySessionWhole.cfg MCReplaySession` | `EveryRunMatches` | A window of more rows than a page is replayed up to the end of its first page; a warm session from 0 counts a receipt at 0 in its lookback and in its window (`session.rs:183-184`). `v1.proto:756-757`: "window has been fully consumed". |
| `tlc -config MCConstitutionLax.cfg MCConstitution` | `AcceptsOnlySound` | The loader takes a window of zero and a score of `0.000`. `validate.rs:99`: "every "all-zeros" textual form"; `validate.rs:316`: "thresholds and windows positive". |
| `tlc -config MCControlPlaneRotation.cfg MCControlPlane` | `SignaturesVerify` | The key is rotated at the provider after `connect`. Vault signs with the newest version, as no version is named (`yutha-signer-vault/src/signer.rs:284`; an Azure signer without a version does the same, `yutha-signer-azure-kv/src/signer.rs:265`), the store checks against the public key of the passport and refuses the receipt. `yutha-signer/src/traits.rs:68-70`: "MUST NOT return a signature produced by a different key than `Signer::public_key` reports"; `docs/operator/vault-signer.md:329-333` has the operator rotate first and restart afterwards. |
| `tlc -config MCControlPlaneExternal.cfg MCControlPlane` | `BootstrapIsNative` | With `--attestor oidc` or `spiffe` the bootstrap passport's empty credential is refused, so startup always fails. `main.rs:2096-2098`: "always the native path". |

### Fairness

Only weak fairness, and only of code that the runtime drives: a tokio task that
can go on is polled again. In `Transport`, the rest of a `subscribe` call that has
begun, each forwarder, and a subscriber that keeps its stream open and reads it.
In `Admission`, the stream tasks and the revocations under way. In `Enforcement`,
the tasks that emit receipts, the forwarder, the scheduler's poll and the passing
of time. In `SendPath`, each call's own steps. In `Anchor`, for
`MCAnchorStall.cfg` only, the driver's steps, appends under way and transactions
that Sui has accepted: even so anchoring does not resume. Nothing is assumed of
failures, of clients that begin calls, drop streams or retry, or of the choice
between tasks that wait for one lock.

## 6. Theorems

Proved with TLAPS for every value of the constants that satisfies the named
assumptions, with no step taken on trust.

`EnvelopeProofs`, about `Replay`, from `WindowAssumption`, `SkewAssumption` (`WindowSize > 2 *
MaxEpochSkew`; the defaults are 1024 and 256) and `ReplayAssumption` (epochs stay
below 2^64 by the skew):

- `ReplayTypeCorrect`: types, and the window never exceeds its size.
- `WindowForgetsNothingEarly` (`NoReplayInWindow`) and
  `AdmittedEpochsLagBoundedly` (`EpochLagBounded`, which no run needs to check any
  more): with any number of restarts.
- `NoEnvelopeAdmittedTwice` (`AdmitOnce`): as long as the agent process has not
  been restarted.

The inductive invariant `ReplayIInv` has four parts, the types among them. `MintedInv` ties an envelope's
nonce to its epoch while a process runs. `SenderInv` says that the window is the
tail of what was admitted, that `max_epoch` bounds it, and the two properties that
hold with restarts. `MonotonicInv`, for a process that was not restarted, says
that admitted epochs differ and that whatever has left the window is stale
already. The last is why `AdmitOnce` is true and is not inductive on its own: when
an admission pushes the oldest nonce out, the `WindowSize` epochs admitted after
it are distinct, differ from its epoch and lie above that epoch minus the skew; at
most `MaxEpochSkew` of them are below it, so more than `MaxEpochSkew` are above,
and the newest exceeds it by more than the skew (lemma `EpochsSpread`).

`EnvelopeProofs`, about `SendPath`, from the assumptions that the kinds of calls are disjoint
(`CallsDisjoint`), `None` is no constitution, and the types of the other
constants:

- `SendPathTypeCorrect`: types, and the shadow's write guard is held exactly by
  the promotion between its two locks.
- `EvaluateReceiptsNameTheJudge` (`ReceiptNamesJudge`).
- `SentOnlyUnderActive` (`SentUnderActive`).
- `ShadowsLeaveOnce` (`ShadowLeavesOnce`): for any number of loads, clears and
  promotions.

`IInv` adds to the types, per send, what is known at each location (`SendInv`:
that the pinned constitution was active during the call, that evaluator and pin
agree after the hash check, that a call past its receipt has that receipt in the
log with the outcome it acts on), and, per receipt, that it names its judge
(`LogInv`). Neither property is inductive alone: the receipt says what was read
two steps earlier. `ShadowInv` adds to the count of loads and departures that both
are finite and that what is in the slot now is a load without a departure; no step
adds more than one call to either side (lemma `GrowsByOne`).

`ControlPlaneProofs`, from `AttestorAssumption` and `ControlPlaneAssumption`
(types, finite key sets, the bootstrap registration has no credential), for any
number of registrations, key sets, deployments and rotations:

- `ControlPlaneTypeCorrect`.
- `RefreshesOnlyMoveForward` (`KeySetNeverGoesBack`, an action property).
- `DenialsFollowARefresh` (`MissesAreRefetched`).
- `AcceptanceNeedsRecentKeys` (`StaleKeysExpire`): for the sources in `Limited`; one
  without a limit never expires.
- `ServesOnlyAudited` (`StartupAudited`).

`AttestorInv` says that a fetch is under way only in the task that has the refresh
mutex and never holds a newer set than the issuer, and, per call, which refresh
completed after its miss and how old the keys were that it looked at.
`RegistryInv` says what `main` has checked by each stage and what each reply has
left behind.

`AdmissionProofs`, from `AdmissionAssumption` (types only):

- `AdmissionTypeCorrect`.
- `RevokedAgentsAreBarred` (`BarredStayOut`).
- `ReceiptsBalancePassports` (`ReceiptsAccount`).
- `CascadeIsComplete` (`CascadeTakesHeld`).

`ReceiptsAccount` speaks of quiet states only. `Balance` is what holds in between:
for each agent, receipts of registrations and calls that have yet to write one,
against receipts of revocations, calls that have yet to write one, and the live
passport. `RecordInv` (an eviction past its receipt is on record) and `HeldInv`
(what the target held is revoked or still on the cascade's list) are per call.

`TransportProofs`, from `TransportAssumption` (types, capacities above zero,
well-formed workloads):

- `TransportTypeCorrect`.
- `DeliveredOnceInOrder` (`OnceAndInOrder`).
- `ReceiptsTellTheTruth` (`ReceiptsMatch`).
- `LossNeedsARace` (`LostOnlyInRace`): for every workload, those with the race among
  them. That the race does lose envelopes is what `MCTransportFreshDrop.cfg` shows.

The invariant fixes which agent each channel was made for (`own`, which no variable
records), that a channel holds envelopes in the order the agent's inbox accepted
them, that no two places of one agent hold one envelope (`QueueInv`, `HasInv`), and
that what a subscriber has comes before what its channel still holds: that is what
makes the order survive a supersede. `SendInv` counts the inboxes that a fan-out
has reached. For `LossNeedsARace`,
`KeptChans` says that a subscription or a send holds a channel other than the
agent's inbox only if two subscriptions are in `fresh`, and `KeptEnvs` that an
accepted envelope is with a task, in a stream, with a subscriber, or in a channel
that belongs to its agent alone (`Private`), its inbox unless there was a race. So an envelope in no place can only be in a replaced channel
whose readers are gone.

`AnchorProofs`, from `AnchorAssumption` (types, thresholds above zero):

- `SealsAreAnchored` (`SealedIsAnchored`).
- `WatermarkPassesOnlyLate` (`PassedOverOnlyIfLate`).

`WaitInv` ties the batch the driver holds to its last transaction, `ChainInv`
orders the ranges on chain and keeps the watermark at or below the chain's end, and
`CoverInv` is the reason for the second theorem: every transaction submitted, also
one that has not executed, took all that the store held up to its end, but for what
came late, tied at a full batch's end or is anchored already.

`CapabilityProofs`, from `CapabilityAssumption` (types, finitely many mints, disjoint
kinds of calls):

- `CapabilityTypeCorrect`.
- `CondemnedNeverPermitted` (`CondemnedDenied`) and `ExpiredNeverPermitted`
  (`ExpiredChainDenied`, an action property): for every set of requests, those of
  grafts, of cycles and of chains too deep for a walk among them.
- `ConstraintsBind` (`ConstraintsHold`): under `NoGrafts`, only attenuations name a
  parent. Without it the property is false, as `MCCapabilityGraft.cfg` shows.

A chain is defined by recursion, so the argument begins with lemmas about lineages
in a store that grows: links are kept (`LineageGrows`), so a chain that has a
revoked link keeps it; a chain whose links are all stored does not change any more
(`ChainSettled`), so what a check was held to stays what it was held to. A walk that
reaches the root has seen the whole chain (`WalkReachesRoot`, `RootedChain`). Where
every link is within the one above it, the fold over the scopes is the leaf's scope
(`EffectiveIsLeafs`), and what that permits, every link and every request permits
(`NarrowedPermits`, `PermitsEveryMint`). `IInv` says of each mint what it is about to
store and that its parent and the narrowing it was built by are still there, and of
each check that a reason to deny it does not go away.

`ReceiptStoreProofs`, from `ReceiptStoreAssumption` (receipts are well formed, and
receipts of one id have one content address):

- `StoresImplementLog` (`ImplementsLog`): every step of either store is a step of
  `ReceiptLog` or none (lemma `LogSteps`).
- `SealersNeverDeadlock` (`NoLockCycle`).
- `ReadersGetVerified` (`ReadsVerify`): no reader sees a receipt without its
  signatures, and what `rehydrate_receipt` has changed does not pass for the original.
- `PagesLoseNothing` (`PagesComplete`): under `TimesFit`, the times of all receipts
  fit a `BIGINT`, below which `u64_to_i64` does not saturate.

`AppendInv` says what an open append transaction holds, and that no two hold one
address; `SealInv` that the leaves a sealer has dealt with are sealed under its root
or staged by it alone, and that its batch lists its leaves in canonical order. A
cycle of two waiting sealers would order two leaves both ways. `PageInv` splits what
the reader is owed into what it has and what lies after its cursor.

`EngineProofs`, about `Enforcement`, from `EnforcementAssumption` (types, a rule
listed once in `RuleOrder`, windows up to `MaxWindow`, finitely many evaluations,
tasks and calls of different names), for any number of agents, rules, versions,
evaluations and amendments, any channel and any number of failed appends:

- `EnforcementTypeCorrect`: among others, reputation stays in its scale, a counter
  below the threshold of its rule and the channel within its capacity.
- `QuarantineFollows` (`QuarantineFollowsLog`): for behaviours in which no view of a
  stage receipt finds the channel full (`[][~StageViewDropped]_vars`). Views of
  evaluations may be dropped. Where a stage's view is dropped, the property is false,
  which is the first disagreement on the engine in section 7.
- `LadderKeepsOrder` (`LadderOrder`): in every state before the first failed append.
  `emit_effects` logs a failure and goes on, so after one a quarantine
  may stand without its coach. `LadderMissesOnlyFaults` says how far that goes: a
  stage is never ahead of the one before it by more than the number of failures.
- `DetectsAreAccounted` (`DetectsAccounted`): under `SettledRules`, an amendment may
  add and remove rules but does not change the threshold, window or grouping of one it
  keeps, and `PromptReceipts`, no receipt is later than a window. `DetectsAccounted`
  measures old detects by the rules of now, so it means nothing for a rule that
  changed; and the engine prunes by the receipt it has in hand, so a receipt that is
  later than a window still counts next to newer ones. `MCEnforcement` asserts both
  for its instance, and TLC evaluates them.

Each of the three needs an invariant of its own, beside the types and `OwnKinds`,
which task appends which kinds of receipts.

`Followed` makes `QuarantineFollowsLog`, which speaks of states in which the engine
has seen everything, inductive: take the engine's flag and let every view on its
way, those in the channel and then the one landed and not published, set or clear it;
the result is what the last stage in the log says. It holds because only the
scheduler's task appends the stages that set or clear the flag, so that their views
enter the channel in the order of the log.

`Rungs` counts, per stage, rule and agent. What is logged of a stage and about to be
is no more than what is logged of the stage before it and the failures; with what is
scheduled of it, no more than what is logged and about to be logged of the stage
before, and the failures. The log alone is not inductive, because a stage is
scheduled when the one before it is emitted and not when it is appended.

`Accounted` gives every deny one place: still to be published, in the channel, in
the counter of a rule, or spent on one of the `threshold` shares of a detect that is
logged or about to be. For a rule per principal, the places sum up to no more than
the denies observed of that agent: a deny moves from one place to the next, and
`prune`, a dropped view or a failed append only take it away. `Timely` bounds the age
of whatever is on its way by the lag of the workload, and keeps any two entries of a
counter within a window of each other, so that a detect spans no more.

Underneath are lemmas about the part of a sequence at a set of positions (`Pick`,
for what `prune` retains and `poll_scheduled` takes out), and about counting in a sequence: appending,
concatenating, removing the head, keeping a part.

`EngineProofs`, about `ReplaySession`, from `ReplaySessionAssumption`, for any number
of sessions and runs and both stores:

- `ReplaysStayInTheirSession` (`WalksStayInside`).
- `RowsCountReports` (`CountsAgree`): each touch that fails widens the gap by one, and
  nothing else does.

`IInv` says that no stream has touched a session before it is put into the map
(`Untouched`); that Postgres keeps no receipt without its row (`Cascaded`, the foreign
key's `ON DELETE CASCADE`), so that a deleted session shows nothing; that the
receipts of a store were emitted in its session and point back into it (`Linked`);
and that the heads a run links to are stored already as long as the session can be
written to (`HeadsStored`), since an id joins a run's heads in the step that appends
its receipt.

Model-checked only:

- all liveness properties, which are outside the prover's reach;
- `SealsProve`, and the Merkle tree against its reference: a root is computed level
  by level, and what the levels amount to needs induction over the leaves;
- `VettedExactly`, `EvidenceExact`, `SendsAreJudged` and `DiffExact`: the loader's
  graph searches and the diff are recursive operators;
- `RunMatchesReference` of `ReplaySession`, which compares a run with a fold over its
  window, and a fold is a recursion over data.

## 7. Further disagreements met while modelling

Besides those of section 5, the sources disagree with themselves in the following
places. The modules do what the code does; properties that hold are stated so that
these cases are outside or included as the code has them.

Transport, admission, capabilities:

- `replay.rs:88` evicts by number and the adapters restart their epochs
  (`agent.py:155`), so after a restart an old envelope can be admitted again;
  `spec/envelope/rationale.md:41` claims "stale replay across windows" is defeated.
- `envelope.rs:63` never expires an envelope without `expires_at`;
  `envelope-v1.proto:87-89` says "if unset, the swarm's default TTL applies".
- `memory.rs:440` (transport): two first subscriptions may leave the registered
  inbox without a forwarder.
- `memory.rs:469`: a forwarder outside its select misses the supersede signal,
  against the "one-active-forwarder-per-inbox invariant" of `memory.rs:64-65`.
- `grpc/admission.rs:188`: a cascade that fails returns before `mark_revoked`,
  after the receipt; RFC 0009, lines 155-159, has any revocation that lands a
  receipt block the target.
- `yutha-passport/src/memory.rs:73`: a repeated `OperatorRevoke` ends in "not
  found"; `grpc/admission.rs:169-172` calls it idempotent.
- `grpc/admission.rs:177`: the cascade lists by subject; RFC 0009, lines 131-133,
  says "issuer == target OR subject == target".
- `grpc/mod.rs:158`: the revoked set is never reduced, so an agent registered
  again with a fresh passport (`yutha-passport/src/memory.rs:48-49`) stays out.
- `yutha-capability/src/memory.rs:447`: a check of an id that is not stored yet
  skips the quarantine gate; lines 425-427: "denies categorically".
- `grpc/capability.rs:176` compares monotonic readings of two machines, so a child
  may outlive its parent by the wall clock (the chain walk still denies it).

Enforcement and the slots:

- `receipt_publisher.rs:110` drops views when the channel is full;
  `spec/constitution/enforcement.md:505`: "missed receipts are NOT permitted to
  cause missed enforcement".
- `receipt_publisher.rs:106`: append and publish may be in different orders, and
  reputation is clamped; `enforcement.md:512` has a rebuild give the same scalar.
- `enforcement.rs:656`: a cooldown counts from the deny, `engine_config.rs:263`
  from the detect.
- `enforcement.rs:651`: the last stage is only ever set to detect; line 277 calls
  it the most recently observed one.
- `enforcement.rs:772`: a reverse does not cancel the eviction scheduled with it;
  `enforcement.md:251` says it "short-circuits the escalation".
- `enforcement.rs:654`: a rule without a coach block stops at detect;
  `engine_config.rs:197-198`: "skip directly from detect to quarantine".
- `enforcement.rs:378`: denies older than an activation count under the new rules,
  against `enforcement.md:95`.
- `enforcement.rs:535`: an amendment that removes a rule while a quarantine stage
  is waiting loses its reverse, against `enforcement.md:185`. A reverse that is
  already scheduled still comes.
- `enforcement.rs:686`: per-rule deltas of later stages are never read, against
  `engine_config.rs:207`.
- The engine's evict stage neither calls `OperatorRevoke` nor waits for a
  countersignature, which `enforcement.md` sections 5.2 and 5.3 describe.
- `grpc/constitution.rs:90` and `:270`: two operator calls that overlap can leave
  the engine on another constitution than the evaluator, and a receipt with one
  call's hash and the other's version; RFC 0018, line 23: "Promotion is atomic".
- `grpc/envelope.rs:978` labels a shadow receipt with the shadow read first, not
  the one that judged; lines 890-892: "a consistent snapshot".
- `evaluator.rs:322`: a send that meets an activation fails without a receipt;
  lines 366-370 and `canonical-actions.md:68` promise a `constitution_unresolved`
  deny.

Constitutions:

- Matched rules are reported as `policy0`, `policy1`, ..., for the reason of
  `layer_b`, and two actions between the same two states share one transition
  policy id.
- `evaluator.rs:449-488`: the failures that would make a shadow verdict
  `shadow_schema_incompatible` have failed the active evaluation before; an entity
  store over the shadow's bound fails the whole pair.
- The timeouts and escalations of procedures are validated and fired by nothing;
  the procedure index is neither reset by an activation nor persisted.
- `validate.rs:686` estimates the depth of a policy line by line, so a policy that
  is written over several lines has a smaller depth.
- Besides `0.000`, `00` and `0.` pass the check against zero scores; the model's long
  zero fractions stand for them. `parse_score_scaled` (`layer_b.rs:302`) multiplies
  without a check for overflow, which the model has not.
- An expression that ends in a `//` comment parses alone and breaks the synthesized
  policy it is put into, so it is refused by the last stage; the model has names
  that do so, not comments.
- `scoring.rs:13-16` promises declaration order; contributions are sorted by
  policy id, which is the order of the names.
- The evidence digest does not include the constitution's hash, and the wall clock
  is part of a procedure instance's id, so a retried trigger is a new instance.
- `yutha-diff`: policies that share an `@id` collapse into one entry; the loader
  does not refuse them.

Receipts, anchoring, replay:

- A receipt read from Postgres may fail the verification it passed: its predecessors
  come in another order (`lib.rs:766`), a time above the `BIGINT` range is saturated
  (`lib.rs:933`), and its spec version is taken to be 1.0.0 (`lib.rs:739`).
- `yutha-receipt/src/memory.rs:224-246` overwrites an existing seal;
  `store.rs:118-124`: a different root for a sealed receipt "MUST return an error".
  `seal.rs:39-45` has the anchor object's id populated with the digest; the memory
  store writes an empty one. Re-sealing under the same root, which `store.rs:119-121`
  calls a no-op, rewrites the commitment and the time of the seal; `sealOf` keeps the
  root only, so the model does not show it.
- `driver.rs:160-252` never reads the chain after it has started; `client.rs:55-58`
  says it does "after retryable Sui RPC failures".
- `sui-anchoring.md:432`: "rejects duplicate batches automatically" is false for a
  batch whose receipts have one time, which the contract takes twice.
- Receipts that tie with the last of a full batch are passed over for ever, as
  `PassedOverOnlyIfLate` has it; and the monotonic clock starts again at zero with
  the process, so after a restart every receipt is below the chain's range until
  the clock has caught up.
- RFC 0018, lines 248 and 270: sessions "auto-close after a configurable TTL", and a
  close receipt has `session_create_receipt_id`; there is no sweep and no such
  field. The close deletes the session before it writes the receipt.
- `grpc/replay.rs:427` drops the error of `touch_session`, and every run of a session
  counts its own reports from 0 while the row adds them up. `v1.proto:783-784` calls
  the row's total "Same value as the last ReplayProgress.receipts_replayed",
  `v1.proto:750` calls the report cumulative "since session start", and `v1.proto:807`
  and `replay_store.rs:159` count "receipts emitted", where the code counts receipts
  replayed.
- RFC 0018, line 202, rebuilds the state and then activates the candidate; the code
  activates first.

Identity and startup:

- `docs/operator/attestors.md:139` and `:146`, `oidc-attestor.md:408-416` start the
  control plane with an external attestor; that always fails (section 5) and leaves
  a deny receipt for the bootstrap agent.
- RFC 0017, line 169, takes the Azure key version for pinned; without one configured
  it is not (section 5).
- A key file without a `max_staleness`, the default of the command line, is used
  however old it is (`jwks_cache.rs:162-168`); `StaleKeysExpire` says nothing of it.
- `jwks_cache.rs:302-305`: "their fetch covers ours", although a fetch that was
  under way when the key was missed may have been answered before the rotation.
- Requests to issuers have a connect timeout and no timeout for the answer, so a
  refresh that hangs keeps the mutex and every later miss waits.
- The seed that anchoring needs and the TLS pair are checked after the bootstrap
  registration has left its receipt.

## 8. Not modelled

- Policy evaluation by Cedar: a library, modelled by how its answers are used.
- Passport, registry and topology data types; hashes, signatures, timestamps and
  protobuf conversions: pure functions of their input.
- Key rotation and sybil policies of the registry.
- Token and certificate bytes, JSON-RPC and provider encodings: one request and one
  answer, of which the models keep the outcome.
- Blob and Walrus backends: they refuse every call.
- The CLI, the simulation tool, the conformance suite and the SDK clients: programs
  on top of the services. Of the Python SDK, only the epoch counter matters to the
  server and is modelled.
- Restart of the control plane's enforcement, capability and admission state, for
  which there is no recovery code: it starts empty. Restarts of the anchor driver
  and of replay sessions are modelled.

## 9. Plan

1. `SealsProve` for batches that are sealed whole: that a staged seal's proof is the
   one computed for its leaf and root needs no induction; that it verifies does, and
   stays with the assumption `MerkleReference`.
2. Models: the composition of `SendPath` with `Enforcement` (the quarantine and the
   reputation a send reads) and key rotation in `Admission`.
