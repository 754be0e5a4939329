# A TLA+ model of evm-amm-state

evm-amm-state keeps the on-chain state of AMM pools in a local EVM cache and publishes
versioned snapshots of it, following a live chain. This directory models its live
runtime: how canonical blocks are assembled and delivered, how pools are discovered,
warmed, installed, kept right by events and repairs and removed while that happens, what
is published of it, and how the background worker prepares it. Paths below are relative to
the repository root.

## 1. The system

| Part | Source (`src/adapters/`) | State | Operations | Correct when |
|---|---|---|---|---|
| Subscriber driver, assembly | `subscriber_driver.rs`, `subscriber_driver/{bloom,filters,reconciliation}.rs` | buffered logs, pending headers, two watermarks, retained lineage | read a batch, seal, reconcile, walk parents, deliver | every batch holds all matching logs of its block; blocks are handed over parent by parent; the newest block is never withheld |
| Subscriber driver, topology | `subscriber_driver.rs` | paused flag, open transaction, owner epochs, interest revision | `begin_add`, `begin_remove`, `begin_replace`, `commit`, `abort` | interests change between two batches only; nothing stays staged or paused |
| Runtime actor | `live_runtime.rs` | engine, cache, point, version, revisions, trust, health | `ingest`, `install_prepared_pools`, `remove_pool`, refresh, previews | one writer; published state is a whole block's state; a failure after a mutation costs trust |
| Cold-start worker | `cold_start_scheduler.rs` | accepted jobs and their leases, a priority queue, running children | submit, cancel, dispatch a quantum, join, close | each admission slot is freed once; every attempt ends; no class starves; a shutdown is carried out |
| Work scheduling | `live_runtime.rs`, `live_runtime/repair_supersession.rs` | scheduled work, intents, reservations, queue depths | queue, start, report a round, commit, fail, cancel, supersede | at most one attempt per pool; no stale result is committed; no intent is lost |
| Reorganisation history | `live_runtime/reorg.rs` | the last delivered blocks and whether they held logs | `record`, `reset`, `replacement_proof` | a proof names exactly the dropped blocks and is given only when none held a log |
| Sync engine, ownership | `sync_manager.rs`, `ownership.rs`, `runtime.rs` | pools, generations, routes | add, remove, reserve, refresh, ingest | a generation is never reused; a failed batch of additions leaves nothing |
| Reactive handlers, repair | `reactive.rs`, `repair.rs` | per-pool quality | decode an event, write slots, ask for repair | a pool whose state is in doubt is degraded until repaired |
| Cold start | `cold_start.rs`, `prepared.rs` | rounds of slot reads | plan, read, adopt | state of one block only |
| Factory discovery | `factory.rs` | connectors, candidates | discover, admit, revalidate | registrations stand on canonical evidence |
| Concentrated liquidity | `v3_transition.rs`, `v3_sync.rs`, `uniswap_v3.rs` | ticks, bitmap, liquidity | apply swap, mint, burn | equal to what the contract stores |
| Other adapters | `uniswap_v2.rs`, `solidly_v2.rs`, `curve.rs`, `balancer_v2.rs`, `slipstream_staking.rs` | packed slots | apply events | equal to what the contract stores |
| Persistence | `persistence.rs` | the file of archived registrations | capture, save, load | a crash leaves a whole archive; nothing resumed is served unverified |
| Quote warm-up, storage sync | `quote_warmup.rs`, `storage_sync.rs` | probed slots | probe, verify | bounded, and no slot read is lost |

**Interaction.** The actor and the driver are two tokio tasks, each owning its state.
The driver submits one canonical batch at a time (`ingest_subscriber_batch`) and waits
for the answer, serving topology commands meanwhile (`ingest_while_servicing_controls`).
The actor runs topology transactions against the driver (`begin_*`, then `commit` or
`abort`), serving canonical batches while it waits for a begin
(`await_subscriber_fence`). Workers prepare pool state off the actor, pinned to a block,
and hand it back through the control queue; the actor submits jobs to the worker and
cancels them there. Callers hold handles with bounded queues.

**What is hard.** Two subscriptions that promise nothing about each other; proofs of
completeness that go stale with a reorganisation or a change of interests; timers; two
tasks each serving the other in the middle of a handler; failures between the two halves
of a transaction; a removal started from inside the delivery of a block; a job cancelled
while it is in a channel, queued, running or just done, with its slot under a shared bound
to be freed once.

## 2. Modules

### CanonicalAssembly

One module for `AlloyAmmSubscriberDriver`'s delivery path. Constants give the block tree
(`Block`, `Parent`, `Number`, `Chain`), the logs (`Log`, `LogBlock`, `LogStream`) and
what each header's bloom admits (`BloomAdmits`: false positives, no false negatives).

| Definition | Code |
|---|---|
| `headers`, `log_stream`, `SwitchHead`, `Attestable` | the node, its two subscriptions and the subscriber library's `LogCoverage` (external) |
| `handle_batch`, `ReadBatch` | one batch: a prefix of each stream, perhaps an attestation |
| `seal_deadline` | the straggler window of one pending header ends (`next_seal_deadline`, `waiting_since.elapsed()`) |
| `drain_sealable`, `next_batch_header` | one iteration of the loop of each mode |
| `subscription_seal_reason`, `single_log_interest`, `bloom_excludes_every_interest` | the two proofs of closure |
| `deliver_through_sealed`, `delivery_lineage`, `deliver_block`, `finish_delivery` | the delivery of a header: early return, one parent fetch per step, one block per step |
| `record_canonical_block`, `retire_buffered_logs_through`, `reset_subscription_assembly` | the bookkeeping of the same names |
| `driver_error` | any error of a delivery ends `run_inner` |
| `commit_add`, `commit_remove` | a topology transaction as the assembly sees it: interests change, assembly state does not |

Each await of the delivery is a step boundary, so the node and the streams move between
any two blocks of one delivery. Instants are abstracted to "this window is over". The
runtime is what the driver sees of it: `point`, and the history `batches` of accepted
batches that `SealedComplete` is about. A second history, `discarded`, holds the logs a
reset of the assembly threw away before their block was sealed. `SwitchHead` is the
assumption about the node: a new head is never lower than the old one; per stream, logs
arrive in canonical order; at most `MaxLost` notifications disappear, and an attestation
never covers a loss.

### LifecycleFence

Both ends of the topology handshake. The actor is a stack of handlers, `frames`: an
install, refresh or removal waiting at its fence, over it the `ingest` it serves there,
over that the removal of an orphaned pool which that ingest starts. The driver is
`d_work` (idle, delivering a number of blocks, waiting for a preview, failed), `d_paused`,
`d_pending`, `d_owners`. Pools and their owner epochs have the same names. Block contents,
snapshots, staged interests and prepared state are abstracted to whether the checks on
them hold; `EngineFaults` lets the engine refuse a change at each place where the code
handles that, `Reorgs` lets a block orphan any set of registrations, and `OwnerFaults` lets
the driver find an owner in a state its transaction did not leave it in. A commit refused for
that reason leaves the driver paused; whether an abort follows depends on the handler, and the
history `d_refused` says that none did, or that there was nothing left to abort.

| Definition | Code |
|---|---|
| `d_next_batch`, `d_submit`, `d_delivered`, `d_serves` | `run_inner`, `deliver_through_sealed`, `ingest_while_servicing_controls` |
| `d_preconfirmation`, `d_preconfirmed` | the preview branch of `handle_batch`, `handle_preconfirmation_result` |
| `begin_add` .. `abort`, `Resume` | the driver's handlers of the same names; an error of a begin that resumes at once |
| `stale_transaction`, `owner_state_refused`, `owner_step_refused` | the refusals of `commit`: no such transaction, an owner not in its prepared state, an owner that does not take the next one |
| `handle_control`, `admissible`, `may_take_control` | `run`, `next_input`, and the checks of `install_prepared_pools`, `remove_pool_serialized`, `commit_scheduled_refresh` |
| `ingest`, `remove_orphan`, `orphan_removed`, `ingested` | `ingest` and its loop over `reorg_actions` |
| `begun`, `committed`, `commit_refused`, `aborted` | what follows `await_subscriber_fence` in the three handlers |

Only the overflow of a 64-bit counter reaches the early return of
`commit_scheduled_refresh` that has no abort (`next_commit_identity`); it is left out.

### PriorityQueue and PriorityService

PriorityQueue holds the operators `push`, `pop` and `remove_where` of `PriorityQueue<T>`
on a record with the same fields; a class is a number, the most urgent first.
`consecutive` saturates at the burst, which is all `pop` compares it with.
PriorityService lets jobs of any class arrive whenever they like and dispatches for ever:
the question is what service the queue alone guarantees.

### ColdStartWorker

The worker of `spawn_cold_start_worker`, its children and the part of the actor they talk
to. `pc` is the place of the loop, `task[w]` that of the child running work `w`, and
`mail[w]` the control commands about `w` on their way to the actor. Every await is a step
boundary. A work id is used once, as in the code (`next_work_id` only grows).

| Definition | Code |
|---|---|
| `Reserve`, `CheckShutdown`, `Send` | the three atomic accesses of `submit_command` |
| `Detach`, `CancelWork` | `detach_scheduled_work` (tells the worker), `cancel_work` (does not) |
| `StartRound` .. `CancelScheduled`, `HandleControl` | the actor's handlers for scheduled work, reduced to one attempt: queued, running, closed; an end may submit the work that waited |
| `BeginQuantum` .. `Resume`, `CommitPrepared`, `CancelJob` | `run_cold_start_quantum`, `run_discovery_quantum`, `run_slot_patch_quantum`, `commit_prepared`, `cancel_job` |
| `Killed`, `Panicked` | a child aborted by a cancellation; a child that failed by itself |
| `LoopTop`, `DrainCommands`, `SpawnQuantum`, `SelectShutdown`, `JoinChild`, `SelectCommand` | the loop, with `select!` in its biased order |
| `FlushCommands`, `DropQueued`, `JoinClosing`, `Stop` | closing |
| `LoopAsks`, `LoopCancelled`, `flushing` | the loop waiting for `cancel_job`, wherever it calls it |
| `Release`, `held` | `AdmissionLease` |

A lease and its place in `in_flight` are identified with the work, and `abort_by_work` is
the children not yet cancelled. The prepared state, the baseline and the reason of a
refusal are abstracted: a commit may succeed, fail, or be superseded, whenever the attempt
is open. The overflow of the 64-bit round and event counters is left out.

### PoolRepair and QuoteView

PoolRepair is a pool after its cold start: `ingest` applies the events of a block (or
takes a replaced branch back), degrades what it is not sure of, and the actor schedules
the repairs that make it Ready again. A cached slot holds the block whose write it
reflects, so "equal to the chain" can be said; `owed[p]` is the history of the slots a
demanded repair has not yet read. A removal takes the words of a pool out of the cache or
keeps some or all of them (`EvictionPolicies`); a cold start writes what it read and leaves
what its policy defers or skips (`Unread`: `Lazy`, `Skipped`) as the cache has it, at an
install and at a lazy refresh. `inherited[p]` is the history of the words that outlived a
registration and that nothing has read or rewritten since.

| Definition | Code |
|---|---|
| `ingest`, `jumps`, `ingest_fails`, `ingest_batch` | `ingest` of the actor, and the engine alone without a scheduler |
| `apply_updates`, `event_repair`, `verify_slots_for_predicted_skips`, `Demand` | `handle_routed_log` and the repairs it asks for |
| `finish_ingest`, `finish_resync`, `should_recover`, `set_pool_status`, `require_explicit_refresh` | the engine after a batch |
| `record`, `reset`, `replacement_proof`, `verify_event_free_reorg` | the bounded history of `live_runtime/reorg.rs` |
| `request_followup`, `queue_followup`, `drain_followup_intents`, `combine`, `resolve_repair_commit` | intents, deferral and supersession |
| `start_scheduled_work` .. `fail_scheduled_work`, the commits | one attempt, from the worker's start to its end |
| `install`, `remove_pool`, `apply_prepared_storage` | registrations come and go over a cache that may hold their words |
| `PublishLifecycle`, `Report`, `Untrust` | what is published with it |

QuoteView says what readers of a snapshot may rely on: a pool is absent, exact, fenced,
suspect or inherited, an exact pool is only ever fenced or removed, and a pool comes to be
inherited by a commit only. `ImplementsQuoteView` is the refinement: the view of a pool is
computed from its status, what it owes, what it inherited and its slots, and every step of
PoolRepair is a step of QuoteView or a stutter.

### Registration

Why a pool is served: adapters, watchers and pools with their generations, candidates from
creation logs and queries, the evidence each registration rests on, and what a
reorganisation does to it. Handlers call each other, so the actor's state is one record
and each handler an operator from record to record (`retain_factory_candidate`,
`drain_factory_candidates`, `drain_revalidations`, `commit_scheduled_discovery`,
`fail_scheduled_discovery`, `reorganise`, `remove_adapter_cascade`, under the names the code has).
A loop of the code is a recursive function over its turns, one operator per turn
(`retain_factory_candidates`, `drain_one`, `revalidate_one`, `reorganise_one`). Two histories
name the exceptions of `Anchored`: `withdrawn`, the pools whose running revalidation a caller
cancelled, and `stripped`, those whose stale cold start was retried with the evidence of two
supporters and the recipe of one.

### SyncEngine

`AmmSyncEngine` without its event path: adding a batch with rollback, reservations,
two-step refresh, removal with its eviction policies, adapters with cascade, replacement
of the registry, and the journal of an ingest. The question is whether the registry, the
routing copy, handlers, ownership with its reverse maps, lifecycles and counters change
together. A registration brings its own status (`Statuses`), which sets its lifecycle
(`pool_runtime_state`) and is counted when it is Degraded. `PointChecked` is the check its
caller, the actor, makes before `commit_pool_refresh`. The engine is one synchronous object,
so an operation that fails is one action, and its rollback is computed the way the code makes
it: `Entered` is how far a batch of additions got in each structure when a step failed,
`withdraw` takes the pool back that was under way and `rollback_added_pools` the ones before
it; `restore_registration` and `abandon_removal` do it for a refresh and a removal. A rollback
that fails itself (`LifecycleInvariant`) is left out.

### Publication

The actor's versions, points and revisions, the commit channel (bounded, waited for), the
observer channel (lossy), status, previews on a speculative cache and shutdown. `stack`
holds the suspended handlers: a control handler waits at a fence or drains ready input,
where `ingest` runs inside it, and that may start a removal inside itself.

### ColdStart

The three drivers of the planners: `AdapterRegistry::cold_start`, `cold_start_many` with
its fast path, and `PreparedPoolJob`, which replays a transcript off the actor. The
planners of the seven families are one table of what each asks for in each round. Code is
claimed, verified or purged (`seeds`) when `seeding` is on (the registry's switch and an
account fetcher) and the adapter has a claim and can render it; a render error skips the pool
in the first two drivers and ends a prepared job. `before` is the code a driver found, so
that `NoUnverifiedCode` can say which claims are its own. `LiveWrite` is the actor moving the cache on while a
job is under way.

### V3Math, V3Contract, V3Transition

V3Contract is the reference (external): what swaps, liquidity events, collections and
flashes do to every storage cell of the two reviewed contract families. V3Transition is
`v3_transition.rs`: from the event and the part of the storage that is cached it derives
every cell the contract wrote, drops those it cannot, or drops the pool. Both run on seven
ticks, words of two ticks and moduli of 8 to 32, so ends of words, wrap-around of growth
counters, exact boundaries and full ticks all occur; V3Math holds the price and amount
formulas both use, with their rounding.

### PoolEvents

The Uniswap V2, Solidly, Balancer and Curve adapters: which logs each subscribes to and
how a log is routed, what its decoding writes or asks to be read, and the resync at the end
of the block, each read succeeding or not. Contracts (external) play one block at a time.

### Discovery

`factory.rs`: queries, drivers and the slots they ask for, the plan that is read at an
earlier block, assembly, derivation checks, and creation logs. Drivers are the presets, one
from outside the library, and forks a caller may specify: each keying of `getPool`, each
source of the fee (`FromKey`, `Fixed`, `FactoryMapping`), and a source that does not fit its
keying, which is an error. Each block creates a pool.

### Persistence

`persistence.rs`: an `AmmRegistrationArchive` is captured from the registry, saved and loaded
by the next process. Every system call of `atomic_write` is an action (`create_temporary`,
`write_temporary`, `sync_temporary`, `rename_temporary`, `sync_parent_best_effort`), two
threads may be in it at once, any call may fail, and the process may be killed or the machine
lose power between two of them. The file system is external: rename is atomic, bytes survive a
power loss once synced and a rename once the directory is. A file is the archive it was
written from, its rank and the state of its bytes, so a checksum is whether they are whole.
The restarted process has the number of its predecessor, the worst case for the names of
temporary files: `create_new` then refuses the name of a file left behind, that save fails and
removes the file, and the next one succeeds. `ResumeSound` says what a start may find. The
fields of a registration are abstracted to whether they have an encoding; the checks for
duplicate keys and for limits in `load` guard files that `save` does not write.

### MCAdapters and MCServices

Both explore components that share no state in one run: `part` is the component a
behaviour is about, and variables it does not use stay empty or initial. MCAdapters extends
Persistence and adds V3Transition, PoolEvents, ColdStart and Discovery (safety); MCServices
extends Publication and adds PriorityService and the prepared jobs of ColdStart (liveness
too). The invariants of the extended module are the ones its theorems state.

## 3. Runs

| Run | Instance | Checks |
|---|---|---|
| AssemblyFork | two branches of two and three blocks, reorganisations between deliveries, skipped headers | `SealedUnlessDiscarded`, `LineageFollowsPoint`, `NoGapNoReplay` |
| AssemblyForkReconcile | the same tree in Reconcile mode, reorganisations at any time, an interest removed | `SealedComplete`, `Converges` |
| AssemblyPair | three blocks above the genesis, a second stream registered on the way, one lost log, lineage of 2 | `SealedComplete`, `Converges` |
| Fence | two pools, two requests, two blocks, one block per delivery, previews, orphans, engine faults and owners that refuse their next state | `NoMismatch`, `TopologyAgrees`, `NeverStranded`, `HandshakeWithoutPreview`, `OrphansRemoved` |
| Worker | a two-round cold start and a more urgent job, in two commands or one, a command too large for the bound, panics, shutdowns | slots, hand-off, closing, cancellation, `AttemptsEnd`, `ShutdownCompletes` |
| Repair | a pool of two slots and one of one, four blocks with a fork, history of two, two jobs, faults, removals under each eviction policy, eager and lazy cold starts; with and without a scheduler | `StaleIsOwed`, `LifecycleHonest`, `ImplementsQuoteView`, `RepairsEnd` |
| Registration | two watchers that find the same pool, six blocks with forks of two depths, three generations, five commands, a candidate queue of one | `Anchored`, `NothingOutlivesItsOwner`, `OrphansResolved` |
| Engine | two pools, a shared slot and one of its own, every declaration of dependencies, pools that enter Ready or Degraded, a failure at each step of an operation, a journal of one block | `StructuresAgree`, `EvictedStaysGone`, `EvictionSparesLiving` |
| Adapters | V3: seven ticks, three positions, two events; PoolEvents: eight portfolios, two logs; ColdStart: every family, policy and driver, seeding on and off, one fault; Discovery: drivers of each keying and fee source, two pools; Persistence: two threads, two saves, an I/O error, two restarts | `CacheExact`, `CanonicalAccepted`, `ReadyWordsCurrent`, `ReadyIsExact`, `NoUnverifiedCode`, `DiscoveryExact`, `ResumeSound` |
| Services | commit and observer channels of one, nesting of two; three classes of two jobs; prepared jobs of every family | `ConsumerMissesNothing`, `PreviewIsolated`, `ShutdownReleases`, `ServiceUnderOneClass`, `JobEnds` |

Three blocks give a pending block with a successor and an ancestor; branches of two and of
three blocks give a same-height replacement, a replacement by a longer branch and a gap
whose end has a successor already; a lineage of
two or three is shorter than the chain, so trimming happens. Two topology requests with a
block between them give every nesting of handlers the code allows (`MaxDepth`). In the
worker two jobs give every race of one job with another's command, two rounds give a
continuation to requeue, and the command of two is admitted or flushed as a whole; what
more children or a smaller capacity would add to the accounts is covered by the proof.
A burst of two is the shortest that has a middle; `pop` treats all bursts alike. In Repair
two jobs of a pool are one that runs and one that supersedes it, and a history of two is
shorter than the fork is deep. Two watchers are the fewest that share a pool; five commands and three
generations are enough to remove and register one again while its work is under way. Two V3 events
are one that leaves the cache partial, or the price on a boundary, and one that meets it.
Two logs in PoolEvents are an event and another whose words the first dropped or moved.
A second pool in Discovery gives overlapping queries and a plan that is older than a pool.
Ready and Degraded are the statuses an engine's counter tells apart; with `Statuses =
{"Ready", "Degraded", "Cold"}` Engine has 636,594 states and passes too.

Two runs expect a violation and are findings in `PROJECT.json`:

* **AssemblyRacing**: the watermarks survive a reorganisation of blocks that are announced
  and not yet delivered (the assembly is reset only when the delivered header does not
  extend the published point). A replacement block is sealed without its log.
* **PoolEventsManaged**: with balances held by asset managers, `probe_token_cash` matches a
  token's total balance to another token's cash, and swaps are then applied to the wrong
  word of the vault. The passing run has no managed balances.

More configurations hold counterexamples of the same kind; run them by hand
(`tlc -config X.cfg M`):

| Configuration, module | Violated | What the code does | What it says |
|---|---|---|---|
| AssemblyDiscard, MCCanonicalAssembly | `SealedComplete` | a delivery across a gap resets the assembly (1795) and with it buffered logs of blocks above it; such a block is then sealed without them | `subscriber_driver.rs:1647-1649` |
| FenceRefusal, LifecycleFence | `StrandedIsFenced` | a removal's or a refresh's commit that is refused for an owner's state is reported to the caller and nothing else (`live_runtime.rs:5115-5121`, `6318-6324`): the runtime keeps its trust and its driver stays paused | `docs/live-runtime-cache-actor.md:138` |
| ServiceMixed, PriorityService | `EventualService` | two urgent classes taking turns restart the burst counter and starve a third | `cold_start_scheduler.rs:29-32` |
| RepairRetain, MCPoolRepair | `ReadyIsCurrent` | a pool removed with Retain (every orphaned one is, `live_runtime.rs:6998`) leaves its words; blocks pass; a cold start that does not read every slot installs the pool Ready on top of them | `docs/live-runtime-master-plan.md:326` |
| DiscoveryFee, MCAdapters | `FeeKeyedIsPriced` | a fee-keyed driver with a fee mapping never asks for the mapping's word (`factory.rs:2054`), and a word that was not read is a fee of zero (1991) | `factory.rs:744`, `1904` |
| RepairFence, MCPoolRepair | `FenceHolds` | a slot repair commits as a refresh and clears the explicit-refresh fence | `sync_manager.rs:2371-2374` |
| RegistrationOrphan, MCRegistration | `OrphansAsked` | a stale cold start that two watchers support is retried with the recipe of one | `docs/live-runtime-progressive-cold-start.md:175-176` |
| RegistrationLeak, MCRegistration | `InUseIsActive` | a revalidation that finds its pool again records evidence for one removed meanwhile, and its watcher can then not be removed | the same, 176-177 |
| PublicationShutdown, MCPublication | `ShutdownPrompt` | the reservation of a block ingested inside another command takes the shutdown notification; the outer command's wait for capacity never sees it | `live_runtime.rs:1849` |
| EngineEviction, MCSyncEngine | `EvictedNeverReturns` | only a generation that wrote a slot itself is fenced; a slot written by another one returns with a reorganisation | `sync_manager.rs:706-710` |
| V3Standing, MCV3Transition | `StandingSwapReplays` | a tiny upward swap from a price a downward swap left on a boundary is refused | `docs/v3-event-transitions.md:77-79` |

Three more need only an edit of a passing configuration. `MaxLineage = 2` in Fence.cfg
violates `NoMismatch`: a delivery of several blocks ignores the pause it acknowledged
(`docs/live-runtime-cache-actor.md:51`). `HandshakeCompletes` as a property of Fence.cfg is
violated: a driver waiting for a preview's answer and an actor waiting at a fence wait for
each other. `PointChecked = FALSE` in Engine.cfg violates `StructuresAgree`: without the
actor's check of the point, a refresh token prepared before an ingest miscounts degraded pools
(`sync_manager.rs:1306-1311`).

This is why some passing properties and instances are as narrow as they are.
AssemblyFork lets the node reorganise only once what it announced is delivered, and
Fence delivers one block at a time. `SealedUnlessDiscarded` excepts the logs
AssemblyDiscard is about; AssemblyPair (no gaps) and AssemblyForkReconcile (Reconcile mode)
check `SealedComplete` itself. `NeverStranded` excepts the driver FenceRefusal is about, and
says that there is no other. `HandshakeWithoutPreview` says that the deadlock over a
preview is the only one: if the driver always gets the answer to a preview, every
handler returns. `OrphansRemoved` is weaker than
`docs/live-runtime-master-plan.md:431`, where an orphaned pool is always removed: a block
ingested at the fence of another transaction starts a removal the driver refuses
(`TransactionInProgress`), and the pool then stays in a runtime that loses its trust.
QuoteView has the views "suspect" for RepairFence and "inherited" for RepairRetain, and
`StaleIsOwed` excepts inherited words. The drivers of the Adapters run leave out the one of
DiscoveryFee. `Anchored` and `NothingOutlivesItsOwner`
except what RegistrationOrphan and RegistrationLeak show, `ShutdownReleases` is about one
waiting command, `EvictedStaysGone` about slots whose writers were all fenced,
`CanonicalAccepted` allows the standing swap, and `ServiceUnderOneClass` asks for one class
that never runs empty.

Smaller things the models show: the successor watermark survives the removal of the stream
that advanced it (`subscriber_driver.rs:1667`); discarding the assembly discards headers
already queued (1519 says state is never withheld; the next header repairs it);
`commit_scheduled_slot_patch` does not ask for trust and publishes (`runtime.rs:1352-1353`);
the fast path of `cold_start_many` leaves `warmed_slots` empty (`types.rs:1236-1239`); a
Slipstream creation log sets the fee a query leaves unset (`factory.rs:831-834`); a stale discovery
is retried without its `max_candidates` (`live_runtime.rs` 5583-5588); the failure of a
revalidation whose pool was removed costs the runtime its trust (5580-5586), and cancelling
one leaves the orphan unasked; the fast path of `cold_start_many` makes a pair without
reserves Ready where its planner says NeedsRepair; the V2 and Solidly planners overwrite
known tokens with none under the lazy policies; Balancer's `PoolBalanceManaged` and Curve's
parameter events are not subscribed; a Curve registration without coins routes no liquidity
events; position cells of a Slipstream pool are outside the surface that stays exact.

**Fairness.** tokio polls every ready task: weak fairness on the driver's own steps, on
reading a batch that is there and on each timer (`FairSpec` of CanonicalAssembly), and on
the actor's and on the driver's next step (`FairSpec` of LifecycleFence), on the loop, on
each child (a provider round ends) and on a submission under way (`FairSpec` of
ColdStartWorker). There the actor's handling of one work's mail is strongly fair: the
control queue is first-in first-out, so a command is reached although other requests keep
the actor busy in between. PriorityService assumes that a dispatch happens again and
again: children end and are joined. PoolRepair and Registration assume that the worker
reports again and again while it holds a job, in any order; Publication that a handler that
can go on does; ColdStart that each step of a job is taken. Nothing is
assumed of the node, of callers, of the consumers of channels or of a failure. `Converges`
needs the node to stop moving, which the bound `MaxSwitches` makes certain. Deadlock is not
checked: with its bounds used up, or with a failed driver, the system rightly stops; being
stuck in the middle of a handler is what `HandshakeWithoutPreview`, `ShutdownReleases` and
`ShutdownCompletes` exclude.

**Types.** CanonicalAssembly, ColdStartWorker, LifecycleFence, PoolRepair and Registration
state a `TypeOK`; it holds in the runs above when it is added to their configurations, and for
CanonicalAssembly and Registration it is a theorem (`AssemblyTypes`, `RegistrationTypes`). In the
other modules the types a proof needs are the first part of its inductive invariant.

## 4. Proofs

Eight modules of proofs. A theorem of the form `Spec => []P` is for every value of the
constants that satisfies the named assumptions of the module (TLC evaluates them in the
runs); further hypotheses are in the table.

| Module | Theorem | Property | Hypothesis |
|---|---|---|---|
| CanonicalAssemblyProofs | `DeliveryTypes`, `AssemblyTypes` | types of the delivery path, `TypeOK` | |
| | `LineageFollows`, `NoGap` | `LineageFollowsPoint`, `NoGapNoReplay` | |
| | `ReconciledComplete` | `SealedComplete` | `Source = "Reconcile"` |
| | `SealsLackOnlyDiscarded` | `SealedUnlessDiscarded` | `RacingReorgs = FALSE`, `Removable = {}` |
| | `LinearComplete` | `SealedComplete` | `Linear`, `SkipsHeaders = FALSE`, `Removable = {}` |
| RegistrationProofs | `AlwaysAnchored`, `NothingOutlives` | `Anchored`, `NothingOutlivesItsOwner` | |
| | `RegistrationTypes` | `TypeOK` | |
| ColdStartWorkerProofs | `SlotsAreAccounted` | `SlotsAccounted` | |
| | `HandoffAlwaysFrees`, `CancelledNeverQueued`, `NothingIsLeft` | `HandoffFreesSlot`, `CancelledStaysCancelled`, `NothingLeftBehind` | |
| LifecycleFenceProofs | `TopologyAlwaysAgrees`, `DriverNeverStranded` | `TopologyAgrees`, `NeverStranded` | |
| | `FencedWithoutFaults` | `StrandedIsFenced` (FenceRefusal) | `OwnerFaults = FALSE` |
| | `RevisionsMatch` | `NoMismatch` | `MaxLineage = 1` |
| PoolRepairProofs | `StaleAlwaysOwed`, `LifecycleIsHonest` | `StaleIsOwed`, `LifecycleHonest` | |
| | `ViewIsImplemented` | `ImplementsQuoteView` (refinement) | |
| SyncEngineProofs | `StructuresAlwaysAgree` | `StructuresAgree` | `PointChecked = TRUE` |
| | `EvictionIsFinal`, `EvictionAlwaysSpares` | `EvictedStaysGone`, `EvictionSparesLiving` | |
| PublicationProofs | `ConsumerIsComplete`, `PreviewsAreIsolated` | `ConsumerMissesNothing`, `PreviewIsolated` | |
| | `LagsAreExact` | `LagIsExact` | `ObserverCapacity \in Nat` |
| PersistenceProofs | `ResumeIsSound` | `ResumeSound` | |

Each rests on an inductive invariant, itself a theorem (`Invariance`, `SlotInvariance`, ...):
the property alone is not inductive. The proof takes each action in turn, through a few
lemmas on the kinds of step there are. The hypotheses on the code are its callers' or its
configuration's, and those on the node and the topology bound what the driver is exposed to.
Each has its counterexample without it: `PointChecked = FALSE` in Engine.cfg,
`MaxLineage = 2` in Fence.cfg, FenceRefusal for `OwnerFaults`, AssemblyRacing for `RacingReorgs` (it violates `SealedUnlessDiscarded` too),
AssemblyDiscard for `Linear`; and AssemblyPair with `Removable = {"s", "t"}` and
`MaxTopology = 3`, where the watermark one stream left behind seals a block for the stream
that was added after its removal.

**CanonicalAssembly.** Delivering a block keeps `LineageFollowsPoint` only if the block's
parent is retained. `LineageInv` says that the retained numbers are an interval ending at
the point's number, each block stored under its own number and linked to the one below;
`WalkInv` says that the blocks of a walk are parent-linked, end at the header being
delivered and, once the walk is over, begin above a retained block. Only `delivery_lineage`
and `deliver_block` have real content (`LinkedCons` extends a walk downward, `RecordInv`
trims and extends the interval). `TreeAssumption` and `Retained \in Nat \ {0}` are used,
and nothing about logs or blooms.

What a sealed batch holds depends on what is still in the two subscriptions, so `SealInv`
follows every log from the node to its batch. `HeadersOnNode` and `StreamsInOrder`: headers and
logs on their way are of the node's chain, logs of one stream in order. `Accounted`: a log of an
interest, on that chain and above the point, is in its stream, buffered, lost or discarded.
`CoverageInv`: what an attestation covers ends below every lost log. `ObservedInv`: the successor
watermark of a single stream is above no log still in it. `ClosedInv`: the header that is about
to be delivered as the next block still has the proof of closure it was sealed with.
Together, a log of a sealed block that is not buffered can only have been discarded.
`LinearComplete` adds `LineInv`: without forks and skipped headers the driver's headers leave
no gap (`Gapless`) and every one extends the point, so nothing is ever reset (`NoReset`) and
`discarded` is empty. In Reconcile mode the logs are read with the block, and none of this is
needed. `LogAssumption` says that a block has finitely many logs, so that a stream can list
them, and `ConfigAssumption` that there are finitely many streams, so that a batch of them has
a highest block.

**The worker.** `accepted_jobs` is the number of works that are reserved, in the channel or
under a lease. Folding a command in would count a work twice if it were in two commands or
under a lease already, and a reservation would if the work were in the channel. `SlotInv`
adds `OnePlace`, `BornOnce` (what is reserved has no attempt yet, what is in the channel or
leased has had one) and `FlushesJobs` (while the closing loop cancels the jobs of a command,
that command is still first in the channel). Set sizes come from the library's cardinality
theorems. Nothing is assumed of the queue: the account holds for any order of service.

`JobInv` follows one job through the loop, its child and the actor. That a hand-off holds no
slot needs to know who holds a lease: a job that is queued, running or being cancelled
(`Waiting`, `Leased`, `Untouched`, `Flushing`). That nothing is left needs `Closing` (the
channel, the queue and the children are empty in that order), `Carried` (every live attempt
has a place from which something will end it), `Answered` (an answer on its way never
releases the last carrier of a live attempt) and `Withdrawn` (only attempts that are over
are cancelled in the worker). The queue enters with what `push`, `pop` and `remove_where` do
to the set of jobs in it; a batch is pushed by a recursive function, for which the least
counterexample replaces induction.

**LifecycleFence.** `FenceInv` describes the handshake: `Nesting` (which handler may run
inside which), `InFlight` (one batch or preview between the tasks), `Exchange` (each order
in the driver's queue is the one its frame waits for, in the order of the frames), `Holding`
(the driver's open transaction is that of the one frame that has begun it, and it is paused
exactly then), `Exclusive` (an inner handler gets no transaction while the outer one has
one), `Revisions` and `Topology` (where the two sides differ between the commit at the
driver and the actor's learning of it). `TopologyAgrees` and `NeverStranded` are what is
left of it when the stack is empty. A commit refused for an owner's state ends this exchange
early: from then on (`d_refused`) `Holding` still says that a transaction a handler has begun
is the driver's own or was given up by it, and `Topology` that both sides have the same pools
registered, but no longer that the driver resumes or that every owner is `Settled` outside the
pools a handler has `Touched`. `FencedWithoutFaults` is the same invariant with the fact that
only `OwnerFaults` sets the mark. `RevisionsMatch` adds `Aligned`: with deliveries of one
block, no batch is built while a transaction is open.

**PoolRepair.** `RepairInv` is `Known`, `PoolsSound`, `WrongIsOwed` and `Recorded`.
`WrongIsOwed` is `StaleIsOwed` whether the runtime is trusted or not, as a commit of a slot
patch does not ask for trust: a wrong slot is owed or inherited, and every word a removed
pool left in the cache is inherited, which is what the next installation of the pool starts
from. `PoolsSound` adds to `LifecycleHonest` the types of a pool's
record and that slots the adapter does not read are not cached. `Recorded` is about
`EventFreeReorgHistory`: its entries are parent-linked and end at the point (`Traced`), and
an entry without logs touches no pool that is active (`Quiet`). It is what makes the
shortcut around a full refresh right: `EventFree` shows that then no value an active pool
caches differs between the point and the new block's parent. `Quiet` survives an
installation only because the history is reset with it. Truth is a fact about lineages, so
`LineageEquation` first shows that the recursive function exists (the set of blocks closed
under `Parent`), `LineageNested` that a lineage holds the lineages of its members, and
`TruthStep` what one block changes. Each step is then `Stutters`, `CommitsAt` one pool or
`Advances` (`Visible`), and `ViewStep` maps these to a stutter, `Commit` and `Advance` of
QuoteView; that a view is never "broken" is `WrongIsOwed`.

**Registration.** The invariant is of a record and not of the variables: `Sound(S, K, W, X)`,
for an actor `S` on a chain `K`, with the histories `W` (withdrawn) and `X` (stripped). Every
operator of the model then has a lemma of the same form, that it hands `Sound` on, and the
lemma of a handler combines those of the operators it calls in the order it calls them;
`NextSound` instantiates them with `rt` and `Lineage[rt.point]`. `Owned` is
`NothingOutlivesItsOwner` with what makes it inductive: an owner backs only pools of its own
family (or the removal of an adapter would strand work), generations do not pass the issued
one, a recipe or a query is for a generation that was issued (or a late answer would speak of
the next pool under the same key). `Grounded`, which a trusted actor has, says for pools, work
and candidates where their evidence is: queries have their recipe, evidence off the chain is a
query being asked again, work and candidates hold no evidence off the chain. A reorganisation
breaks it in one step and mends it in three, so between them `Reorganised` says which pools of
the loop are settled, and `Reconciles` what the sweep over candidates, work and pools does to
each; `ReorgSound` joins them. The loops are recursive functions; `FoldExists` shows that such
a function exists whenever its steps stay in a set, `FoldKeeps` that what each turn hands on
holds at the end (both from the least counterexample), and no induction over data is left.
`RegistrationAssumption` says that the keys are of three disjoint kinds, that owners and pools
are finitely many, that a factory creates pools of its own family, and that every block
descends from the genesis, without which `Lineage` would not be determined.

**SyncEngine.** `EngineInv` is `StructuresAgree` without the counter (`Agreement`,
`ReverseMaps`), and why each operation keeps it: one ownership record per key at a
generation the ledger has passed, reservations that nothing else uses (`Ledger`), and
refresh tokens that agree with the registry while no batch came in between (`Tokens`).
The count of degraded pools, the routing copy and the lifecycles shown (`Counted`, `Views`,
`Shown`) need the check of the point. The rollbacks have lemmas of their own: `RollbackUndoes`
says that what entered up to any step and is taken back leaves handlers, registry and
ownership as they were, and the routing copy if it agreed with the registry;
`AbandonUndoes` and `AbandonedRemoval` apply it to every step at which a batch or a removal
may fail. `Fenced` carries the eviction
fences, with the journal's writers of an evicted slot.

**Publication.** `PubInv`: at most one handler has a commit identity, it is the innermost,
and it is still the next one (`OneCommitter`), which with `Gapless` gives the consumer every
version in order; `Published` and `Anchored` say what a snapshot and a preview may hold.
`LagsAreExact` is an action property, from `Numbered` (the ring holds the last events in
order) and `LagTold`.

**Persistence.** `SaveInv`: no two saves of a process share a temporary name (`OwnName`), a
temporary file is as far as the save that writes it (`Written`), and every file a power loss
may leave under the archive's name is whole, synced and no older than the last settled save
(`Kept`). With `ResumeSound` itself it is inductive.

Two remarks on form. tlapm and TLC resolve overlapping arms of a CASE differently, so the
arms of every CASE in a module that is proved about exclude each other. And several facts
about sequences are proved for constants first and then used of the variables.

A proof that failed is a finding: `SealedComplete` with reorganisations between deliveries
could not be made inductive at the reset of the assembly, and TLC found AssemblyDiscard once
the shorter branch could be replaced by one with a block to spare. `NothingOutlivesItsOwner`
used to say that every supporter of a work has evidence in it. That is not inductive, and TLC
finds it false with three generations and five commands: a stale retry of a work with two
supporters keeps the evidence of both under one of them, or a caller's own cold start is joined
by a candidate; when a reorganisation then drops the one piece of evidence that was the
supporter's, the candidate that waits is drained into work its owner has no evidence for. The
property now says what the code keeps: such work has evidence, its supporters are active
watchers, and a recipe always has its query. The run's bounds were raised to where the
difference shows.

Only model-checked:

* liveness, and with it everything that needs fairness: the prover does not handle it;
* the properties of ColdStart, Discovery and PoolEvents, comparisons with a reference over
  tables of families, where TLC is exhaustive and a general statement would repeat them;
* V3Contract and V3Transition, which walk ticks with recursive operators, which the prover
  cannot use.

## 5. Plan

Done: every module of section 2, and the proofs of section 4: all safety properties of
CanonicalAssembly, the worker, LifecycleFence, PoolRepair, Registration, SyncEngine,
Publication and Persistence, and the refinement of QuoteView.

Next, proofs: `NoUnverifiedCode` of ColdStart, whose planners are a table and whose drivers are
loops like Registration's; the operators of Discovery against their reference, one by one.

Next, composition: PoolRepair's attempts are ColdStartWorker's, and LifecycleFence's commits
are Publication's; each module states the part of the other it relies on as an environment
action. A product of two of them is beyond TLC at these bounds.

## 6. Not modelled

* Simulation (`sim.rs`) and quote warm-up (`quote_warmup.rs`) run an EVM; what is left without
  it is a bounded loop. `storage_sync.rs` is modelled as far as cold starts use it.
* `slipstream_staking.rs` and `subscriber_driver/staking.rs` read words at one block, validate
  them and add them to the block as evidence, from which `decode` and `derive` write words of
  the pool (`uniswap_v3.rs:312-316`, `341-343`). V3Transition models the logs of the pool itself;
  the staking logs of its gauge are left out.
* `v3_sync.rs` beyond what cold starts use holds slot arithmetic and storage programs;
  `bytecode.rs` holds constants; `diagnostics.rs` and `subscriber_driver/{timing,observation}.rs`
  report.
* The split of `eth_getLogs` into requests and provider transports are I/O whose failure is
  `driver_error` / `d_provider_error`. Stopping the driver and its catch-up command are left
  out of both modules.
* Builders, accessors, error types and their conversions, which make up much of `types.rs`,
  `factory.rs`, `live_runtime.rs` and `runtime.rs`, hold no behaviour to check.
* Branches of `v3_transition.rs` that no event of a contract reaches at the modelled widths:
  the fallback of the price formulas when a product overflows 256 bits (3034-3041, 3071-3078;
  the model's integers are unbounded and take the first form), the
  overflow of the active liquidity (1006-1017), the refusal of a locked `slot0` (302-304,
  1702-1704; an event is decoded after its transaction), and the range check of a protocol fee
  denominator (1192-1198). The truncation of words to 32 bits never cuts a modelled value.
* Installations attested by a caller rather than prepared by the worker
  (`InstallPreparedPools` with the policy off) differ in a check only; a cold start of a pool
  without adapter or layout returns Unsupported before it does anything; a claim that
  waits at an address under another hash is left to the cache library.
* What a handler decodes is a set of written slots in SyncEngine, and is modelled in PoolEvents
  and V3Transition.
