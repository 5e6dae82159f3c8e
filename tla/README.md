# BLACKBOX-X: specifications and proofs

TLA+ specifications of BLACKBOX-X, a TypeScript monorepo that simulates,
load-tests and calibrates models of backend systems. Paths below are relative
to `src/`, the root of the repository.

## 1. The system

| Part | Where | State | Operations | Status |
| --- | --- | --- | --- | --- |
| Execution leases | `packages/execution-leases` `leases/lease-manager.ts` | Redis lock key (PX expiry), Redis epoch counter, a row of MySQL `execution_leases` | `acquire`, `renew`, `release`, `getCurrentEpoch` | modelled: `Lease` |
| Epoch fence | same, `leases/epoch-fence.ts` | none of its own | `assertValidEpoch`, `assertValidEpochFromDb` | modelled: `Lease` |
| Outbox relay | same, `outbox/outbox-relay.ts` | rows of `outbox_events`, a Kafka topic | `queueEvent`, `relayPendingEvents` | modelled: `Outbox` |
| Inbox consumer | same, `inbox/inbox-consumer.ts` | rows of `inbox_events` | `consumeWithIdempotency` | modelled: `Inbox` |
| Worker registry | `packages/load-orchestrator` `worker/worker-pool.ts` | worker keys with expiry, the set of active workers | register, heartbeat, deregister, `getActiveWorkers`, `allocateWorkers` | modelled: `WorkerPool` |
| Orchestrator, load worker, telemetry | same | a Kafka command topic, telemetry keys; per worker `activeRunId`, `currentStatus`, `stopRequested`, running loads | `startRun`, `stopRun`, `collectResults`; `start`, `handleCommand`, `executeLoad`, `stop` | modelled: `LoadRuns`; of the aggregation only the total |
| Event queue and kernel | `packages/simulation-engine` | heap, index map, virtual clock, hash, checkpoints | `push`, `pop`, `cancel`, `step`, `runUntil`, checkpoint and resume | modelled: `EventHeap`, `Kernel` |
| Simulation runner and resources | same | thread pools, connection pools, requests in flight | the event handlers, `tryAcquire`, `release` | modelled: `SimRunner` |
| Circuit breaker, bulkhead | `packages/workload-spec` | breaker state and counters; active and queued counts | `canExecute`, `recordSuccess`, `recordFailure`; `tryAcquire`, `release`, `cancelQueued` | modelled: `CircuitBreaker`, `Bulkhead` |
| Topology graph, blast radius | `packages/domain`, `packages/chaos-engine` | nodes and edges | `detectCycles`, `classifyCycle`, `validateTopology`, `topologicalSort`, `analyzeBlastRadius` | modelled: `TopologyGraph` |
| Topology routes | `apps/blackbox-api` `routes/topology.ts`, `packages/db` `schema/topology.ts` | the topology tables | POST of projects, environments, nodes, edges, operations; validate | modelled: `TopologyApi` |
| Artifact storage | `packages/storage` | S3 objects, rows of `stored_artifacts` | upload, content-addressed upload, verify, download, delete | modelled: `Storage` |
| Migrations | `packages/db` `migrate.ts` | advisory lock, ledger, schema | `runMigrations` | modelled: `Migrate` |
| Capacity search | `packages/capacity-search` | search interval, best rate, measurements | `runBisectionSearch`, `detectKneePoint`, `search` | partly: `CapacitySearch` |
| Calibration | `packages/calibration` | parameters, best loss, model status | `runCoordinateDescent`, `executeClosedLoop` | partly: `Calibration` |
| Metrics registry | `packages/observability` | counters, gauges and histograms | observe, export, reset | partly: `Metrics` |
| API health checks and shutdown | `apps/blackbox-api` `health.ts`, `server.ts`, `packages/db` `client.ts` | the MySQL connection pool and what waits for it, requests under way | readiness and dependency probes, the signal handler | modelled: `Health` |
| The rest | see section 9 | none, or numbers | arithmetic, parsing, single statements | not modelled |

**How the parts interact.** Processes meet only in Redis, MySQL, Kafka and S3.
The lease manager writes the lock and the epoch counter to Redis and the epoch
to MySQL, in separate commands; the fence reads MySQL (or an epoch somebody
read earlier). The outbox is written to MySQL by services and drained into
Kafka by relays, and inbox consumers deduplicate what Kafka delivers at least
once. The orchestrator allocates workers from Redis and commands them through
Kafka. Inside one process the simulation runner drives the kernel, which calls
the runner's handlers back; both are single-threaded.

**What is hard.** Read-then-write sequences over two stores with an await in
between (leases, outbox, inbox, storage, worker pool); keys that expire between
two commands; processes that die between two commands; at-least-once delivery;
results that arrive after the state they belong to has changed (breaker, load
worker); checkpoints that share objects with the live queue. `PROJECT.json`
lists each of these as a hazard with its line.

**What makes each part correct.** Leases: mutual exclusion, epochs unique to
one holder, no stale write past the fence. Outbox: no committed event lost,
causal order kept. Inbox: one committed effect per event. Registry: who lives
is listed, who has gone is not. Load worker: its status tells whether it runs a
load, a stop ends it, a result counts every request whose telemetry is still
there. Event queue: pops in the
order of (time, priority, sequence), a cancelled event is never popped. Kernel:
time never goes back, a resumed run ends like the original. Runner: every
request finishes at most once, pools are conserved. Breaker and bulkhead: limits
hold, counters balance, a timeout is kept. Topology: a cycle is found when there is one, a report
describes the topology, an operation is created whole. Storage: record and
object agree. Migrations: each applied once, in order. Capacity search and
calibration: the answer is one that was measured. Metrics: a scrape is what was
observed. Health: readiness comes back with the dependencies, a stopped server
exits.

## 2. The plan

Each module stands for one part, is parameterised by constants with a named
assumption, and has one action per awaited command or handler. Loops and
recursive functions of the code are recursive functions on a number of rounds,
so that every module can be proved about. Bounds are constants named `Max...`
(or `Horizon`, `Ends`) and appear in guards only.

Done, in this order: leases and fence; outbox, inbox and their composition;
kernel and runner; worker registry and load runs; breaker and bulkhead; storage
and migrations; topology graph and routes; capacity search, calibration,
metrics; health checks. Each has its run. The theorems are in eight modules:

| Module | About |
| --- | --- |
| `LeaseProofs` | `Lease`, and that it implements `EpochAuthority` |
| `OutboxProofs` | `Outbox`, and the safety half of `Delivery` |
| `ConsumerProofs` | `Inbox`, `LoadRuns`, `Metrics`, and the sums the last two need |
| `KernelProofs` | `EventHeap`, `Kernel`, and that it implements `EventSchedule` |
| `ResourceProofs` | `SimRunner`, `CircuitBreaker`, `Bulkhead` |
| `TopologyProofs` | `TopologyGraph`, `TopologyApi` |
| `PersistenceProofs` | `Storage`, `Migrate` |
| `SearchProofs` | `CapacitySearch`, `Calibration` |

Every safety property a run checks and passes is a theorem too. What no theorem
states is liveness (`CallsEnd`, `RegistryFollows`, `ProbesRecover`, and the
fairness half of `EndToEnd` and `ImplementsAtLeastOnce`), which is out of the
prover's reach and stays with TLC.

**How the runs are composed.** Modules that share no state are checked in one
run: a variable `part`, chosen at the start, says which one runs, and the others
stand in their first state. A behaviour of such a run is a behaviour of one part
alone, and a property about the others is true of it as it is of their first
state.

| Run | Module | Parts |
| --- | --- | --- |
| `lease_overlap` | `MCLease` | - |
| `messaging` | `MCMessaging` | `outbox`, `inbox`, `workers`, `runs` |
| `delivery_and_registry` | `MCDelivery` | `delivery`, `pool`, `health` |
| `simulation` | `MCSimulation` | `kernel`, `runner`, `breaker`, `bulkhead` |
| `platform` | `MCPlatform` | `leases` taken in turns, `graphs`, `validation`, `operations`, `storage`, `migrations`, `search`, `calibration`, `metrics` |
| `lease_no_mutex`, `lease_stale_renew`, `inbox_crash`, `kernel_snapshot`, `breaker_probes`, `topology_cycle`, `storage_reupload` | the component or its MC module | a sentence of the repository that the code does not keep |

## 3. Leases

### Modules

* `Lease` models `LeaseManager` and `EpochFenceGuard` for one resource: every
  key and row is addressed by `resourceId`, so resources do not interact.
* `EpochAuthority` is the abstract specification: epochs are the positions of
  an append-only sequence of holders, and a caller's token is an epoch issued
  to its holder.
* `MCLease` names the instances TLC checks, but for the one of calls that do not
  overlap, which is a part of `MCPlatform`; `LeaseProofs` holds the theorems.

### State

| Variable | In the code |
| --- | --- |
| `lock` | Redis `blackbox:lease:<id>`: holder and epoch of the JSON value, and when PX drops it |
| `epochKey` | Redis `blackbox:lease_epoch:<id>` |
| `row` | the `execution_leases` row: holder, epoch, status (`resource_id` is UNIQUE) |
| `pc`, `mine` | where each caller is in its call, and the local `epoch` / `expiresAt` |
| `lease` | the `Lease` object a caller last got back |
| `active` | the number `getCurrentEpoch` last returned to it |
| `clock`, `calls`, `faults` | time and the counters that bound a behaviour |
| `issuedTo`, `written`, `fooled` | history: who each epoch was allocated to, the newest epoch a write used, the fences that let an older one through after it |

### Actions

Each awaited command is one action, with the synchronous code up to the next
await. `acquire` is `AcquireGet`, `AcquireIncr`, `AcquireSet`, `AcquireSelect`,
then `AcquireUpdate` or `AcquireInsert`; when the lock is already the caller's
it goes on at `RenewGet`. `renew` is `RenewCall` (or `RenewGet`), `RenewSet`,
`RenewUpdate`, `RenewSelect`; `release` is `ReleaseGet`, `ReleaseDel`,
`ReleaseUpdate`; `getCurrentEpoch` is `CurrentEpochDb` and `CurrentEpochRedis`.
`FenceDb` and `FenceLocal` are a caller's two ways to check its epoch, and
`FencedWrite` the write that follows. `Tick` is time and key expiry, `Fail` an
awaited command that rejects (nothing in the class catches it), `Crash` a
process that dies and restarts without its memory.

Assumed of the environment: Redis and MySQL run one command atomically, lose
nothing and serve every caller; a command that fails has had no effect; all
callers read one clock. A command that took effect before its connection was
lost is covered by a `Fail` at the next command. Left out: `id`, `acquiredAt`
and `renewedAt` (nothing reads them back for a decision) and `close()`.

### Properties and runs

| Run | Instance | Shows |
| --- | --- | --- |
| `lease_overlap` | 3 callers, 2 share a holder id, 3 overlapping calls, ttl 1, clock to 2, 1 fault | `EpochIntegrity`: an epoch has one holder wherever it is found; `LeaseHasRow`: no lease without a row, so the unfenced "no row" exit is unreachable for a leaseholder; `FenceSparesNewest`: neither fence refuses the newest holder; `ImplementsAuthority`; `LeaseEpochNeverGoesBack`: no caller with an id of its own is handed an older epoch than it had; `CallsEnd`: every call ends |
| `platform`, leases | 2 callers, own ids, 7 calls one at a time, ttl 2, clock to 4, 1 fault | `MutualExclusion` and `RowEpochNeverGoesBack` hold when calls do not overlap, and `FaultlessFence`: as long as nothing has failed, the database fence lets no older epoch through after a newer one has written |
| `lease_no_mutex` | 2 overlapping acquires | `MutualExclusion` fails |
| `lease_stale_renew` | calls one at a time, 1 fault | `DbFenceBlocksStale` fails: a crash between SET and UPDATE, then `renew` |

The last two contradict sentences of `blackbox-x.md` (98, 99) and
`docs/architecture/m12-signoff-report.md` (46 to 48); `PROJECT.json` quotes
them. The repository's own gates (`tests/gates/verify-m8.ts`, `verify-m12.ts`)
call the class sequentially and meet none of these interleavings. `renew` and
`release`, too, look at the holder in one command and SET or delete in another:
`MutualExclusion` needs calls that do not overlap for their sake as well.

**Bounds.** Two callers with different ids are enough for every race between
holders, a third that shares an id for those within a holder. Three calls let
an acquire overlap a renew and a release; four sequential calls let a lease
expire, change hands and come back; seven let two holders acquire, fence and
write twice. The clock passes at least one full ttl after a grant. One fault
puts a crash at every command. Deadlock is not checked: callers may stop
calling and the bounds stop time.

**Fairness.** `Fairness` is weak fairness of a caller's next command once a call
has begun: each is an awaited command that resolves or rejects. No call is
obliged to start, no caller to renew. Only `CallsEnd` uses it.

### Proofs

`LeaseProofs` proves for any set of callers and holders, any ttl and any bounds,
from `LeaseAssumption` alone:

* `TypeCorrect`.
* `EpochsBelongToOneHolder`, `LeasesHaveARow`, `NewestIsNeverFenced`, from the
  inductive invariant `EpochInv`. It adds to the three properties that a call
  past its INCR (or past a renew's GET) knows a non-zero epoch, that a caller
  about to UPDATE has a row to update, that epoch 0 means no row at all, and
  that no copy of the current epoch is ahead of the counter. Without the first
  a lease with epoch 0 could be returned; without the second a caller at
  `update` could return a lease with no row.
* `LeaseImplementsAuthority`: under the mapping `issued <- issuedTo`,
  `token[c] <- lease[c].epoch`, INCR is `Issue`, the last command of acquire and
  renew is `Take`, `release` and a crash are `Drop`, all else stutters. It uses
  `EpochInv` in both states.
* `SequentialMutualExclusion`: with `MaxInFlight = 1` and an injective
  `HolderOf`, `MutualExclusion` is an invariant. The inductive `MutexInv` says
  that an unexpired lease is backed by its own lock in Redis, which lives at
  least as long, and that no caller in the middle of a call is about to touch
  another's lock.
* `LeasesOnlyGrowNewer` (`LeaseEpochNeverGoesBack`), with overlapping calls:
  `AgeInv` says of a caller with an id of its own that the epoch of its call and
  the epoch of a lock in its name are no older than its last lease, and agree
  between the command on Redis and the one on MySQL.
* `SequentialRowNeverGoesBack` (`RowEpochNeverGoesBack`) and
  `OnlyFailuresFoolTheFence` (`FaultlessFence`), with one call at a time:
  `FenceInv` says that a call about to write the row brings no epoch older than
  the row's, which two calls that overlap do not keep, and, as long as nothing
  has failed (`NothingFailed`), that lock and row name one epoch unless a call is
  between SET and UPDATE, so that whoever renews or writes has no newer epoch
  than the row and the fence compares with the newest.

TLC checked each of these invariants before it was proved. Only model-checked:
the liveness property `CallsEnd` (liveness under fairness is out of the prover's
reach). `TypeOK` is proved and stands in no run.

## 4. Outbox, inbox and delivery

### Modules

* `AtLeastOnce` is the abstract specification of a stage of the pipeline: only
  accepted events are delivered, every accepted event is in the end, and a
  delivery is not taken back.
* `Outbox` models `OutboxRelay` with any number of relay processes, `Inbox`
  models `InboxConsumer` for one `consumerName` with any number of overlapping
  calls. Each awaited command is one action.
* `Delivery` composes the two. They share only the topic, so the composition
  instantiates `Inbox` on variables of its own and lets the consumer receive
  whatever the log holds.

### State and actions

| In the model | In the code |
| --- | --- |
| `status`, `createdAt` of `Outbox` | a row of `outbox_events` and its `publishedAt`; `stamped` is a `queueEvent` that has taken its time and awaits the INSERT |
| `topic` | the Kafka log of one aggregate (the message key is the aggregate id) |
| `pc`, `batch`, `connected` | where a relay is in `relayPendingEvents`, the selected rows it has not published yet, its flag |
| `row` of `Inbox` | rows of `inbox_events` for the consumer |
| `at`, `event` | where a call of `consumeWithIdempotency` is, and what it is about |
| `earlier`, `ran`, `processed`, `answered` | history |

`queueEvent` is `Stamp`, then `Insert` or `InsertFails`; `relayPendingEvents` is
`Connect`, `Select`, then `Send` and `Mark` for each row; `Fail` is a command
that rejects, which ends the round, and `RelayCrash` a process that dies.
`SendUnacked` is a message the broker keeps although the producer, told nothing,
sends it again. `consumeWithIdempotency` is `Consume` (or `Skip`, when the row is
there), `Handle`, `Record` or `Duplicate`; `Break` and `RecordUnacked` are its
failures. `Duplicate` has two outcomes: the catch clause recognises the
driver's error code or, when the driver wraps it, throws it on.

Assumed: MySQL commands and the handler's effect are atomic; Kafka keeps the log
of one aggregate in order and loses nothing it has acknowledged. `queueEvent`
takes no transaction of its caller, so that an event may be missing for a state
change it should announce lies outside the class and the model.

### Runs

| Run, part | Instance | Shows |
| --- | --- | --- |
| `messaging`, outbox | 3 events, 2 relays, page of 2, clock to 1, 1 fault; events and relays are symmetric | `PublishedIsSent`: what is marked was sent, what was sent has a row; `CausalOrder`: an event created after another was stored, and later, is never first sent before it; `BoundedDuplicates`: every further copy has a cause |
| `messaging`, inbox | 2 events, 3 overlapping calls, 2 failures | `ProcessedOnce`, `AnsweredIsDone` (no answer before effect and row), `BoundedRuns` (each further run of the handler has a cause) |
| `inbox_crash` | 1 failure | `EffectivelyOnce` fails: a consumer dies between effect and row. `blackbox-x.md` (101) promises otherwise |
| `delivery_and_registry`, delivery | 2 events, 1 relay, 2 calls, a fault and a failure | `EndToEnd`: the effects implement `AtLeastOnce` over the stored events; `ImplementsAtLeastOnce`: so does the topic |

**Bounds.** A page smaller than the number of events leaves some for the next
round; two times tell ties from order; two relays and one fault are enough for
every pair of commands to race and for a crash at each. Three calls overlap on
one event while another event interferes. The composition keeps the sizes that
liveness checking can afford. `inbox_crash` checks deadlock: the class can
always take a call.

**Fairness.** `OFairness` says that a relay's commands come back and that
somebody calls `relayPendingEvents` again after it has returned (the code leaves
that to its caller). `ISpec` says that a call's commands come back. `Delivery`
adds strong fairness of `Redeliver`: Kafka hands a message again and again to a
consumer that has not answered, and it is answered unless it fails each time,
which the bound on failures excludes.

### Proofs

For any finite sets of events, relays and calls, and any bounds:

* `OutboxTypeCorrect`, `PublishedWasSent`. The invariant behind the second,
  `InFlight`, says that a relay about to mark has its event in the topic and
  that whatever is in a batch has a row.
* `RelayedInCausalOrder`, from `Chain`, which adds `Ordered` to it: every older
  event that was stored before one of a batch was created is in the topic
  already or stands before it in that batch. Without `Ordered`, a relay whose
  SELECT is long past could not be shown to keep the order when it sends.
* `OutboxRefinesAtLeastOnce`: initial states and steps map to those of
  `AtLeastOnce`. The fairness half stays with TLC.
* `InboxTypeCorrect`, `ProcessedAtMostOnce`, `AnswersComeAfterEffects` (from
  `Done`: a call about to insert has run the handler), and `RunsAreBounded`,
  which counts: runs of an event are covered by failures, its row, and the calls
  that are still to insert it.
* `CopiesHaveACause` (`BoundedDuplicates`): an event has at most one copy in the
  topic for each relay and for each failure. The proof counts (`PaidFor`): the
  copies of an event and the relays that may still send one are together no more
  than relays and failures.
* `EffectsComeFromRows`: the safety half of `EndToEnd`. In `Delivery` an event
  takes effect only when its row was stored, and stays in effect.

The theorems about the inbox are in `ConsumerProofs`. Only model-checked: the
liveness of `ImplementsAtLeastOnce` and `EndToEnd`.

## 5. Simulation engine

### Modules

* `EventHeap` gives the binary heap of `EventQueue` and its index map as
  operators: sifting, swapping, pruning and restoring, exactly as the code does
  them, its loops as functions of the number of rounds. `Kernel` adds the state
  of `SimulationKernel` and one action per operation. `KernelProofs` holds the
  theorems of both.
* `EventSchedule` is the abstract specification: a set of live events taken in
  the order of (time, priority, sequence number), a clock that does not go back,
  and a checkpoint that nothing but the next one changes.
* `SimRunner` models `SimulationRunner` with its thread pools, connection pools
  and CPUs, one action per event handler (ARRIVAL is `Refuse` or `Admit`).
  `ResourceProofs` holds its theorems. It does not use `Kernel`: the order of
  its events depends on latencies, and every order is allowed, which includes
  each order the kernel can give.

### Kernel: state and actions

`heap`, `index` and `next` are the queue's array, `eventIndexMap` and
`nextSequenceNum`; `cancelled` holds the event objects that are marked, a copy
being told from its original by `copy`; `now`, `count` and `hash` are the
clock, `_processedCount` and the hash chain (as the sequence of hashed events);
`mode` says whether `step` or `runUntil` is under way and whether a handler
runs; `snap` is a `KernelCheckpoint`. `step` is `Step`, then whatever the handler
schedules or cancels, then `EndStep` or `HandlerThrows`; `runUntil` is
`RunUntil`, any number of `RunStep` with the same tail, and `RunEnds`, or a
handler that throws. `schedule` and `cancel` happen in a handler or between two
operations. `ResumeCheckpoint` is also a new kernel that goes on in place of
the old one. Left out: handlers that call `step`, `runUntil`, a checkpoint or
`reset` themselves (none in the repository does), and `customId`, which no
caller passes.

| Run, part | Instance | Shows |
| --- | --- | --- |
| `simulation`, kernel | times 0 and 1, two priorities, 5 events, a checkpoint with at most 3, 1 resume, 1 handler that throws, `maxEvents` 2 | `QueueWellFormed`: heap order and index map agree after any operations; `RunIsExact`: the monotonicity exception of `step` is unreachable, `runUntil` neither passes its limit nor answers wrongly, cancelled roots or not, and the hash chain has a link per event; `FollowsSchedule`: the steps are those of `EventSchedule`, except that a resumption brings back only what was not cancelled since the checkpoint |
| `kernel_snapshot` | the same | `ImplementsSchedule` fails: the schedule with its checkpoint as it was taken |

`serializeState` keeps the queue's own event objects (`event-queue.ts` 102), so
that a cancellation after `createCheckpoint` (`simulation-kernel.ts` 100) reaches
into the checkpoint, where `blackbox-x.md` (69) promises full serialization and
resumption with an identical final state. `EventSchedule` is what is promised,
and `kernel_snapshot` shows that the kernel does not implement it: an event is
scheduled, a checkpoint taken, the event cancelled, the checkpoint resumed
without it. `ResumesTheRest` is what resumption does instead, and the only
difference: with it in the place of `Load`, every step is one of the schedule.

**Bounds.** Five events are a heap of three levels, in which a sift passes two
swaps and a node has two, one or no children; two times and two priorities give
each way an order is decided. A rollback at most three events deep with one
later event that reuses a sequence number covers an id that exists twice.

### Kernel: proofs

`KernelProofs` proves, for any times, priorities, kinds of event, numbers of
events, checkpoints and resumes: `KernelTypeCorrect`, `QueueStaysWellFormed`
(`QueueWellFormed`), `RunsAreExact` (`RunIsExact`) and `KernelIsASchedule`
(`FollowsSchedule`). The argument has two layers.

* About the heap: each round of sifting swaps two places, so that it permutes
  the events and keeps the index map their inverse; a heap that is in order but
  for one place is in order after that place was sifted up or down; the root is
  the least event; `push`, `pop`, `cancel`, pruning and `restore` then add or
  remove what they should and keep the queue well formed.
* About the kernel: `KernelInv` adds to types and queue that a cancelled event
  is an object of this kernel or of one before it, with a sequence number that was
  given out (`MarksOK`); that a checkpoint holds distinct events of one kernel,
  below its next sequence number and, unless cancelled since, not before its
  clock, with a hash chain as long as its count (`SnapOK`); and that an operation
  under way has not answered (`NoAnswerYet`). Without `SnapOK` a resumed kernel
  could not be shown to have a queue at all, and without `MarksOK` an event
  scheduled after a resume could be taken for one that was cancelled before.

The refinement is shown action by action: `schedule` is `Add`, `cancel` is
`Drop`, the first half of a step is `Take`, checkpoint and reset are those of
`EventSchedule`, resume is `ResumesTheRest`, the rest stutters. The checkpoint of
the schedule is that of the kernel with all its events, cancelled since or not.

### Runner: state and actions

Per request: `stage` (which of its events is in the queue), `status`,
`remaining` (`pendingDependencies`), and `finishes`, a history counter. `calls`
is the set of DEP_COMPLETE events in the queue. Per node: `threads` and `conns`,
records of active and waiting tasks with the two counters, and `cpu`. `Finish`
is `finishRequest`, a part of `LocalComplete` and `DepComplete`. ASYNC
dependencies change nothing when they complete and are left out; durations
(CPU stretch, latencies) only decide the order of events, which is any.

| Run, part | Instance | Shows |
| --- | --- | --- |
| `simulation`, runner | 6 requests for 4 operations and an unknown one, 2 nodes, pools of 1 slot and 2 places | `FinishedOnce`: a request that fails on one dependency is not finished again by the answers to the others; `ResourcesAreAccounted`: nothing leaks on any path; `NoIdleSlot`; `RequestsAddUp`: arrivals are successes, failures and requests in flight, and no request succeeds before its dependencies have answered |

A request that is QUEUED for a thread runs at once (`simulation-runner.ts` 119
looks for REJECTED only), where `blackbox-x.md` (67) has bounded workers with a
wait queue: `cpu` may exceed the workers of a node. What does hold, and is
checked, is that each queued answer is still paired with one release.

**Bounds.** The gateway refuses when four requests meet, two checkouts ask more of
the database than its pool takes, and missing operations and nodes come after a
dependency that was called. Nothing is fair: `run` may stop at its time limit.

### Runner: proofs

`ResourceProofs` proves the properties of the runner for any finite set
of arrivals, any configuration and any order of events, from
`RunnerAssumption`: `RunnerTypeCorrect`, `FinishedAtMostOnce`, `NothingLeaks`,
`PoolsAreUsed`, `RequestsAreCounted` (from `SuccessWasAnswered` and
`ResultAddsUp`). The
inductive invariant is `RunnerInv` with `Accounts`. `Phases` is its heart: a
request past its local part waits for as many answers as it has open calls, or
has failed and counts more dependencies than it has open calls, so that the
count never reaches zero, or has succeeded with none open. That a pool is asked
for no more than it has room for (`CalledHasRoom`) looks at the last call made
to a node, which exists by the well-ordering of the natural numbers.

### Breaker and bulkhead

`CircuitBreaker` is `PureCircuitBreaker` and the calls it guards: a call asks
`CanExecute`, and records a result at any later time, in whatever state the
breaker is by then, or never. `Bulkhead` is `PureBulkhead` and its tasks; which
queued task a `Release` promotes is any. `ResetBreaker` and `ResetBulkhead` may
come at any time. `simulation` checks both: 3 calls with thresholds of 2, a
timeout of 2 and a clock to 5, which is enough to open, to try, to open again
and to close; 5 tasks for 2 slots and 2 places, so that one is refused.

* `BreakerKeepsItsWord`: the breaker opens only for enough failures without a
  success in between, or from HALF_OPEN, never twice within a timeout, and when
  OPEN it refuses exactly for the timeout from when it last opened. A late result
  can neither extend that timeout nor cut it short.
* `breaker_probes`: `ProbesAreLimited` fails. `circuit-breaker.ts` (62) says that
  HALF_OPEN allows probe calls up to the threshold; the line below compares the
  successes with it, so that any number may be under way. `probes` is history:
  the calls without a result that HALF_OPEN, as it is now, has admitted.
* `SlotsAreTrue`: `_activeCount` and `_queueCount` are the numbers of tasks
  inside and queued, within their limits, and no slot is free while one is
  queued. `reset` with tasks inside is the one exception.

`ResourceProofs` proves `BreakerKeepsItsWord` and `SlotsAreTrue` for all
thresholds, limits, calls and tasks. `BreakerIsTrue` rests on `Tells`, which ties
each state's fields to the past: when OPEN, `openedAt` is the time it last
opened; once it has left OPEN, that timeout is over; when CLOSED, `failures` is
at most the number of failures in a row. `halfOpenSuccessThreshold` may be any
integer, for the constructor does not check it: with zero or less HALF_OPEN
refuses every call, and nothing here says that it ends. `BulkheadIsTrue` is inductive as it stands, and
its steps count the sets of tasks.

## 6. Load workers

### Modules, state and actions

`WorkerPool` is the registry. `registry` and `listed` are the worker keys and
the set of active workers in Redis, `life` a `LoadWorker` between `start` and
the end of `stop`, `beat` a heartbeat between its GET and its MULTI, `alloc` a
call of `allocateWorkers`, whose commands are `SMembers`, `MGet`, `SRem`.
Expiry of a key, a heartbeat that fails and a process that dies are actions.

`LoadRuns` is what follows from an allocation. Commands of one run have the run
as message key, so `commands[r]` is a log every worker reads in order and those
of different runs are not ordered among each other. `proc[w]` holds the three
fields a worker has for all its runs, `load[w][r]` one `executeLoad` and the
telemetry key it writes. `HandleCommand` is `handleCommand`, `MakeRequest`,
`Publish`, `FinalTelemetry`, `FinishLoad` are `executeLoad` and its timer,
`LoadFails` the catch clause, `Expire` the end of a telemetry key (`EX` 300 s,
`load-worker.ts` 210), `TelemetryKeys` and `Aggregate` the two commands
of `collectResults`. The registry is behind its workers and reserves nothing, so
`StartRun` takes any set of workers, the empty one included, which every worker
takes for its own. `twice` is history: another run was in progress when one
started; `gone`: a key has expired; `exact`: when the keys were listed, the run
was over on each worker it was meant for (`Settled`), because its load has ended
or can no longer begin. `found` are the workers whose telemetry the result has
counted, its `allocatedWorkers`.

### Runs and properties

| Run, part | Instance | Shows |
| --- | --- | --- |
| `delivery_and_registry`, pool | 1 worker, 2 overlapping allocations | `RegistryFollows`: a worker that stays up is listed again and again, however often its key expires or a slow `getActiveWorkers` removes it; of one that has gone no registration stays, not even one its last heartbeat wrote back |
| `messaging`, workers | 2 workers for one run (or one of them), a request each, 1 crash | the three below |
| `messaging`, runs | 2 runs on one worker that stays up, results of one | `TruthfulStatus`: until a worker is given a run on top of another, its status and active run are those of its load; `StopIsObeyed`: on such a worker a STOP_LOAD that was read stays in force; `ResultIsExact`: a result collected when the run is over counts every request of the workers it found, and misses a worker that took part only if its telemetry has expired, also if START_LOAD named nobody |

The restriction to workers that were never given two runs at once is needed: the
first of two runs to end sets the worker IDLE, and the second START_LOAD resets
`stopRequested`. Nothing in the code prevents it, since `allocateWorkers`
reserves nobody. A worker that is registered and has not yet subscribed misses a START_LOAD
(`load-worker.ts` 64, `fromBeginning: false`): `Start` sets `pos` to the end of
the logs, and such a run simply does not run on it.

A key may expire at any time once nobody sets it any more, when the load is over
or the worker gone, so also between `TelemetryKeys` and `Aggregate`; while a load
is in progress its timer sets the key again twice a second, and 300 s do not
pass. A result collected five minutes after the load has ended is therefore short
of that load's requests, and tells so by `allocatedWorkers` alone.

**Bounds.** Two workers are enough for one that is commanded while another dies;
two runs for every way two loads and their commands meet on one worker; one
request tells a published count from a stale one. In the instance only the key of
one worker and one run expires, with the keys of all others there to be counted.
Two allocations overlap each
other and one worker's whole life.

**Fairness.** `PoolFairness` says what the code's timers and Redis do: the
heartbeat interval of three seconds begins again (weak), heartbeats do not fail
for ever (strong), and the key of a worker that has gone expires (weak).

### Proofs

`ConsumerProofs`, for any workers and runs: `LoadTypeCorrect`, `StatusIsTrue`,
`StopsAreObeyed`. The invariant has two parts besides types. `Ordered` says that
a run's log is START_LOAD, then at most one STOP_LOAD, and that nobody reads past
its end. `Loaded` says that a worker has no load before it starts, and the two
properties in one: they need each other, for a worker obeys a STOP_LOAD because
its active run is that of its load.

`ResultsAreExact` (`ResultIsExact`) rests on `CountInv`: a load that is over has
told all it has made unless its key has expired, and one that has begun was
assigned to its worker (`Told`); while a result is exact, every worker is
`Through` with its run, which no later step undoes, and whoever took part is
among the keys listed or its key has expired (`Collected`). That
the total of the keys is the number of requests is a statement about sums over a
set of workers, for which the module proves what it needs: sums exist, do not
depend on the order, and ignore zeroes. Only model-checked: the liveness of
`RegistryFollows`.

## 7. Topology, artifacts, migrations

### Topology

`TopologyGraph` states the algorithms as operators on a graph whose nodes and
edges keep the order in which they were added, for the searches follow it, and a
builder that adds them one by one, parallel edges and loops included. Each
search is a function of the number of rounds, a round being a call that begins,
one turn of a loop over edges, or a return: `Dfs`, `Sort` and `Climb` are the
rounds of `detectCycles`, `topologicalSort` and `analyzeBlastRadius`. A round in
which the code has left its loops changes nothing, so there only have to be
enough of them: `2 * nodes + edges`, `nodes + edges` and `2 * edges`. What the
searches answer is compared with `Reaches`, which says nothing of a search: a
node is in every set that the edges of another lead into and no edge leaves.
`TopologyApi` is the routes over the tables:
`validate` reads nodes (`SelectNodes`) and edges (`SelectEdges`) in two
commands; an operation is inserted (`InsertOperation`) before its dependency
calls (`InsertCall`, one by one), in no transaction; `Fail` is a violated key or
a lost connection.

| Run, part | Instance | Shows |
| --- | --- | --- |
| `platform`, graphs | every graph of at most 3 nodes and 3 edges | `SearchesAreExact`: reported cycles are cycles, some cycle is reported exactly if there is one, the blast radius is exact, and the sort (`SortIsTopological`) gives an order, or an exception and then there is a cycle |
| `platform`, validation | one project with 2 environments, 2 slugs, edges in both directions, 1 request | `ReportIsCurrent`: a report tells whether the topology of that moment has cycles, although the nodes were read earlier, and fails only over an edge of a newer node |
| `platform`, operations | 2 overlapping requests, 2 dependency calls | `CreatedIsWhole`: an operation answered as created has all its calls, and a half-stored one is completed by nobody |
| `topology_cycle` | 3 nodes, 3 edges | `NoValidSyncCycle` fails: a node is visited once, so a permitted mixed cycle hides a synchronous one. `algorithms.ts` (10, 88) says all cycles are found and synchronous ones forbidden |

Three nodes and three edges are enough for a cycle, two cycles that share nodes,
a loop and parallel edges.

`TopologyProofs` proves all three, for graphs and topologies of any size.

`SearchesAreTrue` (`SearchesAreExact`) has an invariant of a round for each
search, and a measure that falls with every round that is not the last (the calls
and edges still to come), by which the rounds are enough:

* `DfsInv`: the stack is a path in the graph, and the edges that led along it are
  on the other; only a visited node has seen edges, and a node that was left has
  no others; every cycle found is one; while none was found, an edge seen is on
  the stack or leads to a node that was left, and no node that was left reaches
  itself (`NoneMissed`). In the end all nodes have been left.
* `SortInv`: a degree counts the edges into a node that were not yet looked at,
  so that a node joins the queue once, when all its callers are in the result
  before it. Nodes left over have a caller left over each; a smallest set of them
  with that property, which exists because the graph is finite, is a cycle.
* `ClimbInv`: a visited node reaches the target, and edges into a visited node
  that no longer waits are seen, so that no node upstream is missed. A depth of 2
  or more means a visited node that is no caller, and the other way round.

`GraphInv` says that what the builder makes is a graph: nodes differ and edges
join them. Induction over rounds takes the set of good rounds as its parameter,
not an operator, which the prover can do.

`ReportsAreCurrent` (`ReportIsCurrent`) rests on the theorem about the first
search, here for the ids of a topology, and on `TopoRowsInv`: rows are only added
and the nodes a request has read are some of the rows. A node that was posted
since the read has no edge in a graph that could be built, and by `SameCycles`
nodes that no edge joins make no cycle.

`CreatedWasWhole` (`CreatedIsWhole`) is for any requests, list of calls and
failures. `OperationInv` says that a request past its INSERT has an operation and
the calls it has inserted so far, which nobody else is inserting, and that what
was answered as created is whole.

### Artifacts

`Storage` is `StorageService` for one object key. `object` is the S3 object,
`record` the row, `call` the calls under way: an upload is `EnsureBucket`,
`PutObject`, `InsertRow`, a content-addressed one looks (`SelectExisting`) first,
a delete is `DeleteObject`, `DeleteRow`, the calls for a tenant and `verify` read
the row first. `Reject` is a command that fails or a process that dies, with or
without the command's effect. `marks` is history, it names what has happened to
the key: an upload and a delete at once, a delete that ended half way, another
content under the same key.

* `platform`, storage (2 contents, 2 overlapping calls, 1 failure):
  `ArtifactsAreWhole`, while none of the three has happened a record has its
  object and an acknowledged upload its record, whatever races and fails.
* `storage_reupload`: `ReuploadIsWhole` fails, a delete that ends between object
  and row leaves a record that makes the next upload of the content answer
  without storing anything. `storage-service.ts` (150) says re-uploading is
  idempotent.

`PersistenceProofs` proves `StorageTypeCorrect` and `RecordsHaveObjects`
(`ArtifactsAreWhole`) for any finite set of contents, any clients and failures.
`Stations` says which operation can be at which command. `Clean` says that, in an
unmarked history, deletes and uploads exclude each other, all uploads under way
have the content of the record, an upload about to insert finds its own content
in the bucket, and a record without its object belongs to a delete about to
remove it.

### Migrations

`Migrate` is `runMigrations`, run by pods of one or more releases. A release is a
sequence of files, a file its text and line ends. `lockedBy` is the advisory lock,
which falls with the connection; `ledger` is `_migrations`. `GetLock` and
`LockTimeout` are the outcomes of GET_LOCK; `CheckFile` compares checksums,
`ApplyFile` executes the statements, which commit at once, `InsertLedger` records
the file; `ReleaseLock` is the finally clause. `Throw` is a failed command,
`PodDies` a dead process or a lost connection, `Restart` a pod started again.

`platform`, migrations (2 pods; releases with Unix, Windows and mixed line ends,
an edited file and an additional one; 1 failure): `DoneIsMigrated`, a pod that is
done finds each of its files recorded and applied; `AppliedOnceInOrder`, a file
is applied once plus once per failure, after those before it are recorded.

`PersistenceProofs` proves both, and `MigrateTypeCorrect`, for any pods, releases and
number of failures; the assumption is only that files are sequences without the
value `Nil`. Its invariant: `PodInv`, a pod past GET_LOCK holds the lock and
everything before its next file is recorded, and a pod about to record a file
finds it unrecorded; `Honest`, what is recorded was executed; `Counted`, more
executions than failures are covered by a record or by a pod about to make one;
`InOrder`. Without the lock in `PodInv` two pods could be about to record one
file.

## 8. Capacity search, calibration, metrics, health

The evaluator of both searches may answer anything, at each call anew: it is a
simulation or a benchmark. What is left of the searches is control and rounding.

* `CapacitySearch`: `Probe`, `Sweep`, `Bisect` are one evaluation each, with the
  loop around it. `platform`, search (intervals of 1 to 13 with and without the
  coarse check and of 0 to 2; within the SLO, too slow, or fast because load is
  shed; tolerance 1, at most 4 rounds; the constants 100 and 10 of the code are
  scaled to 6 and 2): `AnswerIsMeasured`, the answer passed or is the lowest
  rate, is within the tolerance of one that failed or of the highest, and misses
  nothing if what was measured is monotonic. Which component limits the system
  is arithmetic and left out.
* `Calibration`: `EvaluateInitial`, `EvaluateCandidate` and `ExecuteClosedLoop`,
  with candidates in exact arithmetic. `platform`, calibration (2 parameters, 4
  ranks of loss, 3 cycles; one from 0.2 to 0.8, one that starts outside its
  limits): `LeastLossIsKept`, between passes and in the answer the parameters are
  those with the least loss of all evaluations. Values are counted in parts of
  1 / `Grain`, fifths here. `Math.round` (`coordinate-descent.ts` 65, 79) takes
  the parameter from 0.2 to 0.8 to 0 or 1, and nothing checks limits or start, so
  that an answer may be outside its limits; no document or test promises
  otherwise, and no property does. `executeClosedLoop` makes a model VALIDATED on the validation report
  alone (`calibration-engine.ts` 83), also one that is not CALIBRATED, where
  `blackbox-x.md` (86, 90) has a chain of states; the model has it as the code.
* `Metrics`: the registry of `prometheus-exporter.ts`. `platform`, metrics (2
  label sets of which one is allowed, 2 buckets, 3 values, 2 writes of each
  metric): `ScrapeIsTrue`, first bucket, sum and count of a histogram are those
  observed since the last reset, no bucket tells less than it should. It may tell
  more: values are counted in every bucket above them (`prometheus-exporter.ts`
  188) and the buckets added up once more at export (246), so that one
  observation under the first bound is exported as 1, as 2 under the second
  bound, and as 1 under +Inf, which line 2, "adhering to standard Prometheus
  exposition format", does not allow.

The bounds are such that every branch is taken: both strategies of the search,
an early and a late end of both loops of the descent, a value in no, in one and
in both buckets. Deadlock is not checked in `platform`, `simulation`,
`messaging` and `delivery_and_registry`: searches end, pods are done, and the
bounds stop the rest.

### Proofs

`SearchProofs` proves, whatever the evaluator answers:

* `CapacityIsMeasured` (`AnswerIsMeasured`), for any options with a lowest rate
  not above the highest. `SearchInv` says what the interval means in each phase:
  the best rate passed or is the lowest, the upper end failed or is the highest,
  and rounding keeps the middle between the two.
* `LeastLossSurvives` (`LeastLossIsKept`), for any parameters, limits and losses.
  `CalibrationInv` says that in the middle of a pass the parameters of the least
  loss are those in hand with the best value of the parameter that is being
  varied. The assumption is only that limits and start are multiples of
  1 / `Grain`, in any order.

`ConsumerProofs` proves `ScrapesAreTrue` (`ScrapeIsTrue`) for any labels, finite
set of bounds, values and resets. By `MetricsInv` a record tallies the values it
was given: each bucket counts those under its bound, and sum and count are theirs.
That the bounds can be sorted, and that a cumulative sum is at least its last
term, are lemmas about finite sets and sums.

### Health checks and shutdown

`Health` is what `GET /health/ready` and `GET /health/dependencies` do, with the
MySQL pool they share with every other route and the shutdown that waits for it.

| Variable | In the code |
| --- | --- |
| `server` | `startServer` until it listens, then up, in `server.close()`, in `pool.end()`, exited |
| `mysql`, `reachable` | MySQL up, refusing, or accepting and never answering; which others answer |
| `line` | the queries of the pool in their order: those with a connection, then its unlimited queue; `"lost"` is one whose check timed out |
| `probe`, `told` | the request each client has under way and the four checks of it; the status of its last answer |

`Ask` begins all checks at once, as `Promise.all` does; `CheckOther`, `Served`
and `MysqlTimeout` end one, `Answer` is the route's verdict. `Query` is any other
route. `Outage` and `Recover` are the dependencies, `Signal`, `CloseServer` and
`Exit` the handler of SIGTERM; a second signal waits for the same promises and is
left out. Time is left out: a timer wins when MySQL hangs or when queries of
other routes are before the check, and a MySQL that is up answers `SELECT 1` in
less than the timeout. Redis, Kafka and MinIO differ in how they are asked, not
in what is made of it.

`delivery_and_registry`, health (1 client, 1 other dependency for the three, a
pool of 1, a line of 3, 2 outages): `ProbesRecover`, every probe is answered, and
answered ok from some time on when everything is up for good and no other route
takes connections, although checks that timed out have left queries on the pool;
a server told to stop exits unless MySQL hangs for ever. A pool of one with a
line of three has an abandoned query before a check, and two outages are one
during another, or one after a recovery.

**Fairness.** `HealthFairness`: checks end and routes answer (each has a
timeout), the oldest query is answered unless MySQL hangs, clients ask again
(the orchestrator of the containers polls), and the shutdown goes on. Nothing
obliges a dependency to fail or recover, or a signal to come.

## 9. Not modelled

* Floating-point code and statistics: `packages/statistics`,
  `packages/comparison`, the loss function, quantiles of the telemetry
  aggregator, fault injection and the resilience score of `packages/chaos-engine`,
  the bottleneck finder, the workload adapters. It keeps no state and TLC has no
  reals.
* `apps/blackbox-api`: the embedded dashboard page, `POST /api/probe`, routes
  that read with a single statement, the content of analytics reports.
* The benchmark driver, the OpenTelemetry bootstrap, and the connections that
  `initialize`, `shutdown` and `close` open and close: I/O.
* Security helpers, contracts, configuration, logging: parsing and declarations.
  Of the schemas, the unique and foreign keys the other parts rely on are guards
  of the actions that insert.

Out of the prover's reach and left to TLC: liveness under fairness.
