# TLA+ models of the NEAR indexer node

These modules model `@subql/node-near` (`src/packages/node`) and check it
with TLC. They cover five parts:

- the block-scheduling pipeline: a fetch loop decides which heights to
  buffer, and a dispatcher indexes them in order;
- worker-pool mode: worker threads fetch blocks into per-worker memory
  and process them on request;
- the block assembler, which turns an RPC block and its chunks into the
  block handlers see;
- the cron timestamp filter of block handlers, on each worker's schedule;
- the start-up of the RPC connection pool.

`PROJECT.json` lists the components, runs, mutants, source map, findings
and hazards.

## 1. The system and how its parts interact

| Part | Source | Module | Status |
|---|---|---|---|
| Fetch scheduler (`FetchService`) | `indexer/project.service.ts` 83–726 | `FetchService` | partly |
| Block dispatcher (node-core) | spec 4.7 | `BlockDispatcher`, `FetchService` (single process), `WorkerService` (worker pool) | partly, from the spec |
| Dictionary service (node-core, NEAR subclass) | `ds-processor.service.ts`, spec 4.5 | `FetchService` | partly, from the spec |
| ProjectService datasource selection | `project.service.ts` 1–82 | `FetchService` | partly |
| Dynamic datasource service (node-core) | spec 4.9 | `FetchService` | partly, from the spec |
| Filter engine | `subcommands/mmrMigrate.module.ts` 146–249 (`utils/near.ts`); `configure/SubqueryProject.ts` 202–249 | `FetchService` (modulo, action type), `CronFilter` and `WorkerService` (cron timestamp) | partly |
| Block assembler | same file 50–144, 251–300 | `NearBlockAssembly` | modelled |
| WorkerService | `indexer/worker/worker.service.ts` | `WorkerService` | modelled |
| ApiService start-up | same file 375–441; `configure/SubqueryProject.ts` 89–123 | `ApiServiceInit` | partly |
| Manifest models, processor adaptation, MMR module | `common-near`, `types`, `ds-processor.service.ts` 1–86 | — | not modelled |

**Start-up.** `loadProjectFromManifestBase` normalises the manifest's
network section (`processChainId`). `ApiService.init` then connects to each
endpoint in turn. It compares the first endpoint's chain id with the
manifest. For every later endpoint it compares the hash of the block at
`GENESIS_BLOCK` with the first endpoint's genesis hash. It fills the
connection pool only when every endpoint has passed.

**Scheduling.** `FetchService.init` starts interval timers for the head
poll and for `checkBatchScale`. It awaits the dictionary metadata and the
first finalized-head poll, then starts `fillNextBlockBuffer`. Each pass of
that loop:

1. reads `latestBufferedHeight` from the dispatcher;
2. waits while the queue has too little room or the start is past the head;
3. then does one of three things:
   - queries the dictionary (an await);
   - enqueues a range;
   - in the modulo-only shortcut, enqueues the next modulo heights.

Meanwhile the dispatcher indexes the head of its queue. A handler that
creates a datasource makes the dispatcher await `resetForNewDs(height + 1)`.
That call resyncs the templates, rebuilds the dictionary entries and flushes
the queue. The loop, the dispatcher, the timers and the reset interleave at
every await.

**Worker-pool mode.** The dispatcher assigns each height round-robin to a
worker and calls `fetchBlock(h)` on it at once. Each worker's `AutoQueue`
runs at most `batchSize` fetch tasks. A task:

1. checks the worker's `fetchedBlocks` cache;
2. waits for the memory lock if it is taken;
3. fetches the block through `fetchBlocksBatches`, which assembles it with
   `wrapBlock`.

A failed fetch is caught and logged. A serial process queue in the
dispatcher awaits each fetch and then calls `processBlock(h)`, which deletes
the cached entry and indexes the block.

## 2. Modules

### `BlockDispatcher.tla` and `FetchService.tla`

`BlockDispatcher.tla` models the single-process dispatcher's queue of
heights and its `latestBufferedHeight`: `FreeSize`, `EnqueueBlocks` and
`FlushQueue`, taken from spec 4.7.

`FetchService.tla` extends it and owns the next-state relation. Its state:

- the fetch service's fields;
- the environment (the finalized `chainHead`, the optimistic `bestHead`,
  the dictionary's `dictHeight`);
- `unfinalizedBlocks` (the node option, fixed in `Init`) and `isShutdown`;
- `pc`/`query` for the await inside `fillNextBlockBuffer`;
- `dynamicDs`/`resetPending` for datasource creation;
- `status`;
- the history `indexed`.

| Action | Code |
|---|---|
| `FillNextBlockBuffer` | one loop iteration up to its await |
| `FillNextBlockBufferSpins` | the iteration from a start of `-Infinity`, which never yields |
| `DictionaryResponse` | the rest of the iteration after `scopedDictionaryEntries` resolves: the reset check, `dictionaryValidation`, the merge or the fallback range |
| `ProcessBlock` | the dispatcher indexing one height; a height past the best head fails the fetch and stops the node |
| `ResetForNewDs` | `resetForNewDs` |
| `ResetForIncorrectBestBlock` | a fork: node-core's store rewind, then `resetForIncorrectBestBlock` |
| `GetFinalizedBlockHead`, `GetBestBlockHead` | `getFinalizedBlockHead`, `getBestBlockHead`; with `PollsMayReorder` a late poll may record any head since init |
| `Shutdown` | `onApplicationShutdown`: the polls stop and the loop ends at its next `while` test |
| `CheckBatchScale` | `checkBatchScale` |
| `BestAdvance`, `ChainAdvance`, `DictionaryAdvance` | the environment |
| `Finished` | stutters once the chain is at its bound and the queue is drained, or the node has stopped |

`Init` covers every outcome of `init`'s awaits: the metadata request fails,
is foreign or is valid, and the first head poll fails (constant
`FirstHeadPollMayFail`) or succeeds. JavaScript's `undefined` and
`-Infinity` are model values. `Gt` reproduces the fact that every comparison
with `undefined` is false.

**Unfinalized mode.** `LatestHeight` is the loop's target: the best head in
unfinalized mode, else the finalized one. `NextEndBlockHeight` clamps a
range past the finalized head: in finalized mode to that head, and in
unfinalized mode to the best head, but only once the range reaches it. In
finalized mode nothing reads `latestBestHeight`, so the model leaves out
that poll and keeps the best head equal to the finalized one.

**Forks (constant `MayFork`).** node-core's unfinalized-blocks tracker
compares block hashes, and it is not in this repository. The model takes
the tracker from spec 4.9 and 4.10: once a block above the finalized head
is indexed in unfinalized mode, a fork may be detected at any time.

`ResetForIncorrectBestBlock` then does three things:

- It rewinds the store to the last registered finalized header, which is
  `latestFinalizedHeight`, set by the same poll.
- It drops the indexed heights and the dynamic datasources above that
  header. `indexed` is therefore the store's view of the indexed blocks.
- It runs `resetForIncorrectBestBlock`: the templates are resynced, the
  dictionary entry map is rebuilt, and the buffer is flushed.

With reordered polls, the registered header can be older than one seen
before, and the rewind then goes lower.

**Data abstraction.** A handler is a record: its kind, whether the
dictionary can query its filter, its modulo, and the heights whose blocks
its filter matches. A datasource is its start block.

**Custom datasources.** A handler record also says whether it belongs to a
custom datasource (`custom`) and whether its processor has a
`dictionaryQuery` that returns an entry (`dictionaryQuery`). For a custom
handler, the kind and filter fields stand for the processor's
`baseHandlerKind` and `baseFilter`. `buildDictionaryQueryEntries` is
modelled by three definitions:

- `QueriedHandlers` is the datasources the code reads. From
  `project.dataSources` it takes only the runtime ones. It takes every
  template, custom or not.
- `CustomQueryEntry` is the processor's entry, pushed without reading the
  base filters.
- `QueryEntry` is `txFilterToQueryEntry`/`actionFilterToQueryEntry`, with
  the conditions abstracted to the heights they find. The code's `uniqBy`
  dedupe then becomes set membership.

`getModulos` skips custom datasources (`IsModuloHandler`). The dict
project's template is a custom datasource with a processor query.

One choice goes beyond the source. `filterTransaction` passes every
transaction, but the model takes a transaction handler's needed heights from
its sender/receiver filter, as the dictionary does. Spec 9 lists this
asymmetry as an open question.

### `IndexerSpec.tla`

This module is the abstract specification of the pipeline: what indexing
promises whatever path fetched the blocks.

- Heights are indexed in strictly ascending order.
- No needed height is left out unless it is a bypass block.
- A creator height adds a datasource whose handlers apply after it.

No run checks `Abstract!Safety` for worker mode: the order in which heights
are indexed is fixed by the dispatcher, which is node-core code modelled from
spec 4.7 (one process task at a time, re-enqueue from the creator height plus
one), so `worker.service.ts` cannot change it. Worker mode is checked instead
by what its own code decides: assembly, the fatal missing-entry error, the
cron seeker and progress.

`FetchService` instantiates it with the mapping
`indexed <- indexed, created <- dynamicDs`. Its operator constant `Needed`
is given by `NeededBy`. `IndexerRefinement` checks `Abstract!Safety` as a
property. `IndexerProgress` checks that every outstanding height is
eventually indexed, or the node is shut down, in every behaviour whose
initial head polls succeeded: the finalized one, and the best one in
unfinalized mode. A failed first poll is excluded by the antecedent; the
`hang` run shows what it can lead to.

### `NearBlockAssembly.tla`

This module holds pure operators.

- `WrapBlock` is `wrapBlock`'s two loops, written as `FoldLeft` over chunks
  and transactions. `WrapChunk` and `WrapChunkTransaction` are one pass of
  each loop.
- `ActionType`, `ActionPayload` and `WrapAction` are `wrapAction` over both
  wire forms: the bare string `"CreateAccount"`, or an object with one key.
  A bare string other than `"CreateAccount"` has type `"0"`, which
  `ParseNearAction` rejects, as the code does.
- `FetchBlocksBatchesRejects` and `FetchBlocksBatches` are
  `getBlockByHeight`/`fetchBlocksArray`/`fetchBlocksBatches`. `Promise.all`
  rejects when any block is missing or any action does not decode.
- `ReferenceActions` is the reference from spec 4.4. It sorts the
  (chunk, transaction, index) positions with `SetToSortSeq` and uses the
  index within the transaction as the id.

### `WorkerService.tla`

This module extends `NearBlockAssembly`. Its state:

| Variable | Code |
|---|---|
| `fetchedBlocks` | per worker, the code's map, holding `FetchBlocksBatches` results |
| `fetchQueue` | each worker's AutoQueue |
| `running` | the tasks each AutoQueue has started |
| `resolved` | the `fetchBlock` promises that have settled |
| `memoryLocked` | the memory lock |
| `processQueue`, `processing`, `nextHeight`, `nextWorker`, `nextCall` | the dispatcher's side |
| `indexed`, `status` | the history and whether the node has stopped |

The code maps to these actions:

- `FetchStart` is the queued task up to its first await (the cache check,
  then the lock or the fetch).
- `FetchDone` is the fetch settling, including the `catch`.
- `ProcessStart` is `processBlock` up to `indexBlock`; a missing entry
  throws. The `block === null` branch (`BlockUnavailableError`, a skip) is
  left out: the fetch path of this repository stores a block or nothing,
  never `null` (see the `unavailable` run).
- `ProcessEnd` is `indexBlock` resolving, the `finally`, and the
  dispatcher's flush after a creation.
- `EnqueueBlock`, `NextWorker`, `MemoryLock` and `MemoryUnlock` are
  node-core, taken from spec 4.7. Unlocking wakes every waiter, as a mutex's
  `waitForUnlock` does.

**The cron timestamp filter.** The project's block handler has a filter
with a cron `timestamp`. `Schedule` is what
`generateTimestampReferenceForBlockFilters` builds: a schedule anchored at
the timestamp of the startBlock's block (height 1). `cronPosition` is the
seeker of each worker's own schedule, since each worker thread loads its
own copy of the project. `ProcessEnd` runs `FilterBlock` (`filterBlock`)
on the block, and `cronMatches` records every match with its worker and
timestamp.

### `CronFilter.tla`

This module holds pure operators for `filterBlockTimestamp` and the
schedule. A cron expression is abstracted to one that fires at every
multiple of a period. A schedule is its reference, and the seeker's
position is counted in slots from that reference. `SeekNext` is the `next`
getter, which calls `schedule.next()`. `FilterBlockTimestamp` reads the
getter once. On a match it reads it a second time, inside the second log
line. Either branch then calls `prev()`. The net effect is one slot forward
per match and none per miss.

The unit mismatch is left out. NEAR's `header.timestamp` is in nanoseconds
and `Date.parse` gives milliseconds; this is a hazard of its own.

### `ApiServiceInit.tla`

- `LoadProject` models `processChainId` and the network checks of manifest
  loading.
- `ConnectEndpoint` models one pass of `init`'s endpoint loop.
  `LaterEndpointError` is the genesis-block check of a later endpoint.
- `AddToPool` models the final `addBatchToConnections`.
- An endpoint is the network it serves. A network is its chain id, its
  genesis hash and its hash at `GENESIS_BLOCK` (or `NoBlock`).
- `NetworkMeta` follows spec 4.2, because `NearApiConnection` is not in this
  repository.

### MC modules

`MC_FetchService`, `MC_WorkerService` and `MC_ApiServiceInit` define the
projects, chains, networks and manifests that the `.cfg` files choose.

## 3. Properties

| Property | Module | Meaning |
|---|---|---|
| `TypeOK` | each | the type invariant; for workers it includes the AutoQueue bound |
| `NoMissedBlocks` | FetchService | once the loop has buffered up to a height, every needed height below it has been indexed or is still buffered, unless it is a bypass block |
| `IndexedAscending` | FetchService | the store's indexed heights are in strictly ascending order, so none is indexed twice (a fork rewind removes the heights above its target first) |
| `QueueWithinCapacity` | FetchService | the queue never holds more than `batchSize * 3` heights (reproduction only, see below) |
| `IndexerRefinement` | FetchService | the pipeline implements `IndexerSpec` under the refinement mapping |
| `IndexerProgress` | FetchService | if init's first head polls succeeded, the abstract spec's outstanding heights are eventually all indexed or the node is shut down |
| `FetchLoopYields` | FetchService | the loop never reaches a start of `-Infinity`, from which it spins without awaiting. In the `seq` run this checks that the range path never builds an empty range: in unfinalized mode the start may pass the finalized head, and only the best-head clamp of `nextEndBlockHeight` keeps the end at or above it |
| `EnqueuedBlocksExist`, `BypassNeverIndexed` | FetchService | no height past the head is buffered; no bypass block is indexed |
| `FetchedBlocksAssembled` | WorkerService | every block a worker holds has the actions of spec 4.4, in order and with ids |
| `NoFatalProcessing` | WorkerService | `processBlock` never stops the node: every height is indexed, or skipped when the chain has no block there |
| `EventuallyAllIndexed` | WorkerService | every height is eventually indexed |
| `NoOrphanedBlocks` | WorkerService | a worker holds a block only while some task still needs it |
| `CronMatchesAfterSlot` | WorkerService | the k-th block a worker's handler matches is past the k-th slot of the schedule: a match moves the schedule one slot |
| `CronOncePerSlot` | WorkerService | between any two matched blocks a slot begins (spec 4.3 and 8) |
| `PoolServesDeclaredNetwork` | ApiServiceInit | a filled pool holds only endpoints of the declared network |
| `NoFalseRejection` | ApiServiceInit | `init` fails only when some endpoint really serves another network |

## 4. Runs

**Passing runs.**

| Run | Config | What it covers | Distinct states |
|---|---|---|---|
| `seq` | `FetchService_seq.cfg` | the range path with a transaction and a modulo handler, a template with an action handler created at 3, and bypass 5; batchSize 1, heights to 7, head starting at 2; both values of `unfinalizedBlocks`, reordered head polls, forks and a shutdown | 79,020 |
| `dict` | `FetchService_dict.cfg` | the dictionary path with lag, failure and genesis mismatch, a creation at 3 while a query may be in flight, and bypass 2; it also checks refinement and progress under `FairSpec`; the type invariant is checked in `seq` | 33,694 |
| `modulo` | `FetchService_modulo.cfg` | the modulo-only shortcut with moduli 2 and 3, and bypass 6; batchSize 2, heights to 8; both modes, reordered head polls, forks and a shutdown; the type invariant is checked in `seq` | 137,898 |
| `worker` | `WorkerService_worker.cfg` | two workers of fetch concurrency 2, four heights, a creation at 1, a process queue of 3, a memory lock that comes and goes, and a cron filter of period 4 over timestamps 10, 13, 14, 15; checked under `FairSpec` | 4,197 |
| `pool` | `ApiServiceInit_pool.cfg` | every form of the manifest's network section and up to three endpoints over mainnet, testnet and a localnet | 604 |

Every action and branch fires in at least one of them. Each property of a
passing run has a mutant, listed in `PROJECT.json`, that TLC must catch. The
mutants are:

- a flush that starts at the creating height;
- a modulo-only test that accepts some handler instead of all;
- a range end clamped to the finalized head in unfinalized mode too;
- an empty dictionary result not clamped to `lastProcessedHeight`, or
  clamped one short of it;
- a start height not advanced past the buffered height;
- a modulo scan that starts one past the start;
- an unclamped batch scale;
- an AutoQueue that starts a task when `batchSize` already run;
- action ids counted over the whole block;
- a process task that does not await its fetch;
- an unlock that does not wake the waiters;
- a `filterBlockTimestamp` without the log line that reads the getter;
- a pool that takes an index past the last endpoint;
- a later endpoint whose genesis hash is never compared.

**Violation runs.** Each of these runs shows a finding.

| Run | Property | What it shows |
|---|---|---|
| `custom` | `NoMissedBlocks` | a static custom datasource is left out of the dictionary query entries (only runtime datasources of `project.dataSources` are read), so the heights only its handler needs are skipped; spec 4.5 says custom datasources delegate to `processor.dictionaryQuery` |
| `stale` | `NoMissedBlocks` | the ABA case of the reset check: a result built before a creation is used after a flush back to the same start |
| `hang` | `FetchLoopYields` | the first head poll fails, so a dictionary query goes out past the head. It is answered after the poll catches up, and `dictionaryValidation` rejects it. The fallback range is empty, and its maximum, `-Infinity`, makes the loop spin without yielding |
| `bypass` | `BypassNeverIndexed` | a pruned bypass height is indexed after a rewind |
| `unavailable` | `NoFatalProcessing` | a height without a block (NEAR skips heights) stops the node: `fetchBlock` swallows the error and `processBlock` throws "has not been fetched"; spec 4.7 and scenario 4 say it is skipped |
| `cron` | `CronOncePerSlot` | two workers each run the cron-filtered handler once in the same slot (timestamps 13 and 14, slot 12): every worker has its own schedule, while spec 4.3 and 8 say a query before `next(t)` does not match |
| `testnet` | `NoFalseRejection` | a testnet project with two endpoints fails `init`: later endpoints must serve block 9,820,210, mainnet's genesis height |

**Reproductions outside the run list.** These configs reproduce hazards of
`PROJECT.json` that no run checks:

| Config | What it shows |
|---|---|
| `FetchService_modhead.cfg` | the modulo shortcut enqueues past the head |
| `FetchService_modcap.cfg` | the modulo shortcut overflows the queue when the scaled batch is below `batchSize` |
| `FetchService_undefhead.cfg` | a failed first head poll leaves the head `undefined` and removes the upper bound |
| `FetchService_dictlimit.cfg` | modulo heights of the whole query range move the buffer past hits the dictionary did not return |
| `FetchService_moddyn.cfg` | the modulo shortcut ignores dynamic datasources |
| `FetchService_forkbypass.cfg` | a bypass block above the finalized head, cleaned by a batch, is indexed after a fork rewinds below it |
| `FetchService_tplmod.cfg` | a template's modulo block handler is accepted by the dictionary, but `getModulos` never adds its heights |
| `FetchService_dup.cfg` | a dictionary hit on a modulo height is indexed twice; spec 4.6 says the merge dedupes |
| `WorkerService_cronresume.cfg` | one worker resumes at height 3 with its schedule anchored at height 1, and blocks 21 and 22 both match. With `ResumeHeight = 1` the same chain bursts at its gap |
| `WorkerService_leak.cfg` | a flush leaves a block in a worker's map that nothing will process, since the re-request goes to another worker |
| `ApiServiceInit_legacy.cfg` | a legacy `genesisHash` manifest is rejected, under spec 4.2's reading of `networkMeta.chain` |
| `ApiServiceInit_fork.cfg` | an endpoint of a fork sharing mainnet's block at `GENESIS_BLOCK` is pooled |

**Why the bounds are enough.** The FetchService scenarios need:

- one batch that spans a creation height and a bypass height;
- a second batch after the flush;
- a dictionary that can lag the chain by several heights;
- memory pressure moving the batch scale.

Heights up to 7 or 8 and batch size 1 or 2 give all of these. The scale
itself never changes the scaled batch in these runs: the floor
`min(MINIMUM_BATCH_SIZE, batchSize * 3)`, with `MINIMUM_BATCH_SIZE` 5, is at
least `batchSize` for every batch size up to 5, so the scale matters only for
batch sizes above 5, out of reach here. For the same reason no passing run
checks `QueueWithinCapacity`: the wait guarantees as many free slots as the
scaled batch, the range path and the modulo shortcut enqueue no more than
that, and the `freeSize` cut of the dictionary path binds only when modulo
heights are merged in, where the skipped hits of `FetchService_dictlimit.cfg`
already break `NoMissedBlocks`. `FetchService_modcap.cfg` shows the overflow
of the modulo shortcut with `MinimumBatchSize` 1 standing in for a batch size
above 5.

The worker run needs three things:

- a worker with three fetch tasks at once, to exercise the AutoQueue bound;
  four heights with a process queue of 3 give this after the flush at 1;
- a re-request that lands on the other worker;
- `MaxCalls = MaxHeight + QueueSize`, because one flush re-requests at most
  `QueueSize` heights. A smaller bound makes `EventuallyAllIndexed` fail on
  the bound, not on the code.

The assembler's blocks have one or two chunks. Each chunk has two
transactions, and one transaction has two actions, so the inner and outer
orderings and the per-transaction ids all differ.

The cron timestamps are 10, 13, 14 and 15, with slots at 12, 16 and so on.
On one schedule, 13 matches, and 14 and 15 are in the same slot, so they do
not match. On a schedule whose log-line read is dropped, 14 matches too.
With two workers, heights 2 and 3 fall on different workers and both
match.

## 5. Fairness and liveness

`FetchService!FairSpec` assumes weak fairness of:

- the fetch loop (`FillNextBlockBuffer`, `DictionaryResponse`), which
  re-enters itself after `delay(1)`;
- the dispatcher (`ProcessBlock`, `ResetForNewDs`);
- the interval timers of the two head polls, for a poll that records the
  current head: a poll sent after the head moved eventually resolves;
- the chain's advance, of its best head and of its finalized head.

It assumes none for a late poll's stale head. It assumes none for
`Shutdown`, which the `dict` run, the one that checks liveness, leaves out
(`MayShutdown = FALSE`). `IndexerProgress` allows a shutdown as the end of
progress.

It assumes none for `DictionaryAdvance`: a dictionary may stop indexing, and
the loop must then fall back to ranges. It assumes none for
`CheckBatchScale`, which only scales.

`WorkerService!FairSpec` assumes weak fairness of:

- every worker's AutoQueue and fetch completion;
- the dispatcher's enqueue and process steps;
- the release of the memory lock.

The lock may be taken again at any time. Unlocking wakes every waiter, so
weak fairness of the release is enough.

## 6. Not modelled, and why

- **Fork detection itself**: the tracker's hash comparison and the store
  rewind belong to node-core. The model reduces them to a nondeterministic
  fork event that rewinds to the finalized head.
- **Custom datasource processors.** Their `filterProcessor` and
  `dictionaryQuery` are user-supplied code. The model takes a processor's
  entry to find exactly the heights its handler needs. `getBaseHandlerKind`
  throws for a processor without `baseHandlerKind`; this is a manifest
  error that stops the node at start.
- **The processor version adapter** (`asSecondLayerHandlerProcessor_1_0_0`)
  wraps a v0.0.0 transformer's result in a list. It is a pure adapter with
  no state and no control flow to check.
- **Cron expressions and time units.** The cron-converter library is
  outside this repository, and the model abstracts an expression to a fixed
  period. The code compares nanosecond block timestamps with millisecond
  dates; this is listed as a hazard.
- **`safeApi`/`SafeJsonRpcProvider`**: stateless request rewriting.
- **Manifest models**: configuration read once,
  with no behaviour over time.
