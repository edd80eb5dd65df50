---------------------------- MODULE WorkerService ----------------------------
(***************************************************************************)
(* Worker-pool mode: each worker thread runs a WorkerService               *)
(* (indexer/worker/worker.service.ts) with its own fetchedBlocks map and   *)
(* an AutoQueue of fetch tasks of concurrency batchSize.  fetchBlock(h)    *)
(* puts a task that, unless h is already fetched, waits for the memory     *)
(* lock and fetches the block through fetchBlocksBatches; an error is      *)
(* caught and logged, and the call resolves either way.  processBlock(h)   *)
(* reads the entry, deletes it and indexes the block.                      *)
(*                                                                         *)
(* The caller is node-core's worker dispatcher, modelled from spec 4.7:    *)
(* heights are assigned to the workers round-robin, fetchBlock is called   *)
(* at once, and a serial process queue awaits each fetch and then calls    *)
(* processBlock in height order.  A datasource created at h flushes the    *)
(* process queue and the heights from h + 1 are enqueued again; fetch      *)
(* tasks already handed to a worker are not withdrawn.                     *)
(*                                                                         *)
(* The project has one block handler whose filter has a cron timestamp.   *)
(* Each worker thread loads its own copy of the project, so each has its   *)
(* own schedule, anchored at the block of the datasource's startBlock      *)
(* (height 1 here); indexBlock runs filterBlock on every block it indexes. *)
(***************************************************************************)
EXTENDS Naturals, Sequences, SequencesExt, FiniteSets, NearBlockAssembly,
        CronFilter

CONSTANTS
  Workers,         \* the worker threads
  BatchSize,       \* nodeConfig.batchSize: each worker's fetch concurrency
  Chain,           \* [heights -> block result or NoBlock]
  MaxHeight,       \* the chain's heights are 1..MaxHeight
  ResumeHeight,    \* the height the scheduler starts from
  CronPeriod,      \* the period of the handler's cron expression
  CreatorHeights,  \* heights whose handlers create a datasource
  QueueSize,       \* capacity of the dispatcher's process queue
  MaxCalls,        \* bound on fetchBlock calls
  NoBlock,         \* model value: the chain has no block at the height
  Absent,          \* model value: fetchedBlocks has no entry
  None             \* model value: no block is being processed

ASSUME BatchSize \in Nat \ {0} /\ QueueSize \in Nat \ {0}
ASSUME Workers \subseteq Nat /\ Workers # {}
ASSUME ResumeHeight \in 1..MaxHeight /\ CronPeriod \in Nat \ {0}

Heights == 1..MaxHeight

VARIABLES
  fetchedBlocks,   \* [Workers -> [Heights -> block content or Absent]]
  fetchQueue,      \* [Workers -> Seq of calls]: tasks the AutoQueue holds
  running,         \* [Workers -> set of [call, stage]]: started tasks
  resolved,        \* fetchBlock calls whose promise has resolved
  memoryLocked,    \* memoryLock.isLocked()
  processQueue,    \* the dispatcher's process tasks: Seq of calls
  processing,      \* the call whose processBlock awaits indexBlock, or None
  nextHeight,      \* next height the scheduler enqueues
  nextWorker,      \* round-robin cursor
  nextCall,        \* id of the next fetchBlock call
  indexed,         \* heights indexed, in order
  status,          \* "running", or "failed" once processBlock threw
  cronPosition,    \* [Workers -> Int]: the seeker of each worker's schedule
  cronMatches      \* blocks the handler matched: Seq of [w, h, ts]

vars == <<fetchedBlocks, fetchQueue, running, resolved, memoryLocked,
          processQueue, processing, nextHeight, nextWorker, nextCall,
          indexed, status, cronPosition, cronMatches>>

cronVars == <<cronPosition, cronMatches>>

(* A fetchBlock call: its id, the height and the worker it went to. *)
Calls == [id : 1..MaxCalls, h : Heights, w : Workers]

(* The handler's schedule: cron.schedule(timestampReference), the          *)
(* reference being the timestamp of the startBlock's block.                *)
Schedule == CronSchedule(Chain[1].header.timestamp, CronPeriod)

NextWorker(w) == IF w + 1 \in Workers THEN w + 1 ELSE Min(Workers)

-----------------------------------------------------------------------------
(* The dispatcher's enqueueBlock(h): pick the next worker, call            *)
(* fetchBlock(h) on it (its AutoQueue.put) and queue the process task.     *)
EnqueueBlock ==
  /\ status = "running"
  /\ nextHeight <= MaxHeight
  /\ Len(processQueue) < QueueSize
  /\ nextCall <= MaxCalls
  /\ LET c == [id |-> nextCall, h |-> nextHeight, w |-> nextWorker]
     IN /\ fetchQueue' = [fetchQueue EXCEPT ![c.w] = Append(@, c)]
        /\ processQueue' = Append(processQueue, c)
  /\ nextHeight' = nextHeight + 1
  /\ nextWorker' = NextWorker(nextWorker)
  /\ nextCall' = nextCall + 1
  /\ UNCHANGED <<fetchedBlocks, running, resolved, memoryLocked, processing,
                 indexed, status>>
  /\ UNCHANGED cronVars

(* Mutant: the AutoQueue starts a task when batchSize are running. *)
FetchStartOffByOne(w) ==
  /\ fetchQueue[w] # <<>>
  /\ Cardinality(running[w]) <= BatchSize
  /\ LET c == Head(fetchQueue[w])
     IN IF fetchedBlocks[w][c.h] # Absent
        THEN /\ resolved' = resolved \cup {c.id}
             /\ UNCHANGED running
        ELSE /\ running' = [running EXCEPT ![w] = @ \cup
                  {[call |-> c, stage |-> IF memoryLocked THEN "lockWait" ELSE "fetching"]}]
             /\ UNCHANGED resolved
  /\ fetchQueue' = [fetchQueue EXCEPT ![w] = Tail(@)]
  /\ UNCHANGED <<fetchedBlocks, memoryLocked, processQueue, processing,
                 nextHeight, nextWorker, nextCall, indexed, status>>
  /\ UNCHANGED cronVars

(* The AutoQueue starts the oldest task when fewer than batchSize run.     *)
(* The task resolves at once when the height is already fetched; else it   *)
(* awaits the memory lock if it is taken, or the fetch.                    *)
FetchStart(w) ==
  /\ fetchQueue[w] # <<>>
  /\ Cardinality(running[w]) < BatchSize
  /\ LET c == Head(fetchQueue[w])
     IN IF fetchedBlocks[w][c.h] # Absent
        THEN /\ resolved' = resolved \cup {c.id}
             /\ UNCHANGED running
        ELSE /\ running' = [running EXCEPT ![w] = @ \cup
                  {[call |-> c, stage |-> IF memoryLocked THEN "lockWait" ELSE "fetching"]}]
             /\ UNCHANGED resolved
  /\ fetchQueue' = [fetchQueue EXCEPT ![w] = Tail(@)]
  /\ UNCHANGED <<fetchedBlocks, memoryLocked, processQueue, processing,
                 nextHeight, nextWorker, nextCall, indexed, status>>
  /\ UNCHANGED cronVars

(* apiService.fetchBlocks([h]) settles: a block is stored in fetchedBlocks *)
(* (overwriting nothing it reads first); a rejection (no block at h, or an *)
(* action that does not decode) is caught.  The call resolves either way.  *)
FetchDone(w, t) ==
  /\ t \in running[w]
  /\ t.stage = "fetching"
  /\ fetchedBlocks' =
       IF FetchBlocksBatchesRejects(Chain, <<t.call.h>>, NoBlock)
       THEN fetchedBlocks
       ELSE [fetchedBlocks EXCEPT ![w][t.call.h] =
                                    FetchBlocksBatches(Chain, <<t.call.h>>)[1]]
  /\ running' = [running EXCEPT ![w] = @ \ {t}]
  /\ resolved' = resolved \cup {t.call.id}
  /\ UNCHANGED <<fetchQueue, memoryLocked, processQueue, processing,
                 nextHeight, nextWorker, nextCall, indexed, status>>
  /\ UNCHANGED cronVars

(* The memory monitor takes the lock. *)
MemoryLock ==
  /\ ~memoryLocked
  /\ memoryLocked' = TRUE
  /\ UNCHANGED <<fetchedBlocks, fetchQueue, running, resolved, processQueue,
                 processing, nextHeight, nextWorker, nextCall, indexed, status>>
  /\ UNCHANGED cronVars

(* Mutant: the lock is released but its waiters are not woken. *)
MemoryUnlockNoWake ==
  /\ memoryLocked
  /\ memoryLocked' = FALSE
  /\ UNCHANGED <<fetchedBlocks, fetchQueue, running, resolved, processQueue,
                 processing, nextHeight, nextWorker, nextCall, indexed, status>>
  /\ UNCHANGED cronVars

(* The lock is released: every waitForUnlock resolves and its task goes   *)
(* on to fetch.                                                            *)
MemoryUnlock ==
  /\ memoryLocked
  /\ memoryLocked' = FALSE
  /\ running' = [w \in Workers |->
                   {[t EXCEPT !.stage = "fetching"] : t \in running[w]}]
  /\ UNCHANGED <<fetchedBlocks, fetchQueue, resolved, processQueue,
                 processing, nextHeight, nextWorker, nextCall, indexed, status>>
  /\ UNCHANGED cronVars

(* Mutant: the process task calls processBlock without awaiting the fetch. *)
ProcessStartNoAwait ==
  /\ status = "running"
  /\ processing = None
  /\ processQueue # <<>>
  /\ LET c == Head(processQueue)
     IN /\ processQueue' = Tail(processQueue)
        /\ IF fetchedBlocks[c.w][c.h] = Absent
           THEN /\ status' = "failed"
                /\ UNCHANGED <<fetchedBlocks, processing>>
           ELSE /\ fetchedBlocks' = [fetchedBlocks EXCEPT ![c.w][c.h] = Absent]
                /\ processing' = [call |-> c, block |-> fetchedBlocks[c.w][c.h].block]
                /\ UNCHANGED status
  /\ UNCHANGED <<fetchQueue, running, resolved, memoryLocked, nextHeight,
                 nextWorker, nextCall, indexed>>
  /\ UNCHANGED cronVars

(* The head process task, its fetch resolved, calls processBlock up to     *)
(* its await: a missing entry throws "has not been fetched", which the     *)
(* dispatcher treats as fatal; else the entry is deleted.  The            *)
(* block === null branch (BlockUnavailableError, a skip) is left out: the  *)
(* fetch path stores a block or nothing, never null.                       *)
ProcessStart ==
  /\ status = "running"
  /\ processing = None
  /\ processQueue # <<>>
  /\ LET c == Head(processQueue)
     IN /\ c.id \in resolved
        /\ processQueue' = Tail(processQueue)
        /\ IF fetchedBlocks[c.w][c.h] = Absent
           THEN /\ status' = "failed"
                /\ UNCHANGED <<fetchedBlocks, processing>>
           ELSE /\ fetchedBlocks' = [fetchedBlocks EXCEPT ![c.w][c.h] = Absent]
                /\ processing' = [call |-> c, block |-> fetchedBlocks[c.w][c.h].block]
                /\ UNCHANGED status
  /\ UNCHANGED <<fetchQueue, running, resolved, memoryLocked, nextHeight,
                 nextWorker, nextCall, indexed>>
  /\ UNCHANGED cronVars

(* filterBlock(block, filter) for the handler's filter, which has a       *)
(* timestamp and no modulo: the block passes when filterBlockTimestamp     *)
(* matches it.  The result is that match and the seeker's new position.   *)
FilterBlock(block, j) ==
  FilterBlockTimestamp(block.header.timestamp, Schedule, j)

(* indexBlock runs the block handler through filterBlock on the worker's   *)
(* schedule and resolves; a created datasource makes the dispatcher flush  *)
(* its process queue and the scheduler enqueue again from h + 1.           *)
ProcessEnd ==
  /\ processing # None
  /\ LET c == processing.call
         r == FilterBlock(processing.block, cronPosition[c.w])
     IN /\ cronPosition' = [cronPosition EXCEPT ![c.w] = r.position]
        /\ cronMatches' =
             IF r.match
             THEN Append(cronMatches, [w |-> c.w, h |-> c.h,
                                       ts |-> processing.block.header.timestamp])
             ELSE cronMatches
        /\ indexed' = Append(indexed, c.h)
        /\ IF c.h \in CreatorHeights
           THEN /\ processQueue' = <<>>
                /\ nextHeight' = c.h + 1
           ELSE UNCHANGED <<processQueue, nextHeight>>
  /\ processing' = None
  /\ UNCHANGED <<fetchedBlocks, fetchQueue, running, resolved, memoryLocked,
                 nextWorker, nextCall, status>>

(* Every height is indexed and nothing is left to do, or the node stopped. *)
Finished ==
  /\ \/ status = "failed"
     \/ /\ nextHeight > MaxHeight
        /\ processQueue = <<>>
        /\ processing = None
        /\ \A w \in Workers : fetchQueue[w] = <<>> /\ running[w] = {}
  /\ UNCHANGED vars

Init ==
  /\ fetchedBlocks = [w \in Workers |-> [h \in Heights |-> Absent]]
  /\ fetchQueue = [w \in Workers |-> <<>>]
  /\ running = [w \in Workers |-> {}]
  /\ resolved = {}
  /\ memoryLocked = FALSE
  /\ processQueue = <<>>
  /\ processing = None
  /\ nextHeight = ResumeHeight
  /\ nextWorker = Min(Workers)
  /\ nextCall = 1
  /\ indexed = <<>>
  /\ status = "running"
  /\ cronPosition = [w \in Workers |-> 0]
  /\ cronMatches = <<>>

Next ==
  \/ EnqueueBlock
  \/ \E w \in Workers : FetchStart(w)
  \/ \E w \in Workers : \E t \in running[w] : FetchDone(w, t)
  \/ MemoryLock
  \/ MemoryUnlock
  \/ ProcessStart
  \/ ProcessEnd
  \/ Finished

Spec == Init /\ [][Next]_vars

(* Every step of the worker and of the dispatcher happens once it can;     *)
(* the memory monitor releases the lock once memory is freed, and may      *)
(* take it again at any time.                                              *)
FairSpec ==
  /\ Spec
  /\ WF_vars(EnqueueBlock)
  /\ \A w \in Workers : WF_vars(FetchStart(w))
  /\ \A w \in Workers : WF_vars(\E t \in running[w] : FetchDone(w, t))
  /\ WF_vars(MemoryUnlock)
  /\ WF_vars(ProcessStart)
  /\ WF_vars(ProcessEnd)

-----------------------------------------------------------------------------
Stages == {"lockWait", "fetching"}

TypeOK ==
  /\ \A w \in Workers :
       /\ \A h \in Heights : fetchedBlocks[w][h] = Absent \/ fetchedBlocks[w][h].block.header.height = h
       /\ fetchQueue[w] \in Seq(Calls)
       /\ running[w] \subseteq [call : Calls, stage : Stages]
       /\ Cardinality(running[w]) <= BatchSize
  /\ resolved \subseteq 1..MaxCalls
  /\ memoryLocked \in BOOLEAN
  /\ processQueue \in Seq(Calls) /\ Len(processQueue) <= QueueSize
  /\ \/ processing = None
     \/ processing.call \in Calls /\ processing.block.header.height = processing.call.h
  /\ nextHeight \in 1..(MaxHeight + 1)
  /\ nextWorker \in Workers
  /\ nextCall \in 1..(MaxCalls + 1)
  /\ status \in {"running", "failed"}
  /\ cronPosition \in [Workers -> Nat]

(***************************************************************************)
(* Every block a worker holds is the block of its height assembled as spec *)
(* 4.4 says: its actions in chunk, transaction and in-transaction order,   *)
(* each with its index in its transaction as id.  This composes            *)
(* fetchBlock's cache with wrapBlock's nested loops.                       *)
(***************************************************************************)
FetchedBlocksAssembled ==
  \A w \in Workers : \A h \in Heights :
    fetchedBlocks[w][h] # Absent =>
      fetchedBlocks[w][h].actions = ReferenceActions(Chain[h])

(***************************************************************************)
(* processBlock never ends the node: every height handed to it is indexed, *)
(* or skipped with blockHash null when the chain has no block there (spec  *)
(* 4.7 and scenario 4).  It needs the dispatcher's await of the fetch, the *)
(* worker's cache across a re-request after a flush, and the fetch's error *)
(* path to agree.                                                          *)
(***************************************************************************)
NoFatalProcessing == status # "failed"

(***************************************************************************)
(* Every height of the chain is eventually indexed: fetch tasks waiting on *)
(* the memory lock are woken when it is released, the AutoQueue starts     *)
(* every task, and the flush after a creation enqueues the rest again.     *)
(***************************************************************************)
EventuallyAllIndexed == <>(ToSet(indexed) = ResumeHeight..MaxHeight)

(***************************************************************************)
(* A worker holds a block only while it is still to be processed: some    *)
(* process task, or a fetch task of that worker, is for that height.       *)
(* fetchedBlocks is emptied only by processBlock, so otherwise the entry   *)
(* stays in the worker's memory for good.                                  *)
(***************************************************************************)
NoOrphanedBlocks ==
  \A w \in Workers : \A h \in Heights :
    fetchedBlocks[w][h] # Absent =>
      \/ \E k \in DOMAIN processQueue : processQueue[k].w = w /\ processQueue[k].h = h
      \/ \E k \in DOMAIN fetchQueue[w] : fetchQueue[w][k].h = h
      \/ \E t \in running[w] : t.call.h = h

(* The matches of worker w's handler, in order. *)
MatchesOf(w) == SelectSeq(cronMatches, LAMBDA m : m.w = w)

(***************************************************************************)
(* The k-th block a worker's handler matches is past the k-th slot of its  *)
(* schedule: each match moves the schedule on by exactly one slot.  This   *)
(* rests on filterBlockTimestamp reading the `next` getter, which itself   *)
(* calls schedule.next(), once more in a log line on a match and not on a  *)
(* miss, before the one schedule.prev() of either branch.                  *)
(***************************************************************************)
CronMatchesAfterSlot ==
  \A w \in Workers :
    \A k \in DOMAIN MatchesOf(w) : MatchesOf(w)[k].ts > SlotTime(Schedule, k)

(***************************************************************************)
(* Spec 4.3 and 8: after a match at time t, a block before the next slot  *)
(* does not match, so the handler runs at most once per slot: between any  *)
(* two blocks it matched, in the order they were indexed, a slot of the    *)
(* schedule begins.                                                        *)
(***************************************************************************)
CronOncePerSlot ==
  \A i, j \in DOMAIN cronMatches :
    i < j => SlotBetween(Schedule, cronMatches[i].ts, cronMatches[j].ts)

=============================================================================
