---------------------------- MODULE FetchService ----------------------------
(***************************************************************************)
(* The fetch-schedule-dispatch pipeline of the NEAR indexer:               *)
(* FetchService (packages/node/src/indexer/project.service.ts, the second  *)
(* file of that path) decides which heights to buffer next, through the    *)
(* dictionary or by sequential ranges, the block dispatcher indexes them   *)
(* in order, and a handler that creates a dynamic datasource makes the     *)
(* dispatcher call back resetForNewDs, which flushes the buffer.           *)
(*                                                                         *)
(* Data abstraction: a handler is a record                                 *)
(*   [kind |-> "Block" | "Transaction" | "Action",                         *)
(*    filtered |-> the filter sets sender/receiver (Transaction) or type   *)
(*                 (Action),                                               *)
(*    modulo |-> the block filter's modulo, 0 when absent,                 *)
(*    hits |-> heights whose block holds an item the filter matches,       *)
(*    custom |-> it belongs to a custom datasource, whose processor's      *)
(*               baseHandlerKind and baseFilter are kind, filtered, modulo,*)
(*    dictionaryQuery |-> its processor has a dictionaryQuery that returns *)
(*               an entry, finding the heights of hits].                   *)
(* A datasource is its start block; all static datasources start at        *)
(* StartHeight, every dynamic one is made from the one template.           *)
(***************************************************************************)
EXTENDS BlockDispatcher, Integers, SequencesExt

CONSTANTS
  StaticHandlers,          \* handlers of project.dataSources
  TemplateHandlers,        \* handlers of the template dynamic datasources use
  CreatorHeights,          \* heights whose handler calls createDynamicDatasource
  BypassBlocks,            \* network.bypassBlocks
  StartHeight,             \* height passed to init: the start block of the project
  InitChainHead,           \* finalized chain head when the node starts
  MaxHeight,               \* bound: the chain grows no further, nor does the loop
  MinimumBatchSize,        \* MINIMUM_BATCH_SIZE
  ScaleBatchSize,          \* nodeConfig['scale-batch-size']
  DictionaryConfigured,    \* project.network.dictionary is set
  DictionaryMayMismatch,   \* the dictionary may report another chain's genesis
  DictionaryStartHeight,   \* _metadata.startHeight of the dictionary
  DictionaryMaxQuerySize,  \* DICTIONARY_MAX_QUERY_SIZE
  FirstHeadPollMayFail,    \* init's first getFinalizedBlockHead, getBestBlockHead may fail
  UnfinalizedModes,        \* values of nodeConfig.unfinalizedBlocks to explore
  MayShutdown,             \* the application may be shut down
  PollsMayReorder,         \* head polls in flight may resolve out of order
  MayFork,                 \* unfinalized blocks the node indexed may be forked off
  NoQuery, NoReset,        \* model values: no request in flight, no reset pending
  NegInfinity              \* model value: Math.max() of an empty list, -Infinity

Kinds == {"Block", "Transaction", "Action"}

ASSUME
  /\ \A hd \in StaticHandlers \cup TemplateHandlers :
        /\ hd.kind \in Kinds /\ hd.filtered \in BOOLEAN
        /\ hd.modulo \in Nat /\ hd.hits \subseteq Nat
        /\ hd.custom \in BOOLEAN /\ hd.dictionaryQuery \in BOOLEAN
        /\ hd.dictionaryQuery => hd.custom /\ hd.kind # "Block"
  /\ {StartHeight, InitChainHead, MaxHeight, MinimumBatchSize,
      DictionaryStartHeight, DictionaryMaxQuerySize} \subseteq Nat \ {0}
  /\ StartHeight <= InitChainHead /\ InitChainHead <= MaxHeight
  /\ CreatorHeights \cup BypassBlocks \subseteq StartHeight..MaxHeight
  /\ {ScaleBatchSize, DictionaryConfigured, DictionaryMayMismatch,
      FirstHeadPollMayFail, MayShutdown, PollsMayReorder} \subseteq BOOLEAN
  /\ UnfinalizedModes \subseteq BOOLEAN /\ UnfinalizedModes # {}

VARIABLES
  chainHead,                \* environment: the chain's finalized head
  dictHeight,               \* environment: the dictionary's lastProcessedHeight
  latestFinalizedHeight,    \* FetchService.latestFinalizedHeight or Undefined
  batchSizeScaled,          \* Math.round(batchSizeScale * batchSize)
  dictionaryGenesisMatches, \* FetchService.dictionaryGenesisMatches
  dictStartHeight,          \* dictionaryService.startHeight or Undefined
  bypassBlocks,             \* FetchService.bypassBlocks
  templateDs,               \* templateDynamicDatasouces (their start blocks)
  dictDs,                   \* dynamic datasources the dictionary entry map was built from
  pc,                       \* fillNextBlockBuffer: "loop" or awaiting the dictionary
  query,                    \* the dictionary request in flight, or NoQuery
  dynamicDs,                \* DynamicDsService: start blocks of created datasources
  resetPending,             \* height of the resetForNewDs call the dispatcher awaits
  status,                   \* "running", or how the node stopped
  indexed,                  \* heights indexed in the store, in order
  unfinalizedBlocks,        \* nodeConfig.unfinalizedBlocks
  bestHead,                 \* environment: the chain's optimistic (best) head
  latestBestHeight,         \* FetchService.latestBestHeight or Undefined
  isShutdown                \* FetchService.isShutdown

vars == <<chainHead, dictHeight, latestFinalizedHeight, batchSizeScaled,
          dictionaryGenesisMatches, dictStartHeight, bypassBlocks, templateDs,
          dictDs, pc, query, dynamicDs, resetPending, status, indexed,
          dispatcherVars, unfinalizedBlocks, bestHead, latestBestHeight,
          isShutdown>>

extVars == <<unfinalizedBlocks, bestHead, latestBestHeight, isShutdown>>

-----------------------------------------------------------------------------
(* JavaScript's a > b on a number, undefined or -Infinity: false when     *)
(* either side is undefined or a is -Infinity, true when only b is.        *)
Gt(a, b) ==
  /\ a \notin {Undefined, NegInfinity}
  /\ b # Undefined
  /\ b = NegInfinity \/ a > b

MaxOf(a, b) == IF a >= b THEN a ELSE b
MinOf(a, b) == IF a <= b THEN a ELSE b

(* A strictly ascending sequence of the finite set S of heights. *)
Ascending(S) == SetToSortSeq(S, <)

(* Whether handler hd would run on the block at height h. *)
HandlerMatches(hd, h) ==
  IF hd.kind = "Block"
  THEN hd.modulo = 0 \/ h % hd.modulo = 0
  ELSE ~hd.filtered \/ h \in hd.hits

(* Handlers of the datasources with startBlock <= height, given the      *)
(* start blocks of the dynamic datasources.                                *)
ActiveHandlers(dynamicStarts, height) ==
  (IF StartHeight <= height THEN StaticHandlers ELSE {})
    \cup (IF \E s \in dynamicStarts : s <= height THEN TemplateHandlers ELSE {})

(***************************************************************************)
(* buildDictionaryQueryEntries(startBlock): one entry per Transaction      *)
(* handler with sender or receiver and per Action handler with a type; a   *)
(* Block handler without modulo, or any handler without such a filter,     *)
(* abandons the dictionary (returns []).  Entries are deduplicated.        *)
(***************************************************************************)
(* A custom handler whose processor's dictionaryQuery returns an entry:    *)
(* the entry is pushed and its base filters are not read.  Otherwise       *)
(* getBaseHandlerFilters gives the processor's baseFilter, and a missing   *)
(* one leaves an empty filter list, which abandons the dictionary as a     *)
(* runtime handler without a filter does.                                  *)
CustomQueryEntry(hd) == hd.custom /\ hd.dictionaryQuery

DictionaryQueryable(hd) ==
  \/ CustomQueryEntry(hd)
  \/ IF hd.kind = "Block" THEN hd.modulo > 0 ELSE hd.filtered

(* The handlers buildDictionaryQueryEntries reads: project.dataSources      *)
(* filtered to the runtime ones (isRuntimeDataSourceV0_3_0/V0_2_0), and     *)
(* every template dynamic datasource, custom or not, with startBlock at or  *)
(* below startBlock.                                                        *)
QueriedHandlers(dynamicStarts, startBlock) ==
  {hd \in ActiveHandlers(dynamicStarts, startBlock) :
     ~hd.custom \/ (hd \in TemplateHandlers /\ \E s \in dynamicStarts : s <= startBlock)}

(* txFilterToQueryEntry and actionFilterToQueryEntry: entity             *)
(* "transactions" or "actions" with an equalTo condition per filter field; *)
(* a processor's entry is its own.  The conditions are abstracted to the   *)
(* heights whose blocks satisfy them, so uniqBy over entity and sorted     *)
(* conditions is the set of the entries.                                   *)
QueryEntry(hd) ==
  [entity |-> CASE CustomQueryEntry(hd)     -> "processor"
                [] hd.kind = "Transaction" -> "transactions"
                [] OTHER                   -> "actions",
   hits   |-> hd.hits]

BuildDictionaryQueryEntries(dynamicStarts, startBlock) ==
  LET hs == QueriedHandlers(dynamicStarts, startBlock)
  IN IF \A hd \in hs : DictionaryQueryable(hd)
     THEN {QueryEntry(hd) : hd \in {hd \in hs : hd.kind # "Block" \/ CustomQueryEntry(hd)}}
     ELSE {}

(* getModulos: the modulo of every Block handler of the static runtime    *)
(* datasources that has one.                                               *)
IsModuloHandler(hd) == ~hd.custom /\ hd.kind = "Block" /\ hd.modulo > 0

Modulos == {hd.modulo : hd \in {hd \in StaticHandlers : IsModuloHandler(hd)}}

(* Mutant: the scan starts one past startHeight. *)
GetModuloBlocksFromNext(start, end) ==
  {i \in (start + 1)..(end - 1) : \E m \in Modulos : i % m = 0}

(* getModuloBlocks(start, end): heights in [start, end) some modulo divides. *)
GetModuloBlocks(start, end) ==
  {i \in start..(end - 1) : \E m \in Modulos : i % m = 0}

(* getEnqueuedModuloBlocks(start): the first batchSize modulo heights from  *)
(* start, searched up to start + batchSize * max(modulos).                  *)
GetEnqueuedModuloBlocks(start) ==
  LET found == Ascending(GetModuloBlocks(start,
                   BatchSize * Max(Modulos) + start))
  IN SubSeq(found, 1, MinOf(BatchSize, Len(found)))

(* Mutant: the shortcut is taken when some handler has a modulo. *)
ModuloOnlySome ==
  StaticHandlers # {} /\ \E hd \in StaticHandlers : IsModuloHandler(hd)

(* handlers.length && getModulos().length === handlers.length *)
ModuloOnly ==
  StaticHandlers # {} /\ \A hd \in StaticHandlers : IsModuloHandler(hd)

(* Mutant: the loop restarts at latestBufferedHeight instead of one past it. *)
GetStartBlockHeightNoIncrement ==
  CASE latestBufferedHeight \in {Undefined, 0} -> StartHeight
    [] latestBufferedHeight = NegInfinity      -> NegInfinity
    [] OTHER                                   -> latestBufferedHeight

(* The getStartBlockHeight closure: latestBufferedHeight is tested for    *)
(* truthiness, so 0 and undefined both mean "start at initBlockHeight";    *)
(* -Infinity is truthy and -Infinity + 1 is -Infinity.                     *)
GetStartBlockHeight ==
  CASE latestBufferedHeight \in {Undefined, 0} -> StartHeight
    [] latestBufferedHeight = NegInfinity      -> NegInfinity
    [] OTHER                                   -> latestBufferedHeight + 1

ScaledBatchSize ==
  MaxOf(batchSizeScaled, MinOf(MinimumBatchSize, BatchSize * 3))

(* The useDictionary getter. *)
UseDictionary ==
  /\ DictionaryConfigured
  /\ dictionaryGenesisMatches
  /\ BuildDictionaryQueryEntries(dictDs,
        IF latestBufferedHeight = Undefined THEN StartHeight
        ELSE latestBufferedHeight) # {}

(* latestHeight: the best head in unfinalized mode, else the finalized one. *)
LatestHeight ==
  IF unfinalizedBlocks THEN latestBestHeight ELSE latestFinalizedHeight

(* The loop waits (await delay(1)) while the buffer has less room than   *)
(* the scaled batch or the start is past latestHeight.                     *)
MustWait(start, scaled) ==
  FreeSize < scaled \/ Gt(start, LatestHeight)

(* Mutant: the end is clamped to the finalized head in either mode.      *)
NextEndBlockHeightFinalizedClamp(start, scaled) ==
  LET end == start + scaled - 1
  IN IF Gt(end, latestFinalizedHeight) THEN latestFinalizedHeight ELSE end

(* nextEndBlockHeight: past the finalized head the end is clamped to it,  *)
(* or in unfinalized mode to the best head when it reaches that head       *)
(* (endBlockHeight >= latestBestHeight, false while it is undefined).      *)
NextEndBlockHeight(start, scaled) ==
  LET end == start + scaled - 1
  IN CASE ~Gt(end, latestFinalizedHeight) -> end
       [] ~unfinalizedBlocks -> latestFinalizedHeight
       [] latestBestHeight # Undefined /\ end >= latestBestHeight -> latestBestHeight
       [] OTHER -> end

(***************************************************************************)
(* filteredBlockBatch followed by enqueueBlocks with getLatestBufferHeight: *)
(* bypass heights are cleaned from the batch, the bypass heights below the *)
(* batch's maximum are forgotten, and the raw maximum is buffered.  The    *)
(* maximum of an empty batch, Math.max(), is -Infinity.                    *)
(***************************************************************************)
EnqueueFilteredBlocks(raw) ==
  LET rawMax  == IF raw = <<>> THEN NegInfinity ELSE Max(ToSet(raw))
      cleaned == SelectSeq(raw, LAMBDA b : b \notin bypassBlocks)
  IN /\ EnqueueBlocks(cleaned, rawMax)
     /\ bypassBlocks' = {b \in bypassBlocks : ~Gt(rawMax, b)}

(* The non-dictionary path: the modulo-only shortcut, or the range         *)
(* [start, nextEndBlockHeight].                                            *)
EnqueueBlockRange(start, scaled) ==
  IF ModuloOnly
  THEN EnqueueFilteredBlocks(GetEnqueuedModuloBlocks(start))
  ELSE EnqueueFilteredBlocks(
         Ascending(start..NextEndBlockHeight(start, scaled)))

-----------------------------------------------------------------------------
(***************************************************************************)
(* One iteration of fillNextBlockBuffer up to its first await: wait while  *)
(* the buffer is short of room or the start is past the target; otherwise  *)
(* send a dictionary query, or enqueue a range.  From a start of         *)
(* -Infinity neither path awaits: both enqueue an empty batch at -Infinity *)
(* again (lodash range clamps the infinite bounds and returns []), so the  *)
(* while loop never yields and the event loop is blocked for good.         *)
(***************************************************************************)
FillNextBlockBufferSpins ==
  /\ status = "running"
  /\ ~isShutdown
  /\ pc = "loop"
  /\ ~MustWait(GetStartBlockHeight, ScaledBatchSize)
  /\ GetStartBlockHeight = NegInfinity
  /\ status' = "hung"
  /\ UNCHANGED <<chainHead, dictHeight, latestFinalizedHeight, batchSizeScaled,
                 dictionaryGenesisMatches, dictStartHeight, bypassBlocks,
                 templateDs, dictDs, pc, query, dynamicDs, resetPending,
                 indexed, dispatcherVars>>
  /\ UNCHANGED extVars

FillNextBlockBuffer ==
  LET start  == GetStartBlockHeight
      scaled == ScaledBatchSize
  IN /\ status = "running"
     /\ ~isShutdown
     /\ pc = "loop"
     /\ ~MustWait(start, scaled)
     /\ start # NegInfinity
     /\ start <= MaxHeight
     /\ IF UseDictionary /\ dictStartHeight # Undefined /\ start >= dictStartHeight
        THEN /\ pc' = "dictWait"
             /\ query' = [start   |-> start,
                          end     |-> start + DictionaryMaxQuerySize,
                          limit   |-> scaled,
                          entries |-> BuildDictionaryQueryEntries(dictDs, start)]
             /\ UNCHANGED <<dispatcherVars, bypassBlocks>>
        ELSE /\ EnqueueBlockRange(start, scaled)
             /\ UNCHANGED <<pc, query>>
     /\ UNCHANGED <<chainHead, dictHeight, latestFinalizedHeight, batchSizeScaled,
                    dictionaryGenesisMatches, dictStartHeight, templateDs, dictDs,
                    dynamicDs, resetPending, status, indexed>>
     /\ UNCHANGED extVars

(* scopedDictionaryEntries: the first `limit` heights in [start, end) that *)
(* the dictionary, indexed up to dictHeight, holds for the entries.        *)
DictionaryBatchBlocks(q) ==
  LET found == Ascending({h \in UNION {e.hits : e \in q.entries} :
                            q.start <= h /\ h < q.end /\ h <= dictHeight})
  IN SubSeq(found, 1, MinOf(q.limit, Len(found)))

(* Mutant of the valid-dictionary branch: an empty result moves the       *)
(* buffered height to the end of the query range whatever the dictionary   *)
(* has indexed.                                                            *)
EnqueueDictionaryBlocksNoLagClamp(q) ==
  LET batchBlocks == SortSeq(DictionaryBatchBlocks(q)
                               \o Ascending(GetModuloBlocks(q.start, q.end)), <)
  IN IF batchBlocks = <<>>
     THEN /\ EnqueueBlocks(<<>>, q.end - 1)
          /\ UNCHANGED bypassBlocks
     ELSE EnqueueFilteredBlocks(
            SubSeq(batchBlocks, 1, MinOf(Len(batchBlocks), FreeSize)))

(* Mutant: an empty result is clamped one below lastProcessedHeight.     *)
EnqueueDictionaryBlocksLagOffByOne(q) ==
  LET batchBlocks == SortSeq(DictionaryBatchBlocks(q)
                               \o Ascending(GetModuloBlocks(q.start, q.end)), <)
  IN IF batchBlocks = <<>>
     THEN /\ EnqueueBlocks(<<>>, MinOf(q.end - 1, dictHeight - 1))
          /\ UNCHANGED bypassBlocks
     ELSE EnqueueFilteredBlocks(
            SubSeq(batchBlocks, 1, MinOf(Len(batchBlocks), FreeSize)))

(* The valid-dictionary branch: batchBlocks.concat(moduloBlocks).sort(),   *)
(* then either move latestBufferedHeight or enqueue up to freeSize.        *)
EnqueueDictionaryBlocks(q) ==
  LET batchBlocks == SortSeq(DictionaryBatchBlocks(q)
                               \o Ascending(GetModuloBlocks(q.start, q.end)), <)
  IN IF batchBlocks = <<>>
     THEN /\ EnqueueBlocks(<<>>, MinOf(q.end - 1, dictHeight))
          /\ UNCHANGED bypassBlocks
     ELSE EnqueueFilteredBlocks(
            SubSeq(batchBlocks, 1, MinOf(Len(batchBlocks), FreeSize)))

(***************************************************************************)
(* The rest of the iteration, when scopedDictionaryEntries resolves:       *)
(* discard the result if the start moved; otherwise validate it           *)
(* (dictionaryValidation) and use it, or fall back to the range path.      *)
(* A failed request resolves to undefined.                                 *)
(***************************************************************************)
DictionaryResponse ==
  LET q == query
  IN /\ status = "running"
     /\ pc = "dictWait"
     /\ pc' = "loop"
     /\ query' = NoQuery
     /\ \/ /\ q.start # GetStartBlockHeight
           /\ UNCHANGED <<dispatcherVars, bypassBlocks, dictionaryGenesisMatches>>
        \/ /\ q.start = GetStartBlockHeight
           /\ \/ /\ EnqueueBlockRange(q.start, q.limit)
                 /\ UNCHANGED dictionaryGenesisMatches
              \/ /\ DictionaryMayMismatch
                 /\ dictionaryGenesisMatches' = FALSE
                 /\ EnqueueBlockRange(q.start, q.limit)
              \/ /\ dictHeight < q.start
                 /\ EnqueueBlockRange(q.start, q.limit)
                 /\ UNCHANGED dictionaryGenesisMatches
              \/ /\ dictHeight >= q.start
                 /\ EnqueueDictionaryBlocks(q)
                 /\ UNCHANGED dictionaryGenesisMatches
     /\ UNCHANGED <<chainHead, dictHeight, latestFinalizedHeight, batchSizeScaled,
                    dictStartHeight, templateDs, dictDs, dynamicDs, resetPending,
                    status, indexed>>
     /\ UNCHANGED extVars

(***************************************************************************)
(* The dispatcher takes the next buffered height, fetches its block and    *)
(* indexes it with getAllDataSources(height).  A height past the chain's   *)
(* best head has no block: the fetch fails and the node exits.  A handler that  *)
(* creates a dynamic datasource (startBlock = height) makes the dispatcher *)
(* await resetForNewDs(height + 1).                                        *)
(***************************************************************************)
ProcessBlock ==
  LET h == Head(queue)
  IN /\ status = "running"
     /\ resetPending = NoReset
     /\ queue # <<>>
     /\ \/ /\ h > bestHead
           /\ status' = "fetchFailed"
           /\ UNCHANGED <<queue, indexed, dynamicDs, resetPending>>
        \/ /\ h <= bestHead
           /\ queue' = Tail(queue)
           /\ indexed' = Append(indexed, h)
           /\ IF h \in CreatorHeights
              THEN /\ dynamicDs' = dynamicDs \cup {h}
                   /\ resetPending' = h + 1
              ELSE UNCHANGED <<dynamicDs, resetPending>>
           /\ UNCHANGED status
     /\ UNCHANGED <<chainHead, dictHeight, latestFinalizedHeight, batchSizeScaled,
                    dictionaryGenesisMatches, dictStartHeight, bypassBlocks,
                    templateDs, dictDs, pc, query, latestBufferedHeight>>
     /\ UNCHANGED extVars

(* Mutant: the flush starts at the creating height instead of one past it. *)
ResetForNewDsFlushAtCreation ==
  /\ status = "running"
  /\ resetPending # NoReset
  /\ templateDs' = dynamicDs
  /\ dictDs' = dynamicDs
  /\ FlushQueue(resetPending - 1)
  /\ resetPending' = NoReset
  /\ UNCHANGED <<chainHead, dictHeight, latestFinalizedHeight, batchSizeScaled,
                 dictionaryGenesisMatches, dictStartHeight, bypassBlocks, pc,
                 query, dynamicDs, status, indexed>>
  /\ UNCHANGED extVars

(***************************************************************************)
(* resetForNewDs(height), after its await of syncDynamicDatascourcesFromMeta: *)
(* the templates are resynced, the dictionary entry map is rebuilt         *)
(* (updateDictionary) and the dispatcher's buffer is flushed.              *)
(***************************************************************************)
ResetForNewDs ==
  /\ status = "running"
  /\ resetPending # NoReset
  /\ templateDs' = dynamicDs
  /\ dictDs' = dynamicDs
  /\ FlushQueue(resetPending)
  /\ resetPending' = NoReset
  /\ UNCHANGED <<chainHead, dictHeight, latestFinalizedHeight, batchSizeScaled,
                 dictionaryGenesisMatches, dictStartHeight, bypassBlocks, pc,
                 query, dynamicDs, status, indexed>>
  /\ UNCHANGED extVars

(***************************************************************************)
(* A fork in unfinalized mode.  node-core's unfinalized-blocks tracker     *)
(* finds that an indexed block above the finalized header registered last  *)
(* (here latestFinalizedHeight, set by the same poll) is not on the chain, *)
(* rewinds the store to that header, dropping the blocks indexed above it  *)
(* and the dynamic datasources created above it (spec 4.9 and 4.10), and   *)
(* calls resetForIncorrectBestBlock(height): the templates are resynced,   *)
(* the dictionary entry map is rebuilt and the buffer flushed, without the *)
(* deleteTempDsRecords of resetForNewDs.                                   *)
(***************************************************************************)
ResetForIncorrectBestBlock ==
  LET r    == latestFinalizedHeight
      kept == {c \in dynamicDs : c <= r}
  IN /\ MayFork
     /\ status = "running"
     /\ unfinalizedBlocks
     /\ resetPending = NoReset
     /\ r \notin {Undefined, NegInfinity}
     /\ \E i \in DOMAIN indexed : indexed[i] > r
     /\ indexed' = SelectSeq(indexed, LAMBDA h : h <= r)
     /\ dynamicDs' = kept
     /\ templateDs' = kept
     /\ dictDs' = kept
     /\ FlushQueue(r + 1)
     /\ UNCHANGED <<chainHead, dictHeight, latestFinalizedHeight, batchSizeScaled,
                    dictionaryGenesisMatches, dictStartHeight, bypassBlocks, pc,
                    query, resetPending, status>>
     /\ UNCHANGED extVars

(* The head a poll resolves with.  setInterval starts a poll every        *)
(* BLOCK_TIME_VARIANCE ms without awaiting the previous one, and api.block *)
(* has no timeout, so a poll may resolve after later ones with the head it *)
(* was sent at: any head since init.                                       *)
PollResults(head) == IF PollsMayReorder THEN InitChainHead..head ELSE {head}

(* getFinalizedBlockHead, run by its interval timer: a poll that returns  *)
(* a head other than the recorded one records it.  A failed poll is logged *)
(* and changes nothing.                                                    *)
GetFinalizedBlockHead ==
  /\ status = "running"
  /\ ~isShutdown
  /\ \E v \in PollResults(chainHead) :
       /\ v # latestFinalizedHeight
       /\ latestFinalizedHeight' = v
  /\ UNCHANGED <<chainHead, dictHeight, batchSizeScaled, dictionaryGenesisMatches,
                 dictStartHeight, bypassBlocks, templateDs, dictDs, pc, query,
                 dynamicDs, resetPending, status, indexed, dispatcherVars>>
  /\ UNCHANGED extVars

(* Mutant: a scale above 1 is not clamped, so the scaled batch can exceed  *)
(* batchSize.                                                              *)
CheckBatchScaleUnclamped ==
  /\ status = "running"
  /\ ScaleBatchSize
  /\ \E v \in 0..(BatchSize + 1) :
        /\ v # batchSizeScaled
        /\ batchSizeScaled' = v
  /\ UNCHANGED <<chainHead, dictHeight, latestFinalizedHeight,
                 dictionaryGenesisMatches, dictStartHeight, bypassBlocks,
                 templateDs, dictDs, pc, query, dynamicDs, resetPending, status,
                 indexed, dispatcherVars>>
  /\ UNCHANGED extVars

(* checkBatchScale: with scale-batch-size on, memory pressure moves the    *)
(* scale, so the rounded scaled batch takes any value in 0..batchSize.     *)
CheckBatchScale ==
  /\ status = "running"
  /\ ScaleBatchSize
  /\ \E v \in 0..BatchSize :
        /\ v # batchSizeScaled
        /\ batchSizeScaled' = v
  /\ UNCHANGED <<chainHead, dictHeight, latestFinalizedHeight,
                 dictionaryGenesisMatches, dictStartHeight, bypassBlocks,
                 templateDs, dictDs, pc, query, dynamicDs, resetPending, status,
                 indexed, dispatcherVars>>
  /\ UNCHANGED extVars

(* getBestBlockHead, run by its own interval timer: the same for the      *)
(* optimistic head and latestBestHeight.  With unfinalizedBlocks off       *)
(* nothing reads latestBestHeight, and the model leaves the poll out.      *)
GetBestBlockHead ==
  /\ status = "running"
  /\ unfinalizedBlocks
  /\ ~isShutdown
  /\ \E v \in PollResults(bestHead) :
       /\ v # latestBestHeight
       /\ latestBestHeight' = v
  /\ UNCHANGED <<chainHead, dictHeight, latestFinalizedHeight, batchSizeScaled,
                 dictionaryGenesisMatches, dictStartHeight, bypassBlocks,
                 templateDs, dictDs, pc, query, dynamicDs, resetPending, status,
                 indexed, dispatcherVars, unfinalizedBlocks, bestHead, isShutdown>>

(* onApplicationShutdown: the two head-poll intervals are deleted and      *)
(* isShutdown is set, which ends the fetch loop at its next while test; a  *)
(* dictionary query in flight still completes its iteration.               *)
Shutdown ==
  /\ status = "running"
  /\ MayShutdown
  /\ ~isShutdown
  /\ isShutdown' = TRUE
  /\ UNCHANGED <<chainHead, dictHeight, latestFinalizedHeight, batchSizeScaled,
                 dictionaryGenesisMatches, dictStartHeight, bypassBlocks,
                 templateDs, dictDs, pc, query, dynamicDs, resetPending, status,
                 indexed, dispatcherVars, unfinalizedBlocks, bestHead,
                 latestBestHeight>>

(* Environment: the chain extends its best head and finalizes blocks up to *)
(* it; the dictionary indexes finalized blocks.  With unfinalizedBlocks    *)
(* off only blocks past the finalized head tell the heads apart, and the   *)
(* model keeps them equal.                                                 *)
BestAdvance ==
  /\ unfinalizedBlocks
  /\ bestHead < MaxHeight
  /\ bestHead' = bestHead + 1
  /\ UNCHANGED <<chainHead, dictHeight, latestFinalizedHeight, batchSizeScaled,
                 dictionaryGenesisMatches, dictStartHeight, bypassBlocks,
                 templateDs, dictDs, pc, query, dynamicDs, resetPending, status,
                 indexed, dispatcherVars, unfinalizedBlocks, latestBestHeight,
                 isShutdown>>

ChainAdvance ==
  /\ chainHead < MaxHeight
  /\ unfinalizedBlocks => chainHead < bestHead
  /\ chainHead' = chainHead + 1
  /\ bestHead' = IF unfinalizedBlocks THEN bestHead ELSE chainHead + 1
  /\ UNCHANGED <<dictHeight, latestFinalizedHeight, batchSizeScaled,
                 dictionaryGenesisMatches, dictStartHeight, bypassBlocks,
                 templateDs, dictDs, pc, query, dynamicDs, resetPending, status,
                 indexed, dispatcherVars>>
  /\ UNCHANGED <<unfinalizedBlocks, latestBestHeight, isShutdown>>

DictionaryAdvance ==
  /\ DictionaryConfigured
  /\ dictHeight < chainHead
  /\ dictHeight' = dictHeight + 1
  /\ UNCHANGED <<chainHead, latestFinalizedHeight, batchSizeScaled,
                 dictionaryGenesisMatches, dictStartHeight, bypassBlocks,
                 templateDs, dictDs, pc, query, dynamicDs, resetPending, status,
                 indexed, dispatcherVars>>
  /\ UNCHANGED extVars

(* The model's end: the chain reached MaxHeight and everything buffered    *)
(* is indexed, or the node exited.                                         *)
Finished ==
  /\ \/ status # "running"
     \/ /\ chainHead = MaxHeight
        /\ queue = <<>> /\ pc = "loop" /\ resetPending = NoReset
  /\ UNCHANGED vars

-----------------------------------------------------------------------------
(***************************************************************************)
(* The state after FetchService.init(startHeight) has awaited its steps:   *)
(* bypass heights below the start are dropped, the dictionary metadata     *)
(* request may fail (startHeight stays undefined) or report a foreign      *)
(* genesis (the dictionary is off for the session), and the first          *)
(* finalized-head poll may fail, leaving latestFinalizedHeight undefined.  *)
(***************************************************************************)
Init ==
  /\ chainHead = InitChainHead
  /\ dictHeight \in IF DictionaryConfigured THEN 0..InitChainHead ELSE {0}
  /\ latestFinalizedHeight \in IF FirstHeadPollMayFail
                               THEN {Undefined, InitChainHead}
                               ELSE {InitChainHead}
  /\ bestHead = InitChainHead
  /\ unfinalizedBlocks \in UnfinalizedModes
  /\ latestBestHeight \in IF FirstHeadPollMayFail /\ unfinalizedBlocks
                          THEN {Undefined, InitChainHead}
                          ELSE {InitChainHead}
  /\ isShutdown = FALSE
  /\ batchSizeScaled = BatchSize
  /\ \/ /\ DictionaryConfigured
        /\ dictionaryGenesisMatches = TRUE
        /\ dictStartHeight \in {Undefined, DictionaryStartHeight}
     \/ /\ DictionaryConfigured /\ DictionaryMayMismatch
        /\ dictionaryGenesisMatches = FALSE
        /\ dictStartHeight = Undefined
     \/ /\ ~DictionaryConfigured
        /\ dictionaryGenesisMatches = TRUE
        /\ dictStartHeight = Undefined
  /\ bypassBlocks = {b \in BypassBlocks : b >= StartHeight}
  /\ templateDs = {}
  /\ dictDs = {}
  /\ pc = "loop"
  /\ query = NoQuery
  /\ dynamicDs = {}
  /\ resetPending = NoReset
  /\ status = "running"
  /\ indexed = <<>>
  /\ queue = <<>>
  /\ latestBufferedHeight = Undefined

Next ==
  \/ FillNextBlockBuffer
  \/ FillNextBlockBufferSpins
  \/ DictionaryResponse
  \/ ProcessBlock
  \/ ResetForNewDs
  \/ ResetForIncorrectBestBlock
  \/ GetFinalizedBlockHead
  \/ GetBestBlockHead
  \/ Shutdown
  \/ CheckBatchScale
  \/ BestAdvance
  \/ ChainAdvance
  \/ DictionaryAdvance
  \/ Finished

Spec == Init /\ [][Next]_vars

(***************************************************************************)
(* Fairness.  The fetch loop re-tests its condition every millisecond      *)
(* (await delay(1)), the dispatcher runs whenever its queue is not empty,  *)
(* the awaited dictionary request and resetForNewDs resolve, the head     *)
(* polls run on setInterval timers, so a poll sent after the head moved    *)
(* eventually records it, and the chain keeps growing and finalizing.  No  *)
(* fairness is assumed for the dictionary's own indexing (a lagging        *)
(* dictionary only sends the loop to the range path), for checkBatchScale, *)
(* for a late poll's stale head or for a shutdown.                         *)
(***************************************************************************)
FairSpec ==
  /\ Spec
  /\ WF_vars(FillNextBlockBuffer)
  /\ WF_vars(DictionaryResponse)
  /\ WF_vars(ProcessBlock)
  /\ WF_vars(ResetForNewDs)
  /\ WF_vars(GetFinalizedBlockHead /\ latestFinalizedHeight' = chainHead)
  /\ WF_vars(GetBestBlockHead /\ latestBestHeight' = bestHead)
  /\ WF_vars(BestAdvance)
  /\ WF_vars(ChainAdvance)

-----------------------------------------------------------------------------
TypeOK ==
  /\ chainHead \in StartHeight..MaxHeight
  /\ dictHeight \in 0..MaxHeight
  /\ latestFinalizedHeight \in (StartHeight..MaxHeight) \cup {Undefined}
  /\ batchSizeScaled \in 0..BatchSize
  /\ dictionaryGenesisMatches \in BOOLEAN
  /\ dictStartHeight \in {DictionaryStartHeight, Undefined}
  /\ bypassBlocks \subseteq BypassBlocks
  /\ templateDs \subseteq dynamicDs /\ dictDs \subseteq dynamicDs
  /\ pc \in {"loop", "dictWait"}
  /\ (pc = "dictWait") = (query # NoQuery)
  /\ dynamicDs \subseteq CreatorHeights
  /\ resetPending \in {NoReset} \cup {c + 1 : c \in CreatorHeights}
  /\ status \in {"running", "fetchFailed", "hung"}
  /\ indexed \in Seq(Nat)
  /\ queue \in Seq(Nat)
  /\ latestBufferedHeight \in Nat \cup {Undefined, NegInfinity}
  /\ unfinalizedBlocks \in BOOLEAN
  /\ bestHead \in chainHead..MaxHeight
  /\ latestBestHeight \in (StartHeight..MaxHeight) \cup {Undefined}
  /\ isShutdown \in BOOLEAN

(* Whether some datasource needs the block at height h: a static handler  *)
(* that matches it, or a handler of a dynamic datasource created at a      *)
(* lower height.                                                           *)
NeededBy(h, dynamicStarts) ==
  \/ h >= StartHeight /\ \E hd \in StaticHandlers : HandlerMatches(hd, h)
  \/ \E c \in dynamicStarts : c < h /\ \E hd \in TemplateHandlers : HandlerMatches(hd, h)

Needed(h) == NeededBy(h, dynamicDs)

(***************************************************************************)
(* No block is skipped: once the fetch loop has buffered up to             *)
(* latestBufferedHeight (and no resetForNewDs is pending), every height    *)
(* from the start up to it that some datasource needs, dynamic datasources *)
(* included, has been indexed or is still buffered, unless it is a bypass  *)
(* block.  It covers the dictionary merge and the modulo shortcut of       *)
(* fillNextBlockBuffer, the await of the dictionary query, and the flush   *)
(* of resetForNewDs.                                                       *)
(***************************************************************************)
NoMissedBlocks ==
  (resetPending = NoReset /\ latestBufferedHeight \in Nat) =>
    \A h \in StartHeight..latestBufferedHeight :
      Needed(h) => h \in ToSet(indexed) \cup ToSet(queue) \cup BypassBlocks

(***************************************************************************)
(* The dispatcher indexes heights in strictly ascending order, so no       *)
(* height is indexed twice (spec 5: heights are indexed in strictly        *)
(* ascending order; spec 3: at most once per pipeline lifetime).  After a  *)
(* fork the store holds only the heights up to the rewind, and the flush   *)
(* must restart the loop just past them.                                   *)
(***************************************************************************)
IndexedAscending == IsSorted(indexed, <)

(* The fetch loop never puts more heights in the dispatcher's queue than   *)
(* its capacity of batchSize * 3 (the freeSize backpressure).              *)
QueueWithinCapacity == Len(queue) <= QueueCapacity

(* fillNextBlockBuffer buffers no height past its target, the finalized   *)
(* head, or the best head in unfinalized mode (spec 4.6 step 3 and         *)
(* scenario 1), so every buffered height has a block of that kind.         *)
EnqueuedBlocksExist ==
  \A h \in ToSet(queue) : h <= IF unfinalizedBlocks THEN bestHead ELSE chainHead

(***************************************************************************)
(* The fetch loop keeps yielding: fillNextBlockBuffer never reaches a      *)
(* start of -Infinity, from which its while loop runs without an await and *)
(* blocks the event loop, so nothing else (dispatcher, polls, shutdown)    *)
(* ever runs again.                                                        *)
(***************************************************************************)
FetchLoopYields == status # "hung"

(* A bypass block is never indexed (network.bypassBlocks).                 *)
BypassNeverIndexed == \A i \in DOMAIN indexed : indexed[i] \notin BypassBlocks

-----------------------------------------------------------------------------
(* The pipeline as the indexer of IndexerSpec: its indexed history and    *)
(* its dynamic datasources, over the heights StartHeight..MaxHeight.       *)
Abstract == INSTANCE IndexerSpec
              WITH Heights <- StartHeight..MaxHeight,
                   created <- dynamicDs,
                   Needed <- NeededBy

(***************************************************************************)
(* Refinement: every block the dispatcher indexes is an IndexBlock step of *)
(* IndexerSpec, so across the dictionary path, the range path, the await   *)
(* of the dictionary query and the flushes of resetForNewDs the indexed    *)
(* history ascends and skips no height some datasource needs.              *)
(***************************************************************************)
IndexerRefinement == Abstract!Safety

(***************************************************************************)
(* Progress: under the fairness of FairSpec, when init's first head polls  *)
(* succeeded (the finalized one, and the best one in unfinalized mode)     *)
(* and the node is not shut down, eventually every height up to MaxHeight that some  *)
(* datasource needs has been indexed: the fetch loop's waits on freeSize   *)
(* and on the finalized head, the dictionary's lag and the flushes never   *)
(* stall it for good.                                                      *)
(***************************************************************************)
IndexerProgress ==
  (/\ latestFinalizedHeight # Undefined
   /\ unfinalizedBlocks => latestBestHeight # Undefined)
    => (<>[](Abstract!Outstanding = {}) \/ <>isShutdown)

=============================================================================
