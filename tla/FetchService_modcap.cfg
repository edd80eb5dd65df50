\* Modulo-only project with a minimum batch below batchSize: the shortcut
\* enqueues batchSize heights whatever the free room.
CONSTANTS
  Undefined = Undefined
  NoQuery = NoQuery
  NegInfinity = NegInfinity
  NoReset = NoReset
  BatchSize = 2
  MinimumBatchSize = 1
  StaticHandlers <- ModEveryStatic
  TemplateHandlers <- NoHandlers
  CreatorHeights <- NoHeights
  BypassBlocks <- NoHeights
  StartHeight = 1
  InitChainHead = 8
  MaxHeight = 8
  ScaleBatchSize = TRUE
  DictionaryConfigured = FALSE
  DictionaryMayMismatch = FALSE
  DictionaryStartHeight = 1
  DictionaryMaxQuerySize = 3
  FirstHeadPollMayFail = TRUE
  UnfinalizedModes <- FinalizedOnly
  MayShutdown = FALSE
  PollsMayReorder = FALSE
  MayFork = FALSE
SPECIFICATION Spec
INVARIANT QueueWithinCapacity
