\* Modulo-only project: every handler is a block handler with a modulo, so
\* the loop enqueues batchSize heights that 2 or 3 divides; one is a bypass block.
CONSTANTS
  Undefined = Undefined
  NoQuery = NoQuery
  NegInfinity = NegInfinity
  NoReset = NoReset
  BatchSize = 2
  MinimumBatchSize = 5
  StaticHandlers <- ModPassStatic
  TemplateHandlers <- NoHandlers
  CreatorHeights <- NoHeights
  BypassBlocks <- ModBypass
  StartHeight = 1
  InitChainHead = 2
  MaxHeight = 8
  ScaleBatchSize = TRUE
  DictionaryConfigured = FALSE
  DictionaryMayMismatch = FALSE
  DictionaryStartHeight = 2
  DictionaryMaxQuerySize = 3
  FirstHeadPollMayFail = TRUE
  UnfinalizedModes <- EitherMode
  MayShutdown = TRUE
  PollsMayReorder = TRUE
  MayFork = TRUE
SPECIFICATION Spec
INVARIANT NoMissedBlocks
INVARIANT IndexedAscending
