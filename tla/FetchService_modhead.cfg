\* Modulo-only project: the shortcut enqueues modulo heights past the head.
CONSTANTS
  Undefined = Undefined
  NoQuery = NoQuery
  NegInfinity = NegInfinity
  NoReset = NoReset
  BatchSize = 2
  MinimumBatchSize = 5
  StaticHandlers <- ModStatic
  TemplateHandlers <- NoHandlers
  CreatorHeights <- NoHeights
  BypassBlocks <- NoHeights
  StartHeight = 1
  InitChainHead = 2
  MaxHeight = 8
  ScaleBatchSize = TRUE
  DictionaryConfigured = FALSE
  DictionaryMayMismatch = FALSE
  DictionaryStartHeight = 1
  DictionaryMaxQuerySize = 3
  FirstHeadPollMayFail = TRUE
  UnfinalizedModes <- FinalizedOnly
  MayShutdown = FALSE
  PollsMayReorder = FALSE
  MayFork = FALSE
SPECIFICATION Spec
INVARIANT EnqueuedBlocksExist
