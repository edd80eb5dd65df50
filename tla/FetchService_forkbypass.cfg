\* Unfinalized mode with forks: a bypass block above the finalized head is
\* cleaned by a batch, the fork rewinds below it, and it is indexed.
CONSTANTS
  Undefined = Undefined
  NoQuery = NoQuery
  NegInfinity = NegInfinity
  NoReset = NoReset
  BatchSize = 1
  MinimumBatchSize = 5
  StaticHandlers <- BypassStatic
  TemplateHandlers <- NoHandlers
  CreatorHeights <- NoHeights
  BypassBlocks <- ForkBypassList
  StartHeight = 1
  InitChainHead = 2
  MaxHeight = 7
  ScaleBatchSize = TRUE
  DictionaryConfigured = FALSE
  DictionaryMayMismatch = FALSE
  DictionaryStartHeight = 1
  DictionaryMaxQuerySize = 3
  FirstHeadPollMayFail = TRUE
  UnfinalizedModes <- EitherMode
  MayShutdown = FALSE
  PollsMayReorder = FALSE
  MayFork = TRUE
SPECIFICATION Spec
INVARIANT BypassNeverIndexed
