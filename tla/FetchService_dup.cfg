\* Dictionary project whose transaction hit falls on a modulo height.
CONSTANTS
  Undefined = Undefined
  NoQuery = NoQuery
  NegInfinity = NegInfinity
  NoReset = NoReset
  BatchSize = 1
  MinimumBatchSize = 5
  StaticHandlers <- DupStatic
  TemplateHandlers <- NoHandlers
  CreatorHeights <- NoHeights
  BypassBlocks <- NoHeights
  StartHeight = 1
  InitChainHead = 3
  MaxHeight = 5
  ScaleBatchSize = TRUE
  DictionaryConfigured = TRUE
  DictionaryMayMismatch = FALSE
  DictionaryStartHeight = 1
  DictionaryMaxQuerySize = 3
  FirstHeadPollMayFail = TRUE
  UnfinalizedModes <- FinalizedOnly
  MayShutdown = FALSE
  PollsMayReorder = FALSE
  MayFork = FALSE
SPECIFICATION Spec
INVARIANT IndexedAscending
