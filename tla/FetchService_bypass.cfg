\* A range project with a bypass block and a datasource created below it.
CONSTANTS
  Undefined = Undefined
  NoQuery = NoQuery
  NegInfinity = NegInfinity
  NoReset = NoReset
  BatchSize = 1
  MinimumBatchSize = 5
  StaticHandlers <- BypassStatic
  TemplateHandlers <- BypassTemplate
  CreatorHeights <- BypassCreators
  BypassBlocks <- BypassList
  StartHeight = 1
  InitChainHead = 4
  MaxHeight = 5
  ScaleBatchSize = TRUE
  DictionaryConfigured = FALSE
  DictionaryMayMismatch = FALSE
  DictionaryStartHeight = 1
  DictionaryMaxQuerySize = 3
  FirstHeadPollMayFail = TRUE
  UnfinalizedModes <- FinalizedOnly
  MayShutdown = FALSE
  PollsMayReorder = FALSE
  MayFork = FALSE
SPECIFICATION Spec
INVARIANT BypassNeverIndexed
