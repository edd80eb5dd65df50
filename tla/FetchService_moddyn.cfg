\* Modulo-only static datasources and a datasource, created at 2, with a
\* transaction handler.
CONSTANTS
  Undefined = Undefined
  NoQuery = NoQuery
  NegInfinity = NegInfinity
  NoReset = NoReset
  BatchSize = 2
  MinimumBatchSize = 5
  StaticHandlers <- ModStatic
  TemplateHandlers <- ModTemplate
  CreatorHeights <- ModCreators
  BypassBlocks <- NoHeights
  StartHeight = 1
  InitChainHead = 3
  MaxHeight = 6
  ScaleBatchSize = TRUE
  DictionaryConfigured = FALSE
  DictionaryMayMismatch = FALSE
  DictionaryStartHeight = 1
  DictionaryMaxQuerySize = 3
  FirstHeadPollMayFail = TRUE
  UnfinalizedModes <- FinalizedOnly
  MayShutdown = FALSE
  PollsMayReorder = FALSE
  MayFork = FALSE
SPECIFICATION Spec
INVARIANT NoMissedBlocks
