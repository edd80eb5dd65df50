\* Dictionary project whose datasource, created at 3, matches heights the static
\* ones do not, while a dictionary query is in flight.
CONSTANTS
  Undefined = Undefined
  NoQuery = NoQuery
  NegInfinity = NegInfinity
  NoReset = NoReset
  BatchSize = 1
  MinimumBatchSize = 5
  StaticHandlers <- DictStatic
  TemplateHandlers <- StaleDictTemplate
  CreatorHeights <- DictCreators
  BypassBlocks <- NoHeights
  StartHeight = 1
  InitChainHead = 3
  MaxHeight = 8
  ScaleBatchSize = TRUE
  DictionaryConfigured = TRUE
  DictionaryMayMismatch = FALSE
  DictionaryStartHeight = 2
  DictionaryMaxQuerySize = 3
  FirstHeadPollMayFail = TRUE
  UnfinalizedModes <- FinalizedOnly
  MayShutdown = FALSE
  PollsMayReorder = FALSE
  MayFork = FALSE
SPECIFICATION Spec
INVARIANT NoMissedBlocks
