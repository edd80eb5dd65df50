\* The dictionary project of FetchService_dict.cfg, asked whether the fetch
\* loop keeps yielding.
CONSTANTS
  Undefined = Undefined
  NoQuery = NoQuery
  NegInfinity = NegInfinity
  NoReset = NoReset
  BatchSize = 1
  MinimumBatchSize = 5
  StaticHandlers <- DictStatic
  TemplateHandlers <- DictTemplate
  CreatorHeights <- DictCreators
  BypassBlocks <- DictBypass
  StartHeight = 1
  InitChainHead = 3
  MaxHeight = 8
  ScaleBatchSize = TRUE
  DictionaryConfigured = TRUE
  DictionaryMayMismatch = TRUE
  DictionaryStartHeight = 2
  DictionaryMaxQuerySize = 3
  FirstHeadPollMayFail = TRUE
  UnfinalizedModes <- FinalizedOnly
  MayShutdown = FALSE
  PollsMayReorder = FALSE
  MayFork = FALSE
SPECIFICATION Spec
INVARIANT FetchLoopYields
