\* A runtime transaction handler beside a static custom datasource whose
\* processor has a dictionary query: the dictionary is asked for the runtime
\* handler's heights only.
CONSTANTS
  Undefined = Undefined
  NoQuery = NoQuery
  NegInfinity = NegInfinity
  NoReset = NoReset
  BatchSize = 2
  MinimumBatchSize = 5
  StaticHandlers <- CustomStatic
  TemplateHandlers <- NoHandlers
  CreatorHeights <- NoHeights
  BypassBlocks <- NoHeights
  StartHeight = 1
  InitChainHead = 3
  MaxHeight = 6
  ScaleBatchSize = FALSE
  DictionaryConfigured = TRUE
  DictionaryMayMismatch = FALSE
  DictionaryStartHeight = 1
  DictionaryMaxQuerySize = 5
  FirstHeadPollMayFail = FALSE
  UnfinalizedModes <- FinalizedOnly
  MayShutdown = FALSE
  PollsMayReorder = FALSE
  MayFork = FALSE
SPECIFICATION Spec
INVARIANT NoMissedBlocks
