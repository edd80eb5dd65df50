\* A dynamic datasource whose template has a modulo block handler: the
\* dictionary accepts its filter, and getModulos never adds its heights.
CONSTANTS
  Undefined = Undefined
  NoQuery = NoQuery
  NegInfinity = NegInfinity
  NoReset = NoReset
  BatchSize = 2
  MinimumBatchSize = 5
  StaticHandlers <- TplModStatic
  TemplateHandlers <- TplModTemplate
  CreatorHeights <- TplModCreators
  BypassBlocks <- NoHeights
  StartHeight = 1
  InitChainHead = 3
  MaxHeight = 6
  ScaleBatchSize = FALSE
  DictionaryConfigured = TRUE
  DictionaryMayMismatch = FALSE
  DictionaryStartHeight = 1
  DictionaryMaxQuerySize = 5
  FirstHeadPollMayFail = FALSE
  UnfinalizedModes <- FinalizedOnly
  MayShutdown = FALSE
  PollsMayReorder = FALSE
  MayFork = FALSE
SPECIFICATION Spec
INVARIANT NoMissedBlocks
