\* Dictionary project with a modulo handler: the dictionary returns only the
\* first `limit` hits while the modulo heights of the whole query range are merged.
CONSTANTS
  Undefined = Undefined
  NoQuery = NoQuery
  NegInfinity = NegInfinity
  NoReset = NoReset
  BatchSize = 2
  MinimumBatchSize = 1
  StaticHandlers <- DictModStatic
  TemplateHandlers <- NoHandlers
  CreatorHeights <- NoHeights
  BypassBlocks <- NoHeights
  StartHeight = 1
  InitChainHead = 3
  MaxHeight = 6
  ScaleBatchSize = TRUE
  DictionaryConfigured = TRUE
  DictionaryMayMismatch = FALSE
  DictionaryStartHeight = 1
  DictionaryMaxQuerySize = 5
  FirstHeadPollMayFail = TRUE
  UnfinalizedModes <- FinalizedOnly
  MayShutdown = FALSE
  PollsMayReorder = FALSE
  MayFork = FALSE
SPECIFICATION Spec
INVARIANT NoMissedBlocks
