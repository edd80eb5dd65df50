\* Range path with a dynamic datasource creation and a bypass block.
CONSTANTS
  Undefined = Undefined
  NoQuery = NoQuery
  NegInfinity = NegInfinity
  NoReset = NoReset
  BatchSize = 1
  MinimumBatchSize = 5
  StaticHandlers <- SeqStatic
  TemplateHandlers <- SeqTemplate
  CreatorHeights <- SeqCreators
  BypassBlocks <- SeqBypass
  StartHeight = 1
  InitChainHead = 2
  MaxHeight = 7
  ScaleBatchSize = TRUE
  DictionaryConfigured = FALSE
  DictionaryMayMismatch = FALSE
  DictionaryStartHeight = 1
  DictionaryMaxQuerySize = 3
  FirstHeadPollMayFail = TRUE
  UnfinalizedModes <- EitherMode
  MayShutdown = TRUE
  PollsMayReorder = TRUE
  MayFork = TRUE
SPECIFICATION Spec
INVARIANT TypeOK
INVARIANT NoMissedBlocks
INVARIANT IndexedAscending
INVARIANT FetchLoopYields
