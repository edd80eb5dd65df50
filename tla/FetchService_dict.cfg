\* Dictionary path: filtered handlers served by the dictionary, which may lag,
\* fail or report another genesis, a bypass block below a datasource creation,
\* and a first head poll that may fail; refinement and progress under FairSpec.
CONSTANTS
  Undefined = Undefined
  NoQuery = NoQuery
  NegInfinity = NegInfinity
  NoReset = NoReset
  BatchSize = 1
  MinimumBatchSize = 5
  StaticHandlers <- DictStatic
  TemplateHandlers <- DictTemplate
  CreatorHeights <- DictCreators
  BypassBlocks <- LiveBypass
  StartHeight = 1
  InitChainHead = 3
  MaxHeight = 8
  ScaleBatchSize = TRUE
  DictionaryConfigured = TRUE
  DictionaryMayMismatch = TRUE
  DictionaryStartHeight = 2
  DictionaryMaxQuerySize = 3
  FirstHeadPollMayFail = TRUE
  UnfinalizedModes <- FinalizedOnly
  MayShutdown = FALSE
  PollsMayReorder = FALSE
  MayFork = FALSE
SPECIFICATION FairSpec
INVARIANT NoMissedBlocks
INVARIANT IndexedAscending
PROPERTY IndexerRefinement
PROPERTY IndexerProgress
