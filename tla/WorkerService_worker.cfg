\* Two workers of fetch concurrency 2, four heights of which the first
\* creates a datasource, and a memory lock that comes and goes.
CONSTANTS
  Workers <- MCWorkers
  BatchSize = 2
  Chain <- FullChain
  MaxHeight = 4
  ResumeHeight = 1
  CronPeriod = 4  \* slots at 12, 16, 20, ... after the reference 10
  CreatorHeights <- MCCreators
  QueueSize = 3
  MaxCalls = 7    \* MaxHeight + QueueSize: one flush re-requests at most QueueSize heights
  NoBlock = NoBlock
  Absent = Absent
  None = None
SPECIFICATION FairSpec
INVARIANT TypeOK
INVARIANT FetchedBlocksAssembled
INVARIANT NoFatalProcessing
INVARIANT CronMatchesAfterSlot
PROPERTY EventuallyAllIndexed
