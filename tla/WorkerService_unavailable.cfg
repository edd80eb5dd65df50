\* The chain has no block at height 2 (a skipped NEAR height): spec 4.7
\* says the worker skips it with blockHash null.
CONSTANTS
  Workers <- MCWorkers
  BatchSize = 2
  Chain <- SkippedChain
  MaxHeight = 4
  ResumeHeight = 1
  CronPeriod = 4  \* slots at 12, 16, 20, ... after the reference 10
  CreatorHeights <- MCCreators
  QueueSize = 2
  MaxCalls = 7    \* MaxHeight + QueueSize: one flush re-requests at most QueueSize heights
  NoBlock = NoBlock
  Absent = Absent
  None = None
SPECIFICATION Spec
INVARIANT NoFatalProcessing
