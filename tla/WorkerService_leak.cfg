\* A creation at height 1 flushes the dispatcher while fetch tasks for
\* later heights are still with the workers.
CONSTANTS
  Workers <- MCWorkers
  BatchSize = 2
  Chain <- FullChain
  MaxHeight = 4
  ResumeHeight = 1
  CronPeriod = 4  \* slots at 12, 16, 20, ... after the reference 10
  CreatorHeights <- MCCreators
  QueueSize = 2
  MaxCalls = 7    \* MaxHeight + QueueSize: one flush re-requests at most QueueSize heights
  NoBlock = NoBlock
  Absent = Absent
  None = None
SPECIFICATION Spec
INVARIANT NoOrphanedBlocks
