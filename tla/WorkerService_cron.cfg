\* Two workers, each with its own copy of the cron schedule, index heights
\* 1..4 (timestamps 10, 13, 14, 15) under a filter whose slots are 12, 16, ...
CONSTANTS
  Workers <- MCWorkers
  BatchSize = 2
  Chain <- FullChain
  MaxHeight = 4
  ResumeHeight = 1
  CronPeriod = 4  \* slots at 12, 16, 20, ... after the reference 10
  CreatorHeights <- MCCreators
  QueueSize = 3
  MaxCalls = 7    \* MaxHeight + QueueSize: one flush re-requests at most QueueSize heights
  NoBlock = NoBlock
  Absent = Absent
  None = None
SPECIFICATION Spec
INVARIANT CronOncePerSlot
