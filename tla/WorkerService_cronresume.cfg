\* One worker resumes at height 3 after a halt; its schedule is anchored at
\* height 1 (timestamp 10) and heights 3, 4 have timestamps 21, 22.
CONSTANTS
  Workers <- MCOneWorker
  BatchSize = 2
  Chain <- LateChain
  MaxHeight = 4
  ResumeHeight = 3
  CronPeriod = 4  \* slots at 12, 16, 20, ... after the reference 10
  CreatorHeights <- MCCreators
  QueueSize = 3
  MaxCalls = 7    \* MaxHeight + QueueSize: one flush re-requests at most QueueSize heights
  NoBlock = NoBlock
  Absent = Absent
  None = None
SPECIFICATION Spec
INVARIANT CronOncePerSlot
