SPECIFICATION FairSpec
CONSTANTS
  Series = {1, 2}
  MaxTicks = 3
  QueueSize = 2
  HighWater = 1
  MaxFaults = 1
  MaxJobs = 2
CHECK_DEADLOCK FALSE
INVARIANTS TypeOK LosslessIsCurrent ChainIsTodays StopDrainsQueue
PROPERTIES  DeathRestartsAll
