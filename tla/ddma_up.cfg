SPECIFICATION FairSpec
CONSTANTS
  NumBlocks = 2
  Threads = {t1}
  Irq = irq
  Nobody = nobody
  SMP = FALSE
  Calls = {"stop", "map"}
  AbortMayFail = TRUE
  MaxStarts = 2
INVARIANTS
  EngineInTarget
  RingInOrder
  BlockedMeansFull
  StoppedMeansIdle
PROPERTIES
  FullBlocksAreRead
  BlockedDmaRestarts
