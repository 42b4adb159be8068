SPECIFICATION FairSpec
CONSTANTS
  Hws <- BothKinds
  Subdevs <- SomeSubdevs
  DmaMax = 2
  MaxNum = 3
  Places = {0, 6}
  Edge = 8
  Crossing = FALSE
  Arguments <- SomeArguments
INVARIANTS SuccessIsComplete CountIsMoved SameIn32
PROPERTIES CallEnds
CHECK_DEADLOCK FALSE
