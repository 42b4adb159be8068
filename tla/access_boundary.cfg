SPECIFICATION Spec
CONSTANTS
  Hws <- BothKinds
  Subdevs = {"remote"}
  DmaMax = 2
  MaxNum = 3
  Places = {0, 6}
  Edge = 8
  Crossing = TRUE
  Arguments <- SomeArguments
INVARIANTS NeverBeyondRequest
CHECK_DEADLOCK FALSE
