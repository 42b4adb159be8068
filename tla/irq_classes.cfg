SPECIFICATION Spec
CONSTANTS
  f1 = f1
  f2 = f2
  Irqs = {9, 16, 20}
  Masks <- OnlyAll
  AutoMasks <- OnlyAll
  Signals = {FALSE}
  Files = {f1}
  Pid <- OneProcess
INVARIANTS
  SleeperIsWoken
