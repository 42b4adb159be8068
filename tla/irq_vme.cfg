SPECIFICATION FairSpec
CONSTANTS
  f1 = f1
  f2 = f2
  Irqs = {5}
  Masks <- EachOne
  AutoMasks <- NoneOrAll
  Signals = {FALSE}
  Files = {f1, f2}
  Pid <- TwoProcesses
INVARIANTS
  OwnersExclusive
  ReservedIsAlive
  UnownedIsBlocked
PROPERTIES
  LevelWakesSleeper
