SPECIFICATION Spec
CONSTANTS
  NumBlocks = 3
  Threads = {t1}
  Irq = irq
  Nobody = nobody
  SMP = TRUE
  Calls = {"stop", "wait"}
  AbortMayFail = TRUE
  MaxStarts = 1
INVARIANTS
  TypeOK
  Announced
  NoSilentStop
PROPERTIES
 QueueSpec
