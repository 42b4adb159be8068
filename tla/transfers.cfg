SPECIFICATION FairSpec
CONSTANTS
  Users = {u1}
  Nobody = nobody
  FifoLen = 2
  PipeLen = 1
  MaxLosses = 1
  MaxLeft = 0
  SMP = FALSE
INVARIANTS
  TypeOK
  NoLateData
  WriteIsConfirmed
  FifoSuffices
PROPERTIES
  ReadEnds
  TransferEnds
