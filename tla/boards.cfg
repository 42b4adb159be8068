SPECIFICATION Spec
CONSTANTS
  MapFiles = {f1, f2}
  MaxBlocks = 2
  MaxPages = 2
  MaxLeak = 2
  PerPage = 2
  AddrLen = 2
  Words = {0, 1}
  MaxWords = 3
  Users = {u1, u2}
  Pids <- SomePids
  Thread = t
  Nobody = nobody
  Lams = {l1, l2}
  Exts = {x1}
  Lines = {o1}
  LocalLines = {o2, o3}
  Led = led
  DspAddrs = 2
  Mixes <- SomeMixes
INVARIANTS
  RingHoldings
  EepromHonest
  OutputsAsCommanded
  DspWordsAreWhole
  ReservedIsEnabled
SYMMETRY Symmetry
