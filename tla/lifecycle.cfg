SPECIFICATION FairSpec
CONSTANTS
  Cards = {c1, c2}
  NoCard = nocard
  MaxCards = 1
  Minors = {1}
INVARIANTS
  HandlerSafe
  ThreadHasCard
  AllOrNothing
  FileHasCard
PROPERTIES
  ExitEnds
CHECK_DEADLOCK FALSE
