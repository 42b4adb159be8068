SPECIFICATION FairSpec
CONSTANTS
  Remotes = {vme}
  Invalid = invalid
  Files = {f1}
  Users = {u1}
  Thread = thread
  Nobody = nobody
  InitMayFail = FALSE
INVARIANTS
  NeverBlind
  UpIsKnown
  ChangeIsSignalled
  SleeperHasSeen
PROPERTIES
  UpIsFound
