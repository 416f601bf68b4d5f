\* Every input gets its listing and every recorded Tab its effect.
CONSTANTS
  MaxId = 3
  Words = {none, w1}
  Empty = none
  Envs = {e1}
  OutCap = 3
  MaxCrashes = 1
  MaxFailures = 0
  MaxFlushes = 1
  Delays = {TRUE}
  ChangeKinds <- MCChangeKinds
  Direct <- MCFrames
  Delegated = {"store"}
  Nothing = Nothing
SPECIFICATION FairSpec
PROPERTIES ListingArrives TabResolves
CHECK_DEADLOCK FALSE
