\* The documented effect of Tab before candidates arrive.
CONSTANTS
  MaxId = 3
  Words = {none, w1}
  Empty = none
  Envs = {e1}
  OutCap = 3
  MaxCrashes = 0
  MaxFailures = 0
  MaxFlushes = 1
  Delays = {TRUE}
  ChangeKinds <- MCChangeKinds
  Direct <- MCFrames
  Delegated = {}
  Nothing = Nothing
SPECIFICATION Spec
PROPERTIES TabRecordedUntilListing
CHECK_DEADLOCK FALSE
