\* Longer typing over three words, or over the empty one in two environments,
\* on a transport that takes every frame at once.
CONSTANTS
  MaxId = 4
  Words = {none, w1, w2}
  Empty = none
  Envs = {e1, e2}
  OutCap = 3
  MaxCrashes = 0
  MaxFailures = 0
  MaxFlushes = 1
  Delays = {TRUE}
  ChangeKinds <- MCChangeKinds
  Direct <- MCFrames
  Delegated = {}
  Nothing = Nothing
SPECIFICATION MCSpec
INVARIANTS ListingMatchesInput LatchFromThisVisit
CHECK_DEADLOCK FALSE
SYMMETRY WordSymmetry
