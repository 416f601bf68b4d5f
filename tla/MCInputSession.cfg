\* Typing, capturing, storing and reusing, over a transport that may stall any frame
\* and a worker that may crash.
CONSTANTS
  MaxId = 3
  Words = {none, w1}
  Empty = none
  Envs = {e1}
  OutCap = 3
  MaxCrashes = 1
  MaxFailures = 1
  MaxFlushes = 1
  Delays = {TRUE, FALSE}
  ChangeKinds <- MCChangeKinds
  Direct <- MCFrames
  Delegated <- MCFrames
  Nothing = Nothing
SPECIFICATION Spec
INVARIANTS TypeOK ListingMatchesInput OneAnswerPerInput TabForCurrent
  LatchHeldUntilReplaced SessionFailsOnlyByCrash
CHECK_DEADLOCK FALSE
