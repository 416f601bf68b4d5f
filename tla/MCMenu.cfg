\* Two inputs, three keys in progress, one resize.
CONSTANTS
  Lines = {"", "a", "b"}
  Blank = ""
  None = None
  Listings <- MCListings
  Windows <- MCWindows
  Keys = {"select-next", "select-prev", "select-left", "select-right", "confirm", "dismiss"}
  MaxInputs = 2
  MaxRequests = 3
  MaxResizes = 1
SPECIFICATION MCSpec
INVARIANTS PendingIsCurrent ScrollIsMinimal
PROPERTIES KeysActInOrder EveryMoveEnds
CHECK_DEADLOCK FALSE
