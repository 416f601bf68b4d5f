\* Two inputs, keys pressed between an edit and its listing.
CONSTANTS
  Lines = {"", "a", "b"}
  Blank = ""
  None = None
  Listings <- MCListings
  Windows <- MCOneWindow
  Keys = {"select-next", "select-prev", "confirm", "dismiss"}
  MaxInputs = 2
  MaxRequests = 3
  MaxResizes = 0
SPECIFICATION MCSpec
PROPERTY ListingStartsUnselected
CHECK_DEADLOCK FALSE
