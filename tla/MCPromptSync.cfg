CONSTANTS
  Lines = {a, b, hidden}
  Excluded = {hidden}
  Names = {n1, n2, bad}
  Refused = {bad}
  None = None
  RetentionCap = 3
  MaxUnacked = 1
  MaxCommands = 4
  MaxRequests = 7
  MaxFaults = 1
SPECIFICATION Spec
INVARIANTS HistoryIsExact WorkerIsInStep
CHECK_DEADLOCK FALSE
