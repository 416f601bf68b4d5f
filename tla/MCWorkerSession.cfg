\* Three inputs, two slots that are replaced, and a history index of two
\* lines that evicts; a response pipe of two that fills up.
CONSTANTS
  MaxId = 3
  Candidates = {c1}
  Namespaces = {n1}
  Lines = {l1, l2}
  RetentionCap = 2
  OutCap = 2
  Nothing = Nothing
  RequestIds = {1}
  Kinds <- MCKinds
  HistoryPayloads <- MCHistoryPayloads
SPECIFICATION MCSpec
INVARIANTS TypeOK ResolvedIsHeld PendingIsUnanswered EventsInInputOrder CaptureAskedFirst
PROPERTIES RefusalChangesNothing HistoryMovesForward PendingInputSettles
CHECK_DEADLOCK FALSE
