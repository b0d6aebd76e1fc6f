SPECIFICATION Spec
CONSTANTS
  a = a
  b = b
  Texts <- MCTexts
  EmptyText <- MCEmptyText
  Prefix <- MCPrefix
  MaxLines = 5
  ClientContext = TRUE
  DebugMode = FALSE
INVARIANTS TypeOK ContentInOrder ContentAccountedFor NothingDroppedOnceResolved DoneComesLast DeliveredWhileWaiting TerminatesForCause DoneEndsRelay
