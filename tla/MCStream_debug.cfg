SPECIFICATION Spec
CONSTANTS
  a = a
  b = b
  Texts <- MCTexts
  EmptyText <- MCEmptyText
  Prefix <- MCPrefix
  MaxLines = 3
  ClientContext = FALSE
  DebugMode = TRUE
INVARIANTS DeliveredWhileWaiting
