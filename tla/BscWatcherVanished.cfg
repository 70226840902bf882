CONSTANTS
  Transfers = {t1}
  Overlap = 1
  Span = 2
  MaxCatchup = 3
  ColdLookback = 2
  Confirmations = 2
  AllowSnap = TRUE
  ReorgDepth = 1
  NodeLag = 1
  NoCursor = NoCursor
  NoPoll = NoPoll
  MaxHead = 7
SPECIFICATION Spec
PROPERTIES VanishedDoesNotSettle
