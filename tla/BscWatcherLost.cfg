CONSTANTS
  Transfers = {t1}
  Overlap = 1
  Span = 2
  MaxCatchup = 1
  ColdLookback = 1
  Confirmations = 2
  AllowSnap = FALSE
  ReorgDepth = 1
  NodeLag = 1
  NoCursor = NoCursor
  NoPoll = NoPoll
  MaxHead = 5
SPECIFICATION Spec
PROPERTIES SkipsAreRecorded
