CONSTANTS
  Transfers = {t1}
  Overlap = 1
  Span = 1
  MaxCatchup = 2
  ColdLookback = 0
  Confirmations = 2
  AllowSnap = TRUE
  ReorgDepth = 1
  NodeLag = 1
  NoCursor = NoCursor
  NoPoll = NoPoll
  MaxHead = 4
SPECIFICATION FairSpec
INVARIANTS NothingSkippedSilently SnapSparesLiveOptions PaidIsDeep
PROPERTIES ReadEventually
