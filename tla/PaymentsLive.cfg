CONSTANTS
  o1 = o1
  o2 = o2
  tron = tron
  bsc = bsc
  Orders = {o1}
  Rails = {bsc}
  Events = {e1, e2}
  RailsOf <- AllRails
  Bases = {10}
  PaidAmounts = {11}
  Required <- MCRequired
  Tries = 2
  FarOffsets = {5}
  Near = 1
  QuoteTTL = 1
  LateWindow = 1
  OrderExpiry <- LongExpiry
  NoRow = NoRow
  NoMatch = NoMatch
  NoTx = NoTx
  MaxQuotes = 1
  MaxTime = 2
  MaxConf = 2
  MaxUsage = 1
SPECIFICATION FairSpec
PROPERTIES LapsedIsReleased InFlightResolves OrderFollowsIntent
