CONSTANTS
  o1 = o1
  o2 = o2
  tron = tron
  bsc = bsc
  Orders = {o1}
  Rails = {tron, bsc}
  Events = {e1, e2}
  RailsOf <- AllRails
  Bases = {10}
  PaidAmounts = {11}
  Required <- MCRequired
  Tries = 1
  FarOffsets = {5}
  Near = 1
  QuoteTTL = 1
  LateWindow = 1
  OrderExpiry <- ShortExpiry
  NoRow = NoRow
  NoMatch = NoMatch
  NoTx = NoTx
  MaxQuotes = 2
  MaxTime = 2
  MaxConf = 2
  MaxUsage = 2
SPECIFICATION Spec
SYMMETRY Symmetry
INVARIANTS UnpaidHasNoMatch MatchedAmountLocked PaidIsConfirmed SettledByExactMatch
PROPERTIES ReservationMovesForward ImplementsLifecycle
