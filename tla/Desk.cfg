SPECIFICATION FairSpec
CONSTANTS
  m1 = m1
  m2 = m2
  Merchants <- MCMerchants
  Onboarded <- MCOnboarded
  Worlds <- MCWorlds
  Orders = {o1}
  MaxCalls = 2
  None = None
CHECK_DEADLOCK TRUE
INVARIANTS
  EarnedFulfillment
  TenantsApart
PROPERTY
  BusyEnds
