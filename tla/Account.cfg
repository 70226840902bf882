SPECIFICATION FairSpec
CONSTANTS
  w1 = w1
  w2 = w2
  l1 = l1
  a = a
  b = b
  Wallets <- MCWallets
  Links <- MCLinks
  Chats <- MCChats
  Worlds <- MCWorlds
  MaxAttempts = 2
  MaxCodes = 2
  MaxCalls = 2
  None = None
CHECK_DEADLOCK TRUE
INVARIANTS
  TypeOK
  GuessesBounded
  NamedBeforeOpen
  RecordsKept
  LinkConnectsOnce
PROPERTY
  BusyEnds
