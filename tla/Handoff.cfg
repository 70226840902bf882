CONSTANTS
  Options = {t1, b1}
  Tron = {t1}
  WithUri = {b1}
  Devices <- MCDevices
  Attempts = {a1, a2}
  Providers = {p1, p2}
  None = None
SPECIFICATION FairSpec
INVARIANTS TypeOK PreferenceFitsNetwork
PROPERTIES BrokenIsReplaced
