CONSTANTS
  Nets = {tron, bsc}
  Flaky = {bsc}
  Given = {"PAID", "EXPIRED"}
  MaxCalls = 2
  MaxQuotes = 2
  None = None
SPECIFICATION FairSpec
INVARIANTS SupersededNeverOffered DetailsComeFirst
PROPERTIES StopIsNoticed
