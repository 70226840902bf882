CONSTANTS
  Clients = {c1, c2}
  Codes = {k1}
  Tokens = {t1, t2}
  Requests = {r1, r2}
  ToolCalls = {d1}
  MaxProposals = 1
  None = None
SPECIFICATION Spec
SYMMETRY Symmetry
INVARIANTS ExchangedOnce ConnectionSurvives PaidClaimsAreTrue
