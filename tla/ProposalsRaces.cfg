CONSTANTS
  Ids = {p1, p2}
  Keys = {k1}
  Digests = {d1, d2}
  Callers = {c1, c2}
  TTL = 2
  MaxAttempts = 2
  GlobalAttempts = 2
  LimitWindow = 1
  NoProposal = NoProposal
  MaxTime = 3
SPECIFICATION FairSpec
INVARIANTS OneProposalPerKey TrailIsLegal AnswersHold GuessesBounded
PROPERTIES DecidedInTime OutcomeIsFinal ConfirmedIsExecuted
