SPECIFICATION FairSpec
CONSTANTS
  Tick = {t1, t2}
  Request = {p1}
  Tiers = 2
  Scenarios <- MCScenarios
INVARIANTS
  EndIsTrue
PROPERTIES
  CompleteReturns
  ResendReturns
CHECK_DEADLOCK FALSE
