SPECIFICATION Spec
CONSTANTS
  s1 = s1
  s2 = s2
  Swap = {s1, s2}
  Horizon = 7
  GraceMin = 2
  StallMin = 2
  StuckAge = 4
  ReAlert = 3
  FreshFor = 2
  Locktime = 2
  Scenarios <- MCScenarios
INVARIANTS
  RiskIsPaged
  StallIsPaged
PROPERTIES
  NoPageWithinGrace
CHECK_DEADLOCK FALSE
