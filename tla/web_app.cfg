SPECIFICATION FairSpec
CONSTANTS
  s1 = s1
  s2 = s2
  NoSwap = NoSwap
  Swap = {s1, s2}
  Amount = {1, 2}
  Roles = {"alice", "bob"}
  Scenarios <- MCScenarios
INVARIANTS
  PaidIsResumable

  
  
CHECK_DEADLOCK FALSE
