SPECIFICATION FairSpec
CONSTANTS
  Swap = {w1}
  Attempts = 3
  Budget <- BotBudget
INVARIANTS
  KeyIsStored
  FundsOnce
  FundsBehindPeer
PROPERTIES
  LockedIsRecovered
CHECK_DEADLOCK FALSE
