SPECIFICATION FairSpec
CONSTANTS
  MaxHeight = 7
  MaxDeposits = 1
  MaxDelay = 1
  Drift = 1
  RevealBuffer = 1
  Trusted = {}
  Indexed = FALSE
  MaxLag = 1
  MaxJoin = 1
  BobWaits = TRUE
  StayOpen = FALSE
  Target <- MCTarget
  Window <- MCWindow
  Budgets <- FaultBudgets
PROPERTIES
  DroppedClaimReturns
