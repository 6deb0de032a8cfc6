SPECIFICATION Spec
CONSTANTS
  MaxHeight = 8
  MaxDeposits = 1
  MaxDelay = 1
  Drift = 1
  RevealBuffer = 1
  Trusted = {}
  Indexed = FALSE
  MaxLag = 1
  MaxJoin = 1
  BobWaits = TRUE
  StayOpen = TRUE
  Target <- MCTarget
  Window <- MCWindow
  Budgets <- QuietBudgets
INVARIANTS
  RefundedIsOver
