SPECIFICATION FairSpec
CONSTANTS
  MaxHeight = 7
  MaxDeposits = 1
  MaxDelay = 1
  Drift = 1
  RevealBuffer = 1
  Trusted = {}
  Indexed = FALSE
  MaxLag = 1
  MaxJoin = 1
  BobWaits = FALSE
  StayOpen = TRUE
  Target <- MCTarget
  Window <- MCNarrow
  Budgets <- ArmedBudgets
INVARIANTS
  CompleteMeansClaimed
PROPERTIES
  RevealWhenBuried
  ImplementsAtomicSwap
  SoloRefund
  ArmedCompletes
