SPECIFICATION Spec
CONSTANTS
  MaxHeight = 7
  MaxDeposits = 2
  MaxDelay = 1
  Drift = 1
  RevealBuffer = 1
  Trusted = {}
  Indexed = TRUE
  MaxLag = 1
  MaxJoin = 1
  BobWaits = TRUE
  StayOpen = TRUE
  Target <- MCTarget
  Window <- MCNarrow
  Budgets <- RestartBudgets
INVARIANTS
  ClaimableIsBuried
  DepositIsWatched
  RecordsAreTrue
  NoOneTakesBoth
PROPERTIES
  RevealInTime
  SequencedFunding
  
  NoRefundAfterReveal
