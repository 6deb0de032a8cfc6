SPECIFICATION FairSpec
CONSTANTS
  Whole = 100
  FeeBps = 2
  FeeMin = 10
  Reserve = 3
  Margin = 3
  Unpriced = 6
  Subsidy = 31250
  RevealBuffer = 6
  ToMult = 2
  ToBase = 10800
  FromGap = 7200
  MinTo = 10800
  FundingSecs = 3600
  Chain <- MCChain
  Swap = {1, 2}
  Threshold = 1
  MaxGen = 1
  Offer = {o1, o2}
  Cap = 1
  Grace = 1
  Delay = 1
  Tiers = 2
  None = None
  Scenarios <- MCScenarios
INVARIANTS
  FeeIndexOnce
  
  OfferHasSwap
  
  OutlayWithinQuote
  WindowsFit
PROPERTIES
  
  TwinIsReturned
CHECK_DEADLOCK FALSE
