SPECIFICATION FairSpec
CONSTANTS
  a = a
  b = b
  c = c
  Maker = {a, b, c}
  MaxSwaps = 3
  Price <- MCPrice
  MinLot = 2
  MaxActive = 2
  Ttl = 1
  Grace = 0
  RepWindow = 2
  Suspend = 1
  RepHistory = 2
  Retention = 2
  MaxAge = 2
  Ceiling <- MCCeiling
  Stock <- MCStock
  Want = {3, 5}
  Scenarios <- MCScenarios
INVARIANTS
  
  NoMatchLost
  
PROPERTIES
  MatchReachesMaker
  SuspensionEnds
CHECK_DEADLOCK FALSE
