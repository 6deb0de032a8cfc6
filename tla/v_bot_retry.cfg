SPECIFICATION Spec
CONSTANTS
  Swap = {w1}
  Attempts = 3
  Budget <- RetryBudget
INVARIANTS
  NeverStranded
CHECK_DEADLOCK FALSE
