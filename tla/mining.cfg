SPECIFICATION Spec
CONSTANTS
  Spacing = 2
  Interval = 2
  MedianSpan = 3
  Radix = 4
  Precision = 2
  GenesisTarget = 28
  Chains <- MCChains
  RefreshTime = 0
  FutureTime = 1
  StartTime = 63
  MaxTime = 64
  MaxBlocks = 5
  MaxForeign = 1
  MaxCalls = 3
  MaxSubmits = 1
  MaxQueue = 1
INVARIANTS
  WorkRedeemable
PROPERTIES
  RulesByAncestors
CHECK_DEADLOCK FALSE
