SPECIFICATION FairSpec
CONSTANTS
  Versions = {70000}
  MaxSent <- TwoAndOne
  MaxGarbage = 1
INVARIANTS
  TypeOK
  DeliversInOrder
  ActiveWhenHeard
  ThrowsOnlyOnGarbage
PROPERTIES
  Delivered
CHECK_DEADLOCK FALSE
