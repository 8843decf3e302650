SPECIFICATION FairSpec
CONSTANTS
  Clients = {"c1", "c2"}
  Servers = {"s1", "s2"}
  NoConn = "none"
  Dead = "dead"
  Setups <- Networks
  MaxHeight = 3
  BatchLimit = 2
INVARIANTS
  TypeOK
  TickleServed
  NoIdleOrphan
PROPERTIES
  CatchesUp
CHECK_DEADLOCK FALSE
