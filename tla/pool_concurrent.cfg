SPECIFICATION Spec
CONSTANTS
  Txs = {"G", "A", "B", "R"}
  Outpoints = {"g1", "g2", "a1", "a2", "b1"}
  Ins <- MCIns
  Source <- MCSource
  NonStandard = {}
  Invalid = {}
  Confirmed = {"G"}
  Backend = "mongodb"
  LiveAccounting = TRUE
  Callers = {c1, c2, c3}
  c1 = c1
  c2 = c2
  c3 = c3
SYMMETRY CallerSymmetry
INVARIANTS
  TypeOK
  NeverMisfires
  ParentsPooled
  ListenersKnowPool
PROPERTIES
  ImplementsPool
CHECK_DEADLOCK FALSE
