SPECIFICATION Spec
CONSTANTS
  Txs = {"G", "A", "R", "B", "D", "X"}
  Outpoints = {"g1", "g2", "a1", "a2", "b1"}
  Ins <- MCIns
  Source <- MCSource
  NonStandard = {"X"}
  Invalid = {"R"}
  Confirmed = {"G"}
  Backend = "leveldb"
  LiveAccounting = TRUE
  Callers = {c1, c2, c3}
  c1 = c1
  c2 = c2
  c3 = c3
SYMMETRY CallerSymmetry
INVARIANTS
  NeverMisfires
CHECK_DEADLOCK FALSE
