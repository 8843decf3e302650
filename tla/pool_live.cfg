SPECIFICATION FairSpec
CONSTANTS
  Txs = {"G", "A", "B"}
  Outpoints = {"g1", "g2", "a1", "a2", "b1"}
  Ins <- MCIns
  Source <- MCSource
  NonStandard = {}
  Invalid = {}
  Confirmed = {"G"}
  Backend = "mongodb"
  LiveAccounting = FALSE
  Callers = {c1, c2, c3}
  c1 = c1
  c2 = c2
  c3 = c3
INVARIANTS
  WaitersQueued
PROPERTIES
  CallersAnswered
CHECK_DEADLOCK FALSE
