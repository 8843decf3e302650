SPECIFICATION Spec
CONSTANTS
  Genesis = "G"
  NoBlock = "none"
  Blocks = {"A1", "A2", "B1", "B2"}
  Parent <- MCParent
  Height <- MCHeight
  ChainWork <- SwingWork
  Txs <- MCTxs
  TxsOf <- MCTxsOf
  Outpoints = {"o1", "o2"}
  Spends <- MCSpends
  RecentLimit = 10
  MaxAdds = 4
  MaxPipelines = 2
  MaxRejects = 0
  MaxIoErrors = 1
  MaxCrashes = 1
INVARIANTS
  TypeOK
  RestartFindsTop
  TopStoredUnlessFailed
CHECK_DEADLOCK FALSE
