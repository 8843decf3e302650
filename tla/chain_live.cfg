SPECIFICATION FairAloneSpec
CONSTANTS
  Genesis = "G"
  NoBlock = "none"
  Blocks = {"A1", "A2", "B1", "B2"}
  Parent <- MCParent
  Height <- MCHeight
  ChainWork <- SwingWork
  Txs <- MCTxs
  TxsOf <- MCTxsOf
  Outpoints = {"o1", "o2"}
  Spends <- MCSpends
  RecentLimit = 2
  MaxAdds = 4
  MaxPipelines = 2
  MaxRejects = 0
  MaxIoErrors = 0
  MaxCrashes = 0
PROPERTIES
  AddsAnswered
  ImplementsFairChain
CHECK_DEADLOCK FALSE
