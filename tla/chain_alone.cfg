SPECIFICATION AloneSpec
CONSTANTS
  Genesis = "G"
  NoBlock = "none"
  Blocks = {"A1", "A2", "B1", "B2"}
  Parent <- MCParent
  Height <- MCHeight
  ChainWork <- SwingWork
  Txs <- MCTxs
  TxsOf <- MCTxsOf
  Outpoints = {"o1", "o2"}
  Spends <- MCSpends
  RecentLimit = 2
  MaxAdds = 5
  MaxPipelines = 2
  MaxRejects = 2
  MaxIoErrors = 0
  MaxCrashes = 0
INVARIANTS
  FlagTells
  TopIsHeaviest
  ActiveOnMain
  LiveOnMain
  RecentStored
  ParentsStored
  TxsFindable
PROPERTIES
  ImplementsChain
CHECK_DEADLOCK FALSE
