---------------------------- MODULE LevelStorage ----------------------------
(* The default storage backend, lib/db/leveldb/storage.js: what it keeps on  *)
(* disk, what it keeps in memory (metadata, currentBatch) and the effect of  *)
(* each write the block chain issues.  A write is applied when its callback  *)
(* is due; BlockChain.tla decides when that is, since LevelDB runs the       *)
(* operations of one process on a pool of threads and orders none of them.   *)
EXTENDS BlockTree

CONSTANTS
  Txs,        \* the transactions blocks may hold (coinbases left out)
  TxsOf,      \* TxsOf[b]: the transactions of block b
  Outpoints,  \* the outputs those transactions may spend
  Spends      \* Spends[t]: the outputs that transaction t spends

(* The genesis block holds one transaction, its coinbase (init() gives it    *)
(* genesisBlockTx), which is left out like every other coinbase.             *)
ASSUME TxAssumption ==
  /\ TxsOf \in [AllBlocks -> SUBSET Txs]
  /\ TxsOf[Genesis] = {}
  /\ Spends \in [Txs -> SUBSET Outpoints]

VARIABLES
  dbBlock,      \* main.db, hash -> block: "none", or its active flag
  dbHeight,     \* main.db, height key -> hash
  dbChainHeight,\* main.db, the metadata record chainHeight
  dbTx,         \* main.db, the transactions saved
  dbSpent,      \* main.db, the outpoints recorded as spent
  chainHeight,  \* metadata.chainHeight, the copy in memory
  currentBatch  \* the one open write batch of the storage object

diskVars == <<dbBlock, dbHeight, dbChainHeight, dbTx, dbSpent>>
storageVars == <<diskVars, chainHeight, currentBatch>>

Flags == {"none", "active", "inactive"}

(* A write batch by its net effect: what it puts and what it deletes.        *)
Batches == [txs : SUBSET Txs, spend : SUBSET Outpoints, unspend : SUBSET Outpoints]
EmptyBatch == [txs |-> {}, spend |-> {}, unspend |-> {}]

SpentBy(txs) == UNION {Spends[t] : t \in txs}

PushTransactions(batch, txs) == [batch EXCEPT !.txs = @ \cup txs]

PushConnect(batch, txs) ==
  [batch EXCEPT !.spend = @ \cup SpentBy(txs), !.unspend = @ \ SpentBy(txs)]

PushDisconnect(batch, txs) ==
  [batch EXCEPT !.spend = @ \ SpentBy(txs), !.unspend = @ \cup SpentBy(txs)]

StorageInit ==
  /\ dbBlock = [b \in AllBlocks |-> IF b = Genesis THEN "active" ELSE "none"]
  /\ dbHeight = [h \in Heights |-> IF h = 0 THEN Genesis ELSE NoBlock]
  /\ dbChainHeight = 0
  /\ dbTx = {}
  /\ dbSpent = {}
  /\ chainHeight = 0
  /\ currentBatch = EmptyBatch

Stored(b) == dbBlock[b] # "none"

(* The two puts of saveBlock, and the effect of the other writes.            *)
PutBlock(b, active) ==
  dbBlock' = [dbBlock EXCEPT ![b] = IF active THEN "active" ELSE "inactive"]

PutHeight(b) == dbHeight' = [dbHeight EXCEPT ![Height[b]] = b]

ApplyBatch(batch) ==
  /\ dbTx' = dbTx \cup batch.txs
  /\ dbSpent' = (dbSpent \ batch.unspend) \cup batch.spend

(* saveBlock records a new chain height only for an active block above it.   *)
RaisesChainHeight(b, active) == active /\ chainHeight < Height[b]

(* getTopBlock at start-up: the block indexed at the recorded height.        *)
TopOnDisk == dbHeight[dbChainHeight]

StorageTypeOK ==
  /\ dbBlock \in [AllBlocks -> Flags]
  /\ dbHeight \in [Heights -> AllBlocks \cup {NoBlock}]
  /\ dbChainHeight \in Heights
  /\ dbTx \in SUBSET Txs
  /\ dbSpent \in SUBSET Outpoints
  /\ chainHeight \in Heights
  /\ currentBatch \in Batches
=============================================================================
