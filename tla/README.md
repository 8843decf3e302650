# A TLA+ verification of node-jds

node-jds is a Bitcoin full node written in JavaScript for Node.js: it downloads
blocks from peers, verifies them, stores the heaviest chain, keeps a memory pool
and answers RPC calls. This directory holds TLA+ modules translated from its
source, the TLC configurations that check them on small instances, and proofs
that TLAPS checks for every value of the constants.

    tlc -config chain_alone.cfg MCBlockChain          # one run
    tlc -config pool_concurrent.cfg MCTransactionStore
    tlapm BlockChainProofs.tla                        # the proofs

## 1. The system

JavaScript runs one callback at a time and to completion; everything
asynchronous (database, sockets, timers, signature checks) ends in a callback.
So the steps of every model are "what runs between two callbacks", and all
concurrency is the order in which callbacks arrive.

| component | source | state | operations | hard parts |
|---|---|---|---|---|
| Block chain pipeline | `lib/blockchain.js` | top block, `isProcessing`, queue, indexes of connecting and recent blocks, the pipelines at work | `add`, `processBlock`, `connectBlock`, `reorganize`, `init` | overlapping pipelines, reorganisations, orphans, failures half-way |
| Storage | `lib/db/leveldb/storage.js` (default), mongo, kyoto, tokyo, levelup | records, height index, metadata, one shared open batch | `saveBlock`, `saveTransactions`, `connectTransactions`, queries | callbacks called twice, writes that are not atomic, crash between them |
| Transaction store | `lib/transactionstore.js`, `transactionmap.js` | `txIndex`, waiting callbacks, orphans by missing input, key index | `add`, `find`, `remove`, `handleTxAdd` | verification overlapping with removal, orphans, callbacks called twice |
| Transaction sender | `lib/transactionsender.js` | list to rebroadcast, timer | `handleBlock` | timers |
| Block chain manager | `lib/blockchainmanager.js`, `blocklocator.js` | the current download, timers | `startDownload`, `handleInv`, `handleQueueDone` | one download at a time, timeouts racing answers |
| Peers, connections | `lib/peermanager.js`, `peer.js`, `connection.js`, `parser.js` | peers, pending connections, handshake flags, receive buffer | connect, handshake, framing | partial messages, disconnects at any point |
| Node | `lib/node.js` | state of the node | start-up, serving `getdata`, `getblocks`, relaying | order of start-up, handlers that read during a reorganisation |
| Blocks and transactions | `lib/schema/*.js`, `util.js` | none (pure) | `attachTo`, `verifyChild`, merkle tree, difficulty, signature hash | boundaries, byte order |
| Script interpreter | `lib/script.js`, `scriptinterpreter.js`, `opcode.js` | stacks, program counter | `step`, `verify` | asynchronous steps, nesting of conditionals |
| RPC, miner | `lib/rpc/*.js`, `lib/miner` | `getwork`: the shared block, a cache of work | `getwork`, `get*` | one block object shared by all callers and by the chain |
| Exit module | `mods/exit` | chains of keys, cache | tracking accounts | events during a cache fill |
| Daemon, tools, native keys, bootstrap | `daemon`, `bin`, `src`, `lib/bootstrap` | none | | I/O and cryptography |

How they interact: peers hand blocks to the node, which calls `BlockChain.add`
and hands transactions to `TransactionStore.add`; the block chain emits
`txAdd`, `txRevoke`, `blockSave` and `queueDone`, on which the transaction store
removes transactions, the manager asks for more blocks, and the exit module
books accounts; RPC calls read the chain and the store.

What makes each correct, in short: the block chain follows the heaviest valid
chain it knows, disk and memory agree whenever nothing is in progress, and a
restart finds a usable top block; every caller is answered; the store never
keeps a transaction that a block has included or contradicted; the manager
always has a download going when there is something to download; a connection
accepts messages only after the handshake and survives any split of the byte
stream; pure functions agree with their definitions.

## 2. Plan

| # | module | composes | abstract specification | status |
|---|---|---|---|---|
| 1 | `BlockTree`, `BlockIndexes`, `LevelStorage`, `BlockChain` | the first three are parts of the last | `HeaviestChain` | written, checked; all safety properties and the refinement proved, most of them for behaviours in which no two pipelines overlap |
| 2 | `TransactionStore` | events of the block chain as external actions | `MemoryPool` | written, checked; all safety properties and the refinement proved |
| 3 | `BlockDownload` | block chain manager, both ends' handlers in `node.js`, a reduced block chain | the client catches up | written, checked; all safety properties proved |
| 4 | `PeerManager` | the node's states | the node stays connected | written, checked; all safety properties proved |
| 5 | `Connection` | two connections and the streams between them | byte stream = sequence of messages | written, checked; all safety properties proved |
| 6 | `ScriptInterpreter` | | `ScriptMeaning`, a recursive definition of what scripts mean | written, checked; all safety properties but the agreement with `ScriptMeaning` proved |
| 7 | `BlockRules`, `GetWork` | the second has the first's rules on both sides: where work is made and where a block is verified | the rules by a block's own ancestors | written, checked |

Left, in this order of interest: Merkle trees and the signature hash as
functions; the queries of `LevelStorage` (`getBlockSlice`); relaying of
transactions and `getheaders`; the exit module's cache of events.

The theorem worth proving next is `AnswersMeaning`, that the interpreter answers what
`ScriptMeaning` says. It asks for an induction over scripts in which conditionals
are unfolded and the keys assigned to signatures one by one (section 5).

## 3. The modules

* `BlockTree` — the tree of blocks: parent, height and chain work as functions
  of the block, as `attachTo` computes them.
* `BlockIndexes` — the indexes of connecting and recent blocks, as operators.
* `LevelStorage` — what is on disk, the metadata in memory, the open batch, and
  the effect of each write.
* `BlockChain` — the pipeline. `add` is the action `Add`; a pipeline is a slot
  whose `pc` says what it waits for:

  | `pc` | waits for | code |
  |---|---|---|
  | `getPrev`, `getSelf` | the two reads of `connectBlock` | `GetPrev`, `Discard`, `ConnectToStored`, `BecomeOrphan` |
  | `verifyChild` | `Block.verifyChild` | `VerifyChild`, `Reject` |
  | `verifyBlock` | inputs and scripts | `VerifyBlock`, `Reorganize`, `Reject` |
  | `findFork` | a parent of one of the two cursors | `FindFork`, `FindForkError` |
  | `reorgTxs`, `reorgAffects` | transactions of a block, index of addresses | `DisconnectTransactions`, `ReconnectTransactions` |
  | `reorgPut`, `reorgHeight`, `reorgIdx` | the writes of `saveBlock` during a reorganisation | `ReorgPut`, `ReorgHeight`, `ReorgSaved`, `ReorgError` |
  | `put`, `height` | the first two writes of `saveBlock` | `Put`, `PutHeightKey` |
  | `tail` | any of the operations in `io` | `TailConnect`, `TailEnd`, `TailFinalize` |

  The place `tail` is where the code is subtle. `saveBlock` of the storage calls
  its callback once when the metadata is written and once more when the
  transaction index is, and each call runs the next step of the pipeline. The
  model therefore has a set of outstanding operations (`io`) and the next step
  (`step`); any operation that ends runs it. Those left when the last step has
  run end later (`lateMeta`, `lateBatch`).

  `process.nextTick` runs before any other event, so every other action waits
  for `tick = NoBw`.
* `HeaviestChain` — what the block chain promises: learn a block after its
  parent, follow a child of the best block, adopt a heavier block, drop a refused
  one that nothing is built on.
* `MCBlockChain` — the trees used by the runs.
* `BlockChainProofs` — the theorems about `BlockChain` in two parts: those that
  hold however pipelines overlap, and those about behaviours without overlap
  (`AloneSpec`), some of which need that nothing crashes, with the refinement of
  `HeaviestChain`.

  `Spec` lets a block arrive at any moment, as `node.js` does. `AloneSpec` leaves out
  one step of it (`AddAlone`): the arrival of a block that starts a second pipeline,
  which only happens in the window between the end of a
  reorganisation, which clears `isProcessing`, and the end of the pipeline that asked
  for it. Blocks still arrive at all other moments, wait in the queue, form orphan
  chains and are taken up on the next tick.
* `TransactionStore` — the memory pool and the verification it drives. The entry
  `txIndex[hash]` is a queue of callbacks while the transaction is verified and
  the transaction afterwards; the model keeps the two apart (`txIndex`, `queue`).
  A verification (`job[t].at`) waits for

  | `at` | waits for | code |
  |---|---|---|
  | `findMem` | its inputs that are verified now (`waits`) | `RunInput` |
  | `findChain` | `getOutputsByHashes` | `InputsFound`, `BecomeOrphan` |
  | `scripts` | the script interpreter | `ScriptsRight`, `ScriptsWrong` |
  | `count` | `countConflictingTransactions` | `NoConflict`, `CountFails`, `LookForSpender` |
  | `spender` | `getConflictingTransactions` | `SpenderIsItself`, `SpenderIsAnother` |

  The end of a verification runs the callbacks of its queue, one of which may end
  another verification, whose callbacks run inside. `calls` is that nest as a
  stack of what is still to run, callbacks and the statements behind them
  (`added`, `retry`, `notify`); `RunNext` runs its head, and every other action
  waits until it is empty, because nothing of the event loop runs in between. An
  exception in `remove` clears the stack. The block chain appears as three steps.
  `ConnectTx` is `txAdd`, of a block of the main chain. `SaveTx` is the storing of a
  block's transactions: on MongoDB `saveTransactions` comes before `txAdd`, and with
  it their outputs and spends are in the database at once, since conflicts are looked
  for in the transactions themselves; on LevelDB it is the batch of a side chain's
  block. `SaveSpends` is LevelDB's list of spent outputs, written after `txAdd`;
  MongoDB has none (`connectTransactions` does nothing there).
* `MemoryPool` — what the store promises: transactions enter when they are
  valid, their parents are pooled or stored with a block and no stored transaction
  is a rival; they leave when they are confirmed.
* `MCTransactionStore` — the transactions used by the runs.
* `TransactionStoreProofs` — the theorems about `TransactionStore`.

* `BlockDownload` — several clients that download from several servers. A block
  is its height on the chain all servers follow. For each client `bcm` is its
  `BlockChainManager`: the current download with its place, connection and
  locator, and the hash kept while the queue is busy (`tickle`); `chain` is what
  the download sees of the block chain. `Locate`, `LocatorFails`, `NoConnection`
  are the answer to the locator's look-up, `Timeout` and `Disconnect` end a
  download, `ReceiveInv`, `AnswerChecks`, `ReceiveBlock` are the client's
  handlers, `ServeGetBlocks`, `ServeGetData`, `SendBlock`, `Announce` the
  server's; `ConnectBlock` and `SaveBlock` move the client's chain, and the end
  of its queue runs `HandleQueueDone`.
* `PeerManager` — start-up and connections. `Start` and `InitComplete` lead to
  `enable`; `PingStatus` is the timer with `checkStatus`, of which `timers`
  counts the loops; `HandleReady`, `Refused` and `Lost` are the ends of an
  attempt, with the fall-back from a local node (`FallBack`) and the proxy mode
  (`BecomeProxy`); `BootstrapFound`, `HandleAddr` and `Inbound` bring peers.
* `Connection` — the two ends of a connection. `HandleData` appends any part of
  the stream to the buffer and runs `ProcessData`, the parser. `Round` is one call
  of processData: skip to the magic number, read the header with or without a
  checksum, wait for the rest, call the handlers; `ProcessData` repeats it.
  `HandleMessage` is the handshake. The buffer keeps the tokens
  that `Buffers.skip` and `splice` leave.
* `ScriptInterpreter` — one action per way a chunk is run: pushed, skipped,
  refused, a conditional, computed at once (`Execute`, with `Compute` for what
  each opcode does), or a check of signatures, which ends in `SigChecked` or
  `SigsChecked` later. `SecondScript` is the second half of `evalTwo`.
* `ScriptMeaning` — what the same scripts mean, without a machine: conditionals
  unfolded to the branch taken, limits read off the text, signatures assigned
  to keys in order.
* `ScriptInterpreterProofs` — the theorems about `ScriptInterpreter`.
* `BlockRules` — compact targets, work, median time, the bits of the next block, of
  whichever blocks are found.
* `GetWork` — `getwork` without data (`CallPreparing`, `CallAgain`,
  `MedianTimeKnown`, `Prepared`) and with it (`Submit`, `SubmitWrong`), on the one
  block object they share; the block's way through the chain is `add`, `ReadParent`,
  `VerifyBits`, `VerifyTime` (it becomes the top in memory), and `Save` or `Refuse`;
  `Offer` is a block of another node. The blocks that the rules look at are found by
  their height: on LevelDB by `keys`, which every block that is saved overwrites,
  side chains included, on MongoDB among the active blocks, for one height, or all
  blocks, for several.
* `BlockDownloadProofs`, `PeerManagerProofs`, `ConnectionProofs` — the theorems about
  these; `LoopProofs` has the lemmas on loops that the first and the last of them and
  `ScriptInterpreterProofs` need.
* `MCBlockDownload`, `MCPeerManager`, `MCConnection`, `MCScript`, `MCGetWork` —
  the instances of the runs.

A definition whose name extends the name of the one below it (`DequeueShort`
above `Dequeue`) is a faulty variant that no specification uses. It makes the
mistake a change of the code could make, and one property of a run detects it
when it is put in place of the real one:

| variant | the mistake | detected by |
|---|---|---|
| `AnswerForwarded` | "orphan" and "discard" reach the caller | `TypeOK` |
| `NeedsReorganizeTwo` | a side chain must win by two | `TopIsHeaviest`, `ImplementsFairChain` |
| `ReorgFlagOn` | `block.active` is not cleared on disconnection | `ActiveOnMain` |
| `RevokedNone` | `txRevoke` is not emitted | `LiveOnMain` |
| `RecentRemoveNone` | a failed block stays "recently added" | `RecentStored` |
| `RollbackNone` | the top is not given back after a failure | `ImplementsChain` |
| `ReorgReleaseEarly` | a reorganisation clears `isProcessing` after every block | `FlagTells` |
| `VerifyBlockNoRecord` | the height is entered without the record | `RestartFindsTop`, `TopStoredUnlessFailed` |
| `ParentFoundAlways` | a missing parent is taken as found | `ParentsStored` |
| `EndTransactionEmpty` | an empty batch is written | `TxsFindable` |
| `DequeueShort` | the last block of the queue is forgotten | `AddsAnswered` |
| `CallsOfSwapped` | the callbacks are called with the transaction as the error | `TypeOK` |
| `RemoveAtOnce` | a transaction is removed while it is verified | `NeverMisfires` |
| `RunInputAnyway` | the error of an input is not looked at | `ParentsPooled` |
| `RemoveThrowsNever` | a removal goes on without the affected keys | `ListenersKnowPool` |
| `RemoveThrowsAlways` | ... and needs them without live accounting | `WaitersQueued` |
| `CountConflictsNone` | conflicts are not looked for | `ImplementsPool` |
| `FailSilent` | a failed verification calls nobody | `CallersAnswered` |
| `StopAtBeyondEnd` | an answer to `getblocks` runs one block past the end | `TypeOK` of `BlockDownload` |
| `HandleQueueDoneKeepsTickle` | the hash that was kept is used and kept | `TickleServed` |
| `ChildrenDropped` | orphans are not tried behind their parent | `NoIdleOrphan` |
| `TimeoutRestartsAtOnce` | a timeout starts the next download before the old one is closed | `CatchesUp` |
| `FallBackKeepsTrying` | the fall-back does not end the trying | `TypeOK` of `PeerManager` |
| `HandleDisconnectOfAll` | every lost connection counts as the last | `ActiveStartsDownload` |
| `BecomeProxyOnly` | a proxy keeps the peers it knew | `ProxyStaysLocal` |
| `FallBackForgetsForced` | the fall-back forgets the forced peers | `StaysConnected` |
| `HandleVerackOfVersion` | the handshake ends with the version, not the verack | `TypeOK` of `Connection` |
| `MessageKept` | a message stays in the buffer when it is handled | `DeliversInOrder` |
| `HandleVersionActive` | a connection is active before the other end heard it | `ActiveWhenHeard` |
| `HandleVersionLateVerack` | the verack is sent in the new format | `ThrowsOnlyOnGarbage` |
| `ExpectChecksumsAtOnce` | checksums are expected from the version on | `Delivered` |
| `ProceedByStack` | the limit looks at one of the stacks | `TypeOK` of `ScriptInterpreter` |
| `ElseOfActive` | OP_ELSE is skipped in inactive branches | `AnswersMeaning` |
| `SecondScriptKeepsSeparator` | the second script begins behind the separator of the first | `SignsOwnScript` |
| `SwappedWithoutTmp` | a swap overwrites one of the two | `ComputesAsPictured` |
| `prepareNextBlockBehindTop` | bits are asked for the wrong parent | `WorkRedeemable` |
| `getNextWorkOfLater` | blocks are looked up one height too high | `RulesByAncestors` |

## 4. The runs

Bounds are constants of `BlockChain` (`MaxAdds`, `MaxPipelines`, `MaxRejects`,
`MaxIoErrors`, `MaxCrashes`, `RecentLimit`) and the tree. The tree is two branches of
two blocks from the genesis block, the smallest in which a reorganisation
disconnects a block and connects one before its own, with weights (`SwingWork`) that
make the branches take turns, A1, then B2, then A2, so that a block disconnected is
connected again. `chain_alone` has five calls of `add`, every order of arrival of
four blocks and one of them offered twice, two refusals, and a recent index of two
entries, which forgets; two slots are one more than a behaviour without overlap can
use. `chain_faults` has four calls, with which never more than two pipelines overlap,
one database error and one crash at any step, which can end a pipeline inside another; `chain_live` has four
calls. Deadlock checking is off: the system stops when nobody adds a block.

For the store they are the transactions and `Callers`, each of which calls `add`
or `get` once. G is confirmed and has two outputs; A and its rival R spend the
first, B spends an output of A, C one of B, D one of A and one of B, X is not
standard. Three callers suffice for a transaction, a child waiting for it and a
third party of either, or for a transaction that is added again after it failed,
while any of them is confirmed at any moment. A chain of three with a transaction
of two inputs is in `pool_leveldb`. Deadlock checking is off: the system stops
when the callers are used up.

`download` starts from six networks: one client and one server two or three
blocks high, on either database, a choice of two servers, and two clients of one
server. Batches of two hashes and three blocks make a download take two batches
and grow while it runs; one lost connection and one timeout that comes while
answers are on their way meet it at every step. `peers` starts from ten settings
(`auto`, `p2p`, one host, none) of five hosts: one local, two that answer, one
that accepts and says nothing, one that refuses; three connections are wanted,
two are lost. `wire` has nodes of one version with checksums that send two
messages and one, connected to each other or one to itself; the stream is cut
anywhere, and one token of garbage may come between two messages, which is enough
to meet every place of the scan. `script` runs some 17000 pairs of scripts, a
set for each part of the language, with limits small enough to be met and passed
(40 bytes, 9 opcodes, 9 elements). `mining` has a chain of three blocks, the last of
which begins a period of two, so that the next block looks back to it and the one
behind that is made by other rules; three calls for work, waiting or answered, at two
moments, one solution, right or wrong, one block of another node behind any block but
the genesis block, which may be a rival of the top, and one block on its way at a
time, with either database on either network.
`download`, `wire` and `mining` may stop; `peers` and `script` are checked for
deadlock.

| run | shows |
|---|---|
| `chain_alone` | without overlap, blocks added at any moment else, some refused: `isProcessing` tells a working pipeline but for the window after a reorganisation; between blocks the top is the heaviest stored block, only main chain blocks are marked active, listeners hold no transaction outside the main chain, transactions of stored blocks are found; no failed block hides behind "recently added", parents of stored blocks are stored; each step is one of `HeaviestChain` |
| `chain_faults` | overlapping pipelines, a database error and a crash anywhere: a restart always finds a top block; as long as nothing failed, the top of an idle chain is on disk |
| `chain_live` | without overlap or failures, every `add` is answered, a heavier branch is adopted in the end |
| `chain_overlap` | expects a violation: a block that arrives in the window starts a second pipeline, against "Only process one block at a time" (`blockchain.js:46`) |
| `pool_concurrent` | three callers, a family of transactions and a rival, confirmations at any moment, on MongoDB: no callback runs on a queue that is gone, parents of pooled transactions are pooled or stored, listeners know exactly the pool; each step is one of `MemoryPool` |
| `pool_leveldb` | the callback discipline with LevelDB's answers, deeper chains, wrong scripts, non-standard transactions |
| `pool_live` | without live accounting: nobody waits for an input that will not answer, every caller is called back |
| `download` | no download asks for a stale hash, no orphan is left that could be connected, and a client that stays connected gets every block, except in the three situations below (`Stuck`, `Stalled`, `Unanswered`) |
| `peers` | whoever has a working connection is downloading, a proxy keeps to its local node, a node that can reach a peer stays connected |
| `wire` | messages arrive in order through the switch to checksums, a connection is active only when the other end has taken the version, reading fails on garbage only, and otherwise everything arrives |
| `script` | the interpreter answers what the scripts mean; a signature is about the script that runs, from its last separator on; stack opcodes do what their comments picture (OP_3DUP what its name says, see below), numbers are encoded exactly |
| `mining` | the last work handed out can be redeemed while its parent is the top; a block that is stored as it was added obeys the rules by its own ancestors; both as long as no other chain has blocks at the heights looked at and nobody changed the objects concerned |

`CatchesUp`, `RulesByAncestors` and `WorkRedeemable` name the cases in which the
code does not keep them, each explained above the property. Without any one of
these exceptions TLC finds a violation: in the runs as they are, and for a top block
changed in memory (`SolvedHash(Top) = Top.hash`) with `MaxSubmits = 2`.

What the code does against what its comments say, or against what one would
expect, met while modelling. The models do the same; `chain_overlap` shows one of them, and no
other run claims otherwise.

Block chain and store:

* "includes recently added transactions ... that haven't been saved yet"
  (`blockchain.js:306`): an overlapping pipeline replaces the shared batch
  (`leveldb/storage.js:345`), whose transactions are then never written.
* The block that triggers a reorganisation never emits `txAdd`
  (`blockchain.js:540`), so its transactions stay in the pool (`node.js:158`).
* A known block is "safe to discard" (`blockchain.js:668`), but its entry stays
  among the connecting blocks and its child waits for ever.
* A waiting callback gets the transaction "as soon as it's ready"
  (`transactionstore.js:174`): a removal that waited for the verification throws
  (`schema/transaction.js:359`) and the callbacks behind it never run.
* Orphans are tried again later (`transactionstore.js:102`): a parent accepted
  between the two look-ups (`schema/transaction.js:649`) has retried its orphans
  already.
* `reorganize` goes on with the next block after an error (`blockchain.js:946`).
* Orphan blocks and orphan transactions are kept without limit;
  `listmemtransactions` (`rpc/get.js:109`) meets entries that are arrays while a
  transaction is verified.
* `reorganize` clears `isProcessing` (1117) before its pipeline ends, against "Only
  process one block at a time" (`blockchain.js:46`). `chain_overlap` shows it, section
  5 says what else it breaks, and `OneAtATimeOutsideWindow` that it is the only way.
* `saveBlock` enters every block into LevelDB's height index, so a side chain block
  takes the entry of the main chain block of its height until a reorganisation
  (`rpc/get.js:12`: "a block in the active chain"). The bits and the median time of a
  block may then be taken from a side chain (`GetWork`).
* Three blocks delivered in reverse order are queued twice, and a main chain
  block is left marked inactive (`node.js:462` uses the mark as a sanity check).
* LevelDB counts strings where it stored Buffers (`storage.js:714`): spent outputs
  are accepted, outputs that are unspent are an error. `ImplementsPool` fails there
  for this reason, so `pool_concurrent` uses MongoDB.
* The rival of a confirmed transaction stays in the pool (`node.js:159` says it
  leaves; the loop at `transactionstore.js:347` is empty).
* A transaction verified while its parent becomes an orphan is discarded
  (`error.js:6` says it becomes an orphan as well).
* A parent that arrives in a block retries no orphan, and `isKnown` refuses the
  orphan for good.
* `ListenersKnowPool` needs live accounting: without it, `txNotify` follows
  `txCancel` when a block confirms a transaction during its verification.

Download:

* The inv that ends a batch asks for the next download while the old one is still
  set (`blockchainmanager.js:133`); the request is dropped, and if the queue is
  done by then the client rests below an orphan (`Stalled`).
* A download whose locator is answered when no connection is left stays for ever
  (`Stuck`).
* At the end of the chain LevelDB answers with an error, and `getblocks` fails
  "quietly" (`node.js:449`): a client that misses a batch or less is not answered
  (`Unanswered`).
* `hashContinue` is one per node (`node.js:465`), so two clients take each
  other's.
* `sendInv` goes "to all active connections" (`node.js:523`), that is to all,
  handshake or not (`peermanager.js:346`).

Peers and connections:

* `forcePeers` are read from `initialPeers` (`peermanager.js:35`), never from the
  setting (`settings.js:70`), so each initial peer is connected to twice.
* A proxy is to "connect only to the local peer" (`peermanager.js:49`); it keeps
  its other connections and its forced peers, and a look-up that is under way
  adds more.
* The fall-back starts a second loop of `pingStatus` (`peermanager.js:312`); the
  bootstrap modules run once (`peermanager.js:181`).
* The receive limit compares the number of buffers with bytes, and its message
  names a variable that does not exist (`connection.js:322`).
* A message with a wrong checksum (`connection.js:378`) ends the reading of what
  is in the buffers until more data come.
* `recvVer` is the minimum of a number and `undefined` until the second listener
  of the verack sets it (`connection.js:139`).

Scripts and transactions:

* Data that read as a number are compared with opcodes as that number: a push of
  the text "99" counts as an opcode, and fails in a branch that is not taken
  (`scriptinterpreter.js:66`, `92`).
* A key that did not match is given up, one that did is kept
  (`scriptinterpreter.js:660`): one key can count for several signatures, against
  "imitate this behavior" of the original (634).
* "we'll reset the stack every 100 steps" (`scriptinterpreter.js:711`): it is
  reset at all others.
* An exception in the last step calls the callback twice
  (`scriptinterpreter.js:598`).
* `findAndDelete` skips the chunk behind the one it deletes (`script.js:207`).
* The size of a length of exactly 65536 is taken for 3 bytes (`util.js:329`).
* The comment of OP_3DUP (`scriptinterpreter.js:189`) is that of OP_2DUP, "(x1 x2 -- x1
  x2 x1 x2)"; the code takes and doubles three elements.
* `SIGHASH_ANYONECANPAY` is 80, not 0x80 (`schema/transaction.js:408`).

Difficulty and mining:

* Behind the genesis block `getNextWork` calls back twice (`schema/block.js:262`);
  the second answer is taken for the median time.
* The block that begins a period is found by its height, not among the ancestors
  (`schema/block.js:314`), as are those of the median time (366): LevelDB answers with
  the block saved last at a height, MongoDB, for the median, with those of side chains
  as well. Timestamps are sorted as text (381).
* A block is the top in memory before it is saved (`blockchain.js:706`). A `getwork`
  call in between asks LevelDB for a height without a key, whose error is thrown out
  of a callback (`leveldb/storage.js:592`) and ends the program.
* `lastPrevHeight` is set before the new work is there (`rpc/getwork.js:46`): a call
  after one that failed hands out the old block, until the height changes.
* `prepareNextBlock` asks for the bits of a block without a timestamp
  (`schema/block.js:462`); on the test network late work is refused.
* The one block of `getwork` gets a new timestamp at every call
  (`rpc/getwork.js:72`), also while it is added and when it is the top block. A
  wrong solution leaves its hash reversed (136, with `schema/block.js:74`).
* A second call during the first gets the old block; a reorganisation to the same
  height is not noticed (`rpc/getwork.js:41`).
* The extra nonce is not part of what is serialised, so the cache of work has one
  entry (`rpc/getwork.js:101`); an error of `add` is reported as `e`, which does
  not exist (150).
* `checkMerkleRoot` is inverted and never called (`schema/block.js:180`).

Database errors and overlap break more than the runs claim; section 5 lists what TLC
finds. After an error `reorganize` goes on, and the error path of `findFork` never
calls back. Nothing in the repository promises more then, so no run asks.

Fairness. `FairAloneSpec` assumes that a block due on the next tick is run, that
every pipeline that waits for a callback gets one (the database answers,
verification ends) and that late writes end: the event loop and LevelDB provide
this. It is about behaviours without overlap: with it a call of `add` may stay without
an answer. Nothing makes anybody add a block, and nothing is assumed fair about
failures. For the store it assumes that a verification waiting for the database
or the scripts goes on (one fairness condition per transaction), and that
callbacks which are due run; nobody is forced to add a transaction or to confirm
one.

`BlockDownload` assumes that callbacks come, messages on a connected link arrive,
a download that is quiet times out (the timer of `startTimer`), and a lost link is
connected again (the peer manager's loop, `peers`). `getConnection` is a random
choice, so a server that is up again and again is chosen in the end: strong
fairness of `Locate`. Blocks need not grow, nothing makes a link fail.
`PeerManager` assumes the same of timers, sockets that answer or are refused, and
look-ups; `checkStatus` chooses at random, so a host that can be dialled again and
again is dialled in the end. A silent host is owed nothing, and nobody has to call
in. `Connection` assumes that what was sent arrives, in some pieces. The other new
modules state no liveness: `script` has none to state beyond the absence of
deadlock, since each step moves the program counter or ends, and nobody has to
ask for work.

## 5. The proofs

Every theorem assumes the `ASSUME`s of the module it is about; the hypotheses
beyond that are in its statement, and this section says why they are needed. All
theorems hold for every value of the other constants: every tree of blocks, set
of transactions, setting, limit and bound.

### The block chain

`BlockChainProofs` proves, from the assumptions on the constants alone
(`TreeAssumption`, `TxAssumption`, `BoundAssumption`):

* `TypeCorrect`: `Spec => []TypeOK`.
* `RestartAlwaysFindsTop`: `Spec => []RestartFindsTop`, for every tree, any
  number of pipelines, and any rejections, database errors and crashes.
* `TopAlwaysStoredUnlessFailed`: `Spec => []TopStoredUnlessFailed`, however pipelines
  overlap and wherever the process stops.
* `OneAtATimeOutsideWindow`: `Spec /\ [][AddsOutsideWindow]_vars => []OneAtATime`. If
  no block arrives between the end of a reorganisation and the end of its pipeline,
  pipelines never overlap, whatever fails, is refused or stops.
* `FlagAlwaysTells`: `AloneSpec => []FlagTells`. Until pipelines overlap, that window is
  the only place where a block is at work and `isProcessing` is clear.

The argument of the first two. `TypeOK` alone is not inductive: after a crash the top
block is whatever the height index names at the recorded height. `IInv` adds that each
entry of the index names a stored block of that height (`IndexInv`), that the
recorded height and every metadata write still on its way have an entry
(`MetaInv`), and what each pipeline has established at its place (`SlotOK`): its
record is stored before it enters the index, its entry exists before the metadata
is written, and a reorganisation has a block to work on. Each action is shown to
keep the types (`...Type` lemmas), to change the disk in one of the allowed ways
(`DiskStep`) and to leave its slot and the others in order (`...Slot` lemmas);
`StepIInv` puts them together.

The others. `TopInv` adds to `IInv` that the top, as long as nothing failed, is stored
or in a pipeline at the place where it is verified or written (`TopHeld`): two
pipelines may move the top in any order, but each saves the block it moved it to.
`AloneInv` joins `IInv` with `CallsInv`, that every name of a waiting block is that of
a call of `add` made before, so that the block of a new call is in no pipeline, and
with `OneAtATime`. `FlagInv` adds to `FlagTells` that a reorganisation is of a side
chain block: where it clears the flag, its own block has still to be saved. For
`OneAtATimeOutsideWindow`, `OthersAlone` shows that no step but `add` starts a second
pipeline, the one on the next tick beginning when the one before has ended; `OneStep`
adds that `add` starts one when the flag is clear, which outside the window means that
none is at work.

The second part of `BlockChainProofs` proves, for behaviours without overlap
(`AloneSpec`) and a database that does not fail (`MaxIoErrors = 0`), for any refusals
and any crashes:

* `TopAlwaysStored`: `AloneSpec => []TopStored`
* `ParentsAlwaysStored`: `AloneSpec => []ParentsStored`
* `LiveStaysOnMain`: `AloneSpec => []LiveOnMain`
* `RecentAlwaysStored`: `AloneSpec => []RecentStored`

The argument. Three of these say something of an idle chain only, and the fourth
(`RecentStored`) has an exception for the block in the pipeline: they are broken
in the middle of a pipeline, and whether its end mends them depends on what was
done before. `WaitInv` therefore says for each place of a pipeline what holds
there: where the block's parent is, whether the top is on disk or is the block
itself, that the recent index names stored blocks and this block, that the blocks
findFork has collected and the lineage of its old cursor cover the chain of the
top (`Forking`), that what listeners hold is covered by the blocks still to
disconnect and the new chain (`Reorging`). One more conjunct turned out to be
necessary: every live transaction can be found (`LiveFindable`), since
`disconnectTransactions` revokes only those it finds. There is one `...Wait` lemma
for each action; `OneAtATime` makes all other slots idle, so that a place may speak
about the top. `Lineage` is a recursive function; its equation is proved first
(`LineageOf`), from the set of ancestors as the function's witness.

It proves, if moreover the process does not crash (`MaxCrashes = 0`):

* `TopAlwaysHeaviest`: `AloneSpec => []TopIsHeaviest`
* `ActiveStaysOnMain`: `AloneSpec => []ActiveOnMain`
* `TxsAlwaysFindable`: `AloneSpec => []TxsFindable`

The argument. `OrderInv` adds to `WaitInv` what is in disorder at each place. In a
reorganisation the active blocks are those on the new chain and those still to be
disconnected (`StillActive`), and no stored block but the new one is heavier than
the top. The transactions of the block are the subtle part. The tail runs its last
step when any outstanding operation ends; a side chain block is reported as added
with its transactions on disk only because no other operation is left when the
batch is handed over, that is because saving it raises no chain height. That holds
after a reorganisation because `toConnect` starts with the block itself (findFork
collects the new branch from its tip), so the reorganisation has saved its height
before: the last conjunct of `ReorgOrder`. For a main chain block `recentTxIndex`
has the transactions by then.

* `PipelineImplementsChain`: `AloneSpec => ImplementsChain`, under the same hypotheses,

for the refinement mapping `best <- top`, `known <- {Genesis} \cup Connected`.
`KnownView` shows that the recent index adds nothing to what is stored or in the
pipeline, although it forgets blocks and may be asked about any; then each step is
mapped. `VerifyChild` is `Learn`, since a block that is on disk already is never a
child of the top (the top would not be the heaviest); the last `ReorgSaved` is
`Adopt`; a `Reject` after the block was connected is `Drop`, since a stored child
would have a stored parent; every other step is a stutter.

Why the hypotheses. Nobody who calls `add` waits: `node.js:306` passes on blocks as
they come. So `AloneSpec` does not ask callers to wait, and only leaves out the
arrival of a block in the window. The code does not keep blocks out of it either, and
what it promises is lost then. With nothing else going wrong, TLC finds for `Spec`

* with the tree of the runs and five calls of `add`, `ActiveOnMain` violated;
* with a block B3 behind B2, five calls and three pipelines, `TopIsHeaviest`,
  `LiveOnMain` and `ParentsStored`, too, and a batch lost in which transactions were
  (`TxsFindable`; one block against a branch of four);
* with branches of three and two blocks whose work is their height, `RecentStored`, and
  a call of `add` that is never answered;
* and with refusals, `ImplementsChain` (five blocks, one refusal), and `TopStored` (two
  refusals, or two database errors).

`chain_overlap` shows the cause; the runs that follow from it are left to this list,
since each is the same defect. Without overlap, one database error breaks
`TopIsHeaviest`, `ActiveOnMain`, `LiveOnMain`, `RecentStored`, `TxsFindable` and
`ImplementsChain`, two break `TopStored`, and one crash breaks `TopIsHeaviest`,
`ActiveOnMain` and `TxsFindable`.

### The transaction store

`TransactionStoreProofs` proves, from `TxAssumption`:

* `StoreTypeCorrect`: `Spec => []TypeOK`.
* `StoreNeverMisfires`: `Spec => []NeverMisfires`, for all transactions, callers
  and backends, with and without live accounting.

The argument of the second. A callback that `find` gave out for t may run long
after, inside the end of another verification, when t has failed, been removed or
been added again. `NeverMisfires` is inductive only with the knowledge that such
a callback is never stale: `QueueInv` and `CallsInv` say that a callback of t for
the input s, in the queue of s or due to be called, means that t waits for s now,
and that there is only one. A failure disables the callbacks of the one that fails
(`Disable`, the flag `disable` of `find`), which is what `DisableKeeps` and
`FailAsk` are about; `StartAsk` shows that a new verification asks each input
once; `InputAnswered` that the answer ends the wait; `CallsShift` that callbacks
which move in the stack keep their meaning.

* `StoreKeepsParents`: `Spec => []ParentsPooled`, for all transactions, callers
  and backends: parents of a pooled transaction are pooled or stored.
* `StoreImplementsPool`: if `Backend = "mongodb"`, then `Spec => ImplementsPool`:
  every step of the store is a step of `MemoryPool` or leaves its pool alone.

The argument of these two. The inputs of a transaction are found one by one, and
between the first answer and the acceptance any of them may be removed, confirmed or
fail. `SafeInv` strengthens `ParentsPooled` by what rules that out: a removal that
waits in a queue or in the stack is always one of a confirmed transaction and a
success that waits there is one of a pooled or stored transaction (`QueuesSafe`,
`CallsSafe`), only standard transactions are verified, wait as orphans or are tried
again (`OrphansStandard`), the stored transactions have no rivals among each other
(`ChainAgrees`), and what a verification has found is still pooled or stored
(`JobOK`). Every step keeps the union of pool and chain (`Grows`), by the `...Safe`
lemmas, one for each operation. For the refinement `EnterMapped` shows that an
accepted transaction meets the guard of `Enter`. It rests on the order of writes on
MongoDB, that what a block spends is visible exactly when its transactions are
(`SpendsStored`), before they are announced, so that no transaction is accepted in
between as a rival of one that is stored. The one case in which MongoDB counts a
spender and the store accepts all the same is the one where the spender is the
transaction itself, and then `ChainAgrees` excludes another. On LevelDB the count
never reports one (section 4), so the theorem does not apply and `pool_leveldb`
checks what remains.

* `StoreAnswersWaiters`: if live accounting is on only with LevelDB
  (`NoCallbackLost`), then `Spec => []WaitersQueued`: no wait is forgotten.
* `ListenersAlwaysKnow`: with live accounting, `Spec => []ListenersKnowPool`.

The argument. `WaitersInv` says of every input a verification waits for that its
callback is in the queue of that input, which is being verified, or in the nest
of callbacks that are due; `AskInv` (above) makes that callback the right one. The
hypothesis is needed: on MongoDB with live accounting an exception of `remove` is
swallowed with the callbacks behind it, and TLC finds a verification that waits
for ever. `LiveInv` says how far what listeners know may be from the pool: by
exactly the announcements that are due in the nest, where a removal in a queue is
always one of the transaction that queue belongs to (`RemovalsOwn`). Without live
accounting it fails: `txNotify` follows `txCancel` when a block confirms a
transaction during its verification.

### The download

`BlockDownloadProofs` proves, for every set of clients and servers, every start of
every chain, and all bounds:

* `DownloadTypeCorrect`: `Spec => []TypeOK`
* `TickleAlwaysServed`: `Spec => []TickleServed`
* `NoOrphanLeftIdle`: `Spec => []NoIdleOrphan`

The argument. That no answer names a block its sender does not have is part of the
types, and needs that the end `StopAt` looks for exists (`NatMin`). The other two need `ChainOK`:
when nothing is processed nothing is queued; the block that is saved is the top; and
the block after the top waits among the orphans only while the top is saved, when
it goes first into the queue, or while it is itself processed. `FinalizeOK` is the
step where this is used up: the end of a block starts the next one or calls
`HandleQueueDone`, which clears the hash that was kept. `Among` and `AskForOrphans`
are loops over data; `LoopProofs` shows what a loop keeps, by the least round at
which it would be lost.

### The peer manager

`PeerManagerProofs` proves, for all settings and hosts:

* `PeersTypeCorrect`: `Spec => []TypeOK`
* `ActiveAlwaysDownloads`: `Spec => []ActiveStartsDownload`
* `ProxyNeverStrays`: `Spec => ProxyStaysLocal`

The argument. `TypeOK` bounds two counters, and neither bound is inductive: that
at most two loops of `pingStatus` run needs that the second one starts with the
fall-back, which happens once (`OneFallBack`); that `netConnected` is emitted at
most once more than connections were lost needs what `isConnected` remembers
(`ConnectedInv`). `PeerInv` joins these with `QuietBeforeStart`: before the network
is enabled there is nothing that could connect.

### The connection

`ConnectionProofs` proves, for all versions with checksums, any number of messages
and any garbage between them, from `ConnectionAssumption`:

* `WireTypeCorrect`: `Spec => []TypeOK`
* `AlwaysDeliversInOrder`: `Spec => []DeliversInOrder`
* `ActiveAlwaysHeard`: `Spec => []ActiveWhenHeard`
* `ThrowsAlwaysOnGarbage`: `Spec => []ThrowsOnlyOnGarbage`

The argument. A stream is cut anywhere, so what an end will read is spread over its
buffers and what is on the way; `WireInv` speaks of the two joined (`Pending`).
There `Flow` says that each beginning of a message is that of a whole one
(`Framed`), that without garbage the messages lie next to each other (`Tight`), that
at most one version and one verack are among them, the verack behind the version as
long as the version is not handled, that the numbers of the application go up from
the last one received, and that a message has a checksum exactly when the reader
will look for one: it does already, or the verack stands before the message
(`SumsFrom`). This is where the switch is safe. The sender appends checksums from
the version it heard on, and writes the verack before it switches; the reader
switches when it handles that verack. `Own` ties the fields of one end to those of
the other: what it heard is the other's version, and it is active only if the other
heard its own. Because both ends start with the same version (0 or 209), `WireInv`
has one such version for both.

The steps are lemmas about sequences first: what writing a message behind a stream
(`AddKeeps`, `FlowAdd`), handling its first message (`TakeKeeps`, `FlowTake`),
skipping what is no message (`SkipKeeps`, `FlowSkip`) and garbage (`FlowGarbage`)
leave of it. `MagicBegins` and `FirstMagicFound` show that the scan stops at the
beginning of a message and never inside one; without garbage it has nothing to skip
and nothing to fall over (`CleanBegins`), which is `ThrowsOnlyOnGarbage`. Then each
handler keeps both ends (`HandleVersionKeeps`, `HandleVerackKeeps`,
`HandleAppKeeps`), each round of processData does (`RoundKeeps`), and so does the
loop (`ProcessDataKeeps`, with `LoopProofs`). An end that failed is left out of the
claims about its stream.

### The script interpreter

`ScriptInterpreterProofs` proves, for every set of pairs of scripts that can be
written in the model's chunks and all limits, numbers having at most 4 bytes as in
the code (`ScriptAssumption`):

* `StacksStayInLimits`: `Spec => []TypeOK`
* `OpcodesComputeAsPictured`: `Spec => ComputesAsPictured`
* `SignaturesSignOwnScript`: `Spec => SignsOwnScript`

The argument. `TypeOK` says that the stacks hold no more than the limit. It is not
inductive: what a check of signatures pushes comes in a later step than the one
that took its arguments. `TypeInv` adds that there is room for it while the
interpreter waits.

`ComputesAsPictured` compares a step with the list of opcodes in two ways (that
of OP_3DUP is read off its name). The
rearrangements of the stack are a matter of where each element goes: `Execute` is
shown to move the elements as the picture says, one opcode at a time. The
arithmetic ones push bytes, and the property asks what number these bytes are. The
digits of a number are worth it (`WorthOfNumber`), and fewer bytes are worth less
(`ShorterIsSmaller`), so `castBigint` gives back the number `bigintToBuffer` was
given (`bigintToBufferIsExact`), the byte for the sign included.

`SignsOwnScript` says that the script handed to a check begins behind the last
separator that was run and lacks the signatures. `SignInv` is what must be
remembered for it: `hashStart` is 0 or the place of a separator already run; no
separator that stands outside all conditionals lies between it and the program
counter; and as many conditionals are open in the text before the program counter
as `execStack` has entries, so that a separator outside all conditionals is met with
an empty `execStack`, where it is run and not skipped. What `findAndDelete` leaves is a loop over the chunks inside a
loop over the signatures; that the loops leave what the property says
(`findAndDeleteLeaves`, `ScriptCodeLeaves`) is shown for a sequence built up from
the empty one by appending (`BuiltByAppend`).

### What is only model-checked

* Liveness: `AddsAnswered`, `ImplementsFairChain`, `CallersAnswered`, `CatchesUp`,
  `StaysConnected`, `Delivered`. TLAPS has no rules for fairness here.
* `AnswersMeaning`. What the interpreter answers is compared with `ScriptMeaning`, a
  recursive definition that unfolds conditionals and filters and folds over the
  text: that both agree on every script is an induction over scripts with a
  different shape from the machine's steps.
* Mining: `WorkRedeemable`, `RulesByAncestors`.

Induction is out of the prover's reach as a rule to cite, but not where the least
counterexample can be named: numbers have a least element (`NatMin`, from the
library's theorem on well-founded orders). In this way the equations of the recursive
functions `Lineage`, `Among`, `AskForOrphans`, `ProcessData`, `Magnitude`,
`findAndDelete`, `ScriptCode` and `Remaining` are proved, each from a function that
solves them. Sequences are treated the same way, by the shortest beginning of one
for which a claim fails (`BuiltByAppend`).

## 6. What is abstracted, and what is left out

* A block is its identity; statically invalid blocks never enter (`checkBlock`
  refuses them in `add`). Verification is a verdict that may be negative
  `MaxRejects` times.
* Coinbase transactions, the order of transactions in a block and double
  spending within the tree are not told apart; a batch is its net effect, and the
  spends a reorganisation pushes once per transaction are pushed once.
* The limit of 2000 recent transactions is not reached.
* The contents of the indexes of affected addresses and of transactions per block
  are not modelled, only when their writes end.
* `getTopBlock` returns a fresh object after a restart; the sharing of one block
  object between overlapping pipelines (`block.active` of an old top) is not
  modelled beyond the flag written.
* `init` is one step of `Crash`: nothing else runs before `initComplete`.
* A transaction is its inputs; statically wrong values and wrong scripts are
  membership in `Invalid`. The check of values happens with the count of
  conflicts in the code, and with the scripts in the model. The keys a
  transaction affects are not modelled: only when they can be computed.
* `handleTx` ignores transactions until the last checkpoint has been passed; the
  model starts after it. Revoked transactions are not put back into the pool by
  the code, and blocks are not disconnected in this model. A block that is stored
  holds valid transactions whose parents are stored and whose rivals are not, of a
  side chain, too: `verifyBlock` refuses others for what is stored by then.
* In `BlockDownload` all servers follow one chain and nobody sends wrong blocks;
  forks and failures of blocks are the business of `BlockChain`. Hashes in an inv
  are looked up in one step per inv. Relaying of transactions is left out.
* `PeerManager` knows a peer by its host and by how it was made, and a connection
  by its peer. The addresses a peer tells of arrive one by one. Ports and the
  contents of `getaddr` are left out.
* In `Connection` a token stands for the bytes the code reads as a unit; the magic
  number is two tokens, because the scan must meet a part of it. A payload
  is the number of a message, and the checksum tells payloads apart.
* In `ScriptInterpreter` a signature is valid for a key or not, whatever the hash
  it signs: what is hashed is `checking.code`, about which `SignsOwnScript` is. A
  hash of data is a value of its own. Opcodes that `disableUnsafeOpcodes` refuses
  are refused and have no semantics. Data that JavaScript compares with a number as
  a number are the set `Numerals`, and `BranchNumerals` those whose number is between
  OP_IF and OP_ENDIF.
* In `BlockRules` and `GetWork` a byte of a target has four values and bits keep
  two of them, a period has two blocks, the median is of three. A hash is the headers
  it is the hash of, from the genesis block on; whether a solution is found is a
  choice. Timestamps are compared as numbers, which the sorting as text equals for ten
  digits. The chain has no block behind the genesis block to make, never reorganises
  and keeps no orphans, and takes one block after the other: `BlockChain` has
  reorganisations and overlap. A block that is refused by its transactions is refused
  before anything of it is written. The search of the test network for a block with a
  difficulty of its own is one step.
* Components without a module: see `PROJECT.json`, each with the reason.
