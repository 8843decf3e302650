----------------------------- MODULE BlockChain -----------------------------
(* The block pipeline of lib/blockchain.js over the LevelDB storage.         *)
(*                                                                           *)
(* add() hands a block to processBlock, a list of steps of the Step library. *)
(* JavaScript runs to completion, so an action is everything between two     *)
(* callbacks of the database or of the verification.  A pipeline is a slot   *)
(* holding a job; nothing in the code says that there is only one, and       *)
(* isProcessing is the flag that is meant to.                                *)
(*                                                                           *)
(* saveBlock of the storage calls its callback twice when it raises the      *)
(* chain height (once for the metadata, once for the transaction index), and *)
(* every call runs the next step of the pipeline: the tail of the pipeline   *)
(* is therefore run by whichever outstanding operations end first, and the   *)
(* ones left when the last step has run end later, unobserved.               *)
(*                                                                           *)
(* A definition whose name extends that of the one below it (DequeueShort    *)
(* above Dequeue) is a faulty variant, with the mistake a change of the code *)
(* could make; README.md says which property detects it.                     *)
EXTENDS LevelStorage, BlockIndexes

CONSTANTS
  RecentLimit,     \* recentBlockIndexLimit
  MaxAdds,         \* bound: calls of add()
  MaxPipelines,    \* bound: pipelines at work at the same time
  MaxRejects,      \* bound: blocks that fail verification
  MaxIoErrors,     \* bound: database operations that end with an error
  MaxCrashes       \* bound: crashes of the process

ASSUME BoundAssumption ==
  /\ Blocks # {}
  /\ RecentLimit \in Nat \ {0}
  /\ MaxAdds \in Nat /\ MaxPipelines \in Nat
  /\ MaxRejects \in Nat /\ MaxIoErrors \in Nat /\ MaxCrashes \in Nat

VARIABLES
  top,          \* currentTopBlock
  isProcessing, \* the flag of the same name
  queue,        \* incomingBlockQueue, wrappers
  tick,         \* the wrapper whose processBlock is due on process.nextTick
  connecting,   \* connectingBlockIndex.index
  heads,        \* connectingBlockIndex.parentIndex
  recent,       \* recentBlockIndex
  recentTx,     \* recentTxIndex (its limit of 2000 is not reached)
  wrapper,      \* the BlockWrapper of each call of add()
  reply,        \* what that caller has been told
  job,          \* the pipelines
  lateMeta,     \* metadata writes that nobody waits for any more
  lateBatch,    \* batches that nobody waits for any more
  live,         \* txAdd minus txRevoke: the transactions listeners think active
  adds,         \* calls of add() so far
  faults        \* rejections, I/O errors and crashes left

chainVars == <<top, isProcessing, queue, tick, connecting, heads, recent,
               recentTx, wrapper, reply, job, lateMeta, lateBatch, live,
               adds, faults>>
vars == <<storageVars, chainVars>>

Wrappers == 1..MaxAdds
Slots == 1..MaxPipelines
Modes == {"new", "main", "side", "orphan"}
Replies == {"waiting", "ok", "error"}
Steps == {"connectTransactions", "endTransaction", "queueDependents"}
Writes == {"meta", "idx", "affects", "batch"}
Places == {"idle", "getPrev", "getSelf", "verifyChild", "verifyBlock", "findFork",
           "reorgTxs", "reorgAffects", "reorgPut", "reorgHeight", "reorgIdx",
           "put", "height", "tail"}

WrapperType == [block : Blocks, mode : Modes,
                active : BOOLEAN, children : Seq(Wrappers)]

JobType == [pc : Places, bw : Wrappers \cup {NoBw}, block : Blocks, found : BOOLEAN,
            old : AllBlocks, new : AllBlocks,   \* the two cursors of findFork
            off : Seq(AllBlocks), on : Seq(AllBlocks), \* toDisconnect, toConnect
            txs : SUBSET Txs, left : SUBSET Txs, \* of the block being connected
            step : Steps, io : SUBSET Writes, out : Batches]

(* Stand for the wrapper of a call that has not been made yet, and for the   *)
(* job of a slot that is free.                                               *)
AnyBlock == CHOOSE b \in Blocks : TRUE
NoWrapper == [block |-> AnyBlock, mode |-> "new", active |-> FALSE, children |-> <<>>]

IdleJob == [pc |-> "idle", bw |-> NoBw, block |-> AnyBlock, found |-> FALSE, old |-> Genesis,
            new |-> Genesis, off |-> <<>>, on |-> <<>>, txs |-> {}, left |-> {},
            step |-> "connectTransactions", io |-> {}, out |-> EmptyBatch]

-----------------------------------------------------------------------------
(* Shorthands *)

JobBlock(s) == job[s].block
JobMode(s) == wrapper[job[s].bw].mode
Busy(s) == job[s].pc # "idle"
FreeSlots == {s \in Slots : ~Busy(s)}
FreeSlot == CHOOSE s \in FreeSlots : TRUE

(* Nothing is processed and nothing waits: queueDone has been emitted.       *)
Quiet == tick = NoBw /\ queue = <<>> /\ \A s \in Slots : ~Busy(s)

(* A transaction the chain can look up: in recentTxIndex or in the database. *)
Findable(t) == t \in recentTx \/ t \in dbTx

(* The block a reorganisation is working on: first every block to            *)
(* disconnect, then every block to connect.                                  *)
Disconnecting(s) == job[s].off # <<>>
ReorgBlock(s) == IF Disconnecting(s) THEN Head(job[s].off) ELSE Head(job[s].on)

-----------------------------------------------------------------------------
Init ==
  /\ StorageInit
  /\ top = Genesis
  /\ isProcessing = FALSE
  /\ queue = <<>>
  /\ tick = NoBw
  /\ connecting = [b \in AllBlocks |-> NoBw]
  /\ heads = [b \in AllBlocks |-> <<>>]
  /\ recent = RecentEmpty
  /\ recentTx = {}
  /\ wrapper = [w \in Wrappers |-> NoWrapper]
  /\ reply = [w \in Wrappers |-> "waiting"]
  /\ job = [s \in Slots |-> IdleJob]
  /\ lateMeta = {}
  /\ lateBatch = {}
  /\ live = {}
  /\ adds = 0
  /\ faults = [reject |-> MaxRejects, io |-> MaxIoErrors, crash |-> MaxCrashes]

-----------------------------------------------------------------------------
(* finalizeStep: the end every pipeline comes to. *)

(* The next block of the queue starts on the next tick; with none left the   *)
(* chain goes idle.                                                          *)
DequeueShort(q, processing) ==
  IF Len(q) <= 1
  THEN queue' = q /\ tick' = NoBw /\ isProcessing' = FALSE
  ELSE queue' = Tail(q) /\ tick' = Head(q) /\ isProcessing' = processing
Dequeue(q, processing) ==
  IF q = <<>>
  THEN queue' = q /\ tick' = NoBw /\ isProcessing' = FALSE
  ELSE queue' = Tail(q) /\ tick' = Head(q) /\ isProcessing' = processing

(* What the callback is given: "orphan" and "discard" are codes that only    *)
(* skip to finalizeStep, and are told as success.                            *)
AnswerForwarded(code) == code
AnswerTo(code) == IF code \in {"orphan", "discard", "added"} THEN "ok" ELSE "error"

(* bw.callback empties the list of callbacks, so only the first call counts. *)
Answer(w, code) ==
  reply' = [reply EXCEPT ![w] = IF @ = "waiting" THEN AnswerTo(code) ELSE @]

(* The operations still outstanding when a pipeline ends go on by themselves. *)
LeaveBehind(s, io) ==
  /\ lateMeta' = IF "meta" \in io THEN lateMeta \cup {Height[JobBlock(s)]} ELSE lateMeta
  /\ lateBatch' = IF "batch" \in io THEN lateBatch \cup {job[s].out} ELSE lateBatch

EndJob(s) == job' = [job EXCEPT ![s] = IdleJob]

(* A block of the main chain that fails gives the top back to its parent.    *)
RollbackNone(s) == top
Rollback(s) == IF JobMode(s) = "main" THEN Parent[JobBlock(s)] ELSE top

(* finalizeStep with an error: the caches forget the block, and its children *)
(* stay where they are.                                                      *)
FinalizeError(s, io) ==
  /\ top' = Rollback(s)
  /\ connecting' = [connecting EXCEPT ![JobBlock(s)] = NoBw]
  /\ recent' = RecentRemove(recent, JobBlock(s))
  /\ Answer(job[s].bw, "failed")
  /\ Dequeue(queue, isProcessing)
  /\ LeaveBehind(s, io)
  /\ EndJob(s)
  /\ UNCHANGED <<heads, wrapper>>

-----------------------------------------------------------------------------
(* processBlock up to its first asynchronous call: prepareStep, then         *)
(* connectBlock.  wr and q are the wrappers and the queue as the caller left *)
(* them.                                                                     *)
ProcessBlock(w, wr, q) ==
  LET b     == wr[w].block
      p     == Parent[b]
      conn  == [connecting EXCEPT ![b] = w]
      kids  == heads[b]
      hd    == IF kids = <<>> THEN heads ELSE AddHead(RemoveHeads(heads, b), p, w)
      bw    == IF kids = <<>> THEN wr[w] ELSE [wr[w] EXCEPT !.children = kids]
      start == [IdleJob EXCEPT !.bw = w, !.block = b]
  IN /\ connecting' = conn
     /\ heads' = hd
     /\ IF p # top /\ conn[p] # NoBw
        THEN \* the parent is itself being connected: join its orphan chain
             LET joined == [wr EXCEPT ![w] = [bw EXCEPT !.mode = "orphan"]]
             IN /\ wrapper' = [joined EXCEPT ![conn[p]].children = Append(@, w)]
                /\ Answer(w, "orphan")
                /\ Dequeue(q, TRUE)
                /\ UNCHANGED job
        ELSE /\ FreeSlots # {}
             /\ isProcessing' = TRUE
             /\ queue' = q
             /\ tick' = NoBw
             /\ UNCHANGED reply
             /\ IF p = top
                THEN /\ wrapper' = [wr EXCEPT ![w] = [bw EXCEPT !.mode = "main"]]
                     /\ job' = [job EXCEPT ![FreeSlot] = [start EXCEPT !.pc = "verifyChild"]]
                ELSE IF p \in recent.index
                THEN /\ wrapper' = [wr EXCEPT ![w] = [bw EXCEPT !.mode = "side"]]
                     /\ job' = [job EXCEPT ![FreeSlot] = [start EXCEPT !.pc = "verifyChild"]]
                ELSE /\ wrapper' = [wr EXCEPT ![w] = bw]
                     /\ job' = [job EXCEPT ![FreeSlot] = [start EXCEPT !.pc = "getPrev"]]

(* add(): a block being connected or recently added is acknowledged at once; *)
(* the others queue up behind the block being processed.                     *)
Add(b) ==
  /\ tick = NoBw
  /\ adds < MaxAdds
  /\ adds' = adds + 1
  /\ LET w  == adds + 1
         wr == [wrapper EXCEPT ![w] = [NoWrapper EXCEPT !.block = b]]
     IN IF connecting[b] # NoBw \/ b \in recent.index
        THEN /\ wrapper' = wr
             /\ reply' = [reply EXCEPT ![w] = "ok"]
             /\ UNCHANGED <<isProcessing, queue, tick, connecting, heads, job>>
        ELSE IF isProcessing
        THEN /\ queue' = Append(queue, w)
             /\ wrapper' = wr
             /\ UNCHANGED <<isProcessing, tick, connecting, heads, reply, job>>
        ELSE ProcessBlock(w, wr, queue)
  /\ UNCHANGED <<storageVars, top, recent, recentTx, lateMeta, lateBatch, live, faults>>

(* process.nextTick runs before any other event of the process.              *)
NextTick ==
  /\ tick # NoBw
  /\ ProcessBlock(tick, wrapper, queue)
  /\ UNCHANGED <<storageVars, top, recent, recentTx, lateMeta, lateBatch, live, adds, faults>>

-----------------------------------------------------------------------------
(* connectBlock, the part that asks the database. *)

At(s, place) == tick = NoBw /\ job[s].pc = place

Goto(s, place) == job' = [job EXCEPT ![s].pc = place]

ParentFoundAlways(s) == TRUE
ParentFound(s) == Stored(Parent[JobBlock(s)])

GetPrev(s) ==
  /\ At(s, "getPrev")
  /\ job' = [job EXCEPT ![s].pc = "getSelf", ![s].found = ParentFound(s)]
  /\ UNCHANGED <<storageVars, top, isProcessing, queue, tick, connecting, heads,
                 recent, recentTx, wrapper, reply, lateMeta, lateBatch, live, adds, faults>>

(* The block is on disk after all: "discard" skips to finalizeStep, which    *)
(* clears nothing.                                                           *)
Discard(s) ==
  /\ At(s, "getSelf")
  /\ Stored(JobBlock(s))
  /\ Answer(job[s].bw, "discard")
  /\ Dequeue(queue, isProcessing)
  /\ EndJob(s)
  /\ UNCHANGED <<storageVars, top, connecting, heads, recent, recentTx, wrapper,
                 lateMeta, lateBatch, live, adds, faults>>

ConnectToStored(s) ==
  /\ At(s, "getSelf")
  /\ ~Stored(JobBlock(s)) /\ job[s].found
  /\ wrapper' = [wrapper EXCEPT ![job[s].bw].mode = "side"]
  /\ Goto(s, "verifyChild")
  /\ UNCHANGED <<storageVars, top, isProcessing, queue, tick, connecting, heads,
                 recent, recentTx, reply, lateMeta, lateBatch, live, adds, faults>>

(* The parent is unknown: the block becomes the head of an orphan chain.     *)
BecomeOrphan(s) ==
  /\ At(s, "getSelf")
  /\ ~Stored(JobBlock(s)) /\ ~job[s].found
  /\ heads' = AddHead(heads, Parent[JobBlock(s)], job[s].bw)
  /\ wrapper' = [wrapper EXCEPT ![job[s].bw].mode = "orphan"]
  /\ Answer(job[s].bw, "orphan")
  /\ Dequeue(queue, isProcessing)
  /\ EndJob(s)
  /\ UNCHANGED <<storageVars, top, connecting, recent, recentTx,
                 lateMeta, lateBatch, live, adds, faults>>

-----------------------------------------------------------------------------
(* Verification, which may take any time and is free to refuse the block. *)

(* verifyChild succeeded: connectToMainChain or connectToSideChain, then     *)
(* prepareTxsStep and the start of verifyBlock.                              *)
VerifyChild(s) ==
  /\ At(s, "verifyChild")
  /\ LET w == job[s].bw
         b == JobBlock(s)
         main == JobMode(s) = "main"
     IN /\ connecting' = [connecting EXCEPT ![b] = NoBw]
        /\ recent' = RecentSet(recent, b, RecentLimit)
        /\ top' = IF main THEN b ELSE top
        /\ wrapper' = [wrapper EXCEPT ![w].active = main]
  /\ Goto(s, "verifyBlock")
  /\ UNCHANGED <<storageVars, isProcessing, queue, tick, heads, recentTx, reply,
                 lateMeta, lateBatch, live, adds, faults>>

NeedsReorganizeTwo(s) == JobMode(s) = "side" /\ ChainWork[JobBlock(s)] > ChainWork[top] + 1
NeedsReorganize(s) == JobMode(s) = "side" /\ MoreWorkThan(JobBlock(s), top)

(* verifyBlock succeeded and the block stays where it is: startTransaction,  *)
(* saveTransactions into the fresh batch, and the first put of saveBlock.    *)
VerifyBlockNoRecord(s) ==
  /\ At(s, "verifyBlock")
  /\ ~NeedsReorganize(s)
  /\ currentBatch' = PushTransactions(EmptyBatch, TxsOf[JobBlock(s)])
  /\ Goto(s, "height")
  /\ UNCHANGED <<diskVars, chainHeight, top, isProcessing, queue, tick, connecting,
                 heads, recent, recentTx, wrapper, reply, lateMeta, lateBatch,
                 live, adds, faults>>
VerifyBlock(s) ==
  /\ At(s, "verifyBlock")
  /\ ~NeedsReorganize(s)
  /\ currentBatch' = PushTransactions(EmptyBatch, TxsOf[JobBlock(s)])
  /\ Goto(s, "put")
  /\ UNCHANGED <<diskVars, chainHeight, top, isProcessing, queue, tick, connecting,
                 heads, recent, recentTx, wrapper, reply, lateMeta, lateBatch,
                 live, adds, faults>>

(* verifyBlock succeeded and the side chain is now the heavier one.          *)
Reorganize(s) ==
  /\ At(s, "verifyBlock")
  /\ NeedsReorganize(s)
  /\ currentBatch' = EmptyBatch
  /\ isProcessing' = TRUE
  /\ job' = [job EXCEPT ![s].pc = "findFork", ![s].old = top, ![s].new = JobBlock(s)]
  /\ UNCHANGED <<diskVars, chainHeight, top, queue, tick, connecting, heads, recent,
                 recentTx, wrapper, reply, lateMeta, lateBatch, live, adds, faults>>

(* verifyChild or verifyBlock failed.                                        *)
Reject(s) ==
  /\ tick = NoBw
  /\ job[s].pc \in {"verifyChild", "verifyBlock"}
  /\ faults.reject > 0
  /\ faults' = [faults EXCEPT !.reject = @ - 1]
  /\ FinalizeError(s, {})
  /\ UNCHANGED <<storageVars, recentTx, live, adds>>

-----------------------------------------------------------------------------
(* reorganize *)

(* The higher of the two cursors, and the new branch on a tie.               *)
OldIsHigher(s) == Height[job[s].old] > Height[job[s].new]
Cursor(s) == IF OldIsHigher(s) THEN job[s].old ELSE job[s].new

(* findFork gives up: isProcessing is cleared and nobody is called back, so  *)
(* the pipeline ends here and the queue waits for the next add().            *)
AbandonReorganize(s) == isProcessing' = FALSE /\ EndJob(s)

(* One database read of findFork: the cursor moves to its parent.            *)
FindFork(s) ==
  /\ At(s, "findFork")
  /\ LET at == Cursor(s)
         p  == Parent[at]
     IN IF at \in Blocks /\ Stored(p)
        THEN LET moved == IF OldIsHigher(s)
                          THEN [job[s] EXCEPT !.old = p, !.off = Append(@, at)]
                          ELSE [job[s] EXCEPT !.new = p, !.on = Append(@, at)]
             IN /\ job' = [job EXCEPT ![s] =
                     IF moved.old = moved.new THEN [moved EXCEPT !.pc = "reorgTxs"] ELSE moved]
                /\ UNCHANGED isProcessing
        ELSE AbandonReorganize(s)
  /\ UNCHANGED <<storageVars, top, queue, tick, connecting, heads, recent, recentTx,
                 wrapper, reply, lateMeta, lateBatch, live, adds, faults>>

RevokedNone(txs) == live
Revoked(txs) == live \ txs

(* The block's transactions have been fetched.  Disconnecting, each is       *)
(* revoked and their inputs are freed in the open batch, at once.            *)
DisconnectTransactions(s) ==
  /\ At(s, "reorgTxs")
  /\ Disconnecting(s)
  /\ LET txs == {t \in TxsOf[ReorgBlock(s)] : Findable(t)}
     IN /\ live' = Revoked(txs)
        /\ currentBatch' = PushDisconnect(currentBatch, txs)
  /\ Goto(s, "reorgPut")
  /\ UNCHANGED <<diskVars, chainHeight, top, isProcessing, queue, tick, connecting,
                 heads, recent, recentTx, wrapper, reply, lateMeta, lateBatch, adds, faults>>

(* Connecting, the transactions are announced one by one; for each of them   *)
(* all are connected again, and the write of their affects is awaited.       *)
Announce(s, txs, left) ==
  IF left = {}
  THEN Goto(s, "reorgPut") /\ UNCHANGED <<live, currentBatch>>
  ELSE LET t == CHOOSE x \in left : TRUE
       IN /\ live' = live \cup {t}
          /\ currentBatch' = PushConnect(currentBatch, txs)
          /\ job' = [job EXCEPT ![s].pc = "reorgAffects", ![s].txs = txs,
                                ![s].left = left \ {t}]

ReconnectTransactions(s) ==
  /\ \/ /\ At(s, "reorgTxs")
        /\ ~Disconnecting(s)
        /\ LET txs == {t \in TxsOf[ReorgBlock(s)] : Findable(t)}
           IN Announce(s, txs, txs)
     \/ /\ At(s, "reorgAffects")
        /\ Announce(s, job[s].txs, job[s].left)
  /\ UNCHANGED <<diskVars, chainHeight, top, isProcessing, queue, tick, connecting,
                 heads, recent, recentTx, wrapper, reply, lateMeta, lateBatch, adds, faults>>

ReorgFlagOn(s) == TRUE
ReorgFlag(s) == ~Disconnecting(s)

(* saveBlock of the reorganised block: its record, then its height entry.    *)
ReorgPut(s) ==
  /\ At(s, "reorgPut")
  /\ PutBlock(ReorgBlock(s), ReorgFlag(s))
  /\ Goto(s, "reorgHeight")
  /\ UNCHANGED <<dbHeight, dbChainHeight, dbTx, dbSpent, chainHeight, currentBatch, top,
                 isProcessing, queue, tick, connecting, heads, recent, recentTx, wrapper,
                 reply, lateMeta, lateBatch, live, adds, faults>>

(* saveBlock after the height entry: the metadata, when it rises, and the    *)
(* transaction index are written side by side.                               *)
SaveRest(s, b, active, place) ==
  LET raises == RaisesChainHeight(b, active)
  IN /\ chainHeight' = IF raises THEN Height[b] ELSE chainHeight
     /\ job' = [job EXCEPT ![s].pc = place,
                           ![s].io = IF raises THEN {"meta", "idx"} ELSE {"idx"}]

ReorgHeight(s) ==
  /\ At(s, "reorgHeight")
  /\ PutHeight(ReorgBlock(s))
  /\ SaveRest(s, ReorgBlock(s), ReorgFlag(s), "reorgIdx")
  /\ UNCHANGED <<dbBlock, dbChainHeight, dbTx, dbSpent, currentBatch, top,
                 isProcessing, queue, tick, connecting, heads, recent, recentTx, wrapper,
                 reply, lateMeta, lateBatch, live, adds, faults>>

(* isProcessing once a block of the reorganisation is done.                  *)
ReorgReleaseEarly(last) == FALSE
ReorgRelease(last) == isProcessing /\ ~last

(* The next block of the reorganisation; after the last one the new top is   *)
(* set, the pipeline goes on to saveTransactionsStep and saveBlockStep, and  *)
(* only then isProcessing is cleared, with the rest of the pipeline to come. *)
NextReorgStep(s, io) ==
  LET off  == IF Disconnecting(s) THEN Tail(job[s].off) ELSE job[s].off
      on   == IF Disconnecting(s) THEN job[s].on ELSE Tail(job[s].on)
      last == off = <<>> /\ on = <<>>
      b    == JobBlock(s)
  IN /\ lateMeta' = IF "meta" \in io THEN lateMeta \cup {Height[ReorgBlock(s)]} ELSE lateMeta
     /\ job' = [job EXCEPT ![s].off = off, ![s].on = on, ![s].io = {},
                           ![s].txs = {}, ![s].left = {},
                           ![s].pc = IF last THEN "put" ELSE "reorgTxs"]
     /\ top' = IF last THEN b ELSE top
     /\ wrapper' = IF last THEN [wrapper EXCEPT ![job[s].bw].active = TRUE] ELSE wrapper
     /\ currentBatch' = IF last THEN PushTransactions(currentBatch, TxsOf[b]) ELSE currentBatch
     /\ isProcessing' = ReorgRelease(last)

(* The first of the writes to end runs the next step.                        *)
ReorgSaved(s, op) ==
  /\ At(s, "reorgIdx")
  /\ op \in job[s].io
  /\ dbChainHeight' = IF op = "meta" THEN Height[ReorgBlock(s)] ELSE dbChainHeight
  /\ NextReorgStep(s, job[s].io \ {op})
  /\ UNCHANGED <<dbBlock, dbHeight, dbTx, dbSpent, chainHeight, queue, tick, connecting,
                 heads, recent, recentTx, reply, lateBatch, live, adds, faults>>

-----------------------------------------------------------------------------
(* saveBlockStep and the tail of the pipeline *)

Put(s) ==
  /\ At(s, "put")
  /\ PutBlock(JobBlock(s), wrapper[job[s].bw].active)
  /\ Goto(s, "height")
  /\ UNCHANGED <<dbHeight, dbChainHeight, dbTx, dbSpent, chainHeight, currentBatch, top,
                 isProcessing, queue, tick, connecting, heads, recent, recentTx, wrapper,
                 reply, lateMeta, lateBatch, live, adds, faults>>

PutHeightKey(s) ==
  /\ At(s, "height")
  /\ PutHeight(JobBlock(s))
  /\ SaveRest(s, JobBlock(s), wrapper[job[s].bw].active, "tail")
  /\ UNCHANGED <<dbBlock, dbChainHeight, dbTx, dbSpent, currentBatch, top,
                 isProcessing, queue, tick, connecting, heads, recent, recentTx, wrapper,
                 reply, lateMeta, lateBatch, live, adds, faults>>

(* An outstanding operation of the tail ends well; the step that comes next  *)
(* runs, whatever the operation was.                                         *)
Completes(s, op, step) ==
  /\ At(s, "tail")
  /\ job[s].step = step
  /\ op \in job[s].io
  /\ dbChainHeight' = IF op = "meta" THEN Height[JobBlock(s)] ELSE dbChainHeight
  /\ IF op = "batch" THEN ApplyBatch(job[s].out) ELSE UNCHANGED <<dbTx, dbSpent>>
  /\ UNCHANGED <<dbBlock, dbHeight, chainHeight>>

(* endTransactionStep hands the open batch, whoever opened it, to LevelDB.   *)
EndTransactionEmpty(s, io, batch) ==
  job' = [job EXCEPT ![s].io = io \cup {"batch"}, ![s].out = EmptyBatch,
                     ![s].step = "queueDependents"]
EndTransaction(s, io, batch) ==
  job' = [job EXCEPT ![s].io = io \cup {"batch"}, ![s].out = batch,
                     ![s].step = "queueDependents"]

(* connectTransactionsStep: on the main chain the transactions are announced *)
(* and spent; a side chain block skips to endTransactionStep.                *)
TailConnect(s, op) ==
  /\ Completes(s, op, "connectTransactions")
  /\ LET txs == TxsOf[JobBlock(s)]
         io  == job[s].io \ {op}
     IN IF JobMode(s) = "main"
        THEN /\ live' = live \cup txs
             /\ recentTx' = recentTx \cup txs
             /\ currentBatch' = PushConnect(currentBatch, txs)
             /\ job' = [job EXCEPT ![s].io = io \cup {"affects"}, ![s].step = "endTransaction"]
        ELSE /\ EndTransaction(s, io, currentBatch)
             /\ UNCHANGED <<live, recentTx, currentBatch>>
  /\ UNCHANGED <<top, isProcessing, queue, tick, connecting, heads, recent, wrapper,
                 reply, lateMeta, lateBatch, adds, faults>>

TailEnd(s, op) ==
  /\ Completes(s, op, "endTransaction")
  /\ EndTransaction(s, job[s].io \ {op}, currentBatch)
  /\ UNCHANGED <<currentBatch, top, isProcessing, queue, tick, connecting, heads, recent,
                 recentTx, wrapper, reply, lateMeta, lateBatch, live, adds, faults>>

(* queueDependentsStep and finalizeStep: the children go to the front of the *)
(* queue on the main chain and to its end on a side chain.                   *)
TailFinalize(s, op) ==
  /\ Completes(s, op, "queueDependents")
  /\ LET kids == wrapper[job[s].bw].children
     IN Dequeue(IF JobMode(s) = "main" THEN kids \o queue ELSE queue \o kids, isProcessing)
  /\ Answer(job[s].bw, "added")
  /\ LeaveBehind(s, job[s].io \ {op})
  /\ EndJob(s)
  /\ UNCHANGED <<currentBatch, top, connecting, heads, recent, recentTx, wrapper, live,
                 adds, faults>>

LateMeta(h) ==
  /\ tick = NoBw
  /\ h \in lateMeta
  /\ lateMeta' = lateMeta \ {h}
  /\ dbChainHeight' = h
  /\ UNCHANGED <<dbBlock, dbHeight, dbTx, dbSpent, chainHeight, currentBatch, top,
                 isProcessing, queue, tick, connecting, heads, recent, recentTx, wrapper,
                 reply, job, lateBatch, live, adds, faults>>

LateBatch(batch) ==
  /\ tick = NoBw
  /\ batch \in lateBatch
  /\ lateBatch' = lateBatch \ {batch}
  /\ ApplyBatch(batch)
  /\ UNCHANGED <<dbBlock, dbHeight, dbChainHeight, chainHeight, currentBatch, top,
                 isProcessing, queue, tick, connecting, heads, recent, recentTx, wrapper,
                 reply, job, lateMeta, live, adds, faults>>

-----------------------------------------------------------------------------
(* Database operations that end with an error.  An error of an operation     *)
(* nobody waits for is thrown out of Step and ends the process: a Crash.     *)

IoErrorAllowed(s) == tick = NoBw /\ Busy(s) /\ faults.io > 0

(* connectBlock and saveBlock hand the error to finalizeStep, and so does    *)
(* the tail, through the steps it still had.                                 *)
PipelineError(s) ==
  /\ IoErrorAllowed(s)
  /\ \/ job[s].pc \in {"getPrev", "getSelf", "put", "height"} /\ FinalizeError(s, {})
     \/ job[s].pc = "tail" /\ \E op \in job[s].io : FinalizeError(s, job[s].io \ {op})
  /\ faults' = [faults EXCEPT !.io = @ - 1]
  /\ UNCHANGED <<storageVars, recentTx, live, adds>>

FindForkError(s) ==
  /\ IoErrorAllowed(s)
  /\ job[s].pc = "findFork"
  /\ AbandonReorganize(s)
  /\ faults' = [faults EXCEPT !.io = @ - 1]
  /\ UNCHANGED <<storageVars, top, queue, tick, connecting, heads, recent, recentTx,
                 wrapper, reply, lateMeta, lateBatch, live, adds>>

(* reorganize logs the error and goes on with the next block, this one left  *)
(* as it is.                                                                 *)
ReorgError(s) ==
  /\ IoErrorAllowed(s)
  /\ \/ /\ job[s].pc \in {"reorgTxs", "reorgAffects", "reorgPut", "reorgHeight"}
        /\ NextReorgStep(s, {})
     \/ /\ job[s].pc = "reorgIdx"
        /\ \E op \in job[s].io : NextReorgStep(s, job[s].io \ {op})
  /\ faults' = [faults EXCEPT !.io = @ - 1]
  /\ UNCHANGED <<diskVars, chainHeight, queue, tick, connecting, heads, recent, recentTx,
                 reply, lateBatch, live, adds>>

-----------------------------------------------------------------------------
(* The process ends and starts again: what was in memory is gone, with every *)
(* operation that had not ended; init() saves the genesis block once more    *)
(* and loads the top block.                                                  *)
Crash ==
  /\ faults.crash > 0
  /\ faults' = [faults EXCEPT !.crash = @ - 1]
  /\ dbBlock' = [dbBlock EXCEPT ![Genesis] = "active"]
  /\ dbHeight' = [dbHeight EXCEPT ![0] = Genesis]
  /\ chainHeight' = dbChainHeight
  /\ currentBatch' = EmptyBatch
  /\ top' = TopOnDisk
  /\ isProcessing' = FALSE
  /\ queue' = <<>>
  /\ tick' = NoBw
  /\ connecting' = [b \in AllBlocks |-> NoBw]
  /\ heads' = [b \in AllBlocks |-> <<>>]
  /\ recent' = RecentEmpty
  /\ recentTx' = {}
  /\ wrapper' = [w \in Wrappers |-> [NoWrapper EXCEPT !.block = wrapper[w].block]]
  /\ job' = [s \in Slots |-> IdleJob]
  /\ lateMeta' = {}
  /\ lateBatch' = {}
  /\ live' = {}
  /\ UNCHANGED <<dbChainHeight, dbTx, dbSpent, reply, adds>>

-----------------------------------------------------------------------------
Advance(s) ==
  \/ GetPrev(s) \/ Discard(s) \/ ConnectToStored(s) \/ BecomeOrphan(s)
  \/ VerifyChild(s) \/ VerifyBlock(s) \/ Reorganize(s) \/ FindFork(s)
  \/ DisconnectTransactions(s) \/ ReconnectTransactions(s)
  \/ ReorgPut(s) \/ ReorgHeight(s)
  \/ Put(s) \/ PutHeightKey(s)
  \/ \E op \in Writes :
       ReorgSaved(s, op) \/ TailConnect(s, op) \/ TailEnd(s, op) \/ TailFinalize(s, op)

LateWrite ==
  \/ \E h \in Heights : LateMeta(h)
  \/ \E batch \in lateBatch : LateBatch(batch)

Faulty(s) == Reject(s) \/ PipelineError(s) \/ FindForkError(s) \/ ReorgError(s)

Next ==
  \/ \E b \in Blocks : Add(b)
  \/ NextTick
  \/ \E s \in Slots : Advance(s) \/ Faulty(s)
  \/ LateWrite
  \/ Crash

Spec == Init /\ [][Next]_vars

(* Nobody stops a block from arriving while another is processed; the flag   *)
(* isProcessing queues it, until reorganize clears the flag with its own     *)
(* block still to be saved.  A block that arrives just then starts a second  *)
(* pipeline.  AloneSpec has the behaviours in which none does: only add() is *)
(* kept from it, and blocks still come at all other times, wait in the       *)
(* queue, join orphan chains.                                                *)
OneAtATime ==
  /\ \A r, s \in Slots : Busy(r) /\ Busy(s) => r = s
  /\ tick # NoBw => \A s \in Slots : ~Busy(s)

AddAlone(b) == Add(b) /\ OneAtATime'

AloneNext ==
  \/ \E b \in Blocks : AddAlone(b)
  \/ NextTick
  \/ \E s \in Slots : Advance(s) \/ Faulty(s)
  \/ LateWrite
  \/ Crash

AloneSpec == Init /\ [][AloneNext]_vars

(* Every callback that is due comes: the database answers, verification ends *)
(* and the event loop runs what it is given.  Nobody has to add a block.     *)
Fairness ==
  /\ WF_vars(NextTick)
  /\ \A s \in Slots : WF_vars(Advance(s))
  /\ WF_vars(LateWrite)

FairAloneSpec == AloneSpec /\ Fairness

-----------------------------------------------------------------------------
TypeOK ==
  /\ StorageTypeOK
  /\ adds \in 0..MaxAdds
  /\ top \in AllBlocks
  /\ isProcessing \in BOOLEAN
  /\ queue \in Seq(Wrappers)
  /\ tick \in Wrappers \cup {NoBw}
  /\ connecting \in [AllBlocks -> Wrappers \cup {NoBw}]
  /\ heads \in [AllBlocks -> Seq(Wrappers)]
  /\ recent \in [list : Seq(Blocks), index : SUBSET Blocks]
  /\ recentTx \in SUBSET Txs
  /\ wrapper \in [Wrappers -> WrapperType]
  /\ reply \in [Wrappers -> Replies]
  /\ job \in [Slots -> JobType]
  /\ lateMeta \in SUBSET Heights
  /\ lateBatch \in SUBSET Batches
  /\ live \in SUBSET Txs
  /\ faults \in [reject : 0..MaxRejects, io : 0..MaxIoErrors, crash : 0..MaxCrashes]

-----------------------------------------------------------------------------
(* Properties.  Several hold only between blocks, so they say Quiet.         *)

MainTxs == UNION {TxsOf[b] : b \in Lineage[top]}
InProgress(b) == \E s \in Slots : Busy(s) /\ JobBlock(s) = b

(* Whatever is interrupted, the metadata on disk names a height whose entry  *)
(* names a block record of that height, so that init() can load a top block  *)
(* (leveldb getTopBlock, loadTopBlock): saveBlock writes the record, the     *)
(* height entry and the metadata in that order, for every block, also when   *)
(* the writes of several pipelines interleave.                               *)
RestartFindsTop ==
  /\ TopOnDisk # NoBlock
  /\ Stored(TopOnDisk)
  /\ Height[TopOnDisk] = dbChainHeight

(* "Only process one block at a time" (the comment on isProcessing) is       *)
(* OneAtATime, defined above, a block due on process.nextTick included.      *)

(* Until pipelines have overlapped, isProcessing says whether a block is at  *)
(* work, except between the end of a reorganisation (its Unpause block       *)
(* chain) and the end of the pipeline that asked for it: that window is the  *)
(* only way to a second pipeline.                                            *)
AfterReorganize(s) ==
  job[s].pc \in {"put", "height", "tail"} /\ JobMode(s) = "side" /\ wrapper[job[s].bw].active
FlagTells == \A s \in Slots : Busy(s) /\ ~isProcessing => AfterReorganize(s)

(* When nothing is being processed the top block in memory has a record on   *)
(* disk: without overlap, also after failures were rolled back               *)
(* (finalizeStep).                                                           *)
TopStored == Quiet => Stored(top)

(* However pipelines overlap and wherever the process stops, the top block   *)
(* has a record on disk when nothing is being processed, as long as no block *)
(* was refused and no operation failed: every pipeline that moves the top    *)
(* saves its block.                                                          *)
NothingFailed == faults.reject = MaxRejects /\ faults.io = MaxIoErrors
TopStoredUnlessFailed == NothingFailed => TopStored

(* The rest holds in the behaviours without overlap (AloneSpec), refused     *)
(* blocks included; two pipelines and a second reorganisation break each.    *)

(* When nothing is being processed no stored block has more work than the    *)
(* top ("Switch chains if side chain has more work"): the reorganisation     *)
(* compares with a top that earlier blocks of the queue may just have moved. *)
TopIsHeaviest == Quiet => \A b \in AllBlocks : Stored(b) => ~MoreWorkThan(b, top)

(* When nothing is being processed every block marked active on disk is on   *)
(* the chain of the top: a reorganisation clears the flag of each block it   *)
(* leaves, and a block refused after it was connected leaves none behind.    *)
ActiveOnMain == Quiet => \A b \in AllBlocks : dbBlock[b] = "active" => b \in Lineage[top]

(* When nothing is being processed listeners of txAdd and txRevoke hold no   *)
(* transaction that is not on the chain of the top (the memory pool and the  *)
(* account tracking follow these events).                                    *)
LiveOnMain == Quiet => live \subseteq MainTxs

(* A block add() will acknowledge at once because it was "recently added" is *)
(* on disk or still in a pipeline: a block that failed is offered again.     *)
RecentStored == \A b \in recent.index : Stored(b) \/ InProgress(b)

(* A stored block has a stored parent, so findFork and the block locator     *)
(* reach the genesis block from any of them.                                 *)
ParentsStored == \A b \in Blocks : Stored(b) => Stored(Parent[b])

(* Between blocks the transactions of every stored block can be found, in    *)
(* recentTxIndex or on disk ("This function includes recently added          *)
(* transactions in its results that haven't been saved yet",                 *)
(* getTransactionsByHashes): the batch that saves them may still be on its   *)
(* way when the block is reported as added.                                  *)
TxsFindable ==
  Quiet => \A b \in AllBlocks : Stored(b) => \A t \in TxsOf[b] : Findable(t)

(* Every call of add() is answered once the database and the verification    *)
(* have answered, whatever else is added meanwhile and however the blocks    *)
(* fork: the answers go through the queue, the orphan chains and the next    *)
(* tick, and a queue that nobody shifts would keep its blocks for ever.      *)
AddsAnswered == \A w \in Wrappers : w <= adds ~> reply[w] # "waiting"

(* The pipeline implements HeaviestChain: a block is known from the moment   *)
(* it is connected until it is stored for good or fails.                     *)
Connected ==
  {b \in Blocks : Stored(b) \/ b \in recent.index
     \/ \E s \in Slots : job[s].pc \notin {"idle", "getPrev", "getSelf", "verifyChild"}
                         /\ JobBlock(s) = b}

Chain == INSTANCE HeaviestChain WITH best <- top, known <- {Genesis} \cup Connected

(* Every step learns a block after its parent, adopts a heavier one, drops a *)
(* refused one or shows nothing.                                             *)
ImplementsChain == Chain!AbstractSpec

(* ... and a heavier block that is known is adopted in the end.              *)
ImplementsFairChain == Chain!FairAbstractSpec
=============================================================================
