-------------------------- MODULE BlockChainProofs --------------------------
(* Theorems about BlockChain, for every tree of blocks and every bound.      *)
(*                                                                           *)
(* However pipelines overlap:                                                *)
(*   TypeCorrect           every variable keeps its type                     *)
(*   RestartAlwaysFindsTop init() can load a top block at any time           *)
(*   TopAlwaysStoredUnlessFailed  the top of an idle chain is on disk, if    *)
(*                         nothing was refused and nothing failed            *)
(*   OneAtATimeOutsideWindow  pipelines overlap only when a block arrives    *)
(*                         in the window that reorganize opens               *)
(* The first two rest on one inductive invariant, IInv: types alone are not  *)
(* inductive, since a restart sets the top block to whatever the index of    *)
(* heights names, and the index is only known to name stored blocks because  *)
(* of the order in which each pipeline writes (SlotOK).                      *)
(*                                                                           *)
(* Without overlap (AloneSpec):                                              *)
(*   FlagAlwaysTells       isProcessing tells, outside that window           *)
(* and those listed at the section Without overlap.                          *)
EXTENDS BlockChain, SequenceTheorems, TLAPS

ReorgPlaces == {"reorgTxs", "reorgAffects", "reorgPut", "reorgHeight", "reorgIdx"}

(* What the job of a slot relies on.  A block about to be entered in the     *)
(* index has its record; a metadata write on its way is for a height that    *)
(* has its entry.                                                            *)
SlotOK(s) ==
  /\ Busy(s) => job[s].bw \in Wrappers
  /\ job[s].pc \in ReorgPlaces => job[s].off # <<>> \/ job[s].on # <<>>
  /\ job[s].pc = "height" => Stored(JobBlock(s))
  /\ job[s].pc = "reorgHeight" => Stored(ReorgBlock(s))
  /\ job[s].pc = "tail" /\ "meta" \in job[s].io => dbHeight[Height[JobBlock(s)]] # NoBlock
  /\ job[s].pc = "reorgIdx" /\ "meta" \in job[s].io => dbHeight[Height[ReorgBlock(s)]] # NoBlock

(* An entry of the index of heights names a stored block of that height.     *)
IndexInv ==
  \A h \in Heights :
    dbHeight[h] # NoBlock => Stored(dbHeight[h]) /\ Height[dbHeight[h]] = h

(* The recorded height, and those of the metadata writes nobody waits for,   *)
(* have an entry.                                                            *)
MetaInv ==
  /\ dbHeight[dbChainHeight] # NoBlock
  /\ \A h \in lateMeta : dbHeight[h] # NoBlock

IInv ==
  /\ TypeOK
  /\ \A s \in Slots : SlotOK(s)
  /\ IndexInv
  /\ MetaInv

-----------------------------------------------------------------------------
(* Types of the constants' values and of the operators' results.             *)

LEMMA TreeFacts ==
  /\ \A b \in Blocks : b \in AllBlocks /\ Parent[b] \in AllBlocks /\ Height[b] \in Heights
  /\ \A b \in AllBlocks : Height[b] \in Heights /\ TxsOf[b] \in SUBSET Txs
  /\ Genesis \in AllBlocks /\ 0 \in Heights /\ Heights \subseteq Nat
  /\ NoBlock \notin AllBlocks
  BY TreeAssumption, TxAssumption DEF AllBlocks, Heights

LEMMA AnyBlockType == AnyBlock \in Blocks
  BY BoundAssumption DEF AnyBlock

LEMMA SpentByType == \A txs \in SUBSET Txs : SpentBy(txs) \in SUBSET Outpoints
  BY TxAssumption DEF SpentBy

LEMMA BatchTypes ==
  /\ EmptyBatch \in Batches
  /\ \A batch \in Batches, txs \in SUBSET Txs :
       /\ PushTransactions(batch, txs) \in Batches
       /\ PushConnect(batch, txs) \in Batches
       /\ PushDisconnect(batch, txs) \in Batches
  BY SpentByType DEF EmptyBatch, Batches, PushTransactions, PushConnect, PushDisconnect

LEMMA IdleJobType == IdleJob \in JobType
  BY AnyBlockType, BatchTypes, TreeFacts DEF IdleJob, JobType, Places, Steps, Writes

LEMMA NoWrapperType == NoWrapper \in WrapperType
  BY AnyBlockType DEF NoWrapper, WrapperType, Modes

LEMMA AnswerType ==
  ASSUME reply \in [Wrappers -> Replies], NEW w, NEW code, Answer(w, code)
  PROVE  reply' \in [Wrappers -> Replies]
  BY DEF Answer, AnswerTo, Replies

LEMMA DequeueType ==
  ASSUME NEW q \in Seq(Wrappers), NEW p \in BOOLEAN, Dequeue(q, p)
  PROVE  /\ queue' \in Seq(Wrappers)
         /\ tick' \in Wrappers \cup {NoBw}
         /\ isProcessing' \in BOOLEAN
  BY HeadTailProperties DEF Dequeue

LEMMA RecentTypes ==
  ASSUME recent \in [list : Seq(Blocks), index : SUBSET Blocks], NEW b \in Blocks
  PROVE  /\ RecentSet(recent, b, RecentLimit) \in [list : Seq(Blocks), index : SUBSET Blocks]
         /\ RecentRemove(recent, b) \in [list : Seq(Blocks), index : SUBSET Blocks]
  BY SMTT(60) DEF RecentSet, RecentRemove

LEMMA JobBlockType == ASSUME TypeOK, NEW s \in Slots
  PROVE  /\ job[s] \in JobType
         /\ JobBlock(s) \in Blocks /\ job[s].block \in Blocks
         /\ job[s].out \in Batches /\ job[s].io \in SUBSET Writes
         /\ job[s].off \in Seq(AllBlocks) /\ job[s].on \in Seq(AllBlocks)
         /\ job[s].old \in AllBlocks /\ job[s].new \in AllBlocks
         /\ job[s].bw \in Wrappers \cup {NoBw}
         /\ job[s].txs \in SUBSET Txs /\ job[s].left \in SUBSET Txs
  BY DEF TypeOK, JobType, JobBlock

LEMMA FinalizeErrorType ==
  ASSUME TypeOK, NEW s \in Slots, NEW io \in SUBSET Writes, FinalizeError(s, io)
  PROVE  /\ top' \in AllBlocks
         /\ connecting' \in [AllBlocks -> Wrappers \cup {NoBw}]
         /\ recent' \in [list : Seq(Blocks), index : SUBSET Blocks]
         /\ reply' \in [Wrappers -> Replies]
         /\ queue' \in Seq(Wrappers)
         /\ tick' \in Wrappers \cup {NoBw}
         /\ isProcessing' \in BOOLEAN
         /\ lateMeta' \in SUBSET Heights
         /\ lateBatch' \in SUBSET Batches
         /\ job' \in [Slots -> JobType]
  <1> USE DEF FinalizeError
  <1>1. top' \in AllBlocks
    BY JobBlockType, TreeFacts DEF Rollback, TypeOK
  <1>2. connecting' \in [AllBlocks -> Wrappers \cup {NoBw}]
    BY JobBlockType, TreeFacts DEF TypeOK
  <1>3. recent' \in [list : Seq(Blocks), index : SUBSET Blocks]
    BY JobBlockType, RecentTypes DEF TypeOK
  <1>4. reply' \in [Wrappers -> Replies]
    BY AnswerType DEF TypeOK
  <1>5. queue' \in Seq(Wrappers) /\ tick' \in Wrappers \cup {NoBw} /\ isProcessing' \in BOOLEAN
    BY DequeueType DEF TypeOK
  <1>6. lateMeta' \in SUBSET Heights /\ lateBatch' \in SUBSET Batches
    BY JobBlockType, TreeFacts DEF TypeOK, LeaveBehind
  <1>7. job' \in [Slots -> JobType]
    BY IdleJobType DEF TypeOK, EndJob
  <1> QED BY <1>1, <1>2, <1>3, <1>4, <1>5, <1>6, <1>7

-----------------------------------------------------------------------------
(* Every action keeps the types.                                             *)

LEMMA ReorgBlockType ==
  ASSUME TypeOK, NEW s \in Slots, SlotOK(s), job[s].pc \in ReorgPlaces
  PROVE  /\ ReorgBlock(s) \in AllBlocks
         /\ Disconnecting(s) => Tail(job[s].off) \in Seq(AllBlocks)
         /\ ~Disconnecting(s) => Tail(job[s].on) \in Seq(AllBlocks)
  BY JobBlockType, HeadTailProperties DEF SlotOK, ReorgBlock, Disconnecting

LEMMA AddChildType ==
  ASSUME NEW wr \in [Wrappers -> WrapperType], NEW x \in Wrappers, NEW w \in Wrappers
  PROVE  [wr EXCEPT ![x].children = Append(@, w)] \in [Wrappers -> WrapperType]
  <1>1. Append(wr[x].children, w) \in Seq(Wrappers)
    BY AppendProperties DEF WrapperType
  <1>2. [wr[x] EXCEPT !.children = Append(wr[x].children, w)] \in WrapperType
    BY <1>1 DEF WrapperType
  <1> QED BY <1>2

LEMMA WrapperUpdateType ==
  ASSUME NEW wr \in [Wrappers -> WrapperType], NEW w
  PROVE  /\ \A mode \in Modes :
               [wr EXCEPT ![w].mode = mode] \in [Wrappers -> WrapperType]
         /\ \A active \in BOOLEAN :
               [wr EXCEPT ![w].active = active] \in [Wrappers -> WrapperType]
  <1>1. \A v \in WrapperType, mode \in Modes : [v EXCEPT !.mode = mode] \in WrapperType
    BY DEF WrapperType
  <1>2. \A v \in WrapperType, active \in BOOLEAN : [v EXCEPT !.active = active] \in WrapperType
    BY DEF WrapperType
  <1> QED BY <1>1, <1>2

LEMMA FaultTypes ==
  ASSUME NEW f \in [reject : 0..MaxRejects, io : 0..MaxIoErrors, crash : 0..MaxCrashes]
  PROVE  /\ f.reject > 0 => [f EXCEPT !.reject = @ - 1] \in
              [reject : 0..MaxRejects, io : 0..MaxIoErrors, crash : 0..MaxCrashes]
         /\ f.io > 0 => [f EXCEPT !.io = @ - 1] \in
              [reject : 0..MaxRejects, io : 0..MaxIoErrors, crash : 0..MaxCrashes]
         /\ f.crash > 0 => [f EXCEPT !.crash = @ - 1] \in
              [reject : 0..MaxRejects, io : 0..MaxIoErrors, crash : 0..MaxCrashes]
  BY BoundAssumption

LEMMA ProcessBlockType ==
  ASSUME TypeOK, NEW w \in Wrappers, NEW wr \in [Wrappers -> WrapperType],
         NEW q \in Seq(Wrappers), ProcessBlock(w, wr, q)
  PROVE  /\ connecting' \in [AllBlocks -> Wrappers \cup {NoBw}]
         /\ heads' \in [AllBlocks -> Seq(Wrappers)]
         /\ wrapper' \in [Wrappers -> WrapperType]
         /\ reply' \in [Wrappers -> Replies]
         /\ queue' \in Seq(Wrappers)
         /\ tick' \in Wrappers \cup {NoBw}
         /\ isProcessing' \in BOOLEAN
         /\ job' \in [Slots -> JobType]
  <1> DEFINE b     == wr[w].block
             p     == Parent[b]
             conn  == [connecting EXCEPT ![b] = w]
             kids  == heads[b]
             hd    == IF kids = <<>> THEN heads ELSE AddHead(RemoveHeads(heads, b), p, w)
             bw    == IF kids = <<>> THEN wr[w] ELSE [wr[w] EXCEPT !.children = kids]
             start == [IdleJob EXCEPT !.bw = w, !.block = b]
             joins == p # top /\ conn[p] # NoBw
  <1>1. b \in Blocks /\ b \in AllBlocks /\ p \in AllBlocks
    BY TreeFacts DEF WrapperType
  <1>2. conn \in [AllBlocks -> Wrappers \cup {NoBw}]
    BY <1>1 DEF TypeOK
  <1>3. kids \in Seq(Wrappers)
    BY <1>1 DEF TypeOK
  <1>4. hd \in [AllBlocks -> Seq(Wrappers)]
    <2>1. RemoveHeads(heads, b) \in [AllBlocks -> Seq(Wrappers)]
      BY <1>1, EmptySeq DEF RemoveHeads, TypeOK
    <2>2. AddHead(RemoveHeads(heads, b), p, w) \in [AllBlocks -> Seq(Wrappers)]
      BY <1>1, <2>1, AppendProperties DEF AddHead
    <2> QED BY <2>2 DEF TypeOK
  <1>5. bw \in WrapperType
    BY <1>3 DEF WrapperType
  <1>6. [start EXCEPT !.pc = "verifyChild"] \in JobType /\ [start EXCEPT !.pc = "getPrev"] \in JobType
    BY <1>1, IdleJobType DEF JobType, Places
  <1>7. connecting' = conn /\ heads' = hd
    BY ZenonT(60) DEF ProcessBlock
  <1>8. CASE joins
    <2> DEFINE joined == [wr EXCEPT ![w] = [bw EXCEPT !.mode = "orphan"]]
    <2>1. joined \in [Wrappers -> WrapperType]
      BY <1>5, ZenonT(30) DEF WrapperType, Modes
    <2>2. /\ wrapper' = [joined EXCEPT ![conn[p]].children = Append(@, w)]
          /\ Answer(w, "orphan")
          /\ Dequeue(q, TRUE)
          /\ UNCHANGED job
      BY <1>8, ZenonT(30) DEF ProcessBlock
    <2> HIDE DEF joined, bw, conn, hd, kids
    <2>3. conn[p] \in Wrappers
      BY <1>1, <1>2, <1>8
    <2>4. wrapper' \in [Wrappers -> WrapperType]
      BY <2>1, <2>2, <2>3, AddChildType
    <2>5. reply' \in [Wrappers -> Replies]
      <3>1. reply \in [Wrappers -> Replies]
        BY DEF TypeOK
      <3> QED BY <2>2, <3>1, AnswerType
    <2>6. queue' \in Seq(Wrappers) /\ tick' \in Wrappers \cup {NoBw} /\ isProcessing' \in BOOLEAN
      BY <2>2, DequeueType
    <2>7. job' \in [Slots -> JobType]
      BY <2>2 DEF TypeOK
    <2> QED BY <1>2, <1>4, <1>7, <2>4, <2>5, <2>6, <2>7
  <1>9. CASE ~joins
    <2>1. /\ FreeSlots # {}
          /\ isProcessing' = TRUE /\ queue' = q /\ tick' = NoBw /\ reply' = reply
      BY <1>9, ZenonT(30) DEF ProcessBlock
    <2>2. /\ \/ wrapper' = [wr EXCEPT ![w] = [bw EXCEPT !.mode = "main"]]
             \/ wrapper' = [wr EXCEPT ![w] = [bw EXCEPT !.mode = "side"]]
             \/ wrapper' = [wr EXCEPT ![w] = bw]
          /\ \/ job' = [job EXCEPT ![FreeSlot] = [start EXCEPT !.pc = "verifyChild"]]
             \/ job' = [job EXCEPT ![FreeSlot] = [start EXCEPT !.pc = "getPrev"]]
      BY <1>9, ZenonT(30) DEF ProcessBlock
    <2> HIDE DEF bw, conn, hd, kids, start
    <2>3. wrapper' \in [Wrappers -> WrapperType]
      <3>1. [bw EXCEPT !.mode = "main"] \in WrapperType /\ [bw EXCEPT !.mode = "side"] \in WrapperType
        BY <1>5, ZenonT(30) DEF WrapperType, Modes
      <3> QED BY <1>5, <2>2, <3>1
    <2>4. job' \in [Slots -> JobType]
      BY <1>6, <2>2 DEF TypeOK
    <2>5. reply' \in [Wrappers -> Replies]
      BY <2>1 DEF TypeOK
    <2>6. queue' \in Seq(Wrappers) /\ tick' \in Wrappers \cup {NoBw} /\ isProcessing' \in BOOLEAN
      BY <2>1
    <2> QED BY <1>2, <1>4, <1>7, <2>3, <2>4, <2>5, <2>6, ZenonT(30)
  <1> QED BY <1>8, <1>9

LEMMA NextWrapper ==
  ASSUME TypeOK, NEW b, Add(b)
  PROVE  adds + 1 \in Wrappers
  <1>1. adds \in 0..MaxAdds /\ adds < MaxAdds
    BY DEF Add, TypeOK
  <1> QED BY <1>1, BoundAssumption DEF Wrappers

LEMMA AddType ==
  ASSUME TypeOK, NEW b \in Blocks, Add(b)
  PROVE  TypeOK'
  <1> DEFINE w  == adds + 1
             wr == [wrapper EXCEPT ![w] = [NoWrapper EXCEPT !.block = b]]
  <1>1. w \in Wrappers /\ adds' \in 0..MaxAdds
    <2>1. adds \in 0..MaxAdds /\ adds < MaxAdds /\ adds' = adds + 1
      BY DEF Add, TypeOK
    <2> QED BY <2>1, BoundAssumption, NextWrapper
  <1>2. wr \in [Wrappers -> WrapperType]
    <2>1. [NoWrapper EXCEPT !.block = b] \in WrapperType
      BY NoWrapperType DEF WrapperType
    <2> QED BY <2>1 DEF TypeOK
  <1>3. UNCHANGED <<storageVars, top, recent, recentTx, lateMeta, lateBatch, live, faults>>
    BY DEF Add
  <1>4. CASE connecting[b] # NoBw \/ b \in recent.index
    <2>1. /\ wrapper' = wr
          /\ reply' = [reply EXCEPT ![w] = "ok"]
          /\ UNCHANGED <<isProcessing, queue, tick, connecting, heads, job>>
      BY <1>4 DEF Add
    <2>2. reply' \in [Wrappers -> Replies]
      BY <2>1 DEF TypeOK, Replies
    <2> QED BY <1>1, <1>2, <1>3, <2>1, <2>2 DEF TypeOK, StorageTypeOK, storageVars, diskVars
  <1>5. CASE ~(connecting[b] # NoBw \/ b \in recent.index) /\ isProcessing
    <2>1. /\ queue' = Append(queue, w)
          /\ wrapper' = wr
          /\ UNCHANGED <<isProcessing, tick, connecting, heads, reply, job>>
      BY <1>5 DEF Add
    <2>2. queue' \in Seq(Wrappers)
      BY <1>1, <2>1, AppendProperties DEF TypeOK
    <2> QED BY <1>1, <1>2, <1>3, <2>1, <2>2 DEF TypeOK, StorageTypeOK, storageVars, diskVars
  <1>6. CASE ~(connecting[b] # NoBw \/ b \in recent.index) /\ ~isProcessing
    <2>1. ProcessBlock(w, wr, queue)
      BY <1>6 DEF Add
    <2> HIDE DEF w, wr
    <2>2. /\ connecting' \in [AllBlocks -> Wrappers \cup {NoBw}]
          /\ heads' \in [AllBlocks -> Seq(Wrappers)]
          /\ wrapper' \in [Wrappers -> WrapperType]
          /\ reply' \in [Wrappers -> Replies]
          /\ queue' \in Seq(Wrappers)
          /\ tick' \in Wrappers \cup {NoBw}
          /\ isProcessing' \in BOOLEAN
          /\ job' \in [Slots -> JobType]
      <3>1. queue \in Seq(Wrappers)
        BY DEF TypeOK
      <3> QED BY <1>1, <1>2, <2>1, <3>1, ProcessBlockType
    <2> QED BY <1>1, <1>3, <2>2 DEF TypeOK, StorageTypeOK, storageVars, diskVars
  <1> QED BY <1>4, <1>5, <1>6

LEMMA NextTickType ==
  ASSUME TypeOK, NextTick
  PROVE  TypeOK'
  <1>1. tick \in Wrappers /\ wrapper \in [Wrappers -> WrapperType] /\ queue \in Seq(Wrappers)
    BY DEF TypeOK, NextTick
  <1>2. ProcessBlock(tick, wrapper, queue)
    BY DEF NextTick
  <1>3. /\ connecting' \in [AllBlocks -> Wrappers \cup {NoBw}]
        /\ heads' \in [AllBlocks -> Seq(Wrappers)]
        /\ wrapper' \in [Wrappers -> WrapperType]
        /\ reply' \in [Wrappers -> Replies]
        /\ queue' \in Seq(Wrappers)
        /\ tick' \in Wrappers \cup {NoBw}
        /\ isProcessing' \in BOOLEAN
        /\ job' \in [Slots -> JobType]
    BY <1>1, <1>2, ProcessBlockType
  <1> QED BY <1>3 DEF NextTick, TypeOK, StorageTypeOK, storageVars, diskVars

(* The moves that only change what a job is waiting for. *)
LEMMA GotoType ==
  ASSUME TypeOK, NEW s \in Slots, NEW place \in Places, Goto(s, place)
  PROVE  job' \in [Slots -> JobType]
  <1>1. [job[s] EXCEPT !.pc = place] \in JobType
    BY JobBlockType, ZenonT(60) DEF JobType
  <1> QED BY <1>1 DEF Goto, TypeOK

LEMMA GetPrevType ==
  ASSUME TypeOK, NEW s \in Slots, GetPrev(s)
  PROVE  TypeOK'
  <1>1. job' \in [Slots -> JobType]
    <2>1. [job[s] EXCEPT !.pc = "getSelf", !.found = ParentFound(s)] \in JobType
      BY JobBlockType, ZenonT(60) DEF JobType, Places, ParentFound, Stored
    <2> QED BY <2>1 DEF TypeOK, GetPrev
  <1> QED BY <1>1 DEF GetPrev, TypeOK, StorageTypeOK, storageVars, diskVars

LEMMA DiscardType ==
  ASSUME TypeOK, NEW s \in Slots, Discard(s)
  PROVE  TypeOK'
  <1>1. reply' \in [Wrappers -> Replies]
    BY AnswerType DEF Discard, TypeOK
  <1>2. queue' \in Seq(Wrappers) /\ tick' \in Wrappers \cup {NoBw} /\ isProcessing' \in BOOLEAN
    BY DequeueType DEF Discard, TypeOK
  <1>3. job' \in [Slots -> JobType]
    BY IdleJobType DEF Discard, EndJob, TypeOK
  <1> QED BY <1>1, <1>2, <1>3 DEF Discard, TypeOK, StorageTypeOK, storageVars, diskVars

LEMMA ConnectToStoredType ==
  ASSUME TypeOK, NEW s \in Slots, ConnectToStored(s)
  PROVE  TypeOK'
  <1>1. job' \in [Slots -> JobType]
    BY GotoType DEF ConnectToStored, Places
  <1>2. wrapper' \in [Wrappers -> WrapperType]
    BY WrapperUpdateType DEF ConnectToStored, TypeOK, Modes
  <1> QED BY <1>1, <1>2 DEF ConnectToStored, TypeOK, StorageTypeOK, storageVars, diskVars

LEMMA BecomeOrphanType ==
  ASSUME TypeOK, NEW s \in Slots, SlotOK(s), BecomeOrphan(s)
  PROVE  TypeOK'
  <1>1. job[s].bw \in Wrappers
    BY DEF BecomeOrphan, At, SlotOK, Busy
  <1>2. Append(heads[Parent[JobBlock(s)]], job[s].bw) \in Seq(Wrappers)
    BY <1>1, JobBlockType, TreeFacts, AppendProperties DEF TypeOK
  <1>3. heads' \in [AllBlocks -> Seq(Wrappers)]
    BY <1>2 DEF BecomeOrphan, AddHead, TypeOK
  <1>4. wrapper' \in [Wrappers -> WrapperType]
    BY WrapperUpdateType DEF BecomeOrphan, TypeOK, Modes
  <1>5. reply' \in [Wrappers -> Replies]
    BY AnswerType DEF BecomeOrphan, TypeOK
  <1>6. queue' \in Seq(Wrappers) /\ tick' \in Wrappers \cup {NoBw} /\ isProcessing' \in BOOLEAN
    BY DequeueType DEF BecomeOrphan, TypeOK
  <1>7. job' \in [Slots -> JobType]
    BY IdleJobType DEF BecomeOrphan, EndJob, TypeOK
  <1> QED BY <1>3, <1>4, <1>5, <1>6, <1>7
          DEF BecomeOrphan, TypeOK, StorageTypeOK, storageVars, diskVars

LEMMA VerifyChildType ==
  ASSUME TypeOK, NEW s \in Slots, VerifyChild(s)
  PROVE  TypeOK'
  <1>1. job' \in [Slots -> JobType]
    BY GotoType DEF VerifyChild, Places
  <1>2. wrapper' \in [Wrappers -> WrapperType]
    BY WrapperUpdateType DEF VerifyChild, TypeOK
  <1>3. recent' \in [list : Seq(Blocks), index : SUBSET Blocks]
    BY JobBlockType, RecentTypes DEF VerifyChild, TypeOK
  <1>4. top' \in AllBlocks /\ connecting' \in [AllBlocks -> Wrappers \cup {NoBw}]
    BY JobBlockType, TreeFacts DEF VerifyChild, TypeOK
  <1> QED BY <1>1, <1>2, <1>3, <1>4 DEF VerifyChild, TypeOK, StorageTypeOK, storageVars, diskVars

LEMMA VerifyBlockType ==
  ASSUME TypeOK, NEW s \in Slots, VerifyBlock(s)
  PROVE  TypeOK'
  <1>1. job' \in [Slots -> JobType]
    BY GotoType DEF VerifyBlock, Places
  <1>2. currentBatch' \in Batches
    BY JobBlockType, TreeFacts, BatchTypes DEF VerifyBlock
  <1> QED BY <1>1, <1>2 DEF VerifyBlock, TypeOK, StorageTypeOK, storageVars, diskVars

LEMMA ReorganizeType ==
  ASSUME TypeOK, NEW s \in Slots, Reorganize(s)
  PROVE  TypeOK'
  <1>1. job' \in [Slots -> JobType]
    <2>1. [job[s] EXCEPT !.pc = "findFork", !.old = top, !.new = JobBlock(s)] \in JobType
      <3>1. top \in AllBlocks /\ JobBlock(s) \in AllBlocks
        BY JobBlockType, TreeFacts DEF TypeOK
      <3> QED BY <3>1, JobBlockType, ZenonT(60) DEF JobType, Places
    <2> QED BY <2>1 DEF TypeOK, Reorganize
  <1>2. currentBatch' \in Batches
    BY BatchTypes DEF Reorganize
  <1> QED BY <1>1, <1>2 DEF Reorganize, TypeOK, StorageTypeOK, storageVars, diskVars

LEMMA RejectType ==
  ASSUME TypeOK, NEW s \in Slots, Reject(s)
  PROVE  TypeOK'
  <1>1. FinalizeError(s, {})
    BY DEF Reject
  <1>2. faults' \in [reject : 0..MaxRejects, io : 0..MaxIoErrors, crash : 0..MaxCrashes]
    BY FaultTypes DEF Reject, TypeOK
  <1>3. UNCHANGED <<heads, wrapper>>
    BY <1>1 DEF FinalizeError
  <1>4. {} \in SUBSET Writes
    OBVIOUS
  <1> QED BY <1>1, <1>2, <1>3, <1>4, FinalizeErrorType
          DEF Reject, TypeOK, StorageTypeOK, storageVars, diskVars

LEMMA FindForkType ==
  ASSUME TypeOK, NEW s \in Slots, FindFork(s)
  PROVE  TypeOK'
  <1> DEFINE at == Cursor(s)
             p  == Parent[at]
             moved == IF OldIsHigher(s)
                      THEN [job[s] EXCEPT !.old = p, !.off = Append(@, at)]
                      ELSE [job[s] EXCEPT !.new = p, !.on = Append(@, at)]
  <1>1. CASE at \in Blocks /\ Stored(p)
    <2>1. at \in AllBlocks /\ p \in AllBlocks
      BY <1>1, TreeFacts
    <2>2. Append(job[s].off, at) \in Seq(AllBlocks) /\ Append(job[s].on, at) \in Seq(AllBlocks)
      BY <2>1, JobBlockType, AppendProperties
    <2>3. moved \in JobType
      BY <2>1, <2>2, JobBlockType, ZenonT(60) DEF JobType
    <2>4. [moved EXCEPT !.pc = "reorgTxs"] \in JobType
      BY <2>3 DEF JobType, Places
    <2>5. /\ \/ job' = [job EXCEPT ![s] = moved]
             \/ job' = [job EXCEPT ![s] = [moved EXCEPT !.pc = "reorgTxs"]]
          /\ UNCHANGED isProcessing
      BY <1>1 DEF FindFork
    <2>6. job' \in [Slots -> JobType]
      BY <2>3, <2>4, <2>5 DEF TypeOK
    <2> QED BY <2>5, <2>6 DEF FindFork, TypeOK, StorageTypeOK, storageVars, diskVars
  <1>2. CASE ~(at \in Blocks /\ Stored(p))
    <2>1. AbandonReorganize(s)
      BY <1>2 DEF FindFork
    <2>2. job' \in [Slots -> JobType] /\ isProcessing' \in BOOLEAN
      BY <2>1, IdleJobType DEF AbandonReorganize, EndJob, TypeOK
    <2> QED BY <2>2 DEF FindFork, TypeOK, StorageTypeOK, storageVars, diskVars
  <1> QED BY <1>1, <1>2

LEMMA DisconnectTransactionsType ==
  ASSUME TypeOK, NEW s \in Slots, DisconnectTransactions(s)
  PROVE  TypeOK'
  <1> DEFINE txs == {t \in TxsOf[ReorgBlock(s)] : Findable(t)}
  <1>1. txs \in SUBSET Txs
    BY DEF Findable, TypeOK, StorageTypeOK
  <1>2. live' \in SUBSET Txs
    BY DEF DisconnectTransactions, Revoked, TypeOK
  <1>3. currentBatch' \in Batches
    BY <1>1, BatchTypes DEF DisconnectTransactions, TypeOK, StorageTypeOK
  <1>4. job' \in [Slots -> JobType]
    BY GotoType DEF DisconnectTransactions, Places
  <1> QED BY <1>2, <1>3, <1>4
          DEF DisconnectTransactions, TypeOK, StorageTypeOK, storageVars, diskVars

LEMMA AnnounceType ==
  ASSUME TypeOK, NEW s \in Slots, NEW txs \in SUBSET Txs, NEW left \in SUBSET Txs,
         Announce(s, txs, left)
  PROVE  /\ live' \in SUBSET Txs
         /\ currentBatch' \in Batches
         /\ job' \in [Slots -> JobType]
  <1>1. CASE left = {}
    <2>1. Goto(s, "reorgPut") /\ UNCHANGED <<live, currentBatch>>
      BY <1>1 DEF Announce
    <2>2. job' \in [Slots -> JobType]
      BY <2>1, GotoType DEF Places
    <2> QED BY <2>1, <2>2 DEF TypeOK, StorageTypeOK
  <1>2. CASE left # {}
    <2> DEFINE t == CHOOSE x \in left : TRUE
    <2>1. t \in left
      BY <1>2
    <2>2. /\ live' = live \cup {t}
          /\ currentBatch' = PushConnect(currentBatch, txs)
          /\ job' = [job EXCEPT ![s].pc = "reorgAffects", ![s].txs = txs,
                                ![s].left = left \ {t}]
      BY <1>2 DEF Announce
    <2> HIDE DEF t
    <2>3. [job[s] EXCEPT !.pc = "reorgAffects", !.txs = txs, !.left = left \ {t}] \in JobType
      BY JobBlockType, ZenonT(60) DEF JobType, Places
    <2>4. job' \in [Slots -> JobType]
      BY <2>2, <2>3 DEF TypeOK
    <2> QED BY <2>1, <2>2, <2>4, BatchTypes DEF TypeOK, StorageTypeOK
  <1> QED BY <1>1, <1>2

LEMMA ReconnectTransactionsType ==
  ASSUME TypeOK, NEW s \in Slots, ReconnectTransactions(s)
  PROVE  TypeOK'
  <1> DEFINE txs == {t \in TxsOf[ReorgBlock(s)] : Findable(t)}
  <1>1. txs \in SUBSET Txs
    BY DEF Findable, TypeOK, StorageTypeOK
  <1>2. Announce(s, txs, txs) \/ Announce(s, job[s].txs, job[s].left)
    BY DEF ReconnectTransactions
  <1>3. /\ live' \in SUBSET Txs
        /\ currentBatch' \in Batches
        /\ job' \in [Slots -> JobType]
    <2> HIDE DEF txs
    <2> QED BY <1>1, <1>2, AnnounceType, JobBlockType
  <1> QED BY <1>3 DEF ReconnectTransactions, TypeOK, StorageTypeOK, storageVars, diskVars

LEMMA PutBlockType ==
  ASSUME dbBlock \in [AllBlocks -> Flags], NEW b, NEW active, PutBlock(b, active)
  PROVE  dbBlock' \in [AllBlocks -> Flags]
  BY DEF PutBlock, Flags

LEMMA ReorgPutType ==
  ASSUME TypeOK, NEW s \in Slots, ReorgPut(s)
  PROVE  TypeOK'
  <1>1. dbBlock' \in [AllBlocks -> Flags]
    BY PutBlockType DEF ReorgPut, TypeOK, StorageTypeOK
  <1>2. job' \in [Slots -> JobType]
    BY GotoType DEF ReorgPut, Places
  <1> QED BY <1>1, <1>2 DEF ReorgPut, TypeOK, StorageTypeOK, storageVars, diskVars

LEMMA SaveRestType ==
  ASSUME TypeOK, NEW s \in Slots, NEW b \in AllBlocks, NEW active, NEW place \in Places,
         SaveRest(s, b, active, place)
  PROVE  chainHeight' \in Heights /\ job' \in [Slots -> JobType]
  <1> DEFINE io == IF RaisesChainHeight(b, active) THEN {"meta", "idx"} ELSE {"idx"}
  <1>1. chainHeight' \in Heights
    BY TreeFacts DEF SaveRest, TypeOK, StorageTypeOK
  <1>2. io \in SUBSET Writes
    BY DEF Writes
  <1>3. job' = [job EXCEPT ![s].pc = place, ![s].io = io]
    BY DEF SaveRest
  <1> HIDE DEF io
  <1>4. [job[s] EXCEPT !.pc = place, !.io = io] \in JobType
    BY <1>2, JobBlockType DEF JobType
  <1>5. job' \in [Slots -> JobType]
    BY <1>3, <1>4 DEF TypeOK
  <1> QED BY <1>1, <1>5

LEMMA ReorgHeightType ==
  ASSUME TypeOK, NEW s \in Slots, SlotOK(s), ReorgHeight(s)
  PROVE  TypeOK'
  <1>1. ReorgBlock(s) \in AllBlocks
    BY ReorgBlockType DEF ReorgHeight, At, ReorgPlaces
  <1>2. chainHeight' \in Heights /\ job' \in [Slots -> JobType]
    BY <1>1, SaveRestType DEF ReorgHeight, Places
  <1>3. dbHeight' \in [Heights -> AllBlocks \cup {NoBlock}]
    BY <1>1 DEF ReorgHeight, PutHeight, TypeOK, StorageTypeOK
  <1> QED BY <1>2, <1>3 DEF ReorgHeight, TypeOK, StorageTypeOK, storageVars, diskVars

LEMMA PutType ==
  ASSUME TypeOK, NEW s \in Slots, Put(s)
  PROVE  TypeOK'
  <1>1. dbBlock' \in [AllBlocks -> Flags]
    BY PutBlockType DEF Put, TypeOK, StorageTypeOK
  <1>2. job' \in [Slots -> JobType]
    BY GotoType DEF Put, Places
  <1> QED BY <1>1, <1>2 DEF Put, TypeOK, StorageTypeOK, storageVars, diskVars

LEMMA PutHeightKeyType ==
  ASSUME TypeOK, NEW s \in Slots, PutHeightKey(s)
  PROVE  TypeOK'
  <1>1. JobBlock(s) \in AllBlocks
    BY JobBlockType, TreeFacts
  <1>2. chainHeight' \in Heights /\ job' \in [Slots -> JobType]
    BY <1>1, SaveRestType DEF PutHeightKey, Places
  <1>3. dbHeight' \in [Heights -> AllBlocks \cup {NoBlock}]
    BY <1>1 DEF PutHeightKey, PutHeight, TypeOK, StorageTypeOK
  <1> QED BY <1>2, <1>3 DEF PutHeightKey, TypeOK, StorageTypeOK, storageVars, diskVars

LEMMA NextReorgStepType ==
  ASSUME TypeOK, NEW s \in Slots, SlotOK(s), job[s].pc \in ReorgPlaces,
         NEW io \in SUBSET Writes, NextReorgStep(s, io)
  PROVE  /\ lateMeta' \in SUBSET Heights
         /\ top' \in AllBlocks
         /\ wrapper' \in [Wrappers -> WrapperType]
         /\ currentBatch' \in Batches
         /\ isProcessing' \in BOOLEAN
         /\ job' \in [Slots -> JobType]
  <1> DEFINE off  == IF Disconnecting(s) THEN Tail(job[s].off) ELSE job[s].off
             on   == IF Disconnecting(s) THEN job[s].on ELSE Tail(job[s].on)
             last == off = <<>> /\ on = <<>>
             pc   == IF last THEN "put" ELSE "reorgTxs"
  <1>1. off \in Seq(AllBlocks) /\ on \in Seq(AllBlocks) /\ ReorgBlock(s) \in AllBlocks
    BY ReorgBlockType, JobBlockType
  <1>2. lateMeta' \in SUBSET Heights
    BY <1>1, TreeFacts DEF NextReorgStep, TypeOK
  <1>3. JobBlock(s) \in AllBlocks
    BY JobBlockType, TreeFacts
  <1>4. top' \in AllBlocks /\ isProcessing' \in BOOLEAN
    BY <1>3 DEF NextReorgStep, ReorgRelease, TypeOK
  <1>5. wrapper' \in [Wrappers -> WrapperType]
    BY WrapperUpdateType DEF NextReorgStep, TypeOK
  <1>6. currentBatch' \in Batches
    <2> DEFINE pushed == PushTransactions(currentBatch, TxsOf[JobBlock(s)])
    <2>1. currentBatch \in Batches /\ TxsOf[JobBlock(s)] \in SUBSET Txs
      BY <1>3, TreeFacts DEF TypeOK, StorageTypeOK
    <2>2. pushed \in Batches
      BY <2>1, BatchTypes
    <2>3. currentBatch' = pushed \/ currentBatch' = currentBatch
      BY ZenonT(30) DEF NextReorgStep
    <2> QED BY <2>1, <2>2, <2>3
  <1>7. job' = [job EXCEPT ![s].off = off, ![s].on = on, ![s].io = {},
                           ![s].txs = {}, ![s].left = {}, ![s].pc = pc]
    BY DEF NextReorgStep
  <1>8. pc \in Places
    BY DEF Places
  <1> HIDE DEF off, on, pc
  <1>9. [job[s] EXCEPT !.off = off, !.on = on, !.io = {}, !.txs = {}, !.left = {}, !.pc = pc] \in JobType
    BY <1>1, <1>8, JobBlockType, ZenonT(60) DEF JobType
  <1>10. job' \in [Slots -> JobType]
    BY <1>7, <1>9 DEF TypeOK
  <1> QED BY <1>2, <1>4, <1>5, <1>6, <1>10

LEMMA ReorgSavedType ==
  ASSUME TypeOK, NEW s \in Slots, SlotOK(s), NEW op \in Writes, ReorgSaved(s, op)
  PROVE  TypeOK'
  <1>1. job[s].pc \in ReorgPlaces /\ job[s].io \ {op} \in SUBSET Writes
    BY JobBlockType DEF ReorgSaved, At, ReorgPlaces
  <1>2. NextReorgStep(s, job[s].io \ {op})
    BY DEF ReorgSaved
  <1>3. /\ lateMeta' \in SUBSET Heights
        /\ top' \in AllBlocks
        /\ wrapper' \in [Wrappers -> WrapperType]
        /\ currentBatch' \in Batches
        /\ isProcessing' \in BOOLEAN
        /\ job' \in [Slots -> JobType]
    BY <1>1, <1>2, NextReorgStepType
  <1>4. dbChainHeight' \in Heights
    BY <1>1, ReorgBlockType, TreeFacts DEF ReorgSaved, TypeOK, StorageTypeOK
  <1> QED BY <1>3, <1>4 DEF ReorgSaved, TypeOK, StorageTypeOK, storageVars, diskVars

LEMMA ApplyBatchType ==
  ASSUME TypeOK, NEW batch \in Batches, ApplyBatch(batch)
  PROVE  dbTx' \in SUBSET Txs /\ dbSpent' \in SUBSET Outpoints
  BY DEF ApplyBatch, Batches, TypeOK, StorageTypeOK

LEMMA CompletesType ==
  ASSUME TypeOK, NEW s \in Slots, NEW op, NEW step, Completes(s, op, step)
  PROVE  /\ dbBlock' \in [AllBlocks -> Flags]
         /\ dbHeight' \in [Heights -> AllBlocks \cup {NoBlock}]
         /\ dbChainHeight' \in Heights
         /\ dbTx' \in SUBSET Txs
         /\ dbSpent' \in SUBSET Outpoints
         /\ chainHeight' \in Heights
  <1>1. dbChainHeight' \in Heights
    BY JobBlockType, TreeFacts DEF Completes, TypeOK, StorageTypeOK
  <1>2. dbTx' \in SUBSET Txs /\ dbSpent' \in SUBSET Outpoints
    BY JobBlockType, ApplyBatchType DEF Completes, TypeOK, StorageTypeOK
  <1> QED BY <1>1, <1>2 DEF Completes, TypeOK, StorageTypeOK

LEMMA EndTransactionType ==
  ASSUME TypeOK, NEW s \in Slots, NEW io \in SUBSET Writes, NEW batch \in Batches,
         EndTransaction(s, io, batch)
  PROVE  job' \in [Slots -> JobType]
  <1>1. io \cup {"batch"} \in SUBSET Writes
    BY DEF Writes
  <1>2. [job[s] EXCEPT !.io = io \cup {"batch"}, !.out = batch, !.step = "queueDependents"] \in JobType
    BY <1>1, JobBlockType, ZenonT(60) DEF JobType, Steps
  <1> QED BY <1>2 DEF EndTransaction, TypeOK

LEMMA TailConnectType ==
  ASSUME TypeOK, NEW s \in Slots, NEW op \in Writes, TailConnect(s, op)
  PROVE  TypeOK'
  <1> DEFINE txs == TxsOf[JobBlock(s)]
             io  == job[s].io \ {op}
  <1>1. io \in SUBSET Writes /\ txs \in SUBSET Txs
    BY JobBlockType, TreeFacts
  <1>2. Completes(s, op, "connectTransactions")
    BY DEF TailConnect
  <1>3. /\ live' \in SUBSET Txs
        /\ recentTx' \in SUBSET Txs
        /\ currentBatch' \in Batches
        /\ job' \in [Slots -> JobType]
    <2>1. CASE JobMode(s) = "main"
      <3>1. /\ live' = live \cup txs
            /\ recentTx' = recentTx \cup txs
            /\ currentBatch' = PushConnect(currentBatch, txs)
            /\ job' = [job EXCEPT ![s].io = io \cup {"affects"}, ![s].step = "endTransaction"]
        BY <2>1 DEF TailConnect
      <3>2. io \cup {"affects"} \in SUBSET Writes
        BY <1>1 DEF Writes
      <3> HIDE DEF io, txs
      <3>3. [job[s] EXCEPT !.io = io \cup {"affects"}, !.step = "endTransaction"] \in JobType
        BY <3>2, JobBlockType, ZenonT(60) DEF JobType, Steps
      <3>4. job' \in [Slots -> JobType]
        BY <3>1, <3>3 DEF TypeOK
      <3> QED BY <1>1, <3>1, <3>4, BatchTypes DEF TypeOK, StorageTypeOK
    <2>2. CASE JobMode(s) # "main"
      <3>1. EndTransaction(s, io, currentBatch) /\ UNCHANGED <<live, recentTx, currentBatch>>
        BY <2>2 DEF TailConnect
      <3>2. currentBatch \in Batches
        BY DEF TypeOK, StorageTypeOK
      <3> HIDE DEF io
      <3>3. job' \in [Slots -> JobType]
        BY <1>1, <3>1, <3>2, EndTransactionType
      <3> QED BY <3>1, <3>3 DEF TypeOK, StorageTypeOK
    <2> QED BY <2>1, <2>2
  <1> HIDE DEF io, txs
  <1> QED BY <1>2, <1>3, CompletesType DEF TailConnect, TypeOK, StorageTypeOK

LEMMA TailEndType ==
  ASSUME TypeOK, NEW s \in Slots, NEW op \in Writes, TailEnd(s, op)
  PROVE  TypeOK'
  <1>1. Completes(s, op, "endTransaction") /\ EndTransaction(s, job[s].io \ {op}, currentBatch)
    BY DEF TailEnd
  <1>2. currentBatch \in Batches /\ job[s].io \ {op} \in SUBSET Writes
    BY JobBlockType DEF TypeOK, StorageTypeOK
  <1>3. job' \in [Slots -> JobType]
    BY <1>1, <1>2, EndTransactionType
  <1> QED BY <1>1, <1>3, CompletesType DEF TailEnd, TypeOK, StorageTypeOK

LEMMA LeaveBehindType ==
  ASSUME TypeOK, NEW s \in Slots, NEW io, LeaveBehind(s, io)
  PROVE  lateMeta' \in SUBSET Heights /\ lateBatch' \in SUBSET Batches
  BY JobBlockType, TreeFacts DEF TypeOK, LeaveBehind

LEMMA TailFinalizeType ==
  ASSUME TypeOK, NEW s \in Slots, SlotOK(s), NEW op \in Writes, TailFinalize(s, op)
  PROVE  TypeOK'
  <1> DEFINE kids == wrapper[job[s].bw].children
             q    == IF JobMode(s) = "main" THEN kids \o queue ELSE queue \o kids
  <1>1. kids \in Seq(Wrappers) /\ queue \in Seq(Wrappers)
    BY DEF TailFinalize, Completes, At, SlotOK, Busy, TypeOK, WrapperType
  <1>2. q \in Seq(Wrappers)
    <2> HIDE DEF kids
    <2> QED BY <1>1, ConcatProperties
  <1>3. Dequeue(q, isProcessing) /\ Completes(s, op, "queueDependents")
    BY DEF TailFinalize
  <1>4. queue' \in Seq(Wrappers) /\ tick' \in Wrappers \cup {NoBw} /\ isProcessing' \in BOOLEAN
    <2> HIDE DEF q
    <2> QED BY <1>2, <1>3, DequeueType DEF TypeOK
  <1>5. reply' \in [Wrappers -> Replies]
    BY AnswerType DEF TailFinalize, TypeOK
  <1>6. job' \in [Slots -> JobType]
    BY IdleJobType DEF TailFinalize, EndJob, TypeOK
  <1>7. lateMeta' \in SUBSET Heights /\ lateBatch' \in SUBSET Batches
    BY LeaveBehindType DEF TailFinalize
  <1> HIDE DEF q, kids
  <1> QED BY <1>3, <1>4, <1>5, <1>6, <1>7, CompletesType DEF TailFinalize, TypeOK, StorageTypeOK

LEMMA LateMetaType ==
  ASSUME TypeOK, NEW h \in Heights, LateMeta(h)
  PROVE  TypeOK'
  BY DEF LateMeta, TypeOK, StorageTypeOK, storageVars, diskVars

LEMMA LateBatchType ==
  ASSUME TypeOK, NEW batch \in lateBatch, LateBatch(batch)
  PROVE  TypeOK'
  <1>1. batch \in Batches
    BY DEF TypeOK
  <1>2. dbTx' \in SUBSET Txs /\ dbSpent' \in SUBSET Outpoints
    BY <1>1, ApplyBatchType DEF LateBatch
  <1> QED BY <1>2 DEF LateBatch, TypeOK, StorageTypeOK

LEMMA PipelineErrorType ==
  ASSUME TypeOK, NEW s \in Slots, PipelineError(s)
  PROVE  TypeOK'
  <1>1. PICK io \in SUBSET Writes : FinalizeError(s, io)
    <2>1. {} \in SUBSET Writes /\ \A op : job[s].io \ {op} \in SUBSET Writes
      BY JobBlockType
    <2> QED BY <2>1 DEF PipelineError
  <1>2. faults' \in [reject : 0..MaxRejects, io : 0..MaxIoErrors, crash : 0..MaxCrashes]
    BY FaultTypes DEF PipelineError, IoErrorAllowed, TypeOK
  <1>3. UNCHANGED <<heads, wrapper>> /\ UNCHANGED <<storageVars, recentTx, live, adds>>
    BY <1>1 DEF PipelineError, FinalizeError
  <1> QED BY <1>1, <1>2, <1>3, FinalizeErrorType DEF TypeOK, StorageTypeOK, storageVars, diskVars

LEMMA FindForkErrorType ==
  ASSUME TypeOK, NEW s \in Slots, FindForkError(s)
  PROVE  TypeOK'
  <1>1. faults' \in [reject : 0..MaxRejects, io : 0..MaxIoErrors, crash : 0..MaxCrashes]
    BY FaultTypes DEF FindForkError, IoErrorAllowed, TypeOK
  <1>2. job' \in [Slots -> JobType] /\ isProcessing' \in BOOLEAN
    BY IdleJobType DEF FindForkError, AbandonReorganize, EndJob, TypeOK
  <1> QED BY <1>1, <1>2 DEF FindForkError, TypeOK, StorageTypeOK, storageVars, diskVars

LEMMA ReorgErrorType ==
  ASSUME TypeOK, NEW s \in Slots, SlotOK(s), ReorgError(s)
  PROVE  TypeOK'
  <1>1. job[s].pc \in ReorgPlaces
    BY DEF ReorgError, ReorgPlaces
  <1>2. PICK io \in SUBSET Writes : NextReorgStep(s, io)
    <2>1. {} \in SUBSET Writes /\ \A op : job[s].io \ {op} \in SUBSET Writes
      BY JobBlockType
    <2> QED BY <2>1 DEF ReorgError
  <1>3. faults' \in [reject : 0..MaxRejects, io : 0..MaxIoErrors, crash : 0..MaxCrashes]
    BY FaultTypes DEF ReorgError, IoErrorAllowed, TypeOK
  <1>4. /\ lateMeta' \in SUBSET Heights
        /\ top' \in AllBlocks
        /\ wrapper' \in [Wrappers -> WrapperType]
        /\ currentBatch' \in Batches
        /\ isProcessing' \in BOOLEAN
        /\ job' \in [Slots -> JobType]
    BY <1>1, <1>2, NextReorgStepType
  <1> QED BY <1>3, <1>4 DEF ReorgError, TypeOK, StorageTypeOK, storageVars, diskVars

LEMMA CrashType ==
  ASSUME TypeOK, MetaInv, Crash
  PROVE  TypeOK'
  <1>1. top' \in AllBlocks
    BY DEF Crash, TopOnDisk, MetaInv, TypeOK, StorageTypeOK
  <1>2. dbBlock' \in [AllBlocks -> Flags] /\ dbHeight' \in [Heights -> AllBlocks \cup {NoBlock}]
    BY TreeFacts DEF Crash, TypeOK, StorageTypeOK, Flags
  <1>3. faults' \in [reject : 0..MaxRejects, io : 0..MaxIoErrors, crash : 0..MaxCrashes]
    BY FaultTypes DEF Crash, TypeOK
  <1>4. wrapper' \in [Wrappers -> WrapperType]
    <2>1. \A w \in Wrappers : [NoWrapper EXCEPT !.block = wrapper[w].block] \in WrapperType
      BY NoWrapperType DEF TypeOK, WrapperType
    <2> QED BY <2>1 DEF Crash
  <1>5. job' \in [Slots -> JobType]
    BY IdleJobType DEF Crash
  <1>6. /\ heads' \in [AllBlocks -> Seq(Wrappers)]
        /\ queue' \in Seq(Wrappers)
        /\ recent' \in [list : Seq(Blocks), index : SUBSET Blocks]
    BY EmptySeq DEF Crash, RecentEmpty
  <1>7. currentBatch' \in Batches
    BY BatchTypes DEF Crash
  <1> QED BY <1>1, <1>2, <1>3, <1>4, <1>5, <1>6, <1>7 DEF Crash, TypeOK, StorageTypeOK

LEMMA TypeStep ==
  ASSUME IInv, [Next]_vars
  PROVE  TypeOK'
  <1> USE DEF IInv
  <1>1. CASE \E b \in Blocks : Add(b)
    BY <1>1, AddType
  <1>2. CASE NextTick
    BY <1>2, NextTickType
  <1>3. ASSUME NEW s \in Slots, Advance(s)
        PROVE  TypeOK'
    <2>1. ASSUME NEW op \in Writes,
                 ReorgSaved(s, op) \/ TailConnect(s, op) \/ TailEnd(s, op) \/ TailFinalize(s, op)
          PROVE  TypeOK'
      BY <2>1, ReorgSavedType, TailConnectType, TailEndType, TailFinalizeType
    <2> QED
      BY <1>3, <2>1, GetPrevType, DiscardType, ConnectToStoredType, BecomeOrphanType,
         VerifyChildType, VerifyBlockType, ReorganizeType, FindForkType,
         DisconnectTransactionsType, ReconnectTransactionsType, ReorgPutType, ReorgHeightType,
         PutType, PutHeightKeyType
      DEF Advance
  <1>4. ASSUME NEW s \in Slots, Faulty(s)
        PROVE  TypeOK'
    BY <1>4, RejectType, PipelineErrorType, FindForkErrorType, ReorgErrorType DEF Faulty
  <1>5. CASE LateWrite
    BY <1>5, LateMetaType, LateBatchType DEF LateWrite
  <1>6. CASE Crash
    BY <1>6, CrashType
  <1>7. CASE UNCHANGED vars
    BY <1>7 DEF TypeOK, StorageTypeOK, vars, chainVars, storageVars, diskVars
  <1> QED BY <1>1, <1>2, <1>3, <1>4, <1>5, <1>6, <1>7 DEF Next

-----------------------------------------------------------------------------
(* What a step may do to the disk: put one record, enter one block that has  *)
(* a record at its height, and move the recorded height to one that has an   *)
(* entry; metadata writes left behind are for such heights too.              *)
RecordStep ==
  \/ dbBlock' = dbBlock
  \/ \E b \in AllBlocks, flag \in {"active", "inactive"} :
        dbBlock' = [dbBlock EXCEPT ![b] = flag]

IndexStep ==
  \/ dbHeight' = dbHeight
  \/ \E b \in AllBlocks : Stored(b)' /\ dbHeight' = [dbHeight EXCEPT ![Height[b]] = b]

MetaStep ==
  /\ dbChainHeight' = dbChainHeight \/ dbHeight[dbChainHeight'] # NoBlock
  /\ \A h \in lateMeta' : dbHeight[h] # NoBlock

DiskStep == RecordStep /\ IndexStep /\ MetaStep

LEMMA PutBlockStep ==
  ASSUME NEW b \in AllBlocks, NEW active, PutBlock(b, active)
  PROVE  RecordStep
  BY DEF PutBlock, RecordStep

LEMMA SameDisk ==
  ASSUME MetaInv, UNCHANGED diskVars, UNCHANGED lateMeta
  PROVE  DiskStep
  BY DEF MetaInv, DiskStep, RecordStep, IndexStep, MetaStep, diskVars

LEMMA LeaveBehindStep ==
  ASSUME MetaInv, NEW s \in Slots, SlotOK(s), NEW io,
         "meta" \in io => job[s].pc = "tail" /\ "meta" \in job[s].io,
         LeaveBehind(s, io)
  PROVE  \A h \in lateMeta' : dbHeight[h] # NoBlock
  BY DEF MetaInv, LeaveBehind, SlotOK

LEMMA NextReorgStepStep ==
  ASSUME MetaInv, NEW s \in Slots, SlotOK(s), NEW io,
         "meta" \in io => job[s].pc = "reorgIdx" /\ "meta" \in job[s].io,
         NextReorgStep(s, io)
  PROVE  \A h \in lateMeta' : dbHeight[h] # NoBlock
  BY DEF MetaInv, NextReorgStep, SlotOK

LEMMA CompletesStep ==
  ASSUME NEW s \in Slots, SlotOK(s), NEW op, NEW step, Completes(s, op, step)
  PROVE  /\ dbBlock' = dbBlock
         /\ dbHeight' = dbHeight
         /\ dbChainHeight' = dbChainHeight \/ dbHeight[dbChainHeight'] # NoBlock
  BY DEF Completes, At, SlotOK

LEMMA DiskStepOfAdvance ==
  ASSUME IInv, NEW s \in Slots, Advance(s)
  PROVE  DiskStep
  <1> USE DEF IInv
  <1>1. SlotOK(s)
    OBVIOUS
  <1>2. CASE \/ GetPrev(s) \/ Discard(s) \/ ConnectToStored(s) \/ BecomeOrphan(s)
             \/ VerifyChild(s) \/ VerifyBlock(s) \/ Reorganize(s) \/ FindFork(s)
             \/ DisconnectTransactions(s) \/ ReconnectTransactions(s)
    BY <1>2, SameDisk
       DEF GetPrev, Discard, ConnectToStored, BecomeOrphan, VerifyChild, VerifyBlock,
           Reorganize, FindFork, DisconnectTransactions, ReconnectTransactions, storageVars
  <1>3. CASE ReorgPut(s)
    <2>1. ReorgBlock(s) \in AllBlocks
      BY <1>3, ReorgBlockType DEF ReorgPut, At, ReorgPlaces
    <2>2. PutBlock(ReorgBlock(s), ReorgFlag(s)) /\ UNCHANGED <<dbHeight, dbChainHeight, lateMeta>>
      BY <1>3 DEF ReorgPut
    <2>3. RecordStep
      BY <2>1, <2>2, PutBlockStep
    <2> QED BY <2>2, <2>3 DEF DiskStep, IndexStep, MetaStep, MetaInv
  <1>4. CASE ReorgHeight(s)
    <2>1. ReorgBlock(s) \in AllBlocks /\ Stored(ReorgBlock(s))
      BY <1>1, <1>4, ReorgBlockType DEF ReorgHeight, At, ReorgPlaces, SlotOK
    <2>2. PutHeight(ReorgBlock(s)) /\ UNCHANGED <<dbBlock, dbChainHeight, lateMeta>>
      BY <1>4 DEF ReorgHeight
    <2>3. IndexStep
      BY <2>1, <2>2 DEF IndexStep, PutHeight, Stored
    <2> QED BY <2>2, <2>3 DEF DiskStep, RecordStep, MetaStep, MetaInv
  <1>5. CASE Put(s)
    <2>1. JobBlock(s) \in AllBlocks
      BY JobBlockType, TreeFacts
    <2>2. /\ PutBlock(JobBlock(s), wrapper[job[s].bw].active)
          /\ UNCHANGED <<dbHeight, dbChainHeight, lateMeta>>
      BY <1>5 DEF Put
    <2>3. RecordStep
      BY <2>1, <2>2, PutBlockStep
    <2> QED BY <2>2, <2>3 DEF DiskStep, IndexStep, MetaStep, MetaInv
  <1>6. CASE PutHeightKey(s)
    <2>1. JobBlock(s) \in AllBlocks /\ Stored(JobBlock(s))
      BY <1>1, <1>6, JobBlockType, TreeFacts DEF PutHeightKey, At, SlotOK
    <2>2. PutHeight(JobBlock(s)) /\ UNCHANGED <<dbBlock, dbChainHeight, lateMeta>>
      BY <1>6 DEF PutHeightKey
    <2>3. IndexStep
      BY <2>1, <2>2 DEF IndexStep, PutHeight, Stored
    <2> QED BY <2>2, <2>3 DEF DiskStep, RecordStep, MetaStep, MetaInv
  <1>7. ASSUME NEW op \in Writes, ReorgSaved(s, op)
        PROVE  DiskStep
    <2>1. /\ At(s, "reorgIdx") /\ op \in job[s].io
          /\ dbChainHeight' = IF op = "meta" THEN Height[ReorgBlock(s)] ELSE dbChainHeight
          /\ NextReorgStep(s, job[s].io \ {op})
          /\ UNCHANGED <<dbBlock, dbHeight>>
      BY <1>7 DEF ReorgSaved
    <2>2. dbChainHeight' = dbChainHeight \/ dbHeight[dbChainHeight'] # NoBlock
      BY <1>1, <2>1 DEF SlotOK, At
    <2>3. \A h \in lateMeta' : dbHeight[h] # NoBlock
      BY <1>1, <2>1, NextReorgStepStep DEF At
    <2> QED BY <2>1, <2>2, <2>3 DEF DiskStep, RecordStep, IndexStep, MetaStep
  <1>8. ASSUME NEW op \in Writes, TailConnect(s, op) \/ TailEnd(s, op) \/ TailFinalize(s, op)
        PROVE  DiskStep
    <2>1. PICK step : Completes(s, op, step)
      BY <1>8 DEF TailConnect, TailEnd, TailFinalize
    <2>2. \A h \in lateMeta' : dbHeight[h] # NoBlock
      <3>1. CASE TailConnect(s, op) \/ TailEnd(s, op)
        BY <3>1 DEF TailConnect, TailEnd, MetaInv
      <3>2. CASE TailFinalize(s, op)
        <4>1. LeaveBehind(s, job[s].io \ {op}) /\ job[s].pc = "tail"
          BY <3>2, <2>1 DEF TailFinalize, Completes, At
        <4> QED BY <1>1, <4>1, LeaveBehindStep
      <3> QED BY <1>8, <3>1, <3>2
    <2> QED BY <1>1, <2>1, <2>2, CompletesStep DEF DiskStep, RecordStep, IndexStep, MetaStep
  <1> QED BY <1>2, <1>3, <1>4, <1>5, <1>6, <1>7, <1>8 DEF Advance

LEMMA DiskStepOfFaulty ==
  ASSUME IInv, NEW s \in Slots, Faulty(s)
  PROVE  DiskStep
  <1> USE DEF IInv
  <1>1. SlotOK(s)
    OBVIOUS
  <1>2. CASE Reject(s) \/ PipelineError(s)
    <2>1. UNCHANGED diskVars
      BY <1>2 DEF Reject, PipelineError, storageVars
    <2>2. \/ FinalizeError(s, {})
          \/ job[s].pc = "tail" /\ \E op \in job[s].io : FinalizeError(s, job[s].io \ {op})
      BY <1>2 DEF Reject, PipelineError
    <2>3. \A h \in lateMeta' : dbHeight[h] # NoBlock
      <3>1. CASE FinalizeError(s, {})
        BY <1>1, <3>1, LeaveBehindStep DEF FinalizeError
      <3>2. ASSUME job[s].pc = "tail", NEW op \in job[s].io, FinalizeError(s, job[s].io \ {op})
            PROVE  \A h \in lateMeta' : dbHeight[h] # NoBlock
        BY <1>1, <3>2, LeaveBehindStep DEF FinalizeError
      <3> QED BY <2>2, <3>1, <3>2
    <2> QED BY <2>1, <2>3 DEF DiskStep, RecordStep, IndexStep, MetaStep, diskVars
  <1>3. CASE FindForkError(s)
    BY <1>3, SameDisk DEF FindForkError, storageVars
  <1>4. CASE ReorgError(s)
    <2>1. UNCHANGED diskVars
      BY <1>4 DEF ReorgError
    <2>2. \/ NextReorgStep(s, {})
          \/ job[s].pc = "reorgIdx" /\ \E op \in job[s].io : NextReorgStep(s, job[s].io \ {op})
      BY <1>4 DEF ReorgError
    <2>3. \A h \in lateMeta' : dbHeight[h] # NoBlock
      <3>1. CASE NextReorgStep(s, {})
        BY <1>1, <3>1, NextReorgStepStep
      <3>2. ASSUME job[s].pc = "reorgIdx", NEW op \in job[s].io, NextReorgStep(s, job[s].io \ {op})
            PROVE  \A h \in lateMeta' : dbHeight[h] # NoBlock
        BY <1>1, <3>2, NextReorgStepStep
      <3> QED BY <2>2, <3>1, <3>2
    <2> QED BY <2>1, <2>3 DEF DiskStep, RecordStep, IndexStep, MetaStep, diskVars
  <1> QED BY <1>2, <1>3, <1>4 DEF Faulty

LEMMA DiskStepOfNext ==
  ASSUME IInv, [Next]_vars
  PROVE  DiskStep
  <1> USE DEF IInv
  <1>1. CASE \E b \in Blocks : Add(b)
    BY <1>1, SameDisk DEF Add, storageVars
  <1>2. CASE NextTick
    BY <1>2, SameDisk DEF NextTick, storageVars
  <1>3. CASE LateWrite
    <2>1. CASE \E h \in Heights : LateMeta(h)
      BY <2>1 DEF LateMeta, DiskStep, RecordStep, IndexStep, MetaStep, MetaInv
    <2>2. CASE \E batch \in lateBatch : LateBatch(batch)
      BY <2>2 DEF LateBatch, DiskStep, RecordStep, IndexStep, MetaStep, MetaInv
    <2> QED BY <1>3, <2>1, <2>2 DEF LateWrite
  <1>4. CASE Crash
    <2>1. RecordStep
      BY <1>4, TreeFacts DEF Crash, RecordStep
    <2>2. Stored(Genesis)'
      BY <1>4, TreeFacts DEF Crash, Stored, TypeOK, StorageTypeOK
    <2>3. IndexStep
      BY <1>4, <2>2, TreeFacts, TreeAssumption DEF Crash, IndexStep
    <2>4. MetaStep
      BY <1>4 DEF Crash, MetaStep
    <2> QED BY <2>1, <2>3, <2>4 DEF DiskStep
  <1>5. CASE UNCHANGED vars
    BY <1>5, SameDisk DEF vars, chainVars, storageVars
  <1> QED BY <1>1, <1>2, <1>3, <1>4, <1>5, DiskStepOfAdvance, DiskStepOfFaulty DEF Next

LEMMA IndexKept ==
  ASSUME IInv, DiskStep
  PROVE  /\ \A b \in AllBlocks : Stored(b) => Stored(b)'
         /\ \A h \in Heights : dbHeight[h] # NoBlock => dbHeight'[h] # NoBlock
         /\ IndexInv'
  <1> USE DEF IInv
  <1>1. \A b \in AllBlocks : Stored(b) => Stored(b)'
    BY DEF DiskStep, RecordStep, Stored, TypeOK, StorageTypeOK
  <1>2. \A h \in Heights : dbHeight[h] # NoBlock => dbHeight'[h] # NoBlock
    BY TreeFacts DEF DiskStep, IndexStep, TypeOK, StorageTypeOK
  <1>3. IndexInv'
    <2> SUFFICES ASSUME NEW h \in Heights, dbHeight'[h] # NoBlock
                 PROVE  dbBlock'[dbHeight'[h]] # "none" /\ Height[dbHeight'[h]] = h
      BY DEF IndexInv, Stored
    <2>1. CASE dbHeight' = dbHeight
      BY <1>1, <2>1 DEF IndexInv, Stored, TypeOK, StorageTypeOK
    <2>2. CASE dbHeight' # dbHeight
      <3>1. PICK b \in AllBlocks : Stored(b)' /\ dbHeight' = [dbHeight EXCEPT ![Height[b]] = b]
        BY <2>2 DEF DiskStep, IndexStep
      <3>2. CASE h = Height[b]
        BY <3>1, <3>2 DEF Stored, TypeOK, StorageTypeOK
      <3>3. CASE h # Height[b]
        BY <1>1, <3>1, <3>3 DEF IndexInv, Stored, TypeOK, StorageTypeOK
      <3> QED BY <3>2, <3>3
    <2> QED BY <2>1, <2>2
  <1> QED BY <1>1, <1>2, <1>3

LEMMA MetaKept ==
  ASSUME IInv, DiskStep, TypeOK'
  PROVE  MetaInv'
  BY IndexKept DEF IInv, MetaInv, DiskStep, MetaStep, TypeOK, StorageTypeOK

-----------------------------------------------------------------------------
(* What a step does to the slots: those that are not run stay as they are,   *)
(* and the disk only gains what their jobs rely on.                          *)
OnlyJob(s) == \A r \in Slots \ {s} : job'[r] = job[r]

DiskKept ==
  /\ \A b \in AllBlocks : Stored(b) => Stored(b)'
  /\ \A h \in Heights : dbHeight[h] # NoBlock => dbHeight'[h] # NoBlock

LEMMA SlotKept ==
  ASSUME TypeOK, DiskKept, NEW r \in Slots, SlotOK(r), job'[r] = job[r]
  PROVE  SlotOK(r)'
  <1>1. /\ JobBlock(r) \in AllBlocks /\ Height[JobBlock(r)] \in Heights
        /\ job[r].pc \in ReorgPlaces =>
             ReorgBlock(r) \in AllBlocks /\ Height[ReorgBlock(r)] \in Heights
    BY JobBlockType, ReorgBlockType, TreeFacts
  <1>2. JobBlock(r)' = JobBlock(r) /\ ReorgBlock(r)' = ReorgBlock(r) /\ Busy(r)' = Busy(r)
    BY DEF JobBlock, ReorgBlock, Disconnecting, Busy
  <1>3. job[r].pc = "height" => Stored(JobBlock(r))'
    BY <1>1, <1>2 DEF DiskKept, SlotOK, Stored
  <1>4. job[r].pc = "reorgHeight" => Stored(ReorgBlock(r))'
    BY <1>1, <1>2 DEF DiskKept, SlotOK, Stored, ReorgPlaces
  <1>5. /\ job[r].pc = "tail" /\ "meta" \in job[r].io => dbHeight'[Height[JobBlock(r)]] # NoBlock
        /\ job[r].pc = "reorgIdx" /\ "meta" \in job[r].io =>
             dbHeight'[Height[ReorgBlock(r)]] # NoBlock
    BY <1>1 DEF DiskKept, SlotOK, ReorgPlaces
  <1> QED BY <1>2, <1>3, <1>4, <1>5 DEF SlotOK

(* A job that only moves on to a place that relies on nothing.               *)
LEMMA GotoSlot ==
  ASSUME TypeOK, NEW s \in Slots, NEW place \in Places, Goto(s, place)
  PROVE  /\ OnlyJob(s)
         /\ job'[s].pc = place
         /\ job'[s].bw = job[s].bw /\ job'[s].block = job[s].block
         /\ job'[s].off = job[s].off /\ job'[s].on = job[s].on
         /\ job'[s].io = job[s].io
  <1>1. job' = [job EXCEPT ![s] = [job[s] EXCEPT !.pc = place]] /\ job[s] \in JobType
    BY JobBlockType DEF Goto
  <1> QED BY <1>1 DEF OnlyJob, TypeOK, JobType

LEMMA EndJobSlot ==
  ASSUME TypeOK, NEW s \in Slots, EndJob(s)
  PROVE  OnlyJob(s) /\ SlotOK(s)'
  BY DEF EndJob, OnlyJob, TypeOK, SlotOK, Busy, IdleJob, ReorgPlaces

LEMMA ProcessBlockSlot ==
  ASSUME TypeOK, NEW w \in Wrappers, NEW wr, NEW q, ProcessBlock(w, wr, q)
  PROVE  \A s \in Slots : job'[s] = job[s] \/ SlotOK(s)'
  <1> DEFINE start == [IdleJob EXCEPT !.bw = w, !.block = wr[w].block]
  <1>1. \/ job' = job
        \/ job' = [job EXCEPT ![FreeSlot] = [start EXCEPT !.pc = "verifyChild"]]
        \/ job' = [job EXCEPT ![FreeSlot] = [start EXCEPT !.pc = "getPrev"]]
    BY ZenonT(30) DEF ProcessBlock
  <1>2. /\ [start EXCEPT !.pc = "verifyChild"].pc = "verifyChild"
        /\ [start EXCEPT !.pc = "getPrev"].pc = "getPrev"
        /\ [start EXCEPT !.pc = "verifyChild"].bw = w
        /\ [start EXCEPT !.pc = "getPrev"].bw = w
    BY DEF IdleJob
  <1> HIDE DEF start
  <1>3. ASSUME NEW s \in Slots, job'[s] # job[s]
        PROVE  job'[s].pc \in {"verifyChild", "getPrev"} /\ job'[s].bw = w
    BY <1>1, <1>2, <1>3 DEF TypeOK
  <1>4. TAKE s \in Slots
  <1>5. SUFFICES ASSUME job'[s] # job[s] PROVE SlotOK(s)'
    OBVIOUS
  <1>6. SlotOK(s)'
    <2>1. job'[s].bw = w /\ job'[s].pc \in {"verifyChild", "getPrev"}
      BY <1>3, <1>5
    <2>2. job'[s].pc \notin ReorgPlaces /\ job'[s].pc \notin {"height", "reorgHeight", "tail", "reorgIdx"}
      BY <2>1 DEF ReorgPlaces
    <2> QED BY <2>1, <2>2, ZenonT(30) DEF SlotOK
  <1> QED BY <1>6

LEMMA EarlySlot ==
  ASSUME TypeOK, NEW s \in Slots, SlotOK(s),
         GetPrev(s) \/ ConnectToStored(s) \/ VerifyChild(s) \/ VerifyBlock(s) \/ Reorganize(s)
  PROVE  OnlyJob(s) /\ SlotOK(s)'
  <1>1. job[s] \in JobType /\ job[s].bw \in Wrappers
    BY JobBlockType DEF GetPrev, ConnectToStored, VerifyChild, VerifyBlock, Reorganize, At, SlotOK, Busy
  <1>2. CASE ConnectToStored(s) \/ VerifyChild(s) \/ VerifyBlock(s)
    <2>1. PICK place \in {"verifyChild", "verifyBlock", "put"} : Goto(s, place)
      BY <1>2 DEF ConnectToStored, VerifyChild, VerifyBlock
    <2> QED BY <1>1, <2>1, GotoSlot DEF SlotOK, ReorgPlaces, Places
  <1>3. CASE GetPrev(s)
    <2>1. /\ OnlyJob(s)
          /\ job'[s].pc = "getSelf" /\ job'[s].bw = job[s].bw
      BY <1>1, <1>3 DEF GetPrev, OnlyJob, TypeOK, JobType
    <2> QED BY <1>1, <2>1 DEF SlotOK, ReorgPlaces
  <1>4. CASE Reorganize(s)
    <2>1. /\ OnlyJob(s)
          /\ job'[s].pc = "findFork" /\ job'[s].bw = job[s].bw
      BY <1>1, <1>4 DEF Reorganize, OnlyJob, TypeOK, JobType
    <2> QED BY <1>1, <2>1 DEF SlotOK, ReorgPlaces
  <1> QED BY <1>2, <1>3, <1>4

LEMMA FindForkSlot ==
  ASSUME TypeOK, NEW s \in Slots, SlotOK(s), FindFork(s)
  PROVE  OnlyJob(s) /\ SlotOK(s)'
  <1> DEFINE at == Cursor(s)
             p  == Parent[at]
             moved == IF OldIsHigher(s)
                      THEN [job[s] EXCEPT !.old = p, !.off = Append(@, at)]
                      ELSE [job[s] EXCEPT !.new = p, !.on = Append(@, at)]
  <1>1. job[s] \in JobType /\ job[s].bw \in Wrappers
    BY JobBlockType DEF FindFork, At, SlotOK, Busy
  <1>2. CASE at \in Blocks /\ Stored(p)
    <2>1. Append(job[s].off, at) # <<>> /\ Append(job[s].on, at) # <<>>
      BY <1>2, TreeFacts, JobBlockType, AppendProperties
    <2>2. /\ moved.pc = "findFork" /\ moved.bw = job[s].bw
          /\ moved.off # <<>> \/ moved.on # <<>>
          /\ [moved EXCEPT !.pc = "reorgTxs"].pc = "reorgTxs"
          /\ [moved EXCEPT !.pc = "reorgTxs"].bw = job[s].bw
          /\ [moved EXCEPT !.pc = "reorgTxs"].off = moved.off
          /\ [moved EXCEPT !.pc = "reorgTxs"].on = moved.on
      BY <1>1, <2>1 DEF FindFork, At, JobType
    <2>3. \/ job' = [job EXCEPT ![s] = moved]
          \/ job' = [job EXCEPT ![s] = [moved EXCEPT !.pc = "reorgTxs"]]
      BY <1>2 DEF FindFork
    <2> HIDE DEF moved
    <2>4. /\ OnlyJob(s)
          /\ job'[s].pc \in {"findFork", "reorgTxs"} /\ job'[s].bw = job[s].bw
          /\ job'[s].off # <<>> \/ job'[s].on # <<>>
      BY <2>2, <2>3 DEF TypeOK, OnlyJob
    <2> QED BY <1>1, <2>4 DEF SlotOK
  <1>3. CASE ~(at \in Blocks /\ Stored(p))
    BY <1>3, EndJobSlot DEF FindFork, AbandonReorganize
  <1> QED BY <1>2, <1>3

LEMMA ReorgTxsSlot ==
  ASSUME TypeOK, NEW s \in Slots, SlotOK(s),
         DisconnectTransactions(s) \/ ReconnectTransactions(s)
  PROVE  OnlyJob(s) /\ SlotOK(s)'
  <1>1. /\ job[s] \in JobType /\ job[s].bw \in Wrappers
        /\ job[s].off # <<>> \/ job[s].on # <<>>
    BY JobBlockType
       DEF DisconnectTransactions, ReconnectTransactions, At, SlotOK, Busy, ReorgPlaces
  <1>2. \/ Goto(s, "reorgPut")
        \/ \E txs, left :
             job' = [job EXCEPT ![s].pc = "reorgAffects", ![s].txs = txs, ![s].left = left]
    BY DEF DisconnectTransactions, ReconnectTransactions, Announce
  <1>3. CASE Goto(s, "reorgPut")
    BY <1>1, <1>3, GotoSlot DEF SlotOK, Places
  <1>4. ASSUME NEW txs, NEW left,
               job' = [job EXCEPT ![s].pc = "reorgAffects", ![s].txs = txs, ![s].left = left]
        PROVE  OnlyJob(s) /\ SlotOK(s)'
    <2>1. /\ OnlyJob(s)
          /\ job'[s].pc = "reorgAffects" /\ job'[s].bw = job[s].bw
          /\ job'[s].off = job[s].off /\ job'[s].on = job[s].on
      BY <1>1, <1>4 DEF OnlyJob, TypeOK, JobType
    <2> QED BY <1>1, <2>1 DEF SlotOK
  <1> QED BY <1>2, <1>3, <1>4

LEMMA PutsSlot ==
  ASSUME TypeOK, NEW s \in Slots, SlotOK(s), ReorgPut(s) \/ Put(s)
  PROVE  OnlyJob(s) /\ SlotOK(s)'
  <1>1. CASE ReorgPut(s)
    <2>1. /\ job[s].bw \in Wrappers /\ ReorgBlock(s) \in AllBlocks
          /\ job[s].off # <<>> \/ job[s].on # <<>>
      BY <1>1, ReorgBlockType DEF ReorgPut, At, SlotOK, Busy, ReorgPlaces
    <2>2. dbBlock'[ReorgBlock(s)] # "none"
      BY <1>1, <2>1 DEF ReorgPut, PutBlock, TypeOK, StorageTypeOK
    <2>3. /\ OnlyJob(s)
          /\ job'[s].pc = "reorgHeight" /\ job'[s].bw = job[s].bw
          /\ job'[s].off = job[s].off /\ job'[s].on = job[s].on
      BY <1>1, GotoSlot DEF ReorgPut, Places
    <2> QED BY <2>1, <2>2, <2>3 DEF SlotOK, Stored, ReorgBlock, Disconnecting
  <1>2. CASE Put(s)
    <2>1. job[s].bw \in Wrappers /\ JobBlock(s) \in AllBlocks
      BY <1>2, JobBlockType, TreeFacts DEF Put, At, SlotOK, Busy
    <2>2. dbBlock'[JobBlock(s)] # "none"
      BY <1>2, <2>1 DEF Put, PutBlock, TypeOK, StorageTypeOK
    <2>3. /\ OnlyJob(s)
          /\ job'[s].pc = "height" /\ job'[s].bw = job[s].bw /\ job'[s].block = job[s].block
      BY <1>2, GotoSlot DEF Put, Places
    <2> QED BY <2>1, <2>2, <2>3 DEF SlotOK, Stored, JobBlock, ReorgPlaces
  <1> QED BY <1>1, <1>2

LEMMA SaveRestSlot ==
  ASSUME TypeOK, NEW s \in Slots, NEW b, NEW active, NEW place, SaveRest(s, b, active, place)
  PROVE  /\ OnlyJob(s)
         /\ job'[s].pc = place
         /\ job'[s].bw = job[s].bw /\ job'[s].block = job[s].block
         /\ job'[s].off = job[s].off /\ job'[s].on = job[s].on
  BY JobBlockType DEF SaveRest, OnlyJob, TypeOK, JobType

LEMMA HeightsSlot ==
  ASSUME TypeOK, NEW s \in Slots, SlotOK(s), ReorgHeight(s) \/ PutHeightKey(s)
  PROVE  OnlyJob(s) /\ SlotOK(s)'
  <1>1. CASE ReorgHeight(s)
    <2>1. /\ job[s].bw \in Wrappers /\ ReorgBlock(s) \in AllBlocks
          /\ job[s].off # <<>> \/ job[s].on # <<>>
      BY <1>1, ReorgBlockType DEF ReorgHeight, At, SlotOK, Busy, ReorgPlaces
    <2>2. dbHeight'[Height[ReorgBlock(s)]] # NoBlock
      BY <1>1, <2>1, TreeFacts DEF ReorgHeight, PutHeight, TypeOK, StorageTypeOK
    <2>3. /\ OnlyJob(s)
          /\ job'[s].pc = "reorgIdx" /\ job'[s].bw = job[s].bw
          /\ job'[s].off = job[s].off /\ job'[s].on = job[s].on
      BY <1>1, SaveRestSlot DEF ReorgHeight
    <2> QED BY <2>1, <2>2, <2>3 DEF SlotOK, ReorgBlock, Disconnecting
  <1>2. CASE PutHeightKey(s)
    <2>1. job[s].bw \in Wrappers /\ JobBlock(s) \in AllBlocks
      BY <1>2, JobBlockType, TreeFacts DEF PutHeightKey, At, SlotOK, Busy
    <2>2. dbHeight'[Height[JobBlock(s)]] # NoBlock
      BY <1>2, <2>1, TreeFacts, SMTT(60) DEF PutHeightKey, PutHeight, TypeOK, StorageTypeOK
    <2>3. /\ OnlyJob(s)
          /\ job'[s].pc = "tail" /\ job'[s].bw = job[s].bw /\ job'[s].block = job[s].block
      BY <1>2, SaveRestSlot DEF PutHeightKey
    <2> QED BY <2>1, <2>2, <2>3 DEF SlotOK, JobBlock, ReorgPlaces
  <1> QED BY <1>1, <1>2

LEMMA NextReorgStepSlot ==
  ASSUME TypeOK, NEW s \in Slots, SlotOK(s), job[s].pc \in ReorgPlaces, NEW io, NextReorgStep(s, io)
  PROVE  OnlyJob(s) /\ SlotOK(s)'
  <1> DEFINE off  == IF Disconnecting(s) THEN Tail(job[s].off) ELSE job[s].off
             on   == IF Disconnecting(s) THEN job[s].on ELSE Tail(job[s].on)
             last == off = <<>> /\ on = <<>>
             pc   == IF last THEN "put" ELSE "reorgTxs"
  <1>1. job[s] \in JobType /\ job[s].bw \in Wrappers
    BY JobBlockType DEF SlotOK, Busy, ReorgPlaces
  <1>2. job' = [job EXCEPT ![s].off = off, ![s].on = on, ![s].io = {},
                           ![s].txs = {}, ![s].left = {}, ![s].pc = pc]
    BY DEF NextReorgStep
  <1>3. pc = "put" \/ (pc = "reorgTxs" /\ (off # <<>> \/ on # <<>>))
    OBVIOUS
  <1> HIDE DEF off, on, last, pc
  <1>4. /\ OnlyJob(s)
        /\ job'[s].pc = pc /\ job'[s].bw = job[s].bw
        /\ job'[s].off = off /\ job'[s].on = on
    BY <1>1, <1>2 DEF OnlyJob, TypeOK, JobType
  <1> QED BY <1>1, <1>3, <1>4 DEF SlotOK, ReorgPlaces

LEMMA TailSlot ==
  ASSUME TypeOK, NEW s \in Slots, SlotOK(s), NEW op, TailConnect(s, op) \/ TailEnd(s, op)
  PROVE  OnlyJob(s) /\ SlotOK(s)'
  <1>1. /\ job[s] \in JobType /\ job[s].bw \in Wrappers /\ job[s].pc = "tail"
        /\ dbHeight' = dbHeight
    BY JobBlockType DEF TailConnect, TailEnd, Completes, At, SlotOK, Busy
  <1>2. \/ EndTransaction(s, job[s].io \ {op}, currentBatch)
        \/ job' = [job EXCEPT ![s].io = (job[s].io \ {op}) \cup {"affects"},
                              ![s].step = "endTransaction"]
    BY DEF TailConnect, TailEnd
  <1>3. /\ OnlyJob(s)
        /\ job'[s].pc = "tail" /\ job'[s].bw = job[s].bw /\ job'[s].block = job[s].block
        /\ "meta" \in job'[s].io => "meta" \in job[s].io
    BY <1>1, <1>2 DEF EndTransaction, OnlyJob, TypeOK, JobType
  <1> QED BY <1>1, <1>3 DEF SlotOK, JobBlock, ReorgPlaces

LEMMA AdvanceSlot ==
  ASSUME IInv, NEW s \in Slots, Advance(s)
  PROVE  OnlyJob(s) /\ SlotOK(s)'
  <1> USE DEF IInv
  <1>1. CASE Discard(s) \/ BecomeOrphan(s)
    BY <1>1, EndJobSlot DEF Discard, BecomeOrphan
  <1>2. ASSUME NEW op \in Writes, ReorgSaved(s, op)
        PROVE  OnlyJob(s) /\ SlotOK(s)'
    <2>1. job[s].pc \in ReorgPlaces /\ NextReorgStep(s, job[s].io \ {op})
      BY <1>2 DEF ReorgSaved, At, ReorgPlaces
    <2> QED BY <2>1, NextReorgStepSlot
  <1>3. ASSUME NEW op \in Writes, TailFinalize(s, op)
        PROVE  OnlyJob(s) /\ SlotOK(s)'
    BY <1>3, EndJobSlot DEF TailFinalize
  <1> QED BY <1>1, <1>2, <1>3, EarlySlot, FindForkSlot, ReorgTxsSlot, PutsSlot,
             HeightsSlot, TailSlot DEF Advance

LEMMA FaultySlot ==
  ASSUME IInv, NEW s \in Slots, Faulty(s)
  PROVE  OnlyJob(s) /\ SlotOK(s)'
  <1> USE DEF IInv
  <1>1. CASE ReorgError(s)
    <2>1. job[s].pc \in ReorgPlaces /\ \E io : NextReorgStep(s, io)
      BY <1>1 DEF ReorgError, ReorgPlaces
    <2> QED BY <2>1, NextReorgStepSlot
  <1>2. CASE Reject(s) \/ PipelineError(s) \/ FindForkError(s)
    <2>1. EndJob(s)
      BY <1>2 DEF Reject, PipelineError, FindForkError, FinalizeError, AbandonReorganize
    <2> QED BY <2>1, EndJobSlot
  <1> QED BY <1>1, <1>2 DEF Faulty

LEMMA SlotsStep ==
  ASSUME IInv, DiskKept, [Next]_vars
  PROVE  \A r \in Slots : SlotOK(r)'
  <1> USE DEF IInv
  <1>1. ASSUME NEW s \in Slots, OnlyJob(s), SlotOK(s)'
        PROVE  \A r \in Slots : SlotOK(r)'
    BY <1>1, SlotKept DEF OnlyJob
  <1>2. ASSUME job' = job
        PROVE  \A r \in Slots : SlotOK(r)'
    BY <1>2, SlotKept
  <1>3. ASSUME NEW b \in Blocks, Add(b)
        PROVE  \A r \in Slots : SlotOK(r)'
    <2>1. adds + 1 \in Wrappers
      BY <1>3, NextWrapper
    <2>2. job' = job \/ \E wr, q : ProcessBlock(adds + 1, wr, q)
      BY <1>3 DEF Add
    <2> QED BY <1>2, <2>1, <2>2, ProcessBlockSlot, SlotKept
  <1>4. CASE NextTick
    <2>1. tick \in Wrappers /\ ProcessBlock(tick, wrapper, queue)
      BY <1>4 DEF NextTick, TypeOK
    <2> QED BY <2>1, ProcessBlockSlot, SlotKept
  <1>5. ASSUME NEW s \in Slots, Advance(s) \/ Faulty(s)
        PROVE  OnlyJob(s) /\ SlotOK(s)'
    BY <1>5, AdvanceSlot, FaultySlot
  <1>6. CASE LateWrite
    BY <1>2, <1>6 DEF LateWrite, LateMeta, LateBatch
  <1>7. CASE Crash
    BY <1>7 DEF Crash, SlotOK, Busy, IdleJob, ReorgPlaces
  <1>8. CASE UNCHANGED vars
    BY <1>2, <1>8 DEF vars, chainVars
  <1> QED BY <1>1, <1>3, <1>4, <1>5, <1>6, <1>7, <1>8 DEF Next

-----------------------------------------------------------------------------
(* The invariant holds at first and is kept by every step.                   *)

LEMMA InitIInv == Init => IInv
  <1> SUFFICES ASSUME Init PROVE IInv
    OBVIOUS
  <1>1. StorageTypeOK
    <2>1. dbBlock \in [AllBlocks -> Flags] /\ dbHeight \in [Heights -> AllBlocks \cup {NoBlock}]
      BY TreeFacts DEF Init, StorageInit, Flags
    <2> QED BY <2>1, TreeFacts, BatchTypes DEF Init, StorageInit, StorageTypeOK
  <1>2. /\ wrapper \in [Wrappers -> WrapperType]
        /\ job \in [Slots -> JobType]
        /\ heads \in [AllBlocks -> Seq(Wrappers)]
        /\ queue \in Seq(Wrappers)
        /\ recent \in [list : Seq(Blocks), index : SUBSET Blocks]
        /\ reply \in [Wrappers -> Replies]
        /\ connecting \in [AllBlocks -> Wrappers \cup {NoBw}]
    BY NoWrapperType, IdleJobType, EmptySeq DEF Init, RecentEmpty, Replies
  <1>3. /\ faults \in [reject : 0..MaxRejects, io : 0..MaxIoErrors, crash : 0..MaxCrashes]
        /\ adds \in 0..MaxAdds /\ top \in AllBlocks
    BY BoundAssumption, TreeFacts DEF Init
  <1>4. TypeOK
    BY <1>1, <1>2, <1>3 DEF Init, TypeOK
  <1>5. \A s \in Slots : SlotOK(s)
    BY DEF Init, SlotOK, Busy, IdleJob, ReorgPlaces
  <1>6. IndexInv /\ MetaInv
    BY TreeFacts, TreeAssumption DEF Init, StorageInit, IndexInv, MetaInv, Stored
  <1> QED BY <1>4, <1>5, <1>6 DEF IInv

LEMMA StepIInv == IInv /\ [Next]_vars => IInv'
  <1> SUFFICES ASSUME IInv, [Next]_vars PROVE IInv'
    OBVIOUS
  <1>1. TypeOK'
    BY TypeStep
  <1>2. DiskStep
    BY DiskStepOfNext
  <1>3. DiskKept /\ IndexInv'
    BY <1>2, IndexKept DEF DiskKept
  <1>4. MetaInv'
    BY <1>1, <1>2, MetaKept
  <1>5. \A s \in Slots : SlotOK(s)'
    BY <1>3, SlotsStep
  <1> QED BY <1>1, <1>3, <1>4, <1>5 DEF IInv

(* The inductive invariant holds of every reachable state.                   *)
THEOREM Invariance == Spec => []IInv
  BY InitIInv, StepIInv, PTL DEF Spec

(* Every variable keeps its type, whatever fails, restarts or overlaps.      *)
THEOREM TypeCorrect == Spec => []TypeOK
  <1>1. IInv => TypeOK
    BY DEF IInv
  <1> QED BY <1>1, Invariance, PTL

(* init() can load a top block at any time: the recorded height has an index *)
(* entry, and the entry names a block record of that height.  It holds for   *)
(* every tree of blocks, any number of pipelines at work, and any failures.  *)
THEOREM RestartAlwaysFindsTop == Spec => []RestartFindsTop
  <1>1. IInv => RestartFindsTop
    BY DEF IInv, IndexInv, MetaInv, TypeOK, StorageTypeOK, RestartFindsTop, TopOnDisk
  <1> QED BY <1>1, Invariance, PTL

-----------------------------------------------------------------------------
(* A step of a slot runs on no tick, and schedules one only when it frees    *)
(* the slot.                                                                 *)
LEMMA SlotTick ==
  ASSUME IInv, NEW s \in Slots, Advance(s) \/ Faulty(s)
  PROVE  Busy(s) /\ tick = NoBw /\ (tick' = NoBw \/ ~Busy(s)')
  <1> USE DEF IInv
  <1>1. ASSUME EndJob(s)
        PROVE  ~Busy(s)'
    BY <1>1 DEF EndJob, Busy, IdleJob, TypeOK
  <1>2. CASE Advance(s)
    <2>1. Busy(s) /\ tick = NoBw
      BY <1>2, ZenonT(60)
         DEF Advance, GetPrev, Discard, ConnectToStored, BecomeOrphan, VerifyChild, VerifyBlock,
             Reorganize, FindFork, DisconnectTransactions, ReconnectTransactions, ReorgPut,
             ReorgHeight, Put, PutHeightKey, ReorgSaved, TailConnect, TailEnd, TailFinalize,
             Completes, At, Busy
    <2>2. tick' = tick \/ EndJob(s)
      BY <1>2, ZenonT(30)
         DEF Advance, GetPrev, Discard, ConnectToStored, BecomeOrphan, VerifyChild, VerifyBlock,
             Reorganize, FindFork, DisconnectTransactions, ReconnectTransactions, ReorgPut,
             ReorgHeight, Put, PutHeightKey, ReorgSaved, TailConnect, TailEnd, TailFinalize
    <2> QED BY <1>1, <2>1, <2>2, ZenonT(30)
  <1>3. CASE Faulty(s)
    <2>1. Busy(s) /\ tick = NoBw
      BY <1>3 DEF Faulty, Reject, PipelineError, FindForkError, ReorgError, IoErrorAllowed, Busy
    <2>2. tick' = tick \/ EndJob(s)
      BY <1>3 DEF Faulty, Reject, PipelineError, FindForkError, ReorgError, FinalizeError
    <2> QED BY <1>1, <2>1, <2>2, ZenonT(30)
  <1> QED BY <1>2, <1>3

LEMMA ProcessBlockTick ==
  ASSUME TypeOK, NEW w, NEW wr, NEW q, ProcessBlock(w, wr, q)
  PROVE  \/ job' = job
         \/ tick' = NoBw /\ \A s \in Slots \ {FreeSlot} : job'[s] = job[s]
  BY ZenonT(30) DEF ProcessBlock, TypeOK

-----------------------------------------------------------------------------
(* Without overlap                                                           *)
(*                                                                           *)
(* Theorems about AloneSpec, in which blocks arrive at any time, wait in the *)
(* queue or join orphan chains, but start no second pipeline, and the        *)
(* database does not fail: for every tree, any refusals and any crashes      *)
(*   TopAlwaysStored       the top of an idle chain is on disk               *)
(*   ParentsAlwaysStored   a stored block has a stored parent                *)
(*   LiveStaysOnMain       listeners hold transactions of the chain only     *)
(*   RecentAlwaysStored    the recent index names no block that failed       *)
(* and when, besides, the process does not crash                             *)
(*   TopAlwaysHeaviest     no stored block has more work than the top        *)
(*   ActiveStaysOnMain     blocks marked active are on the top's chain       *)
(*   TxsAlwaysFindable     the transactions of stored blocks are found       *)
(*   PipelineImplementsChain  every step is one of HeaviestChain or a stutter*)
(* None of the first four is inductive: each is broken for a while in the    *)
(* middle of a pipeline, and whether the end mends it depends on the place.  *)
(* WaitInv says for each place of a pipeline what its block, the two cursors *)
(* and the branches of findFork, the recent index and the live transactions  *)
(* are then; OneAtATime, that all other slots are idle, lets it speak about  *)
(* the top, and CallsInv, that nothing names a wrapper before its call, lets *)
(* a block arrive beside it.  Both hypotheses are needed: README.md says     *)
(* which of the properties an overlap breaks, and with what blocks, and two  *)
(* errors of the database lose the top without any.                          *)
(*                                                                           *)
(* For the other four OrderInv adds to WaitInv what a pipeline leaves in     *)
(* disorder at each place and what keeps it mendable.                        *)

(* The transactions of the chain that ends in b, and of some blocks.         *)
TxsIn(blocks) == UNION {TxsOf[b] : b \in blocks}
TxsOn(b) == TxsIn(Lineage[b])

RangeOf(seq) == {seq[i] : i \in DOMAIN seq}

(* Blocks that the recent index may name while b is not saved yet.           *)
RecentUpTo(b) == \A r \in recent.index : Stored(r) \/ r = b

(* Between blocks.                                                           *)
AtRest ==
  /\ Stored(top)
  /\ \A r \in recent.index : Stored(r)
  /\ live \subseteq TxsOn(top)

MidReorg(s) == job[s].pc \in {"reorgPut", "reorgHeight", "reorgIdx"}

(* What is known of a block, and of everything else, at each place of its    *)
(* pipeline.                                                                 *)
Asking(s) ==
  /\ AtRest
  /\ Parent[JobBlock(s)] # top
  /\ job[s].pc = "getSelf" /\ job[s].found => Stored(Parent[JobBlock(s)])

Placed(s) == JobMode(s) \in {"main", "side"} /\ Stored(Parent[JobBlock(s)])

Verifying(s) ==
  /\ AtRest /\ Placed(s)
  /\ JobMode(s) = "main" <=> Parent[JobBlock(s)] = top

InChain(s) ==
  /\ Placed(s) /\ RecentUpTo(JobBlock(s))
  /\ wrapper[job[s].bw].active = (JobMode(s) = "main")
  /\ IF JobMode(s) = "main"
     THEN top = JobBlock(s) /\ live \subseteq TxsOn(Parent[top])
     ELSE Stored(top) /\ live \subseteq TxsOn(top)

(* The blocks left behind so far end where the old cursor is, those of the   *)
(* new branch start from the block.                                          *)
Collected(s) ==
  /\ \A x \in RangeOf(job[s].off) \cup RangeOf(job[s].on) :
        x \in Blocks /\ Stored(Parent[x]) /\ (Stored(x) \/ x = JobBlock(s))
  /\ RangeOf(job[s].on) \subseteq Lineage[JobBlock(s)]

Forking(s) ==
  /\ Placed(s) /\ RecentUpTo(JobBlock(s)) /\ JobMode(s) = "side"
  /\ Stored(top) /\ live \subseteq TxsOn(top)
  /\ Stored(job[s].old) /\ (Stored(job[s].new) \/ job[s].new = JobBlock(s))
  /\ job[s].old # job[s].new
  /\ Collected(s)
  /\ Lineage[top] \subseteq RangeOf(job[s].off) \cup Lineage[job[s].old]
  /\ Lineage[job[s].new] \subseteq Lineage[JobBlock(s)]

(* The transactions still to revoke are those of the blocks left.            *)
ToDisconnect(s) ==
  IF MidReorg(s) /\ Disconnecting(s) THEN RangeOf(Tail(job[s].off)) ELSE RangeOf(job[s].off)

Reorging(s) ==
  /\ Placed(s) /\ RecentUpTo(JobBlock(s)) /\ JobMode(s) = "side"
  /\ Stored(top)
  /\ Collected(s)
  /\ live \subseteq TxsIn(ToDisconnect(s)) \cup TxsOn(JobBlock(s))
  /\ job[s].pc = "reorgAffects" =>
       ~Disconnecting(s) /\ job[s].left \subseteq TxsOf[ReorgBlock(s)]
                         /\ \A t \in job[s].left : Findable(t)

Saving(s) ==
  /\ Placed(s) /\ RecentUpTo(JobBlock(s))
  /\ top = JobBlock(s) \/ Stored(top)
  /\ live \subseteq TxsOn(top)
  /\ JobMode(s) = "main" => top = JobBlock(s)

Saved(s) ==
  /\ AtRest /\ JobMode(s) \in {"main", "side"}
  /\ Stored(JobBlock(s))
  /\ JobMode(s) = "main" => top = JobBlock(s)

(* The fields that only a reorganisation and the tail use.                   *)
Unused(s) ==
  /\ job[s].pc \in {"idle", "getPrev", "getSelf", "verifyChild", "verifyBlock"} =>
       job[s].off = <<>> /\ job[s].on = <<>>
  /\ job[s].pc # "tail" => job[s].step = "connectTransactions"

JobOK(s) ==
  /\ Unused(s)
  /\ job[s].pc \in {"getPrev", "getSelf"} => Asking(s)
  /\ job[s].pc = "verifyChild" => Verifying(s)
  /\ job[s].pc = "verifyBlock" => InChain(s)
  /\ job[s].pc = "findFork" => Forking(s)
  /\ job[s].pc \in ReorgPlaces => Reorging(s)
  /\ job[s].pc = "put" => Saving(s)
  /\ job[s].pc \in {"height", "tail"} => Saved(s)

(* A revoked transaction was found by disconnectTransactions, so those that  *)
(* listeners hold must be found too.                                         *)
LiveFindable == live \subseteq recentTx \cup dbTx

WaitInv ==
  /\ ParentsStored
  /\ LiveFindable
  /\ \A s \in Slots : JobOK(s)
  /\ (\A s \in Slots : ~Busy(s)) => AtRest

-----------------------------------------------------------------------------
(* The lineage of a block, from its recursive definition.                    *)

(* The least set that holds b and the parent of each of its blocks.          *)
Ancestors(b) ==
  {a \in AllBlocks : \A S \in SUBSET AllBlocks :
     b \in S /\ (\A x \in S : x \in Blocks => Parent[x] \in S) => a \in S}

LEMMA AncestorsOf ==
  ASSUME NEW b \in AllBlocks
  PROVE  Ancestors(b) = IF b = Genesis THEN {b} ELSE {b} \cup Ancestors(Parent[b])
  <1>1. CASE b = Genesis
    <2>1. {b} \in SUBSET AllBlocks /\ \A x \in {b} : x \notin Blocks
      BY <1>1, TreeAssumption
    <2>2. Ancestors(b) \subseteq {b}
      BY <2>1 DEF Ancestors
    <2> QED BY <1>1, <2>2 DEF Ancestors
  <1>2. CASE b # Genesis
    <2>1. b \in Blocks /\ Parent[b] \in AllBlocks
      BY <1>2, TreeAssumption DEF AllBlocks
    <2>2. b \in Ancestors(b)
      BY DEF Ancestors
    <2>3. Ancestors(Parent[b]) \subseteq Ancestors(b)
      BY <2>1 DEF Ancestors
    <2>4. ASSUME NEW a \in Ancestors(b), a # b
          PROVE  a \in Ancestors(Parent[b])
      <3>1. SUFFICES ASSUME NEW S \in SUBSET AllBlocks, Parent[b] \in S,
                            \A x \in S : x \in Blocks => Parent[x] \in S
                     PROVE  a \in S
        BY DEF Ancestors
      <3>2. S \cup {b} \in SUBSET AllBlocks
        OBVIOUS
      <3>3. \A x \in S \cup {b} : x \in Blocks => Parent[x] \in S \cup {b}
        BY <3>1
      <3>4. a \in S \cup {b}
        BY <3>2, <3>3 DEF Ancestors
      <3> QED BY <2>4, <3>4
    <2> QED BY <1>2, <2>2, <2>3, <2>4
  <1> QED BY <1>1, <1>2

(* There is a function that satisfies the equation Lineage is defined by.    *)
LEMMA LineageOf ==
  Lineage = [b \in AllBlocks |-> IF b = Genesis THEN {b} ELSE {b} \cup Lineage[Parent[b]]]
  <1> DEFINE Def(f) == [b \in AllBlocks |-> IF b = Genesis THEN {b} ELSE {b} \cup f[Parent[b]]]
             f == [b \in AllBlocks |-> Ancestors(b)]
  <1>1. f = Def(f)
    <2>1. \A b \in AllBlocks : b # Genesis => Parent[b] \in AllBlocks
      BY TreeAssumption DEF AllBlocks
    <2> QED BY <2>1, AncestorsOf
  <1>2. Lineage = CHOOSE g : g = Def(g)
    BY DEF Lineage
  <1> HIDE DEF f
  <1> QED BY <1>1, <1>2

LEMMA LineageFacts ==
  /\ \A b \in AllBlocks : b \in Lineage[b]
  /\ \A b \in Blocks : Lineage[b] = {b} \cup Lineage[Parent[b]]
  <1>1. \A b \in AllBlocks :
          Lineage[b] = IF b = Genesis THEN {b} ELSE {b} \cup Lineage[Parent[b]]
    <2> DEFINE Def(f) == [b \in AllBlocks |-> IF b = Genesis THEN {b} ELSE {b} \cup f[Parent[b]]]
    <2>1. \A f : \A b \in AllBlocks :
            Def(f)[b] = IF b = Genesis THEN {b} ELSE {b} \cup f[Parent[b]]
      OBVIOUS
    <2>2. Lineage = Def(Lineage)
      BY LineageOf
    <2> HIDE DEF Def
    <2> QED BY <2>1, <2>2
  <1>2. \A b \in Blocks : b \in AllBlocks /\ b # Genesis
    BY TreeAssumption DEF AllBlocks
  <1> HIDE DEF Lineage
  <1>3. \A b \in AllBlocks : b \in Lineage[b]
    BY <1>1
  <1>4. \A b \in Blocks : Lineage[b] = {b} \cup Lineage[Parent[b]]
    BY <1>1, <1>2
  <1> QED BY <1>3, <1>4

LEMMA LineageTxs ==
  /\ \A b \in AllBlocks : TxsOf[b] \subseteq TxsOn(b)
  /\ \A b \in Blocks : TxsOn(Parent[b]) \subseteq TxsOn(b)
  BY LineageFacts DEF TxsOn, TxsIn

(* Work and height grow along every branch.                                  *)
LEMMA BranchFacts ==
  /\ \A b \in AllBlocks : Height[b] \in Nat /\ ChainWork[b] \in Nat
  /\ \A b \in AllBlocks : b \notin Blocks => Height[b] = 0
  /\ \A b \in Blocks : /\ Height[Parent[b]] < Height[b]
                       /\ ChainWork[Parent[b]] < ChainWork[b]
                       /\ Parent[b] # b
  BY TreeAssumption DEF AllBlocks, AttachedTo

LEMMA RangeFacts ==
  ASSUME NEW S, NEW seq \in Seq(S)
  PROVE  /\ \A x \in S : RangeOf(Append(seq, x)) = RangeOf(seq) \cup {x}
         /\ seq # <<>> => /\ RangeOf(seq) = {Head(seq)} \cup RangeOf(Tail(seq))
                          /\ Head(seq) \in RangeOf(seq)
         /\ seq = <<>> => RangeOf(seq) = {}
         /\ RangeOf(seq) \subseteq S
  <1>1. ASSUME NEW x \in S
        PROVE  RangeOf(Append(seq, x)) = RangeOf(seq) \cup {x}
    <2>1. /\ Len(Append(seq, x)) = Len(seq) + 1
          /\ \A i \in 1 .. Len(seq) : Append(seq, x)[i] = seq[i]
          /\ Append(seq, x)[Len(seq) + 1] = x
      OBVIOUS
    <2> QED BY <2>1 DEF RangeOf
  <1>2. ASSUME seq # <<>>
        PROVE  RangeOf(seq) = {Head(seq)} \cup RangeOf(Tail(seq)) /\ Head(seq) \in RangeOf(seq)
    <2>1. /\ Len(seq) >= 1 /\ Head(seq) = seq[1]
          /\ Len(Tail(seq)) = Len(seq) - 1
          /\ \A i \in 1 .. Len(seq) - 1 : Tail(seq)[i] = seq[i + 1]
          /\ DOMAIN seq = 1 .. Len(seq) /\ DOMAIN Tail(seq) = 1 .. Len(Tail(seq))
      BY <1>2
    <2>2. \A i \in DOMAIN seq : i = 1 \/ (i - 1 \in DOMAIN Tail(seq) /\ Tail(seq)[i - 1] = seq[i])
      BY <2>1
    <2>3. \A i \in DOMAIN Tail(seq) : i + 1 \in DOMAIN seq /\ Tail(seq)[i] = seq[i + 1]
      BY <2>1
    <2>4. 1 \in DOMAIN seq
      BY <2>1
    <2>5. ASSUME NEW x \in RangeOf(seq)
          PROVE  x = Head(seq) \/ x \in RangeOf(Tail(seq))
      <3>1. PICK i \in DOMAIN seq : x = seq[i]
        BY DEF RangeOf
      <3> QED BY <2>1, <2>2, <3>1 DEF RangeOf
    <2>6. ASSUME NEW x \in RangeOf(Tail(seq))
          PROVE  x \in RangeOf(seq)
      <3>1. PICK i \in DOMAIN Tail(seq) : x = Tail(seq)[i]
        BY DEF RangeOf
      <3> QED BY <2>3, <3>1 DEF RangeOf
    <2>7. Head(seq) \in RangeOf(seq)
      BY <2>1, <2>4 DEF RangeOf
    <2> QED BY <2>5, <2>6, <2>7
  <1>3. seq = <<>> => RangeOf(seq) = {}
    BY DEF RangeOf
  <1>4. RangeOf(seq) \subseteq S
    BY DEF RangeOf
  <1> QED BY <1>1, <1>2, <1>3, <1>4

-----------------------------------------------------------------------------
(* What each move of a job leaves as it was.                                 *)

LEMMA GotoJob ==
  ASSUME TypeOK, NEW s \in Slots, NEW place, Goto(s, place)
  PROVE  /\ job'[s].pc = place
         /\ job'[s].bw = job[s].bw /\ job'[s].block = job[s].block
         /\ job'[s].found = job[s].found
         /\ job'[s].old = job[s].old /\ job'[s].new = job[s].new
         /\ job'[s].off = job[s].off /\ job'[s].on = job[s].on
         /\ job'[s].txs = job[s].txs /\ job'[s].left = job[s].left
         /\ job'[s].step = job[s].step
         /\ job'[s].io = job[s].io /\ job'[s].out = job[s].out
  <1>1. job' = [job EXCEPT ![s] = [job[s] EXCEPT !.pc = place]] /\ job[s] \in JobType
    BY JobBlockType DEF Goto
  <1> QED BY <1>1 DEF TypeOK, JobType

LEMMA EndJobIdle ==
  ASSUME TypeOK, NEW s \in Slots, EndJob(s)
  PROVE  job'[s] = IdleJob /\ ~Busy(s)'
  BY DEF EndJob, TypeOK, Busy, IdleJob

LEMMA SaveRestJob ==
  ASSUME TypeOK, NEW s \in Slots, NEW b, NEW active, NEW place, SaveRest(s, b, active, place)
  PROVE  /\ job'[s].pc = place
         /\ job'[s].bw = job[s].bw /\ job'[s].block = job[s].block
         /\ job'[s].off = job[s].off /\ job'[s].on = job[s].on
         /\ job'[s].step = job[s].step
         /\ job'[s].io = IF RaisesChainHeight(b, active) THEN {"meta", "idx"} ELSE {"idx"}
  BY JobBlockType DEF SaveRest, TypeOK, JobType

(* A slot that becomes free when everything is as it should be.              *)
LEMMA IdleJobOK ==
  ASSUME NEW s \in Slots, job'[s] = IdleJob
  PROVE  JobOK(s)'
  BY DEF JobOK, Unused, IdleJob, ReorgPlaces

(* What AtRest speaks about only grows or stays.                             *)
LEMMA AtRestKept ==
  ASSUME IInv, AtRest, \A b \in AllBlocks : Stored(b) => Stored(b)',
         UNCHANGED <<top, recent, live>>
  PROVE  AtRest'
  BY TreeFacts DEF IInv, TypeOK, AtRest, Stored

(* The invariant as the step of one slot uses and restores it: the others    *)
(* are idle.                                                                 *)
SlotWait(s) ==
  /\ ParentsStored
  /\ LiveFindable
  /\ JobOK(s)
  /\ ~Busy(s) => AtRest

(* The same blocks and transactions on disk.                                 *)
SameRecords == UNCHANGED <<dbBlock, dbTx>>

LEMMA SameRecordsKept ==
  ASSUME SameRecords
  PROVE  /\ \A b : Stored(b)' = Stored(b)
         /\ ParentsStored => ParentsStored'
  BY DEF SameRecords, Stored, ParentsStored

-----------------------------------------------------------------------------
(* connectBlock and the verification.                                        *)

LEMMA GetPrevWait ==
  ASSUME IInv, NEW s \in Slots, SlotWait(s), GetPrev(s)
  PROVE  SlotWait(s)'
  <1>1. /\ job'[s].pc = "getSelf" /\ job'[s].found = ParentFound(s)
        /\ job'[s].bw = job[s].bw /\ job'[s].block = job[s].block
        /\ job'[s].off = job[s].off /\ job'[s].on = job[s].on /\ job'[s].step = job[s].step
    BY JobBlockType DEF GetPrev, IInv, TypeOK, JobType
  <1>2. /\ job[s].pc = "getPrev"
        /\ UNCHANGED <<dbBlock, dbTx, top, recent, recentTx, live, wrapper>>
    BY DEF GetPrev, At, storageVars, diskVars
  <1>3. AtRest /\ Parent[JobBlock(s)] # top
    BY <1>2 DEF SlotWait, JobOK, Asking
  <1>4. Asking(s)'
    BY <1>1, <1>2, <1>3 DEF Asking, AtRest, Stored, JobBlock, ParentFound
  <1>5. Unused(s)'
    BY <1>1, <1>2 DEF SlotWait, JobOK, Unused
  <1>6. JobOK(s)' /\ Busy(s)'
    BY <1>1, <1>4, <1>5 DEF JobOK, Busy, ReorgPlaces
  <1> QED BY <1>2, <1>6 DEF SlotWait, LiveFindable, ParentsStored, Stored

LEMMA DiscardWait ==
  ASSUME IInv, NEW s \in Slots, SlotWait(s), Discard(s) \/ BecomeOrphan(s)
  PROVE  SlotWait(s)'
  <1>1. /\ job[s].pc = "getSelf" /\ EndJob(s)
        /\ UNCHANGED <<dbBlock, dbTx, top, recent, recentTx, live>>
    BY DEF Discard, BecomeOrphan, At, storageVars, diskVars
  <1>2. AtRest
    BY <1>1 DEF SlotWait, JobOK, Asking
  <1>3. job'[s] = IdleJob
    BY <1>1, EndJobIdle DEF IInv
  <1> QED BY <1>1, <1>2, <1>3, IdleJobOK
          DEF SlotWait, LiveFindable, ParentsStored, Stored, AtRest

LEMMA ConnectToStoredWait ==
  ASSUME IInv, NEW s \in Slots, SlotWait(s), ConnectToStored(s)
  PROVE  SlotWait(s)'
  <1>1. /\ job[s].pc = "getSelf" /\ job[s].found /\ Goto(s, "verifyChild")
        /\ wrapper' = [wrapper EXCEPT ![job[s].bw].mode = "side"]
        /\ UNCHANGED <<dbBlock, dbTx, top, recent, recentTx, live>>
    BY DEF ConnectToStored, At, storageVars, diskVars
  <1>2. AtRest /\ Parent[JobBlock(s)] # top /\ Stored(Parent[JobBlock(s)])
    BY <1>1 DEF SlotWait, JobOK, Asking
  <1>3. /\ job'[s].pc = "verifyChild" /\ job'[s].bw = job[s].bw /\ job'[s].block = job[s].block
        /\ job'[s].off = job[s].off /\ job'[s].on = job[s].on /\ job'[s].step = job[s].step
    BY <1>1, GotoJob DEF IInv
  <1>4. job[s].bw \in Wrappers
    BY <1>1 DEF IInv, SlotOK, Busy
  <1>5. wrapper'[job[s].bw].mode = "side"
    BY <1>1, <1>4 DEF IInv, TypeOK, WrapperType
  <1>6. Verifying(s)'
    BY <1>1, <1>2, <1>3, <1>5 DEF Verifying, Placed, AtRest, Stored, JobBlock, JobMode
  <1>7. Unused(s)'
    BY <1>1, <1>3 DEF SlotWait, JobOK, Unused
  <1>8. JobOK(s)' /\ Busy(s)'
    BY <1>3, <1>6, <1>7 DEF JobOK, Busy, ReorgPlaces
  <1> QED BY <1>1, <1>8 DEF SlotWait, LiveFindable, ParentsStored, Stored

LEMMA RecentIndexes ==
  ASSUME NEW b
  PROVE  /\ RecentSet(recent, b, RecentLimit).index \subseteq recent.index \cup {b}
         /\ recent.index \subseteq RecentSet(recent, b, RecentLimit).index
                                     \cup {Head(Append(recent.list, b))}
  BY DEF RecentSet

LEMMA VerifyChildWait ==
  ASSUME IInv, NEW s \in Slots, SlotWait(s), VerifyChild(s)
  PROVE  SlotWait(s)'
  <1> DEFINE b == JobBlock(s)
             main == JobMode(s) = "main"
  <1>1. /\ job[s].pc = "verifyChild" /\ Goto(s, "verifyBlock")
        /\ recent' = RecentSet(recent, b, RecentLimit)
        /\ top' = IF main THEN b ELSE top
        /\ wrapper' = [wrapper EXCEPT ![job[s].bw].active = main]
        /\ UNCHANGED <<dbBlock, dbTx, recentTx, live>>
    BY DEF VerifyChild, At, storageVars, diskVars
  <1>2. /\ AtRest /\ Placed(s)
        /\ main <=> Parent[b] = top
    BY <1>1 DEF SlotWait, JobOK, Verifying
  <1>3. /\ job'[s].pc = "verifyBlock" /\ job'[s].bw = job[s].bw /\ job'[s].block = job[s].block
        /\ job'[s].off = job[s].off /\ job'[s].on = job[s].on /\ job'[s].step = job[s].step
    BY <1>1, GotoJob DEF IInv
  <1>4. job[s].bw \in Wrappers /\ wrapper[job[s].bw] \in WrapperType
    BY <1>1 DEF IInv, SlotOK, Busy, TypeOK
  <1>5. wrapper'[job[s].bw].active = main /\ wrapper'[job[s].bw].mode = JobMode(s)
    BY <1>1, <1>4 DEF IInv, TypeOK, WrapperType, JobMode
  <1>6. JobBlock(s)' = b /\ JobMode(s)' = JobMode(s)
    BY <1>3, <1>5 DEF JobBlock, JobMode
  <1>7. RecentUpTo(b)'
    BY <1>1, <1>2, <1>6, RecentIndexes DEF RecentUpTo, AtRest, Stored, JobBlock
  <1>8. Placed(s)'
    BY <1>1, <1>2, <1>6 DEF Placed, Stored
  <1>9. InChain(s)'
    BY <1>1, <1>2, <1>3, <1>5, <1>6, <1>7, <1>8 DEF InChain, RecentUpTo, AtRest, Stored
  <1>10. Unused(s)'
    BY <1>1, <1>3 DEF SlotWait, JobOK, Unused
  <1>11. JobOK(s)' /\ Busy(s)'
    BY <1>3, <1>9, <1>10 DEF JobOK, Busy, ReorgPlaces
  <1> QED BY <1>1, <1>11 DEF SlotWait, LiveFindable, ParentsStored, Stored

LEMMA VerifyBlockWait ==
  ASSUME IInv, NEW s \in Slots, SlotWait(s), VerifyBlock(s)
  PROVE  SlotWait(s)'
  <1>1. /\ job[s].pc = "verifyBlock" /\ Goto(s, "put")
        /\ UNCHANGED <<dbBlock, dbTx, top, recent, recentTx, live, wrapper>>
    BY DEF VerifyBlock, At, diskVars
  <1>2. InChain(s)
    BY <1>1 DEF SlotWait, JobOK
  <1>3. /\ job'[s].pc = "put" /\ job'[s].bw = job[s].bw /\ job'[s].block = job[s].block
        /\ job'[s].off = job[s].off /\ job'[s].on = job[s].on /\ job'[s].step = job[s].step
    BY <1>1, GotoJob DEF IInv
  <1>4. JobBlock(s)' = JobBlock(s) /\ JobMode(s)' = JobMode(s)
    BY <1>1, <1>3 DEF JobBlock, JobMode
  <1>5. live \subseteq TxsOn(top) /\ (top = JobBlock(s) \/ Stored(top))
    BY <1>2, LineageTxs, JobBlockType DEF InChain, IInv
  <1>6. Saving(s)'
    BY <1>1, <1>2, <1>4, <1>5 DEF Saving, InChain, Placed, RecentUpTo, Stored
  <1>7. Unused(s)'
    BY <1>1, <1>3 DEF SlotWait, JobOK, Unused
  <1>8. JobOK(s)' /\ Busy(s)'
    BY <1>3, <1>6, <1>7 DEF JobOK, Busy, ReorgPlaces
  <1> QED BY <1>1, <1>8 DEF SlotWait, LiveFindable, ParentsStored, Stored

LEMMA ReorganizeWait ==
  ASSUME IInv, NEW s \in Slots, SlotWait(s), Reorganize(s)
  PROVE  SlotWait(s)'
  <1>1. /\ job[s].pc = "verifyBlock" /\ NeedsReorganize(s)
        /\ UNCHANGED <<dbBlock, dbTx, top, recent, recentTx, live, wrapper>>
    BY DEF Reorganize, At, diskVars
  <1>2. InChain(s) /\ job[s].off = <<>> /\ job[s].on = <<>>
    BY <1>1 DEF SlotWait, JobOK, Unused
  <1>3. /\ job'[s].pc = "findFork" /\ job'[s].bw = job[s].bw /\ job'[s].block = job[s].block
        /\ job'[s].old = top /\ job'[s].new = JobBlock(s)
        /\ job'[s].off = <<>> /\ job'[s].on = <<>> /\ job'[s].step = job[s].step
    BY <1>2, JobBlockType DEF Reorganize, IInv, TypeOK, JobType
  <1>4. JobBlock(s)' = JobBlock(s) /\ JobMode(s)' = JobMode(s)
    BY <1>1, <1>3 DEF JobBlock, JobMode
  <1>5. JobMode(s) = "side" /\ JobBlock(s) # top
    <2>1. JobBlock(s) \in AllBlocks /\ ChainWork[JobBlock(s)] \in Nat
      BY JobBlockType, TreeFacts, BranchFacts DEF IInv
    <2> QED BY <1>1, <2>1 DEF NeedsReorganize, MoreWorkThan
  <1>6. RangeOf(job'[s].off) = {} /\ RangeOf(job'[s].on) = {}
    BY <1>3 DEF RangeOf
  <1>7. Collected(s)'
    BY <1>6 DEF Collected
  <1>8. Forking(s)'
    BY <1>1, <1>2, <1>3, <1>4, <1>5, <1>6, <1>7 DEF Forking, InChain, Placed, RecentUpTo, Stored
  <1>9. Unused(s)'
    BY <1>1, <1>3 DEF SlotWait, JobOK, Unused
  <1>10. JobOK(s)' /\ Busy(s)'
    BY <1>3, <1>8, <1>9 DEF JobOK, Busy, ReorgPlaces
  <1> QED BY <1>1, <1>10 DEF SlotWait, LiveFindable, ParentsStored, Stored

(* A refused block gives the top back to its parent, where the transactions  *)
(* listeners hold already are.                                               *)
LEMMA RejectWait ==
  ASSUME IInv, NEW s \in Slots, SlotWait(s), Reject(s)
  PROVE  SlotWait(s)'
  <1>1. /\ job[s].pc \in {"verifyChild", "verifyBlock"} /\ EndJob(s)
        /\ top' = Rollback(s)
        /\ recent' = RecentRemove(recent, JobBlock(s))
        /\ UNCHANGED <<dbBlock, dbTx, recentTx, live>>
    BY DEF Reject, FinalizeError, storageVars, diskVars
  <1>2. recent'.index = recent.index \ {JobBlock(s)}
    BY <1>1 DEF RecentRemove, IInv, TypeOK
  <1>3. AtRest'
    <2>1. CASE job[s].pc = "verifyChild"
      <3>1. Verifying(s)
        BY <2>1 DEF SlotWait, JobOK
      <3> QED BY <1>1, <1>2, <3>1 DEF Verifying, Rollback, AtRest, Stored
    <2>2. CASE job[s].pc = "verifyBlock"
      <3>1. InChain(s)
        BY <2>2 DEF SlotWait, JobOK
      <3> QED BY <1>1, <1>2, <3>1 DEF InChain, Placed, RecentUpTo, Rollback, AtRest, Stored
    <2> QED BY <1>1, <2>1, <2>2
  <1>4. job'[s] = IdleJob
    BY <1>1, EndJobIdle DEF IInv
  <1> QED BY <1>1, <1>3, <1>4, IdleJobOK DEF SlotWait, LiveFindable, ParentsStored, Stored

-----------------------------------------------------------------------------
(* reorganize.                                                               *)

(* findFork always has a block to ask for: only the genesis block has height *)
(* 0, and what it has reached is stored or is the block itself.              *)
LEMMA ForkFound ==
  ASSUME IInv, ParentsStored, NEW s \in Slots, Forking(s)
  PROVE  Cursor(s) \in Blocks /\ Stored(Parent[Cursor(s)])
  <1>1. /\ job[s].old \in AllBlocks /\ job[s].new \in AllBlocks /\ job[s].old # job[s].new
        /\ Stored(job[s].old) /\ (Stored(job[s].new) \/ job[s].new = JobBlock(s))
        /\ Stored(Parent[JobBlock(s)])
    BY JobBlockType DEF Forking, Placed, IInv
  <1>2. \A b \in AllBlocks : b \notin Blocks => b = Genesis
    BY DEF AllBlocks
  <1>3. Cursor(s) \in Blocks
    <2>1. /\ Height[job[s].old] \in Nat /\ Height[job[s].new] \in Nat
          /\ job[s].old \notin Blocks => Height[job[s].old] = 0 /\ job[s].old = Genesis
          /\ job[s].new \notin Blocks => Height[job[s].new] = 0 /\ job[s].new = Genesis
      BY <1>1, <1>2, BranchFacts
    <2>2. CASE OldIsHigher(s)
      BY <2>1, <2>2 DEF Cursor, OldIsHigher
    <2>3. CASE ~OldIsHigher(s)
      <3>1. job[s].new \notin Blocks => Height[job[s].old] = 0
        BY <2>1, <2>3 DEF OldIsHigher
      <3>2. \A b \in Blocks : Height[b] # 0
        BY BranchFacts, TreeFacts
      <3>3. job[s].new \in Blocks
        BY <1>1, <2>1, <3>1, <3>2
      <3> QED BY <2>3, <3>3 DEF Cursor
    <2> QED BY <2>2, <2>3
  <1> QED BY <1>1, <1>3 DEF Cursor, ParentsStored

LEMMA FindForkWait ==
  ASSUME IInv, NEW s \in Slots, SlotWait(s), FindFork(s)
  PROVE  SlotWait(s)'
  <1> DEFINE at == Cursor(s)
             p  == Parent[at]
             b  == JobBlock(s)
             moved == IF OldIsHigher(s)
                      THEN [job[s] EXCEPT !.old = p, !.off = Append(@, at)]
                      ELSE [job[s] EXCEPT !.new = p, !.on = Append(@, at)]
  <1>1. /\ job[s].pc = "findFork"
        /\ UNCHANGED <<dbBlock, dbTx, top, recent, recentTx, live, wrapper>>
    BY DEF FindFork, At, storageVars, diskVars
  <1>2. Forking(s) /\ ParentsStored
    BY <1>1 DEF SlotWait, JobOK
  <1>3. at \in Blocks /\ at \in AllBlocks /\ Stored(p)
    BY <1>2, ForkFound, TreeFacts
  <1>4. job' = [job EXCEPT ![s] = IF moved.old = moved.new
                                  THEN [moved EXCEPT !.pc = "reorgTxs"] ELSE moved]
    BY <1>3 DEF FindFork
  <1>5. /\ job[s] \in JobType /\ job[s].off \in Seq(AllBlocks) /\ job[s].on \in Seq(AllBlocks)
        /\ b \in AllBlocks
    BY JobBlockType, TreeFacts DEF IInv
  <1>6. /\ moved.bw = job[s].bw /\ moved.block = b /\ moved.step = job[s].step
        /\ moved.pc = "findFork"
        /\ OldIsHigher(s) => /\ moved.old = p /\ moved.new = job[s].new
                             /\ moved.off = Append(job[s].off, at) /\ moved.on = job[s].on
        /\ ~OldIsHigher(s) => /\ moved.old = job[s].old /\ moved.new = p
                              /\ moved.off = job[s].off /\ moved.on = Append(job[s].on, at)
    BY <1>1, <1>5 DEF JobType, JobBlock
  <1>7. moved \in JobType
    <2>1. p \in AllBlocks /\ Append(job[s].off, at) \in Seq(AllBlocks)
                          /\ Append(job[s].on, at) \in Seq(AllBlocks)
      BY <1>3, <1>5, TreeFacts
    <2> QED BY <1>5, <2>1 DEF JobType
  <1> HIDE DEF moved
  <1>8. /\ job'[s].pc = IF moved.old = moved.new THEN "reorgTxs" ELSE "findFork"
        /\ job'[s].bw = job[s].bw /\ job'[s].block = b /\ job'[s].step = job[s].step
        /\ job'[s].old = moved.old /\ job'[s].new = moved.new
        /\ job'[s].off = moved.off /\ job'[s].on = moved.on
    BY <1>4, <1>6, <1>7 DEF IInv, TypeOK, JobType
  <1>9. JobBlock(s)' = b /\ JobMode(s)' = JobMode(s)
    BY <1>1, <1>8 DEF JobBlock, JobMode
  <1>10. /\ OldIsHigher(s) => at = job[s].old
         /\ ~OldIsHigher(s) => at = job[s].new
    BY DEF Cursor
  <1> HIDE DEF at, p, b
  <1>11. at \in Lineage[at] /\ Lineage[at] = {at} \cup Lineage[p]
    BY <1>3, LineageFacts DEF p
  <1>12. /\ OldIsHigher(s) => RangeOf(moved.off) = RangeOf(job[s].off) \cup {at}
         /\ ~OldIsHigher(s) => RangeOf(moved.on) = RangeOf(job[s].on) \cup {at}
    <2>1. /\ RangeOf(Append(job[s].off, at)) = RangeOf(job[s].off) \cup {at}
          /\ RangeOf(Append(job[s].on, at)) = RangeOf(job[s].on) \cup {at}
      BY <1>3, <1>5, RangeFacts
    <2> QED BY <1>6, <2>1
  <1>13. /\ \A x \in RangeOf(moved.off) \cup RangeOf(moved.on) :
              x \in Blocks /\ Stored(Parent[x]) /\ (Stored(x) \/ x = b)
         /\ RangeOf(moved.on) \subseteq Lineage[b]
         /\ Lineage[top] \subseteq RangeOf(moved.off) \cup Lineage[moved.old]
         /\ Lineage[moved.new] \subseteq Lineage[b]
         /\ Stored(moved.old) /\ (Stored(moved.new) \/ moved.new = b)
    BY <1>2, <1>3, <1>6, <1>10, <1>11, <1>12 DEF Forking, Collected, p, b
  <1>14. Placed(s)' /\ RecentUpTo(b)' /\ Stored(top)' /\ Collected(s)'
    BY <1>1, <1>2, <1>8, <1>9, <1>13 DEF Forking, Placed, RecentUpTo, Collected, Stored, b
  <1>15. CASE moved.old # moved.new
    <2>1. Forking(s)'
      BY <1>1, <1>2, <1>8, <1>9, <1>13, <1>14, <1>15 DEF Forking, Stored, RecentUpTo, b
    <2>2. Unused(s)'
      BY <1>1, <1>8, <1>15 DEF SlotWait, JobOK, Unused
    <2>3. JobOK(s)' /\ Busy(s)'
      BY <1>8, <1>15, <2>1, <2>2 DEF JobOK, Busy, ReorgPlaces
    <2> QED BY <1>1, <2>3 DEF SlotWait, LiveFindable, ParentsStored, Stored
  <1>16. CASE moved.old = moved.new
    <2>1. live \subseteq TxsIn(RangeOf(moved.off)) \cup TxsOn(b)
      BY <1>2, <1>13, <1>16 DEF Forking, TxsIn, TxsOn
    <2>2. ToDisconnect(s)' = RangeOf(moved.off)
      BY <1>8, <1>16 DEF ToDisconnect, MidReorg, RangeOf
    <2>3. Reorging(s)'
      BY <1>1, <1>2, <1>8, <1>9, <1>14, <1>16, <2>1, <2>2 DEF Reorging, Forking, RecentUpTo, TxsIn, TxsOn, b
    <2>4. Unused(s)'
      BY <1>1, <1>8, <1>16 DEF SlotWait, JobOK, Unused
    <2>5. JobOK(s)' /\ Busy(s)'
      BY <1>8, <1>16, <2>3, <2>4 DEF JobOK, Busy, ReorgPlaces
    <2> QED BY <1>1, <2>5 DEF SlotWait, LiveFindable, ParentsStored, Stored
  <1> QED BY <1>15, <1>16

LEMMA ReorgBlockFacts ==
  ASSUME IInv, NEW s \in Slots, job[s].pc \in ReorgPlaces, Collected(s)
  PROVE  /\ ReorgBlock(s) \in Blocks /\ ReorgBlock(s) \in AllBlocks
         /\ Stored(Parent[ReorgBlock(s)])
         /\ Stored(ReorgBlock(s)) \/ ReorgBlock(s) = JobBlock(s)
         /\ Disconnecting(s) =>
              RangeOf(job[s].off) = {ReorgBlock(s)} \cup RangeOf(Tail(job[s].off))
         /\ ~Disconnecting(s) =>
              /\ RangeOf(job[s].off) = {}
              /\ RangeOf(job[s].on) = {ReorgBlock(s)} \cup RangeOf(Tail(job[s].on))
              /\ ReorgBlock(s) \in Lineage[JobBlock(s)]
              /\ TxsOf[ReorgBlock(s)] \subseteq TxsOn(JobBlock(s))
  <1>1. /\ job[s].off \in Seq(AllBlocks) /\ job[s].on \in Seq(AllBlocks)
        /\ job[s].off # <<>> \/ job[s].on # <<>>
    BY JobBlockType DEF IInv, SlotOK
  <1>2. CASE Disconnecting(s)
    <2>1. /\ ReorgBlock(s) = Head(job[s].off) /\ job[s].off # <<>>
      BY <1>2 DEF ReorgBlock, Disconnecting
    <2>2. /\ RangeOf(job[s].off) = {ReorgBlock(s)} \cup RangeOf(Tail(job[s].off))
      BY <1>1, <2>1, RangeFacts
    <2> QED BY <1>2, <2>2, TreeFacts DEF Collected
  <1>3. CASE ~Disconnecting(s)
    <2>1. /\ ReorgBlock(s) = Head(job[s].on) /\ job[s].on # <<>> /\ job[s].off = <<>>
      BY <1>1, <1>3 DEF ReorgBlock, Disconnecting
    <2>2. /\ RangeOf(job[s].on) = {ReorgBlock(s)} \cup RangeOf(Tail(job[s].on))
          /\ RangeOf(job[s].off) = {}
      BY <1>1, <2>1, RangeFacts
    <2> QED BY <1>3, <2>2, TreeFacts DEF Collected, TxsOn, TxsIn
  <1> QED BY <1>2, <1>3

(* A step that leaves the records, the wrappers and the lists of the job.    *)
LEMMA ReorgFrame ==
  ASSUME IInv, NEW s \in Slots, Reorging(s),
         UNCHANGED <<dbBlock, top, recent, wrapper>>,
         job'[s].bw = job[s].bw, job'[s].block = job[s].block,
         RangeOf(job'[s].off) \subseteq RangeOf(job[s].off),
         RangeOf(job'[s].on) \subseteq RangeOf(job[s].on)
  PROVE  /\ JobBlock(s)' = JobBlock(s) /\ JobMode(s)' = JobMode(s)
         /\ (Placed(s) /\ RecentUpTo(JobBlock(s)) /\ JobMode(s) = "side"
             /\ Stored(top) /\ Collected(s))'
  <1>1. JobBlock(s)' = JobBlock(s) /\ JobMode(s)' = JobMode(s)
    BY DEF JobBlock, JobMode
  <1>2. Placed(s)' /\ RecentUpTo(JobBlock(s))' /\ Stored(top)'
    BY <1>1 DEF Reorging, Placed, RecentUpTo, Stored
  <1>3. Collected(s)'
    BY <1>1 DEF Reorging, Collected, Stored
  <1> QED BY <1>1, <1>2, <1>3 DEF Reorging

LEMMA DisconnectTransactionsWait ==
  ASSUME IInv, NEW s \in Slots, SlotWait(s), DisconnectTransactions(s)
  PROVE  SlotWait(s)'
  <1> DEFINE txs == {t \in TxsOf[ReorgBlock(s)] : Findable(t)}
  <1>1. /\ job[s].pc = "reorgTxs" /\ Disconnecting(s) /\ Goto(s, "reorgPut")
        /\ live' = live \ txs
        /\ UNCHANGED <<dbBlock, dbTx, top, recent, recentTx, wrapper>>
    BY DEF DisconnectTransactions, Revoked, At, diskVars
  <1>2. Reorging(s)
    BY <1>1 DEF SlotWait, JobOK, ReorgPlaces
  <1>3. /\ job'[s].pc = "reorgPut" /\ job'[s].bw = job[s].bw /\ job'[s].block = job[s].block
        /\ job'[s].off = job[s].off /\ job'[s].on = job[s].on /\ job'[s].step = job[s].step
    BY <1>1, GotoJob DEF IInv
  <1>4. /\ JobBlock(s)' = JobBlock(s) /\ JobMode(s)' = JobMode(s)
        /\ (Placed(s) /\ RecentUpTo(JobBlock(s)) /\ JobMode(s) = "side"
            /\ Stored(top) /\ Collected(s))'
    BY <1>1, <1>2, <1>3, ReorgFrame
  <1>5. live' \subseteq TxsIn(RangeOf(Tail(job[s].off))) \cup TxsOn(JobBlock(s))
    <2>1. live' \subseteq live \ TxsOf[ReorgBlock(s)]
      BY <1>1 DEF SlotWait, LiveFindable, Findable
    <2>2. live \subseteq TxsIn(RangeOf(job[s].off)) \cup TxsOn(JobBlock(s))
      BY <1>1, <1>2 DEF Reorging, ToDisconnect, MidReorg
    <2>3. RangeOf(job[s].off) = {ReorgBlock(s)} \cup RangeOf(Tail(job[s].off))
      BY <1>1, <1>2, ReorgBlockFacts DEF Reorging, ReorgPlaces
    <2> QED BY <2>1, <2>2, <2>3 DEF TxsIn
  <1>6. ToDisconnect(s)' = RangeOf(Tail(job[s].off))
    BY <1>1, <1>3 DEF ToDisconnect, MidReorg, Disconnecting
  <1>7. Reorging(s)'
    BY <1>3, <1>4, <1>5, <1>6 DEF Reorging, TxsIn, TxsOn
  <1>8. Unused(s)'
    BY <1>1, <1>3 DEF SlotWait, JobOK, Unused
  <1>9. JobOK(s)' /\ Busy(s)'
    BY <1>3, <1>7, <1>8 DEF JobOK, Busy, ReorgPlaces
  <1> QED BY <1>1, <1>9 DEF SlotWait, LiveFindable, ParentsStored, Stored

LEMMA ReconnectTransactionsWait ==
  ASSUME IInv, NEW s \in Slots, SlotWait(s), ReconnectTransactions(s)
  PROVE  SlotWait(s)'
  <1>1. /\ job[s].pc \in {"reorgTxs", "reorgAffects"}
        /\ UNCHANGED <<dbBlock, dbTx, top, recent, recentTx, wrapper>>
    BY DEF ReconnectTransactions, At, diskVars
  <1>2. Reorging(s)
    BY <1>1 DEF SlotWait, JobOK, ReorgPlaces
  <1>3. ~Disconnecting(s)
    BY <1>2 DEF ReconnectTransactions, Reorging, At
  <1>4. PICK txs, left :
          /\ Announce(s, txs, left)
          /\ left \subseteq TxsOf[ReorgBlock(s)] /\ \A t \in left : Findable(t)
    <2>1. CASE job[s].pc = "reorgTxs"
      <3> DEFINE txs == {t \in TxsOf[ReorgBlock(s)] : Findable(t)}
      <3>1. Announce(s, txs, txs)
        BY <2>1 DEF ReconnectTransactions, At
      <3>2. txs \subseteq TxsOf[ReorgBlock(s)] /\ \A t \in txs : Findable(t)
        OBVIOUS
      <3> HIDE DEF txs
      <3> QED BY <3>1, <3>2
    <2>2. CASE job[s].pc = "reorgAffects"
      <3>1. Announce(s, job[s].txs, job[s].left)
        BY <2>2 DEF ReconnectTransactions, At
      <3> QED BY <1>2, <2>2, <3>1 DEF Reorging
    <2> QED BY <1>1, <2>1, <2>2
  <1>5. TxsOf[ReorgBlock(s)] \subseteq TxsOn(JobBlock(s)) /\ RangeOf(job[s].off) = {}
    BY <1>1, <1>2, <1>3, ReorgBlockFacts DEF Reorging, ReorgPlaces
  <1>6. live \subseteq TxsOn(JobBlock(s))
    BY <1>1, <1>2, <1>3, <1>5 DEF Reorging, ToDisconnect, MidReorg, TxsIn
  <1>7. CASE left = {}
    <2>1. Goto(s, "reorgPut") /\ UNCHANGED live
      BY <1>4, <1>7 DEF Announce
    <2>2. /\ job'[s].pc = "reorgPut" /\ job'[s].bw = job[s].bw /\ job'[s].block = job[s].block
          /\ job'[s].off = job[s].off /\ job'[s].on = job[s].on /\ job'[s].step = job[s].step
      BY <2>1, GotoJob DEF IInv
    <2>3. /\ JobBlock(s)' = JobBlock(s) /\ JobMode(s)' = JobMode(s)
          /\ (Placed(s) /\ RecentUpTo(JobBlock(s)) /\ JobMode(s) = "side"
              /\ Stored(top) /\ Collected(s))'
      BY <1>1, <1>2, <2>2, ReorgFrame
    <2>4. Reorging(s)'
      BY <1>6, <2>1, <2>2, <2>3 DEF Reorging, TxsOn, TxsIn
    <2>5. Unused(s)'
      BY <1>1, <2>2 DEF SlotWait, JobOK, Unused
    <2>6. JobOK(s)' /\ Busy(s)'
      BY <2>2, <2>4, <2>5 DEF JobOK, Busy, ReorgPlaces
    <2> QED BY <1>1, <2>1, <2>6 DEF SlotWait, LiveFindable, ParentsStored, Stored
  <1>8. CASE left # {}
    <2> DEFINE t == CHOOSE x \in left : TRUE
    <2>1. t \in left
      BY <1>8
    <2>2. /\ live' = live \cup {t}
          /\ job' = [job EXCEPT ![s].pc = "reorgAffects", ![s].txs = txs,
                                ![s].left = left \ {t}]
      BY <1>4, <1>8 DEF Announce
    <2> HIDE DEF t
    <2>3. /\ job'[s].pc = "reorgAffects" /\ job'[s].bw = job[s].bw /\ job'[s].block = job[s].block
          /\ job'[s].off = job[s].off /\ job'[s].on = job[s].on /\ job'[s].step = job[s].step
          /\ job'[s].left = left \ {t}
      BY <2>2, JobBlockType DEF IInv, TypeOK, JobType
    <2>4. /\ JobBlock(s)' = JobBlock(s) /\ JobMode(s)' = JobMode(s)
          /\ (Placed(s) /\ RecentUpTo(JobBlock(s)) /\ JobMode(s) = "side"
              /\ Stored(top) /\ Collected(s))'
      BY <1>1, <1>2, <2>3, ReorgFrame
    <2>5. live' \subseteq TxsOn(JobBlock(s))
      BY <1>4, <1>5, <1>6, <2>1, <2>2
    <2>6. /\ ~Disconnecting(s)' /\ ReorgBlock(s)' = ReorgBlock(s)
          /\ \A x \in left : Findable(x)'
      BY <1>1, <1>3, <1>4, <2>3 DEF Disconnecting, ReorgBlock, Findable
    <2>7. Reorging(s)'
      BY <1>4, <2>3, <2>4, <2>5, <2>6 DEF Reorging, TxsOn, TxsIn
    <2>8. Unused(s)'
      BY <1>1, <2>3 DEF SlotWait, JobOK, Unused
    <2>9. JobOK(s)' /\ Busy(s)'
      BY <2>3, <2>7, <2>8 DEF JobOK, Busy, ReorgPlaces
    <2>10. t \in recentTx \cup dbTx
      BY <1>4, <2>1 DEF Findable
    <2> QED BY <1>1, <2>2, <2>9, <2>10 DEF SlotWait, LiveFindable, ParentsStored, Stored
  <1> QED BY <1>7, <1>8

(* A put of a block whose parent is stored.                                  *)
LEMMA PutRecord ==
  ASSUME IInv, ParentsStored, NEW b \in Blocks, NEW active, PutBlock(b, active), Stored(Parent[b])
  PROVE  /\ Stored(b)' /\ ParentsStored'
         /\ \A x \in AllBlocks : Stored(x)' <=> Stored(x) \/ x = b
         /\ \A x \in AllBlocks \ {b} : dbBlock'[x] = dbBlock[x]
         /\ dbBlock'[b] = IF active THEN "active" ELSE "inactive"
  <1>1. b \in AllBlocks /\ Parent[b] \in AllBlocks
    BY TreeFacts
  <1>2. /\ \A x \in AllBlocks \ {b} : dbBlock'[x] = dbBlock[x]
        /\ dbBlock'[b] = IF active THEN "active" ELSE "inactive"
    BY <1>1 DEF PutBlock, IInv, TypeOK, StorageTypeOK
  <1>3. \A x \in AllBlocks : Stored(x)' <=> Stored(x) \/ x = b
    BY <1>1, <1>2 DEF Stored
  <1>4. ParentsStored'
    <2>1. SUFFICES ASSUME NEW c \in Blocks, Stored(c)'
                   PROVE  Stored(Parent[c])'
      BY DEF ParentsStored, Stored
    <2>2. c \in AllBlocks /\ Parent[c] \in AllBlocks
      BY TreeFacts
    <2> QED BY <1>3, <2>1, <2>2 DEF ParentsStored
  <1> QED BY <1>1, <1>2, <1>3, <1>4

LEMMA ReorgPutWait ==
  ASSUME IInv, NEW s \in Slots, SlotWait(s), ReorgPut(s)
  PROVE  SlotWait(s)'
  <1>1. /\ job[s].pc = "reorgPut" /\ Goto(s, "reorgHeight")
        /\ PutBlock(ReorgBlock(s), ReorgFlag(s))
        /\ UNCHANGED <<dbTx, top, recent, recentTx, live, wrapper>>
    BY DEF ReorgPut, At
  <1>2. Reorging(s)
    BY <1>1 DEF SlotWait, JobOK, ReorgPlaces
  <1>3. ReorgBlock(s) \in Blocks /\ Stored(Parent[ReorgBlock(s)])
    BY <1>1, <1>2, ReorgBlockFacts DEF Reorging, ReorgPlaces
  <1>4. ParentsStored' /\ \A x \in AllBlocks : Stored(x) => Stored(x)'
    BY <1>1, <1>3, PutRecord DEF SlotWait
  <1>5. /\ job'[s].pc = "reorgHeight" /\ job'[s].bw = job[s].bw /\ job'[s].block = job[s].block
        /\ job'[s].off = job[s].off /\ job'[s].on = job[s].on /\ job'[s].step = job[s].step
    BY <1>1, GotoJob DEF IInv
  <1>6. JobBlock(s)' = JobBlock(s) /\ JobMode(s)' = JobMode(s)
    BY <1>1, <1>5 DEF JobBlock, JobMode
  <1>7. /\ JobBlock(s) \in Blocks /\ Parent[JobBlock(s)] \in AllBlocks
        /\ top \in AllBlocks /\ recent.index \subseteq AllBlocks
        /\ \A x \in Blocks : x \in AllBlocks /\ Parent[x] \in AllBlocks
    BY JobBlockType, TreeFacts DEF IInv, TypeOK
  <1>8. Placed(s)' /\ RecentUpTo(JobBlock(s))' /\ Stored(top)'
    BY <1>1, <1>2, <1>4, <1>6, <1>7 DEF Reorging, Placed, RecentUpTo, Stored
  <1>9. Collected(s)'
    BY <1>2, <1>4, <1>5, <1>6, <1>7 DEF Reorging, Collected, Stored
  <1>10. ToDisconnect(s)' = ToDisconnect(s)
    BY <1>1, <1>5 DEF ToDisconnect, MidReorg, Disconnecting
  <1>11. Reorging(s)'
    BY <1>1, <1>2, <1>5, <1>6, <1>8, <1>9, <1>10 DEF Reorging, TxsIn, TxsOn
  <1>12. Unused(s)'
    BY <1>1, <1>5 DEF SlotWait, JobOK, Unused
  <1>13. JobOK(s)' /\ Busy(s)'
    BY <1>5, <1>11, <1>12 DEF JobOK, Busy, ReorgPlaces
  <1> QED BY <1>1, <1>4, <1>13 DEF SlotWait, LiveFindable

LEMMA ReorgHeightWait ==
  ASSUME IInv, NEW s \in Slots, SlotWait(s), ReorgHeight(s)
  PROVE  SlotWait(s)'
  <1>1. /\ job[s].pc = "reorgHeight"
        /\ SaveRest(s, ReorgBlock(s), ReorgFlag(s), "reorgIdx")
        /\ UNCHANGED <<dbBlock, dbTx, top, recent, recentTx, live, wrapper>>
    BY DEF ReorgHeight, At
  <1>2. Reorging(s)
    BY <1>1 DEF SlotWait, JobOK, ReorgPlaces
  <1>3. /\ job'[s].pc = "reorgIdx" /\ job'[s].bw = job[s].bw /\ job'[s].block = job[s].block
        /\ job'[s].off = job[s].off /\ job'[s].on = job[s].on /\ job'[s].step = job[s].step
    BY <1>1, SaveRestJob DEF IInv
  <1>4. /\ JobBlock(s)' = JobBlock(s) /\ JobMode(s)' = JobMode(s)
        /\ (Placed(s) /\ RecentUpTo(JobBlock(s)) /\ JobMode(s) = "side"
            /\ Stored(top) /\ Collected(s))'
    BY <1>1, <1>2, <1>3, ReorgFrame
  <1>5. ToDisconnect(s)' = ToDisconnect(s)
    BY <1>1, <1>3 DEF ToDisconnect, MidReorg, Disconnecting
  <1>6. Reorging(s)'
    BY <1>1, <1>2, <1>3, <1>4, <1>5 DEF Reorging, TxsIn, TxsOn
  <1>7. Unused(s)'
    BY <1>1, <1>3 DEF SlotWait, JobOK, Unused
  <1>8. JobOK(s)' /\ Busy(s)'
    BY <1>3, <1>6, <1>7 DEF JobOK, Busy, ReorgPlaces
  <1> QED BY <1>1, <1>8 DEF SlotWait, LiveFindable, ParentsStored, Stored

(* What is left of a reorganisation after one of its blocks.                 *)
LEMMA NextReorgStepJob ==
  ASSUME IInv, NEW s \in Slots, NEW io, job[s].pc \in ReorgPlaces, NextReorgStep(s, io)
  PROVE  LET off == IF Disconnecting(s) THEN Tail(job[s].off) ELSE job[s].off
             on  == IF Disconnecting(s) THEN job[s].on ELSE Tail(job[s].on)
             last == off = <<>> /\ on = <<>>
         IN /\ job'[s].pc = IF last THEN "put" ELSE "reorgTxs"
            /\ job'[s].bw = job[s].bw /\ job'[s].block = job[s].block
            /\ job'[s].off = off /\ job'[s].on = on /\ job'[s].step = job[s].step
            /\ RangeOf(off) \subseteq RangeOf(job[s].off)
            /\ RangeOf(on) \subseteq RangeOf(job[s].on)
            /\ off \in Seq(AllBlocks) /\ on \in Seq(AllBlocks)
  <1> DEFINE off == IF Disconnecting(s) THEN Tail(job[s].off) ELSE job[s].off
             on  == IF Disconnecting(s) THEN job[s].on ELSE Tail(job[s].on)
             last == off = <<>> /\ on = <<>>
             pc == IF last THEN "put" ELSE "reorgTxs"
  <1>1. /\ job[s].off \in Seq(AllBlocks) /\ job[s].on \in Seq(AllBlocks)
        /\ job[s].off # <<>> \/ job[s].on # <<>>
    BY JobBlockType DEF IInv, SlotOK
  <1>2. RangeOf(off) \subseteq RangeOf(job[s].off) /\ RangeOf(on) \subseteq RangeOf(job[s].on)
    <2>1. CASE Disconnecting(s)
      BY <1>1, <2>1, RangeFacts DEF Disconnecting
    <2>2. CASE ~Disconnecting(s)
      BY <1>1, <2>2, RangeFacts DEF Disconnecting
    <2> QED BY <2>1, <2>2
  <1>3. off \in Seq(AllBlocks) /\ on \in Seq(AllBlocks)
    BY <1>1, ReorgBlockType DEF IInv
  <1>4. job' = [job EXCEPT ![s].off = off, ![s].on = on, ![s].io = {},
                           ![s].txs = {}, ![s].left = {}, ![s].pc = pc]
    BY DEF NextReorgStep
  <1> HIDE DEF off, on, pc
  <1>5. /\ job'[s].pc = pc
        /\ job'[s].bw = job[s].bw /\ job'[s].block = job[s].block
        /\ job'[s].off = off /\ job'[s].on = on /\ job'[s].step = job[s].step
    BY <1>4, JobBlockType DEF IInv, TypeOK, JobType
  <1> QED BY <1>2, <1>3, <1>5 DEF off, on, pc

LEMMA ReorgSavedWait ==
  ASSUME IInv, NEW s \in Slots, SlotWait(s), NEW op, ReorgSaved(s, op)
  PROVE  SlotWait(s)'
  <1> DEFINE off == IF Disconnecting(s) THEN Tail(job[s].off) ELSE job[s].off
             on  == IF Disconnecting(s) THEN job[s].on ELSE Tail(job[s].on)
             last == off = <<>> /\ on = <<>>
  <1>1. /\ job[s].pc = "reorgIdx" /\ NextReorgStep(s, job[s].io \ {op})
        /\ UNCHANGED <<dbBlock, dbTx, recent, recentTx, live>>
        /\ top' = IF last THEN JobBlock(s) ELSE top
        /\ wrapper' = IF last THEN [wrapper EXCEPT ![job[s].bw].active = TRUE] ELSE wrapper
    BY DEF ReorgSaved, At, NextReorgStep
  <1>2. Reorging(s) /\ job[s].bw \in Wrappers /\ job[s].pc \in ReorgPlaces
    BY <1>1 DEF SlotWait, JobOK, ReorgPlaces, IInv, SlotOK, Busy
  <1>3. /\ job'[s].pc = IF last THEN "put" ELSE "reorgTxs"
        /\ job'[s].bw = job[s].bw /\ job'[s].block = job[s].block
        /\ job'[s].off = off /\ job'[s].on = on /\ job'[s].step = job[s].step
        /\ RangeOf(off) \subseteq RangeOf(job[s].off)
        /\ RangeOf(on) \subseteq RangeOf(job[s].on)
    BY <1>1, <1>2, NextReorgStepJob
  <1>4. live \subseteq TxsIn(RangeOf(off)) \cup TxsOn(JobBlock(s))
    BY <1>1, <1>2 DEF Reorging, ToDisconnect, MidReorg
  <1>5. CASE ~last
    <2>1. /\ JobBlock(s)' = JobBlock(s) /\ JobMode(s)' = JobMode(s)
          /\ (Placed(s) /\ RecentUpTo(JobBlock(s)) /\ JobMode(s) = "side"
              /\ Stored(top) /\ Collected(s))'
      BY <1>1, <1>2, <1>3, <1>5, ReorgFrame
    <2> HIDE DEF off, on
    <2>2. ToDisconnect(s)' = RangeOf(off)
      BY <1>3, <1>5 DEF ToDisconnect, MidReorg
    <2>3. Reorging(s)'
      BY <1>1, <1>3, <1>4, <1>5, <2>1, <2>2 DEF Reorging, TxsIn, TxsOn
    <2>4. Unused(s)'
      BY <1>1, <1>3, <1>5 DEF SlotWait, JobOK, Unused
    <2>5. JobOK(s)' /\ Busy(s)'
      BY <1>3, <1>5, <2>3, <2>4 DEF JobOK, Busy, ReorgPlaces
    <2> QED BY <1>1, <2>5 DEF SlotWait, LiveFindable, ParentsStored, Stored
  <1>6. CASE last
    <2>1. live \subseteq TxsOn(JobBlock(s))
      BY <1>4, <1>6 DEF TxsIn, RangeOf
    <2> HIDE DEF off, on
    <2>2. wrapper'[job[s].bw].mode = JobMode(s)
      BY <1>1, <1>2, <1>6 DEF JobMode, IInv, TypeOK, WrapperType
    <2>3. JobBlock(s)' = JobBlock(s) /\ JobMode(s)' = JobMode(s)
      BY <1>3, <2>2 DEF JobBlock, JobMode
    <2>4. Saving(s)'
      BY <1>1, <1>2, <1>3, <1>6, <2>1, <2>3
         DEF Reorging, Saving, Placed, RecentUpTo, Stored, TxsOn, TxsIn
    <2>5. Unused(s)'
      BY <1>1, <1>3, <1>6 DEF SlotWait, JobOK, Unused
    <2>6. JobOK(s)' /\ Busy(s)'
      BY <1>3, <1>6, <2>4, <2>5 DEF JobOK, Busy, ReorgPlaces
    <2> QED BY <1>1, <2>6 DEF SlotWait, LiveFindable, ParentsStored, Stored
  <1> QED BY <1>5, <1>6, SMTT(60)

-----------------------------------------------------------------------------
(* saveBlockStep and the tail.                                               *)

LEMMA PutWait ==
  ASSUME IInv, NEW s \in Slots, SlotWait(s), Put(s)
  PROVE  SlotWait(s)'
  <1>1. /\ job[s].pc = "put" /\ Goto(s, "height")
        /\ PutBlock(JobBlock(s), wrapper[job[s].bw].active)
        /\ UNCHANGED <<dbTx, top, recent, recentTx, live, wrapper>>
    BY DEF Put, At
  <1>2. Saving(s)
    BY <1>1 DEF SlotWait, JobOK
  <1>3. /\ JobBlock(s) \in Blocks /\ JobBlock(s) \in AllBlocks /\ top \in AllBlocks
        /\ recent.index \subseteq AllBlocks
    BY JobBlockType, TreeFacts DEF IInv, TypeOK
  <1>4. /\ Stored(JobBlock(s))' /\ ParentsStored'
        /\ \A x \in AllBlocks : Stored(x) => Stored(x)'
    <2>1. /\ dbBlock'[JobBlock(s)] # "none" /\ ParentsStored'
          /\ \A x \in AllBlocks : Stored(x) => Stored(x)'
      BY <1>1, <1>2, <1>3, PutRecord DEF SlotWait, Saving, Placed
    <2>2. JobBlock(s)' = JobBlock(s)
      BY <1>1, GotoJob DEF IInv, JobBlock
    <2> QED BY <2>1, <2>2 DEF Stored
  <1>5. /\ job'[s].pc = "height" /\ job'[s].bw = job[s].bw /\ job'[s].block = job[s].block
        /\ job'[s].off = job[s].off /\ job'[s].on = job[s].on /\ job'[s].step = job[s].step
    BY <1>1, GotoJob DEF IInv
  <1>6. JobBlock(s)' = JobBlock(s) /\ JobMode(s)' = JobMode(s)
    BY <1>1, <1>5 DEF JobBlock, JobMode
  <1>7. AtRest'
    BY <1>1, <1>2, <1>3, <1>4, <1>6 DEF Saving, RecentUpTo, AtRest, Stored, TxsOn, TxsIn
  <1>8. Saved(s)'
    BY <1>1, <1>2, <1>4, <1>6, <1>7 DEF Saving, Placed, Saved
  <1>9. Unused(s)'
    BY <1>1, <1>5 DEF SlotWait, JobOK, Unused
  <1>10. JobOK(s)' /\ Busy(s)'
    BY <1>5, <1>8, <1>9 DEF JobOK, Busy, ReorgPlaces
  <1> QED BY <1>1, <1>4, <1>10 DEF SlotWait, LiveFindable

LEMMA PutHeightKeyWait ==
  ASSUME IInv, NEW s \in Slots, SlotWait(s), PutHeightKey(s)
  PROVE  SlotWait(s)'
  <1>1. /\ job[s].pc = "height"
        /\ SaveRest(s, JobBlock(s), wrapper[job[s].bw].active, "tail")
        /\ UNCHANGED <<dbBlock, dbTx, top, recent, recentTx, live, wrapper>>
    BY DEF PutHeightKey, At
  <1>2. Saved(s)
    BY <1>1 DEF SlotWait, JobOK
  <1>3. /\ job'[s].pc = "tail" /\ job'[s].bw = job[s].bw /\ job'[s].block = job[s].block
    BY <1>1, SaveRestJob DEF IInv
  <1>4. Saved(s)'
    BY <1>1, <1>2, <1>3 DEF Saved, AtRest, Stored, JobBlock, JobMode, TxsOn, TxsIn
  <1>5. JobOK(s)' /\ Busy(s)'
    BY <1>3, <1>4 DEF JobOK, Unused, Busy, ReorgPlaces
  <1> QED BY <1>1, <1>5 DEF SlotWait, LiveFindable, ParentsStored, Stored

LEMMA TailConnectWait ==
  ASSUME IInv, NEW s \in Slots, SlotWait(s), NEW op, TailConnect(s, op)
  PROVE  SlotWait(s)'
  <1> DEFINE txs == TxsOf[JobBlock(s)]
             io  == job[s].io \ {op}
  <1>1. /\ job[s].pc = "tail" /\ dbTx \subseteq dbTx'
        /\ UNCHANGED <<dbBlock, top, recent, wrapper>>
        /\ IF JobMode(s) = "main"
           THEN /\ live' = live \cup txs
                /\ recentTx' = recentTx \cup txs
                /\ job' = [job EXCEPT ![s].io = io \cup {"affects"}, ![s].step = "endTransaction"]
           ELSE /\ EndTransaction(s, io, currentBatch)
                /\ UNCHANGED <<live, recentTx>>
    BY DEF TailConnect, Completes, At, ApplyBatch
  <1>2. Saved(s)
    BY <1>1 DEF SlotWait, JobOK
  <1>3. /\ job'[s].pc = "tail" /\ job'[s].bw = job[s].bw /\ job'[s].block = job[s].block
    BY <1>1, JobBlockType, SMTT(60) DEF EndTransaction, IInv, TypeOK, JobType
  <1>4. live' \subseteq TxsOn(top) /\ live' \subseteq recentTx' \cup dbTx'
    <2>1. CASE JobMode(s) = "main"
      <3>1. top = JobBlock(s) /\ txs \subseteq TxsOn(top)
        BY <1>2, <2>1, JobBlockType, TreeFacts, LineageTxs DEF Saved, IInv
      <3> QED BY <1>1, <1>2, <2>1, <3>1 DEF Saved, AtRest, SlotWait, LiveFindable
    <2>2. CASE JobMode(s) # "main"
      BY <1>1, <1>2, <2>2 DEF Saved, AtRest, SlotWait, LiveFindable
    <2> QED BY <2>1, <2>2
  <1>5. Saved(s)'
    BY <1>1, <1>2, <1>3, <1>4 DEF Saved, AtRest, Stored, JobBlock, JobMode, TxsOn, TxsIn
  <1>6. JobOK(s)' /\ Busy(s)'
    BY <1>3, <1>5 DEF JobOK, Unused, Busy, ReorgPlaces
  <1> QED BY <1>1, <1>4, <1>6 DEF SlotWait, LiveFindable, ParentsStored, Stored

LEMMA TailEndWait ==
  ASSUME IInv, NEW s \in Slots, SlotWait(s), NEW op, TailEnd(s, op)
  PROVE  SlotWait(s)'
  <1>1. /\ job[s].pc = "tail" /\ dbTx \subseteq dbTx'
        /\ EndTransaction(s, job[s].io \ {op}, currentBatch)
        /\ UNCHANGED <<dbBlock, top, recent, wrapper, live, recentTx>>
    BY DEF TailEnd, Completes, At, ApplyBatch
  <1>2. Saved(s)
    BY <1>1 DEF SlotWait, JobOK
  <1>3. /\ job'[s].pc = "tail" /\ job'[s].bw = job[s].bw /\ job'[s].block = job[s].block
    BY <1>1, JobBlockType DEF EndTransaction, IInv, TypeOK, JobType
  <1>4. Saved(s)'
    BY <1>1, <1>2, <1>3 DEF Saved, AtRest, Stored, JobBlock, JobMode, TxsOn, TxsIn
  <1>5. JobOK(s)' /\ Busy(s)'
    BY <1>3, <1>4 DEF JobOK, Unused, Busy, ReorgPlaces
  <1> QED BY <1>1, <1>5 DEF SlotWait, LiveFindable, ParentsStored, Stored

LEMMA TailFinalizeWait ==
  ASSUME IInv, NEW s \in Slots, SlotWait(s), NEW op, TailFinalize(s, op)
  PROVE  SlotWait(s)'
  <1>1. /\ job[s].pc = "tail" /\ dbTx \subseteq dbTx' /\ EndJob(s)
        /\ UNCHANGED <<dbBlock, top, recent, wrapper, live, recentTx>>
    BY DEF TailFinalize, Completes, At, ApplyBatch
  <1>2. AtRest
    BY <1>1 DEF SlotWait, JobOK, Saved
  <1>3. job'[s] = IdleJob
    BY <1>1, EndJobIdle DEF IInv
  <1> QED BY <1>1, <1>2, <1>3, IdleJobOK
          DEF SlotWait, LiveFindable, ParentsStored, Stored, AtRest

LEMMA SlotWaitStep ==
  ASSUME MaxIoErrors = 0, IInv, NEW s \in Slots, SlotWait(s), Advance(s) \/ Faulty(s)
  PROVE  SlotWait(s)'
  <1>1. CASE Advance(s)
    BY <1>1, GetPrevWait, DiscardWait, ConnectToStoredWait, VerifyChildWait, VerifyBlockWait,
       ReorganizeWait, FindForkWait, DisconnectTransactionsWait, ReconnectTransactionsWait,
       ReorgPutWait, ReorgHeightWait, ReorgSavedWait, PutWait, PutHeightKeyWait,
       TailConnectWait, TailEndWait, TailFinalizeWait
    DEF Advance
  <1>2. CASE Faulty(s)
    <2>1. faults.io = 0
      BY DEF IInv, TypeOK
    <2>2. PipelineError(s) \/ FindForkError(s) \/ ReorgError(s) => faults.io > 0
      BY DEF PipelineError, FindForkError, ReorgError, IoErrorAllowed
    <2> QED BY <1>2, <2>1, <2>2, RejectWait DEF Faulty
  <1> QED BY <1>1, <1>2

-----------------------------------------------------------------------------
(* The steps that find every slot free.                                      *)

LEMMA FreeSlotFree == FreeSlots # {} => FreeSlot \in Slots /\ ~Busy(FreeSlot)
  BY DEF FreeSlots, FreeSlot

LEMMA ProcessBlockJob ==
  ASSUME IInv, NEW w \in Wrappers, NEW wr \in [Wrappers -> WrapperType], NEW q,
         ProcessBlock(w, wr, q)
  PROVE  LET b == wr[w].block
         IN \/ job' = job
            \/ \E s \in Slots :
               /\ ~Busy(s) /\ OnlyJob(s) /\ tick' = NoBw
               /\ job'[s].bw = w /\ job'[s].block = b /\ JobBlock(s)' = b
               /\ job'[s].off = <<>> /\ job'[s].on = <<>>
               /\ job'[s].step = "connectTransactions"
               /\ \/ /\ Parent[b] = top /\ job'[s].pc = "verifyChild" /\ JobMode(s)' = "main"
                  \/ /\ Parent[b] # top /\ Parent[b] \in recent.index
                     /\ job'[s].pc = "verifyChild" /\ JobMode(s)' = "side"
                  \/ Parent[b] # top /\ job'[s].pc = "getPrev"
  <1> DEFINE b == wr[w].block
             kids == heads[b]
             bw == IF kids = <<>> THEN wr[w] ELSE [wr[w] EXCEPT !.children = kids]
             start == [IdleJob EXCEPT !.bw = w, !.block = b]
             Started(mode, place) ==
               /\ mode = "new" \/ wrapper' = [wr EXCEPT ![w] = [bw EXCEPT !.mode = mode]]
               /\ job' = [job EXCEPT ![FreeSlot] = [start EXCEPT !.pc = place]]
  <1>1. \/ job' = job
        \/ /\ FreeSlots # {} /\ tick' = NoBw
           /\ \/ Parent[b] = top /\ Started("main", "verifyChild")
              \/ Parent[b] # top /\ Parent[b] \in recent.index /\ Started("side", "verifyChild")
              \/ Parent[b] # top /\ Started("new", "getPrev")
    BY ZenonT(30) DEF ProcessBlock
  <1>2. wr[w] \in WrapperType
    OBVIOUS
  <1>3. \A mode : [bw EXCEPT !.mode = mode].mode = mode
    BY <1>2 DEF WrapperType
  <1>4. \A place : LET r == [start EXCEPT !.pc = place]
                   IN /\ r.pc = place /\ r.bw = w /\ r.block = b
                      /\ r.off = <<>> /\ r.on = <<>> /\ r.step = "connectTransactions"
    BY DEF IdleJob
  <1> HIDE DEF bw, start
  <1>5. ASSUME NEW mode, NEW place, Started(mode, place), FreeSlots # {}
        PROVE  \E s \in Slots :
                  /\ ~Busy(s) /\ OnlyJob(s)
                  /\ job'[s].pc = place /\ job'[s].bw = w /\ job'[s].block = b
                  /\ JobBlock(s)' = b
                  /\ job'[s].off = <<>> /\ job'[s].on = <<>>
                  /\ job'[s].step = "connectTransactions"
                  /\ mode = "new" \/ JobMode(s)' = mode
    <2>1. PICK s \in Slots : s = FreeSlot /\ ~Busy(s)
      BY <1>5, FreeSlotFree
    <2>2. /\ OnlyJob(s)
          /\ job'[s] = [start EXCEPT !.pc = place]
      BY <1>5, <2>1 DEF OnlyJob, IInv, TypeOK
    <2>3. mode = "new" \/ wrapper'[w].mode = mode
      BY <1>3, <1>5
    <2>4. /\ job'[s].pc = place /\ job'[s].bw = w /\ job'[s].block = b
          /\ job'[s].off = <<>> /\ job'[s].on = <<>> /\ job'[s].step = "connectTransactions"
      BY <1>4, <2>2
    <2>5. JobBlock(s)' = b /\ JobMode(s)' = wrapper'[w].mode
      BY <2>4 DEF JobBlock, JobMode
    <2> QED BY <2>1, <2>2, <2>3, <2>4, <2>5
  <1> HIDE DEF Started, b
  <1>6. CASE job' = job
    BY <1>6
  <1>7. CASE FreeSlots # {} /\ tick' = NoBw /\ Parent[b] = top /\ Started("main", "verifyChild")
    BY <1>5, <1>7 DEF b
  <1>8. CASE FreeSlots # {} /\ tick' = NoBw /\ Parent[b] # top /\ Parent[b] \in recent.index
               /\ Started("side", "verifyChild")
    BY <1>5, <1>8 DEF b
  <1>9. CASE FreeSlots # {} /\ tick' = NoBw /\ Parent[b] # top /\ Started("new", "getPrev")
    BY <1>5, <1>9 DEF b
  <1> QED BY <1>1, <1>6, <1>7, <1>8, <1>9, SMTT(60)

-----------------------------------------------------------------------------
(* How a pipeline goes from place to place, whatever fails.                  *)

Onward(from, to) ==
  \/ from = "getPrev" /\ to = "getSelf"
  \/ from = "getSelf" /\ to = "verifyChild"
  \/ from = "verifyChild" /\ to = "verifyBlock"
  \/ from = "verifyBlock" /\ to \in {"put", "findFork"}
  \/ from = "findFork" /\ to \in {"findFork", "reorgTxs"}
  \/ from \in ReorgPlaces /\ to \in ReorgPlaces \cup {"put"}
  \/ from = "put" /\ to = "height"
  \/ from \in {"height", "tail"} /\ to = "tail"

Moves(s) ==
  /\ job'[s].bw = job[s].bw /\ job'[s].block = job[s].block
  /\ Onward(job[s].pc, job'[s].pc)

LEMMA FindForkMoves ==
  ASSUME IInv, NEW s \in Slots, FindFork(s)
  PROVE  job'[s] = IdleJob \/ Moves(s)
  <1> DEFINE at == Cursor(s)
             p  == Parent[at]
             moved == IF OldIsHigher(s)
                      THEN [job[s] EXCEPT !.old = p, !.off = Append(@, at)]
                      ELSE [job[s] EXCEPT !.new = p, !.on = Append(@, at)]
  <1>1. job[s] \in JobType /\ job[s].pc = "findFork"
    BY JobBlockType DEF IInv, FindFork, At
  <1>2. CASE at \in Blocks /\ Stored(p)
    <2>1. \/ job' = [job EXCEPT ![s] = moved]
          \/ job' = [job EXCEPT ![s] = [moved EXCEPT !.pc = "reorgTxs"]]
      BY <1>2 DEF FindFork
    <2>2. /\ moved.bw = job[s].bw /\ moved.block = job[s].block /\ moved.pc = "findFork"
          /\ [moved EXCEPT !.pc = "reorgTxs"].bw = job[s].bw
          /\ [moved EXCEPT !.pc = "reorgTxs"].block = job[s].block
          /\ [moved EXCEPT !.pc = "reorgTxs"].pc = "reorgTxs"
      BY <1>1 DEF JobType
    <2> HIDE DEF moved
    <2>3. /\ job'[s].bw = job[s].bw /\ job'[s].block = job[s].block
          /\ job'[s].pc \in {"findFork", "reorgTxs"}
      BY <2>1, <2>2 DEF IInv, TypeOK
    <2> QED BY <1>1, <2>3 DEF Moves, Onward
  <1>3. CASE ~(at \in Blocks /\ Stored(p))
    BY <1>3, EndJobIdle DEF FindFork, AbandonReorganize, IInv
  <1> QED BY <1>2, <1>3

LEMMA ReorgMoves ==
  ASSUME IInv, NEW s \in Slots,
         \/ DisconnectTransactions(s) \/ ReconnectTransactions(s) \/ ReorgPut(s) \/ ReorgHeight(s)
         \/ \E op \in Writes : ReorgSaved(s, op)
         \/ ReorgError(s)
  PROVE  Moves(s)
  <1> USE DEF IInv
  <1>1. job[s] \in JobType /\ job[s].pc \in ReorgPlaces
    BY JobBlockType DEF DisconnectTransactions, ReconnectTransactions, ReorgPut, ReorgHeight,
                        ReorgSaved, ReorgError, At, ReorgPlaces
  <1>2. \/ \E place \in ReorgPlaces : Goto(s, place)
        \/ \E txs, left :
             job' = [job EXCEPT ![s].pc = "reorgAffects", ![s].txs = txs, ![s].left = left]
        \/ \E b, active : SaveRest(s, b, active, "reorgIdx")
        \/ \E io : NextReorgStep(s, io)
    <2>1. CASE DisconnectTransactions(s) \/ ReorgPut(s)
      BY <2>1 DEF DisconnectTransactions, ReorgPut, ReorgPlaces
    <2>2. CASE ReconnectTransactions(s)
      <3>1. PICK txs, left : Announce(s, txs, left)
        BY <2>2 DEF ReconnectTransactions
      <3> QED BY <3>1 DEF Announce, ReorgPlaces
    <2>3. CASE ReorgHeight(s)
      BY <2>3 DEF ReorgHeight
    <2>4. CASE \E op \in Writes : ReorgSaved(s, op)
      BY <2>4 DEF ReorgSaved
    <2>5. CASE ReorgError(s)
      BY <2>5 DEF ReorgError
    <2> QED BY <2>1, <2>2, <2>3, <2>4, <2>5
  <1>3. /\ job'[s].bw = job[s].bw /\ job'[s].block = job[s].block
        /\ job'[s].pc \in ReorgPlaces \cup {"put"}
    <2>1. ASSUME NEW txs, NEW left,
                 job' = [job EXCEPT ![s].pc = "reorgAffects", ![s].txs = txs, ![s].left = left]
          PROVE  /\ job'[s].bw = job[s].bw /\ job'[s].block = job[s].block
                 /\ job'[s].pc = "reorgAffects"
      BY <1>1, <2>1 DEF TypeOK, JobType
    <2>2. ASSUME NEW io, NextReorgStep(s, io)
          PROVE  /\ job'[s].bw = job[s].bw /\ job'[s].block = job[s].block
                 /\ job'[s].pc \in {"reorgTxs", "put"}
      BY <1>1, <2>2, NextReorgStepJob
    <2>3. ASSUME NEW place \in ReorgPlaces, Goto(s, place)
          PROVE  /\ job'[s].bw = job[s].bw /\ job'[s].block = job[s].block
                 /\ job'[s].pc = place
      BY <2>3, GotoJob
    <2>4. ASSUME NEW b, NEW active, SaveRest(s, b, active, "reorgIdx")
          PROVE  /\ job'[s].bw = job[s].bw /\ job'[s].block = job[s].block
                 /\ job'[s].pc = "reorgIdx"
      BY <2>4, SaveRestJob
    <2>5. {"reorgAffects", "reorgTxs", "reorgIdx"} \subseteq ReorgPlaces
      BY DEF ReorgPlaces
    <2> QED BY <1>2, <2>1, <2>2, <2>3, <2>4, <2>5
  <1> QED BY <1>1, <1>3 DEF Moves, Onward

LEMMA TailMoves ==
  ASSUME IInv, NEW s \in Slots, NEW op, TailConnect(s, op) \/ TailEnd(s, op)
  PROVE  Moves(s)
  <1>1. job[s] \in JobType /\ job[s].pc = "tail"
    BY JobBlockType DEF TailConnect, TailEnd, Completes, At, IInv
  <1>2. \/ EndTransaction(s, job[s].io \ {op}, currentBatch)
        \/ job' = [job EXCEPT ![s].io = (job[s].io \ {op}) \cup {"affects"},
                              ![s].step = "endTransaction"]
    BY DEF TailConnect, TailEnd
  <1>3. /\ job'[s].pc = "tail" /\ job'[s].bw = job[s].bw /\ job'[s].block = job[s].block
    BY <1>1, <1>2 DEF EndTransaction, IInv, TypeOK, JobType
  <1> QED BY <1>1, <1>3 DEF Moves, Onward

LEMMA JobMoves ==
  ASSUME IInv, NEW s \in Slots, Advance(s) \/ Faulty(s)
  PROVE  job'[s] = IdleJob \/ Moves(s)
  <1> USE DEF IInv
  <1>1. job[s] \in JobType
    BY JobBlockType
  <1>2. CASE GetPrev(s)
    <2>1. /\ job[s].pc = "getPrev" /\ job'[s].pc = "getSelf"
          /\ job'[s].bw = job[s].bw /\ job'[s].block = job[s].block
      BY <1>1, <1>2 DEF GetPrev, At, TypeOK, JobType
    <2> QED BY <2>1 DEF Moves, Onward
  <1>3. CASE Reorganize(s)
    <2>1. /\ job[s].pc = "verifyBlock" /\ job'[s].pc = "findFork"
          /\ job'[s].bw = job[s].bw /\ job'[s].block = job[s].block
      BY <1>1, <1>3 DEF Reorganize, At, TypeOK, JobType
    <2> QED BY <2>1 DEF Moves, Onward
  <1>4. CASE ConnectToStored(s) \/ VerifyChild(s) \/ VerifyBlock(s) \/ Put(s)
    <2>1. PICK place : Goto(s, place) /\ Onward(job[s].pc, place)
      BY <1>4 DEF ConnectToStored, VerifyChild, VerifyBlock, Put, At, Onward
    <2> QED BY <2>1, GotoJob DEF Moves
  <1>5. CASE PutHeightKey(s)
    <2>1. job[s].pc = "height" /\ \E b, active : SaveRest(s, b, active, "tail")
      BY <1>5 DEF PutHeightKey, At
    <2> QED BY <2>1, SaveRestJob DEF Moves, Onward
  <1>6. CASE \/ Discard(s) \/ BecomeOrphan(s) \/ (\E op \in Writes : TailFinalize(s, op))
             \/ Reject(s) \/ PipelineError(s) \/ FindForkError(s)
    <2>1. EndJob(s)
      BY <1>6 DEF Discard, BecomeOrphan, TailFinalize, Reject, PipelineError, FindForkError,
                  FinalizeError, AbandonReorganize
    <2> QED BY <2>1, EndJobIdle
  <1> QED BY <1>2, <1>3, <1>4, <1>5, <1>6, FindForkMoves, ReorgMoves, TailMoves
          DEF Advance, Faulty

(* The wrappers keep their children, their mode but where a block is found   *)
(* to have a stored parent, and their flag but where a block becomes part of *)
(* the main chain.                                                           *)
LEMMA WrapperMoves ==
  ASSUME IInv, NEW s \in Slots, Advance(s) \/ Faulty(s)
  PROVE  \A w \in Wrappers :
           /\ wrapper'[w].children = wrapper[w].children
           /\ job[s].pc # "getSelf" => wrapper'[w].mode = wrapper[w].mode
           /\ job[s].pc \notin {"verifyChild"} \cup ReorgPlaces =>
                wrapper'[w].active = wrapper[w].active
  <1>1. wrapper \in [Wrappers -> WrapperType]
    BY DEF IInv, TypeOK
  <1>2. \/ wrapper' = wrapper
        \/ job[s].pc = "getSelf" /\ \E mode : wrapper' = [wrapper EXCEPT ![job[s].bw].mode = mode]
        \/ /\ job[s].pc \in {"verifyChild"} \cup ReorgPlaces
           /\ \E active : wrapper' = [wrapper EXCEPT ![job[s].bw].active = active]
    <2>1. CASE ConnectToStored(s) \/ BecomeOrphan(s) \/ VerifyChild(s)
      BY <2>1 DEF ConnectToStored, BecomeOrphan, VerifyChild, At
    <2>2. ASSUME NEW io, NextReorgStep(s, io), job[s].pc \in ReorgPlaces
          PROVE  \/ wrapper' = wrapper
                 \/ /\ job[s].pc \in {"verifyChild"} \cup ReorgPlaces
                    /\ \E active : wrapper' = [wrapper EXCEPT ![job[s].bw].active = active]
      BY <2>2 DEF NextReorgStep
    <2>3. CASE (\E op \in Writes : ReorgSaved(s, op)) \/ ReorgError(s)
      <3>1. job[s].pc \in ReorgPlaces /\ \E io : NextReorgStep(s, io)
        BY <2>3 DEF ReorgSaved, ReorgError, At, ReorgPlaces
      <3> QED BY <2>2, <3>1
    <2>4. CASE \/ GetPrev(s) \/ Discard(s) \/ VerifyBlock(s) \/ Reorganize(s)
               \/ FindFork(s) \/ DisconnectTransactions(s) \/ ReconnectTransactions(s)
               \/ ReorgPut(s) \/ ReorgHeight(s) \/ Put(s) \/ PutHeightKey(s)
      BY <2>4 DEF GetPrev, Discard, VerifyBlock, Reorganize, FindFork, DisconnectTransactions,
                  ReconnectTransactions, ReorgPut, ReorgHeight, Put, PutHeightKey
    <2>5. CASE \E op \in Writes : TailConnect(s, op) \/ TailEnd(s, op) \/ TailFinalize(s, op)
      BY <2>5 DEF TailConnect, TailEnd, TailFinalize
    <2>6. CASE Reject(s) \/ PipelineError(s) \/ FindForkError(s)
      BY <2>6 DEF Reject, PipelineError, FindForkError, FinalizeError
    <2> QED BY <2>1, <2>3, <2>4, <2>5, <2>6 DEF Advance, Faulty
  <1>3. TAKE w \in Wrappers
  <1>4. wrapper[w] \in WrapperType
    BY <1>1
  <1>5. CASE job[s].pc = "getSelf" /\ \E mode : wrapper' = [wrapper EXCEPT ![job[s].bw].mode = mode]
    <2>1. PICK mode : wrapper' = [wrapper EXCEPT ![job[s].bw].mode = mode]
      BY <1>5
    <2>2. wrapper'[w] = wrapper[w] \/ wrapper'[w] = [wrapper[w] EXCEPT !.mode = mode]
      BY <1>1, <2>1
    <2> QED BY <1>4, <1>5, <2>2 DEF WrapperType
  <1>6. CASE /\ job[s].pc \in {"verifyChild"} \cup ReorgPlaces
             /\ \E active : wrapper' = [wrapper EXCEPT ![job[s].bw].active = active]
    <2>1. PICK active : wrapper' = [wrapper EXCEPT ![job[s].bw].active = active]
      BY <1>6
    <2>2. wrapper'[w] = wrapper[w] \/ wrapper'[w] = [wrapper[w] EXCEPT !.active = active]
      BY <1>1, <2>1
    <2> QED BY <1>4, <1>6, <2>2 DEF WrapperType
  <1> QED BY <1>2, <1>5, <1>6
-----------------------------------------------------------------------------
(* The wrappers that anything names are those of calls that were made.       *)

Calls == 1..adds

NamesOnly(calls) ==
  /\ queue \in Seq(calls)
  /\ tick \in calls \cup {NoBw}
  /\ heads \in [AllBlocks -> Seq(calls)]
  /\ \A w \in Wrappers : wrapper[w].children \in Seq(calls)
  /\ \A s \in Slots : job[s].bw \in calls \cup {NoBw}

CallsInv == NamesOnly(Calls)

LEMMA NamesMore ==
  ASSUME NEW few, NEW more, few \subseteq more, NamesOnly(few)
  PROVE  NamesOnly(more)
  <1>1. Seq(few) \subseteq Seq(more)
    OBVIOUS
  <1> QED BY <1>1 DEF NamesOnly

LEMMA DequeueNames ==
  ASSUME NEW calls, NEW q \in Seq(calls), NEW p, Dequeue(q, p)
  PROVE  queue' \in Seq(calls) /\ tick' \in calls \cup {NoBw}
  BY HeadTailProperties DEF Dequeue

LEMMA AddHeadNames ==
  ASSUME NEW calls, NEW hd \in [AllBlocks -> Seq(calls)], NEW p, NEW w \in calls
  PROVE  AddHead(hd, p, w) \in [AllBlocks -> Seq(calls)]
  <1>1. CASE p \in AllBlocks
    <2>1. Append(hd[p], w) \in Seq(calls)
      BY <1>1, AppendProperties
    <2> QED BY <2>1 DEF AddHead
  <1>2. CASE p \notin AllBlocks
    BY <1>2 DEF AddHead
  <1> QED BY <1>1, <1>2

LEMMA ProcessBlockNames ==
  ASSUME TypeOK, NEW calls \in SUBSET Wrappers, NamesOnly(calls),
         NEW w \in calls, NEW wr \in [Wrappers -> WrapperType], NEW q \in Seq(calls),
         \A x \in Wrappers : wr[x].children \in Seq(calls),
         ProcessBlock(w, wr, q)
  PROVE  NamesOnly(calls)'
  <1> DEFINE b     == wr[w].block
             p     == Parent[b]
             conn  == [connecting EXCEPT ![b] = w]
             kids  == heads[b]
             hd    == IF kids = <<>> THEN heads ELSE AddHead(RemoveHeads(heads, b), p, w)
             bw    == IF kids = <<>> THEN wr[w] ELSE [wr[w] EXCEPT !.children = kids]
             joins == p # top /\ conn[p] # NoBw
  <1>1. b \in AllBlocks /\ kids \in Seq(calls) /\ w \in Wrappers
    BY TreeFacts DEF WrapperType, NamesOnly
  <1>2. hd \in [AllBlocks -> Seq(calls)]
    <2>1. RemoveHeads(heads, b) \in [AllBlocks -> Seq(calls)]
      BY <1>1, EmptySeq DEF RemoveHeads, NamesOnly
    <2> QED BY <2>1, AddHeadNames DEF NamesOnly
  <1>3. heads' = hd
    BY ZenonT(60) DEF ProcessBlock
  <1>4. bw \in WrapperType /\ bw.children \in Seq(calls)
    <2>1. kids \in Seq(Wrappers)
      BY <1>1 DEF TypeOK
    <2> QED BY <1>1, <2>1 DEF WrapperType
  <1>5. ASSUME NEW v \in WrapperType, v.children \in Seq(calls)
        PROVE  \A x \in Wrappers : [wr EXCEPT ![w] = v][x].children \in Seq(calls)
    BY <1>1, <1>5
  <1>6. ASSUME NEW mode \in Modes
        PROVE  /\ [bw EXCEPT !.mode = mode] \in WrapperType
               /\ [bw EXCEPT !.mode = mode].children \in Seq(calls)
    BY <1>4 DEF WrapperType
  <1>7. {"main", "side", "orphan"} \subseteq Modes
    BY DEF Modes
  <1>8. CASE joins
    <2> DEFINE joined == [wr EXCEPT ![w] = [bw EXCEPT !.mode = "orphan"]]
    <2>1. /\ joined \in [Wrappers -> WrapperType]
          /\ \A x \in Wrappers : joined[x].children \in Seq(calls)
      BY <1>5, <1>6, <1>7
    <2>2. /\ wrapper' = [joined EXCEPT ![conn[p]].children = Append(@, w)]
          /\ Dequeue(q, TRUE)
          /\ UNCHANGED job
      BY <1>8, ZenonT(30) DEF ProcessBlock
    <2> HIDE DEF joined, conn, bw, hd
    <2>3. \A x \in Wrappers : wrapper'[x].children \in Seq(calls)
      <3>1. TAKE x \in Wrappers
      <3>2. CASE x = conn[p]
        <4>1. wrapper'[x] = [joined[x] EXCEPT !.children = Append(joined[x].children, w)]
          BY <2>1, <2>2, <3>2
        <4>2. wrapper'[x].children = Append(joined[x].children, w)
          BY <2>1, <4>1 DEF WrapperType
        <4> QED BY <2>1, <4>2, AppendProperties
      <3>3. CASE x # conn[p]
        BY <2>1, <2>2, <3>3
      <3> QED BY <3>2, <3>3
    <2>4. queue' \in Seq(calls) /\ tick' \in calls \cup {NoBw}
      BY <2>2, DequeueNames
    <2> QED BY <1>2, <1>3, <2>2, <2>3, <2>4 DEF NamesOnly
  <1>9. CASE ~joins
    <2> DEFINE start == [IdleJob EXCEPT !.bw = w, !.block = b]
    <2>1. queue' = q /\ tick' = NoBw
      BY <1>9, ZenonT(30) DEF ProcessBlock
    <2>2. /\ \/ wrapper' = [wr EXCEPT ![w] = [bw EXCEPT !.mode = "main"]]
             \/ wrapper' = [wr EXCEPT ![w] = [bw EXCEPT !.mode = "side"]]
             \/ wrapper' = [wr EXCEPT ![w] = bw]
          /\ \/ job' = [job EXCEPT ![FreeSlot] = [start EXCEPT !.pc = "verifyChild"]]
             \/ job' = [job EXCEPT ![FreeSlot] = [start EXCEPT !.pc = "getPrev"]]
      BY <1>9, ZenonT(30) DEF ProcessBlock
    <2>3. \A x \in Wrappers : wrapper'[x].children \in Seq(calls)
      BY <1>4, <1>5, <1>6, <1>7, <2>2
    <2>4. /\ [start EXCEPT !.pc = "verifyChild"].bw = w
          /\ [start EXCEPT !.pc = "getPrev"].bw = w
      BY DEF IdleJob
    <2> HIDE DEF start
    <2>5. \A s \in Slots : job'[s].bw \in calls \cup {NoBw}
      BY <2>2, <2>4 DEF NamesOnly, TypeOK
    <2> QED BY <1>2, <1>3, <2>1, <2>3, <2>5 DEF NamesOnly
  <1> QED BY <1>8, <1>9

LEMMA StepNames ==
  ASSUME IInv, NEW calls \in SUBSET Wrappers, NamesOnly(calls),
         NEW s \in Slots, Advance(s) \/ Faulty(s)
  PROVE  NamesOnly(calls)'
  <1>1. \A w \in Wrappers : wrapper'[w].children \in Seq(calls)
    BY WrapperMoves DEF NamesOnly
  <1>2. \A r \in Slots : job'[r].bw \in calls \cup {NoBw}
    <2>1. OnlyJob(s)
      BY AdvanceSlot, FaultySlot
    <2>2. job'[s].bw = job[s].bw \/ job'[s].bw = NoBw
      BY JobMoves DEF Moves, IdleJob
    <2> QED BY <2>1, <2>2 DEF OnlyJob, NamesOnly
  <1>3. Busy(s) /\ job[s].bw \in Wrappers /\ job[s].bw \in calls
    <2>1. Busy(s) /\ job[s].bw \in Wrappers /\ job[s].bw \in calls \cup {NoBw}
      BY SlotTick DEF IInv, SlotOK, NamesOnly
    <2> QED BY <2>1 DEF NoBw, Wrappers
  <1>4. queue \in Seq(calls) /\ wrapper[job[s].bw].children \in Seq(calls)
    BY <1>3 DEF NamesOnly
  <1>5. heads' \in [AllBlocks -> Seq(calls)]
    <2>1. heads' = heads \/ \E p : heads' = AddHead(heads, p, job[s].bw)
      <3>1. CASE BecomeOrphan(s)
        BY <3>1 DEF BecomeOrphan
      <3>2. CASE Advance(s) /\ ~BecomeOrphan(s)
        BY <3>2, ZenonT(60)
           DEF Advance, GetPrev, Discard, ConnectToStored, VerifyChild, VerifyBlock,
               Reorganize, FindFork, DisconnectTransactions, ReconnectTransactions, ReorgPut,
               ReorgHeight, Put, PutHeightKey, ReorgSaved, TailConnect, TailEnd, TailFinalize
      <3>3. CASE Faulty(s)
        BY <3>3 DEF Faulty, Reject, PipelineError, FindForkError, ReorgError, FinalizeError
      <3> QED BY <3>1, <3>2, <3>3
    <2> QED BY <1>3, <2>1, AddHeadNames DEF NamesOnly
  <1>6. queue' \in Seq(calls) /\ tick' \in calls \cup {NoBw}
    <2>1. \/ UNCHANGED <<queue, tick>>
          \/ \E p : Dequeue(queue, p)
          \/ \E p : Dequeue(wrapper[job[s].bw].children \o queue, p)
          \/ \E p : Dequeue(queue \o wrapper[job[s].bw].children, p)
      <3>1. CASE Discard(s) \/ BecomeOrphan(s)
        BY <3>1 DEF Discard, BecomeOrphan
      <3>2. CASE \E op \in Writes : TailFinalize(s, op)
        BY <3>2 DEF TailFinalize
      <3>3. CASE \/ GetPrev(s) \/ ConnectToStored(s) \/ VerifyChild(s) \/ VerifyBlock(s)
                 \/ Reorganize(s) \/ FindFork(s)
                 \/ DisconnectTransactions(s) \/ ReconnectTransactions(s) \/ ReorgPut(s)
                 \/ ReorgHeight(s) \/ Put(s) \/ PutHeightKey(s)
                 \/ \E op \in Writes : ReorgSaved(s, op) \/ TailConnect(s, op) \/ TailEnd(s, op)
        BY <3>3 DEF GetPrev, ConnectToStored, VerifyChild, VerifyBlock,
             Reorganize, FindFork, DisconnectTransactions, ReconnectTransactions, ReorgPut,
             ReorgHeight, Put, PutHeightKey, ReorgSaved, TailConnect, TailEnd
      <3>4. CASE Faulty(s)
        BY <3>4 DEF Faulty, Reject, PipelineError, FindForkError, ReorgError, FinalizeError
      <3> QED BY <3>1, <3>2, <3>3, <3>4 DEF Advance
    <2>2. /\ wrapper[job[s].bw].children \o queue \in Seq(calls)
          /\ queue \o wrapper[job[s].bw].children \in Seq(calls)
      BY <1>4, ConcatProperties
    <2>3. tick \in calls \cup {NoBw}
      BY DEF NamesOnly
    <2> QED BY <1>4, <2>1, <2>2, <2>3, DequeueNames
  <1> QED BY <1>1, <1>2, <1>5, <1>6 DEF NamesOnly

LEMMA AddNames ==
  ASSUME IInv, CallsInv, NEW b \in Blocks, Add(b)
  PROVE  CallsInv'
  <1>1. PICK w \in Wrappers : w = adds + 1
    BY NextWrapper DEF IInv
  <1>2. PICK calls \in SUBSET Wrappers : calls = 1..w
    BY <1>1, BoundAssumption DEF Wrappers
  <1>3. Calls \subseteq calls /\ Calls' = calls /\ w \in calls
    <2>1. adds \in Nat /\ adds' = adds + 1
      BY BoundAssumption DEF Add, IInv, TypeOK
    <2> QED BY <1>1, <1>2, <2>1 DEF Calls
  <1>4. NamesOnly(calls)
    BY <1>3, NamesMore DEF CallsInv
  <1>5. PICK wr \in [Wrappers -> WrapperType] :
          wr = [wrapper EXCEPT ![w] = [NoWrapper EXCEPT !.block = b]]
    <2>1. [NoWrapper EXCEPT !.block = b] \in WrapperType
      BY NoWrapperType DEF WrapperType
    <2> QED BY <2>1 DEF IInv, TypeOK
  <1>6. \A x \in Wrappers : wr[x].children \in Seq(calls)
    <2>1. [NoWrapper EXCEPT !.block = b].children = <<>>
      BY DEF NoWrapper
    <2>2. <<>> \in Seq(calls)
      BY EmptySeq
    <2> QED BY <1>4, <1>5, <2>1, <2>2 DEF IInv, TypeOK, NamesOnly
  <1>7. \/ wrapper' = wr /\ UNCHANGED <<queue, tick, heads, job>>
        \/ wrapper' = wr /\ queue' = Append(queue, w) /\ UNCHANGED <<tick, heads, job>>
        \/ ProcessBlock(w, wr, queue)
    BY <1>1, <1>5 DEF Add
  <1>8. NamesOnly(calls)'
    <2>1. queue \in Seq(calls) /\ Append(queue, w) \in Seq(calls)
      BY <1>3, <1>4, AppendProperties DEF NamesOnly
    <2>2. CASE ProcessBlock(w, wr, queue)
      BY <1>3, <1>4, <1>6, <2>1, <2>2, ProcessBlockNames DEF IInv
    <2> QED BY <1>4, <1>6, <1>7, <2>1, <2>2 DEF NamesOnly
  <1> QED BY <1>3, <1>8 DEF CallsInv

LEMMA CallsStep == IInv /\ CallsInv /\ [Next]_vars => CallsInv'
  <1> SUFFICES ASSUME IInv, CallsInv, [Next]_vars PROVE CallsInv'
    OBVIOUS
  <1>1. PICK calls \in SUBSET Wrappers : calls = Calls
    BY BoundAssumption DEF Calls, Wrappers, IInv, TypeOK
  <1>2. NamesOnly(calls)
    BY <1>1 DEF CallsInv
  <1>3. CASE \E b \in Blocks : Add(b)
    BY <1>3, AddNames
  <1>4. CASE NextTick
    <2>1. /\ tick \in calls /\ queue \in Seq(calls) /\ wrapper \in [Wrappers -> WrapperType]
          /\ \A x \in Wrappers : wrapper[x].children \in Seq(calls)
      BY <1>2, <1>4 DEF NextTick, NamesOnly, IInv, TypeOK
    <2>2. ProcessBlock(tick, wrapper, queue) /\ adds' = adds
      BY <1>4 DEF NextTick
    <2>3. NamesOnly(calls)'
      BY <1>2, <2>1, <2>2, ProcessBlockNames DEF IInv
    <2> QED BY <1>1, <2>2, <2>3 DEF CallsInv, Calls
  <1>5. CASE \E s \in Slots : Advance(s) \/ Faulty(s)
    <2>1. adds' = adds
      <3>1. CASE \E s \in Slots : Advance(s)
        BY <3>1, ZenonT(60)
           DEF Advance, GetPrev, Discard, ConnectToStored, BecomeOrphan, VerifyChild,
               VerifyBlock, Reorganize, FindFork, DisconnectTransactions,
               ReconnectTransactions, ReorgPut, ReorgHeight, Put, PutHeightKey, ReorgSaved,
               TailConnect, TailEnd, TailFinalize
      <3>2. CASE \E s \in Slots : Faulty(s)
        BY <3>2 DEF Faulty, Reject, PipelineError, FindForkError, ReorgError
      <3> QED BY <1>5, <3>1, <3>2
    <2>2. NamesOnly(calls)'
      BY <1>2, <1>5, StepNames
    <2> QED BY <1>1, <2>1, <2>2 DEF CallsInv, Calls
  <1>6. CASE LateWrite \/ UNCHANGED vars
    <2>1. UNCHANGED <<queue, tick, heads, wrapper, job, adds>>
      BY <1>6 DEF LateWrite, LateMeta, LateBatch, vars, chainVars
    <2> QED BY <2>1 DEF CallsInv, Calls, NamesOnly
  <1>7. CASE Crash
    <2>1. <<>> \in Seq(Calls)
      BY EmptySeq
    <2>2. \A w \in Wrappers : wrapper'[w].children = <<>>
      BY <1>7 DEF Crash, NoWrapper
    <2> QED BY <1>7, <2>1, <2>2 DEF Crash, CallsInv, Calls, NamesOnly, IdleJob
  <1> QED BY <1>3, <1>4, <1>5, <1>6, <1>7 DEF Next

LEMMA InitCalls == Init => CallsInv
  <1> SUFFICES ASSUME Init PROVE CallsInv
    OBVIOUS
  <1>1. <<>> \in Seq(Calls)
    BY EmptySeq
  <1>2. NoWrapper.children = <<>> /\ IdleJob.bw = NoBw
    BY DEF NoWrapper, IdleJob
  <1> QED BY <1>1, <1>2 DEF Init, CallsInv, NamesOnly

-----------------------------------------------------------------------------
(* A block that arrives leaves the pipeline at work alone, or starts the     *)
(* only one.                                                                 *)

(* The jobs, and what the wrapper of a busy one says of its block.           *)
SameJobs ==
  /\ job' = job
  /\ \A s \in Slots : Busy(s) =>
       /\ wrapper'[job[s].bw].mode = wrapper[job[s].bw].mode
       /\ wrapper'[job[s].bw].active = wrapper[job[s].bw].active

LEMMA JoinKeeps ==
  ASSUME NEW w \in Wrappers, NEW wr \in [Wrappers -> WrapperType], NEW q,
         ProcessBlock(w, wr, q), job' = job, TypeOK
  PROVE  \A x \in Wrappers \ {w} : wrapper'[x].mode = wr[x].mode /\ wrapper'[x].active = wr[x].active
  <1> DEFINE b     == wr[w].block
             p     == Parent[b]
             conn  == [connecting EXCEPT ![b] = w]
             kids  == heads[b]
             bw    == IF kids = <<>> THEN wr[w] ELSE [wr[w] EXCEPT !.children = kids]
             joins == p # top /\ conn[p] # NoBw
             joined == [wr EXCEPT ![w] = [bw EXCEPT !.mode = "orphan"]]
  <1>1. \/ wrapper' = [joined EXCEPT ![conn[p]].children = Append(@, w)]
        \/ wrapper' = [wr EXCEPT ![w] = [bw EXCEPT !.mode = "main"]]
        \/ wrapper' = [wr EXCEPT ![w] = [bw EXCEPT !.mode = "side"]]
        \/ wrapper' = [wr EXCEPT ![w] = bw]
    BY ZenonT(60) DEF ProcessBlock
  <1>2. TAKE x \in Wrappers \ {w}
  <1>3. joined[x] = wr[x] /\ wr[x] \in WrapperType
    OBVIOUS
  <1> HIDE DEF joined, bw, conn
  <1>4. CASE wrapper' = [joined EXCEPT ![conn[p]].children = Append(@, w)]
    <2>1. DOMAIN joined = Wrappers
      BY DEF joined
    <2>2. CASE x = conn[p]
      <3>1. wrapper'[x] = [joined[x] EXCEPT !.children = Append(joined[x].children, w)]
        BY <1>4, <2>1, <2>2
      <3> QED BY <1>3, <3>1 DEF WrapperType
    <2>3. CASE x # conn[p]
      <3>1. wrapper'[x] = joined[x]
        BY <1>4, <2>1, <2>3
      <3> QED BY <1>3, <3>1
    <2> QED BY <2>2, <2>3
  <1>5. CASE ~(wrapper' = [joined EXCEPT ![conn[p]].children = Append(@, w)])
    <2>1. wrapper'[x] = wr[x]
      BY <1>1, <1>5
    <2> QED BY <2>1
  <1> QED BY <1>4, <1>5

LEMMA AddCases ==
  ASSUME IInv, CallsInv, OneAtATime', NEW b \in Blocks, Add(b)
  PROVE  \/ SameJobs
         \/ /\ \A s \in Slots : ~Busy(s)
            /\ \E w \in Wrappers, wr \in [Wrappers -> WrapperType] : \E q : ProcessBlock(w, wr, q)
  <1> DEFINE w  == adds + 1
             wr == [wrapper EXCEPT ![w] = [NoWrapper EXCEPT !.block = b]]
  <1>1. w \in Wrappers
    BY NextWrapper DEF IInv
  <1>2. wr \in [Wrappers -> WrapperType]
    <2>1. [NoWrapper EXCEPT !.block = b] \in WrapperType
      BY NoWrapperType DEF WrapperType
    <2> QED BY <2>1 DEF IInv, TypeOK
  <1>3. \A x \in Wrappers \ {w} : wr[x] = wrapper[x]
    BY DEF IInv, TypeOK
  <1>4. \A s \in Slots : Busy(s) => job[s].bw \in Wrappers \ {w}
    <2>1. \A s \in Slots : Busy(s) => job[s].bw \in Wrappers /\ job[s].bw \in 1..adds \cup {NoBw}
      BY DEF IInv, SlotOK, CallsInv, NamesOnly, Calls
    <2>2. adds \in Nat /\ 0 \notin Wrappers
      BY BoundAssumption DEF IInv, TypeOK, Wrappers
    <2> QED BY <2>1, <2>2 DEF NoBw
  <1>5. (wrapper' = wr /\ job' = job) \/ ProcessBlock(w, wr, queue)
    BY DEF Add
  <1> HIDE DEF w, wr
  <1>6. CASE wrapper' = wr /\ job' = job
    BY <1>3, <1>4, <1>6 DEF SameJobs
  <1>7. CASE ProcessBlock(w, wr, queue)
    <2>1. CASE job' = job
      <3>1. \A x \in Wrappers \ {w} : wrapper'[x].mode = wr[x].mode /\ wrapper'[x].active = wr[x].active
        BY <1>1, <1>2, <1>7, <2>1, JoinKeeps DEF IInv
      <3> QED BY <1>3, <1>4, <2>1, <3>1 DEF SameJobs
    <2>2. ASSUME NEW s \in Slots, ~Busy(s), OnlyJob(s), job'[s].pc \in {"verifyChild", "getPrev"}
          PROVE  \A r \in Slots : ~Busy(r)
      BY <2>2 DEF OneAtATime, OnlyJob, Busy
    <2>3. job' = job \/ \A r \in Slots : ~Busy(r)
      BY <1>1, <1>2, <1>7, <2>2, ProcessBlockJob
    <2> QED BY <1>1, <1>2, <1>7, <2>1, <2>3
  <1> QED BY <1>5, <1>6, <1>7

LEMMA NextTickCases ==
  ASSUME IInv, OneAtATime, NextTick
  PROVE  /\ \A s \in Slots : ~Busy(s)
         /\ \E w \in Wrappers, wr \in [Wrappers -> WrapperType] : \E q : ProcessBlock(w, wr, q)
  <1>1. tick \in Wrappers /\ wrapper \in [Wrappers -> WrapperType] /\ ProcessBlock(tick, wrapper, queue)
    BY DEF NextTick, IInv, TypeOK
  <1> QED BY <1>1 DEF NextTick, OneAtATime

LEMMA ProcessAlone ==
  ASSUME IInv, OneAtATime, NEW w \in Wrappers, NEW wr \in [Wrappers -> WrapperType], NEW q,
         ProcessBlock(w, wr, q), \A s \in Slots : ~Busy(s)
  PROVE  OneAtATime'
  <1>1. CASE job' = job
    BY <1>1 DEF OneAtATime, Busy
  <1>2. CASE tick' = NoBw /\ \A s \in Slots \ {FreeSlot} : job'[s] = job[s]
    BY <1>2 DEF OneAtATime, Busy
  <1> QED BY <1>1, <1>2, ProcessBlockTick DEF IInv

(* Whatever a pipeline does, and the one on the next tick, starts no second. *)
LEMMA OthersAlone ==
  ASSUME IInv, OneAtATime,
         \/ NextTick \/ LateWrite \/ Crash \/ UNCHANGED vars
         \/ \E s \in Slots : Advance(s) \/ Faulty(s)
  PROVE  OneAtATime'
  <1>1. CASE UNCHANGED <<job, tick>>
    BY <1>1 DEF OneAtATime, Busy
  <1>2. CASE NextTick
    <2>1. PICK w, wr, q : w \in Wrappers /\ wr \in [Wrappers -> WrapperType] /\ ProcessBlock(w, wr, q)
      BY <1>2, NextTickCases
    <2>2. \A s \in Slots : ~Busy(s)
      BY <1>2, NextTickCases
    <2> QED BY <2>1, <2>2, ProcessAlone
  <1>3. ASSUME NEW s \in Slots, Advance(s) \/ Faulty(s)
        PROVE  OneAtATime'
    <2>1. OnlyJob(s) /\ \A r \in Slots : r # s => ~Busy(r)
      BY <1>3, SlotTick, AdvanceSlot, FaultySlot DEF OneAtATime
    <2>2. \A r \in Slots : r # s => ~Busy(r)'
      BY <2>1 DEF OnlyJob, Busy
    <2>3. tick' = NoBw \/ ~Busy(s)'
      BY <1>3, SlotTick
    <2> QED BY <2>2, <2>3 DEF OneAtATime
  <1>4. CASE LateWrite
    BY <1>1, <1>4 DEF LateWrite, LateMeta, LateBatch
  <1>5. CASE Crash
    BY <1>5 DEF Crash, OneAtATime, Busy, IdleJob
  <1>6. CASE UNCHANGED vars
    BY <1>1, <1>6 DEF vars, chainVars
  <1> QED BY <1>2, <1>3, <1>4, <1>5, <1>6

(* What the behaviours without overlap start from.                           *)
LEMMA AloneStep ==
  ASSUME IInv, OneAtATime, [AloneNext]_vars
  PROVE  [Next]_vars /\ OneAtATime'
  <1>1. CASE \E b \in Blocks : AddAlone(b)
    BY <1>1 DEF AddAlone, Next
  <1>2. CASE ~(\E b \in Blocks : AddAlone(b))
    BY <1>2, OthersAlone DEF AloneNext, Next
  <1> QED BY <1>1, <1>2

AloneInv == IInv /\ CallsInv /\ OneAtATime

LEMMA AloneInvariance == AloneSpec => []AloneInv
  <1>1. Init => AloneInv
    BY InitIInv, InitCalls DEF AloneInv, Init, OneAtATime, Busy, IdleJob
  <1>2. AloneInv /\ [AloneNext]_vars => AloneInv'
    BY AloneStep, StepIInv, CallsStep DEF AloneInv
  <1> QED BY <1>1, <1>2, PTL DEF AloneSpec

-----------------------------------------------------------------------------
(* isProcessing                                                              *)

(* A reorganisation is of a side chain block, so that the place where it     *)
(* clears the flag is AfterReorganize.                                       *)
FlagInv ==
  /\ FlagTells
  /\ \A s \in Slots :
       job[s].pc \in {"findFork"} \cup ReorgPlaces => JobMode(s) = "side"

LEMMA FlagAdd ==
  ASSUME IInv, CallsInv, OneAtATime', FlagInv, NEW b \in Blocks, Add(b)
  PROVE  FlagInv'
  <1>1. CASE SameJobs
    <2>1. \A s \in Slots : /\ job'[s] = job[s] /\ Busy(s)' = Busy(s)
                           /\ Busy(s) => /\ JobMode(s)' = JobMode(s)
                                         /\ AfterReorganize(s)' = AfterReorganize(s)
      BY <1>1 DEF SameJobs, Busy, JobMode, AfterReorganize
    <2>2. isProcessing => isProcessing'
      BY DEF Add
    <2>3. FlagTells'
      BY <2>1, <2>2 DEF FlagInv, FlagTells
    <2> QED BY <2>1, <2>3 DEF FlagInv, Busy, ReorgPlaces
  <1>2. ASSUME \A s \in Slots : ~Busy(s),
               NEW w \in Wrappers, NEW wr \in [Wrappers -> WrapperType], NEW q,
               ProcessBlock(w, wr, q)
        PROVE  FlagInv'
    <2>1. job' = job \/ isProcessing' = TRUE
      BY <1>2, ZenonT(30) DEF ProcessBlock
    <2>2. \A s \in Slots : Busy(s)' => job'[s].pc \in {"verifyChild", "getPrev"}
      <3>1. job' = job => \A s \in Slots : ~Busy(s)'
        BY <1>2 DEF Busy
      <3>2. ASSUME NEW s \in Slots, OnlyJob(s), job'[s].pc \in {"verifyChild", "getPrev"}
            PROVE  \A r \in Slots : Busy(r)' => job'[r].pc \in {"verifyChild", "getPrev"}
        BY <1>2, <3>2 DEF OnlyJob, Busy
      <3> QED BY <1>2, <3>1, <3>2, ProcessBlockJob
    <2>3. FlagTells'
      BY <1>2, <2>1 DEF FlagTells, Busy
    <2> QED BY <2>2, <2>3 DEF FlagInv, Busy, ReorgPlaces
  <1> QED BY <1>1, <1>2, AddCases

LEMMA FlagTick ==
  ASSUME IInv, OneAtATime, NextTick
  PROVE  FlagInv'
  <1>1. PICK w, wr, q : w \in Wrappers /\ wr \in [Wrappers -> WrapperType] /\ ProcessBlock(w, wr, q)
    BY NextTickCases
  <1>2. \A s \in Slots : ~Busy(s)
    BY NextTickCases
  <1>3. job' = job \/ isProcessing' = TRUE
    BY <1>1, ZenonT(30) DEF ProcessBlock
  <1>4. \A s \in Slots : Busy(s)' => job'[s].pc \in {"verifyChild", "getPrev"}
    <2>1. job' = job => \A s \in Slots : ~Busy(s)'
      BY <1>2 DEF Busy
    <2>2. ASSUME NEW s \in Slots, OnlyJob(s), job'[s].pc \in {"verifyChild", "getPrev"}
          PROVE  \A r \in Slots : Busy(r)' => job'[r].pc \in {"verifyChild", "getPrev"}
      BY <1>2, <2>2 DEF OnlyJob, Busy
    <2> QED BY <1>1, <2>1, <2>2, ProcessBlockJob
  <1>5. FlagTells'
    BY <1>2, <1>3 DEF FlagTells, Busy
  <1> QED BY <1>4, <1>5 DEF FlagInv, Busy, ReorgPlaces

(* The flag moves only with a reorganisation, while the pipeline stays.      *)
LEMMA FlagMoves ==
  ASSUME IInv, NEW s \in Slots, Advance(s) \/ Faulty(s), Moves(s)
  PROVE  \/ isProcessing' = isProcessing
         \/ isProcessing'
         \/ /\ job[s].pc \in ReorgPlaces /\ job'[s].pc = "put"
            /\ wrapper'[job[s].bw].active = TRUE
  <1> USE DEF IInv
  <1>1. job'[s] # IdleJob
    <2>1. IdleJob.pc = "idle" /\ job'[s].pc # "idle"
      BY DEF IdleJob, Moves, Onward, ReorgPlaces
    <2> QED BY <2>1
  <1>2. ~EndJob(s)
    BY <1>1, EndJobIdle
  <1>3. ASSUME NEW io, NextReorgStep(s, io), job[s].pc \in ReorgPlaces
        PROVE  \/ isProcessing' = isProcessing
               \/ /\ job[s].pc \in ReorgPlaces /\ job'[s].pc = "put"
                  /\ wrapper'[job[s].bw].active = TRUE
    <2> DEFINE off  == IF Disconnecting(s) THEN Tail(job[s].off) ELSE job[s].off
               on   == IF Disconnecting(s) THEN job[s].on ELSE Tail(job[s].on)
               last == off = <<>> /\ on = <<>>
    <2>1. /\ job' = [job EXCEPT ![s].off = off, ![s].on = on, ![s].io = {},
                                ![s].txs = {}, ![s].left = {},
                                ![s].pc = IF last THEN "put" ELSE "reorgTxs"]
          /\ wrapper' = IF last THEN [wrapper EXCEPT ![job[s].bw].active = TRUE] ELSE wrapper
          /\ isProcessing' = (isProcessing /\ ~last)
      BY <1>3 DEF NextReorgStep, ReorgRelease
    <2> HIDE DEF off, on, last
    <2>2. CASE last
      <3>1. job[s] \in JobType /\ job[s].bw \in Wrappers /\ wrapper[job[s].bw] \in WrapperType
        BY <1>3, JobBlockType DEF SlotOK, Busy, ReorgPlaces, TypeOK
      <3>2. job'[s].pc = "put"
        BY <2>1, <2>2, <3>1 DEF JobType, TypeOK
      <3>3. wrapper'[job[s].bw] = [wrapper[job[s].bw] EXCEPT !.active = TRUE]
        BY <2>1, <2>2, <3>1 DEF TypeOK
      <3>4. wrapper'[job[s].bw].active = TRUE
        BY <3>1, <3>3 DEF WrapperType
      <3> QED BY <1>3, <3>2, <3>4
    <2>3. CASE ~last
      BY <2>1, <2>3 DEF TypeOK
    <2> QED BY <2>2, <2>3
  <1>4. CASE (\E op \in Writes : ReorgSaved(s, op)) \/ ReorgError(s)
    <2>1. job[s].pc \in ReorgPlaces /\ \E io : NextReorgStep(s, io)
      BY <1>4 DEF ReorgSaved, ReorgError, At, ReorgPlaces
    <2> QED BY <1>3, <2>1
  <1>5. CASE Reorganize(s)
    BY <1>5 DEF Reorganize
  <1>6. CASE FindFork(s)
    BY <1>2, <1>6 DEF FindFork, AbandonReorganize
  <1>7. CASE \/ Discard(s) \/ BecomeOrphan(s) \/ (\E op \in Writes : TailFinalize(s, op))
             \/ Reject(s) \/ PipelineError(s) \/ FindForkError(s)
    BY <1>2, <1>7
       DEF Discard, BecomeOrphan, TailFinalize, Reject, PipelineError, FindForkError,
           FinalizeError, AbandonReorganize
  <1>8. CASE \/ GetPrev(s) \/ ConnectToStored(s) \/ VerifyChild(s) \/ VerifyBlock(s)
             \/ DisconnectTransactions(s) \/ ReconnectTransactions(s) \/ ReorgPut(s)
             \/ ReorgHeight(s) \/ Put(s) \/ PutHeightKey(s)
             \/ \E op \in Writes : TailConnect(s, op) \/ TailEnd(s, op)
    BY <1>8
       DEF GetPrev, ConnectToStored, VerifyChild, VerifyBlock, DisconnectTransactions,
           ReconnectTransactions, ReorgPut, ReorgHeight, Put, PutHeightKey, TailConnect, TailEnd
  <1> QED BY <1>4, <1>5, <1>6, <1>7, <1>8 DEF Advance, Faulty

LEMMA FlagSlot ==
  ASSUME IInv, OneAtATime, FlagInv, NEW s \in Slots, Advance(s) \/ Faulty(s)
  PROVE  FlagInv'
  <1>1. OnlyJob(s) /\ Busy(s) /\ \A r \in Slots : r # s => ~Busy(r)
    BY SlotTick, AdvanceSlot, FaultySlot DEF OneAtATime
  <1>2. \A r \in Slots : r # s => ~Busy(r)'
    BY <1>1 DEF OnlyJob, Busy
  <1>3. CASE job'[s] = IdleJob
    <2>1. \A r \in Slots : ~Busy(r)'
      BY <1>2, <1>3 DEF Busy, IdleJob
    <2> QED BY <2>1 DEF FlagInv, FlagTells, Busy, ReorgPlaces
  <1>4. CASE Moves(s)
    <2>1. job[s].bw \in Wrappers /\ job'[s].bw = job[s].bw /\ Onward(job[s].pc, job'[s].pc)
      BY <1>1, <1>4 DEF IInv, SlotOK, Moves
    <2>2. /\ job[s].pc # "getSelf" => JobMode(s)' = JobMode(s)
          /\ job[s].pc \notin {"verifyChild"} \cup ReorgPlaces =>
               wrapper'[job'[s].bw].active = wrapper[job[s].bw].active
      BY <2>1, WrapperMoves DEF JobMode
    <2>3. job'[s].pc \in {"findFork"} \cup ReorgPlaces => JobMode(s)' = "side"
      <3>1. CASE job[s].pc \in {"findFork"} \cup ReorgPlaces
        BY <2>2, <3>1 DEF FlagInv, ReorgPlaces
      <3>2. CASE job[s].pc = "verifyBlock" /\ job'[s].pc = "findFork"
        <4>1. Reorganize(s)
          <5>1. VerifyBlock(s) => job'[s].pc = "put"
            BY GotoJob DEF VerifyBlock, IInv
          <5>2. Reject(s) \/ PipelineError(s) \/ FindForkError(s) => EndJob(s)
            BY DEF Reject, PipelineError, FindForkError, FinalizeError, AbandonReorganize
          <5>3. ~EndJob(s)
            BY <3>2, EndJobIdle DEF IInv, IdleJob
          <5> QED BY <3>2, <5>1, <5>2, <5>3, ZenonT(60)
                  DEF Advance, Faulty, GetPrev, Discard, ConnectToStored, BecomeOrphan, VerifyChild,
                      FindFork, DisconnectTransactions, ReconnectTransactions, ReorgPut,
                      ReorgHeight, Put, PutHeightKey, ReorgSaved, TailConnect, TailEnd,
                      TailFinalize, Completes, ReorgError, At
        <4>2. JobMode(s) = "side"
          BY <4>1 DEF Reorganize, NeedsReorganize
        <4> QED BY <2>2, <3>2, <4>2
      <3> QED BY <2>1, <3>1, <3>2 DEF Onward, ReorgPlaces
    <2>4. ~isProcessing' => AfterReorganize(s)'
      <3> SUFFICES ASSUME ~isProcessing' PROVE AfterReorganize(s)'
        OBVIOUS
      <3>1. CASE ~isProcessing
        <4>1. AfterReorganize(s)
          BY <1>1, <3>1 DEF FlagInv, FlagTells
        <4>2. job'[s].pc \in {"height", "tail"}
          BY <2>1, <4>1 DEF AfterReorganize, Onward, ReorgPlaces
        <4> QED BY <2>2, <4>1, <4>2 DEF AfterReorganize, ReorgPlaces
      <3>2. CASE isProcessing
        <4>1. /\ job[s].pc \in ReorgPlaces /\ job'[s].pc = "put"
              /\ wrapper'[job[s].bw].active = TRUE
          BY <1>4, <3>2, FlagMoves
        <4>2. JobMode(s)' = "side"
          BY <2>2, <4>1 DEF FlagInv, ReorgPlaces
        <4> QED BY <2>1, <4>1, <4>2 DEF AfterReorganize
      <3> QED BY <3>1, <3>2
    <2> QED BY <1>2, <2>3, <2>4 DEF FlagInv, FlagTells, Busy, ReorgPlaces
  <1> QED BY <1>3, <1>4, JobMoves

LEMMA FlagStep ==
  ASSUME AloneInv, OneAtATime', FlagInv, [Next]_vars
  PROVE  FlagInv'
  <1> USE DEF AloneInv
  <1>1. CASE LateWrite \/ UNCHANGED vars
    <2>1. UNCHANGED <<job, wrapper, isProcessing>>
      BY <1>1 DEF LateWrite, LateMeta, LateBatch, vars, chainVars
    <2> QED BY <2>1 DEF FlagInv, FlagTells, AfterReorganize, JobMode, Busy
  <1>2. CASE Crash
    BY <1>2 DEF Crash, FlagInv, FlagTells, Busy, IdleJob, ReorgPlaces
  <1> QED BY <1>1, <1>2, FlagAdd, FlagTick, FlagSlot DEF Next

LEMMA InitFlag == Init => FlagInv
  BY DEF Init, FlagInv, FlagTells, Busy, IdleJob, ReorgPlaces

(* Until pipelines have overlapped, the flag is up whenever a block is at    *)
(* work, but for the window that a reorganisation opens when it clears the   *)
(* flag before its own block is saved: whatever fails, is refused, or stops. *)
THEOREM FlagAlwaysTells == AloneSpec => []FlagTells
  <1>1. AloneInv /\ FlagInv /\ [AloneNext]_vars => FlagInv'
    BY AloneStep, FlagStep DEF AloneInv
  <1>2. FlagInv => FlagTells
    BY DEF FlagInv
  <1> QED BY <1>1, <1>2, InitFlag, AloneInvariance, PTL DEF AloneSpec

(* No block arrives between the end of a reorganisation and the end of the   *)
(* pipeline that asked for it.                                               *)
AddsOutsideWindow == \A b \in Blocks : Add(b) => \A s \in Slots : ~AfterReorganize(s)

LEMMA OneStep ==
  ASSUME IInv, OneAtATime, FlagInv, [Next]_vars, [AddsOutsideWindow]_vars
  PROVE  OneAtATime'
  <1>1. ASSUME NEW b \in Blocks, Add(b)
        PROVE  OneAtATime'
    <2>1. CASE \A s \in Slots : ~Busy(s)
      <3>1. PICK w \in Wrappers : w = adds + 1
        BY <1>1, NextWrapper DEF IInv
      <3>2. PICK wr \in [Wrappers -> WrapperType] :
              wr = [wrapper EXCEPT ![w] = [NoWrapper EXCEPT !.block = b]]
        <4>1. [NoWrapper EXCEPT !.block = b] \in WrapperType
          BY NoWrapperType DEF WrapperType
        <4> QED BY <4>1 DEF IInv, TypeOK
      <3>3. UNCHANGED <<job, tick>> \/ ProcessBlock(w, wr, queue)
        BY <1>1, <3>1, <3>2 DEF Add
      <3>4. UNCHANGED <<job, tick>> => OneAtATime'
        BY DEF OneAtATime, Busy
      <3> QED BY <2>1, <3>3, <3>4, ProcessAlone
    <2>2. CASE \E s \in Slots : Busy(s)
      <3>1. vars' # vars
        <4>1. adds \in Nat /\ adds' = adds + 1
          BY <1>1, BoundAssumption DEF Add, IInv, TypeOK
        <4>2. adds' # adds
          BY <4>1
        <4> QED BY <4>2 DEF vars, chainVars
      <3>2. isProcessing
        BY <1>1, <2>2, <3>1 DEF AddsOutsideWindow, FlagInv, FlagTells
      <3>3. UNCHANGED <<job, tick>>
        BY <1>1, <3>2 DEF Add
      <3> QED BY <3>3 DEF OneAtATime, Busy
    <2> QED BY <2>1, <2>2
  <1> QED BY <1>1, OthersAlone DEF Next

(* "Only process one block at a time" holds as long as no block arrives in   *)
(* that window: the queue, the ticks, the orphan chains, failures and        *)
(* restarts start no second pipeline of their own.                           *)
THEOREM OneAtATimeOutsideWindow == Spec /\ [][AddsOutsideWindow]_vars => []OneAtATime
  <1> DEFINE Inv == IInv /\ CallsInv /\ OneAtATime /\ FlagInv
  <1>1. Init => Inv
    BY InitIInv, InitCalls, InitFlag DEF Init, OneAtATime, Busy, IdleJob
  <1>2. Inv /\ [Next]_vars /\ [AddsOutsideWindow]_vars => Inv'
    <2> SUFFICES ASSUME Inv, [Next]_vars, [AddsOutsideWindow]_vars PROVE Inv'
      OBVIOUS
    <2>1. IInv' /\ CallsInv' /\ OneAtATime'
      BY StepIInv, CallsStep, OneStep
    <2>2. FlagInv'
      BY <2>1, FlagStep DEF AloneInv
    <2> QED BY <2>1, <2>2
  <1>3. Inv => OneAtATime
    OBVIOUS
  <1> HIDE DEF Inv
  <1> QED BY <1>1, <1>2, <1>3, PTL DEF Spec

-----------------------------------------------------------------------------
(* The top block, however pipelines overlap.                                 *)

(* The top has its record, or a pipeline is about to write it.               *)
TopHeld ==
  \/ Stored(top)
  \/ \E s \in Slots : JobBlock(s) = top /\ job[s].pc \in {"verifyBlock", "put"}

TopInv == NothingFailed => TopHeld

LEMMA TopHeldKept ==
  ASSUME IInv, DiskKept, TopHeld, top' = top,
         \A s \in Slots : job[s].pc \in {"verifyBlock", "put"} => job'[s] = job[s]
  PROVE  TopHeld'
  <1>1. CASE Stored(top)
    BY <1>1 DEF IInv, TypeOK, DiskKept, TopHeld, Stored
  <1>2. CASE \E s \in Slots : JobBlock(s) = top /\ job[s].pc \in {"verifyBlock", "put"}
    BY <1>2 DEF TopHeld, JobBlock
  <1> QED BY <1>1, <1>2 DEF TopHeld

LEMMA TopSlot ==
  ASSUME IInv, DiskKept, TopHeld, NEW s \in Slots, Advance(s)
  PROVE  TopHeld'
  <1> USE DEF IInv
  <1>1. OnlyJob(s) /\ job[s] \in JobType
    BY AdvanceSlot, JobBlockType
  <1>2. ASSUME top' = top, job[s].pc \notin {"verifyBlock", "put"}
        PROVE  TopHeld'
    BY <1>1, <1>2, TopHeldKept DEF OnlyJob
  <1>3. CASE VerifyChild(s)
    <2>1. job'[s].pc = "verifyBlock" /\ JobBlock(s)' = JobBlock(s)
      BY <1>3, GotoJob DEF VerifyChild, JobBlock
    <2>2. job[s].pc = "verifyChild" /\ (top' = top \/ top' = JobBlock(s))
      BY <1>3 DEF VerifyChild, At
    <2> QED BY <1>2, <2>1, <2>2 DEF TopHeld
  <1>4. CASE VerifyBlock(s)
    <2>1. job'[s].pc = "put" /\ JobBlock(s)' = JobBlock(s) /\ top' = top /\ dbBlock' = dbBlock
      BY <1>4, GotoJob DEF VerifyBlock, JobBlock, diskVars
    <2>2. ASSUME NEW r \in Slots, r # s, JobBlock(r) = top, job[r].pc \in {"verifyBlock", "put"}
          PROVE  TopHeld'
      BY <1>1, <2>1, <2>2 DEF TopHeld, OnlyJob, JobBlock
    <2>3. CASE JobBlock(s) = top
      BY <2>1, <2>3 DEF TopHeld
    <2>4. CASE Stored(top)
      BY <2>1, <2>4 DEF TopHeld, Stored
    <2> QED BY <2>2, <2>3, <2>4 DEF TopHeld
  <1>5. CASE Reorganize(s)
    <2>1. JobBlock(s) # top
      <3>1. ChainWork[JobBlock(s)] > ChainWork[top] /\ ChainWork[top] \in Nat
        BY <1>5, TreeAssumption DEF Reorganize, NeedsReorganize, MoreWorkThan, TypeOK
      <3> QED BY <3>1
    <2>2. top' = top /\ dbBlock' = dbBlock
      BY <1>5 DEF Reorganize, diskVars
    <2>3. ASSUME NEW r \in Slots, r # s, JobBlock(r) = top, job[r].pc \in {"verifyBlock", "put"}
          PROVE  TopHeld'
      BY <1>1, <2>2, <2>3 DEF TopHeld, OnlyJob, JobBlock
    <2>4. CASE Stored(top)
      BY <2>2, <2>4 DEF TopHeld, Stored
    <2> QED BY <2>1, <2>3, <2>4 DEF TopHeld
  <1>6. CASE Put(s)
    <2>1. top' = top /\ JobBlock(s)' = JobBlock(s) /\ Stored(JobBlock(s))'
      <3>1. JobBlock(s)' = JobBlock(s) /\ JobBlock(s) \in AllBlocks
        BY <1>6, GotoJob, JobBlockType, TreeFacts DEF Put, JobBlock
      <3>2. dbBlock'[JobBlock(s)] \in {"active", "inactive"}
        BY <1>6, <3>1 DEF Put, PutBlock, TypeOK, StorageTypeOK
      <3> QED BY <1>6, <3>1, <3>2 DEF Put, Stored
    <2>2. ASSUME NEW r \in Slots, r # s, JobBlock(r) = top, job[r].pc \in {"verifyBlock", "put"}
          PROVE  TopHeld'
      BY <1>1, <2>1, <2>2 DEF TopHeld, OnlyJob, JobBlock
    <2>3. CASE JobBlock(s) = top
      BY <2>1, <2>3 DEF TopHeld, Stored, JobBlock
    <2>4. CASE Stored(top)
      <3>1. Stored(top)'
        BY <2>1, <2>4 DEF TypeOK, DiskKept, Stored
      <3> QED BY <3>1 DEF TopHeld
    <2> QED BY <2>2, <2>3, <2>4 DEF TopHeld
  <1>7. ASSUME NEW op \in Writes, ReorgSaved(s, op)
        PROVE  TopHeld'
    <2>1. job[s].pc = "reorgIdx" /\ NextReorgStep(s, job[s].io \ {op})
      BY <1>7 DEF ReorgSaved, At
    <2>2. top' = top \/ (top' = JobBlock(s) /\ job'[s].pc = "put")
      BY <1>1, <2>1 DEF NextReorgStep, TypeOK, JobType
    <2>3. JobBlock(s)' = JobBlock(s)
      BY <2>1, NextReorgStepJob DEF JobBlock, ReorgPlaces
    <2> QED BY <1>2, <2>1, <2>2, <2>3 DEF TopHeld
  <1>8. CASE \/ GetPrev(s) \/ Discard(s) \/ ConnectToStored(s) \/ BecomeOrphan(s) \/ FindFork(s)
             \/ DisconnectTransactions(s) \/ ReconnectTransactions(s) \/ ReorgPut(s)
             \/ ReorgHeight(s) \/ PutHeightKey(s)
             \/ \E op \in Writes : TailConnect(s, op) \/ TailEnd(s, op) \/ TailFinalize(s, op)
    <2>1. top' = top /\ job[s].pc \notin {"verifyBlock", "put"}
      BY <1>8 DEF GetPrev, Discard, ConnectToStored, BecomeOrphan, FindFork,
             DisconnectTransactions, ReconnectTransactions, ReorgPut, ReorgHeight, PutHeightKey,
             TailConnect, TailEnd, TailFinalize, Completes, At
    <2> QED BY <1>2, <2>1
  <1> QED BY <1>3, <1>4, <1>5, <1>6, <1>7, <1>8 DEF Advance

LEMMA TopStep ==
  ASSUME IInv, TopInv, [Next]_vars
  PROVE  TopInv'
  <1> SUFFICES ASSUME NothingFailed' PROVE TopHeld'
    BY DEF TopInv
  <1>1. DiskKept
    BY DiskStepOfNext, IndexKept DEF DiskKept
  <1>2. /\ \A s \in Slots : ~Faulty(s)
        /\ NothingFailed
    <2>1. /\ faults \in [reject : 0..MaxRejects, io : 0..MaxIoErrors, crash : 0..MaxCrashes]
          /\ MaxRejects \in Nat /\ MaxIoErrors \in Nat
          /\ faults'.reject = MaxRejects /\ faults'.io = MaxIoErrors
      BY BoundAssumption DEF IInv, TypeOK, NothingFailed
    <2>2. ASSUME NEW s \in Slots, Faulty(s)
          PROVE  FALSE
      <3>1. \/ faults' = [faults EXCEPT !.reject = @ - 1]
            \/ faults' = [faults EXCEPT !.io = @ - 1]
        BY <2>2 DEF Faulty, Reject, PipelineError, FindForkError, ReorgError
      <3> QED BY <2>1, <3>1
    <2>3. CASE \E s \in Slots : Advance(s)
      <3>1. faults' = faults
        BY <2>3, ZenonT(60)
           DEF Advance, GetPrev, Discard, ConnectToStored, BecomeOrphan, VerifyChild, VerifyBlock,
               Reorganize, FindFork, DisconnectTransactions, ReconnectTransactions, ReorgPut,
               ReorgHeight, Put, PutHeightKey, ReorgSaved, TailConnect, TailEnd, TailFinalize
      <3> QED BY <2>1, <2>2, <3>1 DEF NothingFailed
    <2>4. CASE Crash
      <3>1. faults'.reject = faults.reject /\ faults'.io = faults.io
        BY <2>1, <2>4 DEF Crash
      <3> QED BY <2>1, <2>2, <3>1 DEF NothingFailed
    <2>5. CASE (\E b \in Blocks : Add(b)) \/ NextTick \/ LateWrite \/ UNCHANGED vars
      <3>1. faults' = faults
        BY <2>5 DEF Add, NextTick, LateWrite, LateMeta, LateBatch, vars, chainVars
      <3> QED BY <2>1, <2>2, <3>1 DEF NothingFailed
    <2> QED BY <2>2, <2>3, <2>4, <2>5 DEF Next
  <1>3. TopHeld
    BY <1>2 DEF TopInv
  <1>4. CASE (\E b \in Blocks : Add(b)) \/ NextTick
    <2>1. top' = top
      BY <1>4 DEF Add, NextTick
    <2>2. job' = job \/ \E w, wr, q : ProcessBlock(w, wr, q)
      <3>1. ASSUME NEW b \in Blocks, Add(b)
            PROVE  \/ job' = job
                   \/ ProcessBlock(adds + 1,
                        [wrapper EXCEPT ![adds + 1] = [NoWrapper EXCEPT !.block = b]], queue)
        BY <3>1, ZenonT(30) DEF Add
      <3>2. NextTick => ProcessBlock(tick, wrapper, queue)
        BY DEF NextTick
      <3> QED BY <1>4, <3>1, <3>2
    <2>3. job' = job \/ (FreeSlots # {} /\ \A s \in Slots \ {FreeSlot} : job'[s] = job[s])
      <3>1. ASSUME NEW w, NEW wr, NEW q, ProcessBlock(w, wr, q)
            PROVE  \/ job' = job
                   \/ FreeSlots # {} /\ \E new : job' = [job EXCEPT ![FreeSlot] = new]
        BY <3>1, ZenonT(30) DEF ProcessBlock
      <3> QED BY <2>2, <3>1 DEF IInv, TypeOK
    <2>4. \A s \in Slots : job[s].pc \in {"verifyBlock", "put"} => job'[s] = job[s]
      BY <2>3, FreeSlotFree DEF Busy
    <2> QED BY <1>1, <1>3, <2>1, <2>4, TopHeldKept
  <1>5. CASE LateWrite \/ UNCHANGED vars
    <2>1. UNCHANGED <<top, job>>
      BY <1>5 DEF LateWrite, LateMeta, LateBatch, vars, chainVars
    <2> QED BY <1>1, <1>3, <2>1, TopHeldKept
  <1>6. CASE Crash
    <2>1. PICK b \in AllBlocks : b = TopOnDisk /\ Stored(b)
      BY DEF IInv, IndexInv, MetaInv, TypeOK, StorageTypeOK, TopOnDisk
    <2>2. top' = b /\ Stored(b)'
      BY <1>1, <1>6, <2>1 DEF Crash, DiskKept
    <2> QED BY <2>2 DEF TopHeld, Stored
  <1> QED BY <1>1, <1>2, <1>3, <1>4, <1>5, <1>6, TopSlot DEF Next

(* However pipelines overlap and wherever the process stops, an idle chain   *)
(* has a top block with a record on disk, as long as no block was refused    *)
(* and no operation failed: whatever moves the top is a pipeline that goes   *)
(* on to save that very block.                                               *)
THEOREM TopAlwaysStoredUnlessFailed == Spec => []TopStoredUnlessFailed
  <1>1. Init => TopInv
    BY TreeFacts DEF Init, StorageInit, TopInv, TopHeld, Stored
  <1>2. IInv /\ TopInv /\ [Next]_vars => TopInv'
    BY TopStep
  <1>3. TopInv => TopStoredUnlessFailed
    BY DEF TopInv, TopHeld, TopStoredUnlessFailed, TopStored, Quiet, Busy
  <1> QED BY <1>1, <1>2, <1>3, Invariance, PTL DEF Spec

LEMMA ProcessBlockWait ==
  ASSUME IInv, WaitInv, \A s \in Slots : ~Busy(s),
         NEW w \in Wrappers, NEW wr \in [Wrappers -> WrapperType], NEW q,
         ProcessBlock(w, wr, q),
         UNCHANGED <<dbBlock, dbTx, top, recent, recentTx, live>>
  PROVE  WaitInv'
  <1> DEFINE b == wr[w].block
  <1>1. AtRest /\ AtRest'
    BY DEF WaitInv, AtRest, Stored, TxsOn, TxsIn
  <1>2. ParentsStored' /\ LiveFindable'
    BY DEF WaitInv, ParentsStored, LiveFindable, Stored
  <1>3. ASSUME NEW r \in Slots, job'[r] = job[r]
        PROVE  JobOK(r)'
    BY <1>3 DEF WaitInv, JobOK, Unused, Busy, ReorgPlaces
  <1>4. CASE job' = job
    BY <1>1, <1>2, <1>3, <1>4 DEF WaitInv
  <1>5. ASSUME NEW s \in Slots,
               OnlyJob(s),
               job'[s].off = <<>> /\ job'[s].on = <<>>,
               job'[s].step = "connectTransactions",
               JobBlock(s)' = b,
               \/ /\ Parent[b] = top /\ job'[s].pc = "verifyChild" /\ JobMode(s)' = "main"
               \/ /\ Parent[b] # top /\ Parent[b] \in recent.index
                  /\ job'[s].pc = "verifyChild" /\ JobMode(s)' = "side"
               \/ Parent[b] # top /\ job'[s].pc = "getPrev"
        PROVE  WaitInv'
    <2>1. Unused(s)'
      BY <1>5 DEF Unused
    <2>2. ASSUME job'[s].pc = "verifyChild"
          PROVE  JobOK(s)'
      <3>1. Stored(Parent[b]) /\ (JobMode(s)' = "main" <=> Parent[b] = top)
            /\ JobMode(s)' \in {"main", "side"}
        BY <1>1, <1>5, <2>2 DEF AtRest
      <3>2. Verifying(s)'
        BY <1>1, <1>5, <3>1 DEF Verifying, Placed, Stored
      <3> QED BY <2>1, <2>2, <3>2 DEF JobOK, ReorgPlaces
    <2>3. ASSUME job'[s].pc = "getPrev"
          PROVE  JobOK(s)'
      <3>1. Asking(s)'
        BY <1>1, <1>5, <2>3 DEF Asking
      <3> QED BY <2>1, <2>3, <3>1 DEF JobOK, ReorgPlaces
    <2>4. JobOK(s)'
      BY <1>5, <2>2, <2>3
    <2>5. \A r \in Slots : JobOK(r)'
      BY <1>3, <1>5, <2>4 DEF OnlyJob
    <2> QED BY <1>1, <1>2, <2>5 DEF WaitInv
  <1> QED BY <1>4, <1>5, ProcessBlockJob

(* A step that at most adds transactions to the database.                    *)
LEMMA WaitSame ==
  ASSUME WaitInv, UNCHANGED <<dbBlock, top, recent, recentTx, live>>, SameJobs,
         dbTx \subseteq dbTx'
  PROVE  WaitInv'
  <1>1. \A t : Findable(t) => Findable(t)'
    BY DEF Findable
  <1>2. AtRest => AtRest'
    BY DEF AtRest, Stored, TxsOn, TxsIn
  <1>3. ASSUME NEW s \in Slots, JobOK(s)
        PROVE  JobOK(s)'
    <2>1. CASE ~Busy(s)
      BY <1>3, <2>1 DEF JobOK, Unused, SameJobs, Busy, ReorgPlaces
    <2>2. CASE Busy(s)
      <3>1. /\ job' = job /\ JobMode(s)' = JobMode(s)
            /\ wrapper'[job[s].bw].active = wrapper[job[s].bw].active
        BY <2>2 DEF SameJobs, JobMode
      <3> QED BY <1>1, <1>2, <1>3, <3>1, SMTT(60)
              DEF JobOK, Unused, AtRest, Asking, Verifying, InChain, Forking, Reorging, Saving,
                  Saved, Placed, RecentUpTo, Collected, ToDisconnect, MidReorg, Disconnecting,
                  ReorgBlock, JobBlock, Stored, TxsOn, TxsIn
    <2> QED BY <2>1, <2>2
  <1> QED BY <1>2, <1>3 DEF WaitInv, SameJobs, ParentsStored, LiveFindable, Stored, Busy

LEMMA AddWait ==
  ASSUME IInv, CallsInv, OneAtATime', WaitInv, NEW b \in Blocks, Add(b)
  PROVE  WaitInv'
  <1>1. UNCHANGED <<dbBlock, dbTx, top, recent, recentTx, live>>
    BY DEF Add, storageVars, diskVars
  <1> QED BY <1>1, AddCases, WaitSame, ProcessBlockWait

LEMMA NextTickWait ==
  ASSUME IInv, OneAtATime, WaitInv, NextTick
  PROVE  WaitInv'
  <1>1. UNCHANGED <<dbBlock, dbTx, top, recent, recentTx, live>>
    BY DEF NextTick, storageVars, diskVars
  <1> QED BY <1>1, NextTickCases, ProcessBlockWait

(* A restart finds a stored top block and forgets all that is not saved.     *)
LEMMA CrashWait ==
  ASSUME IInv, WaitInv, Crash
  PROVE  WaitInv'
  <1>1. /\ dbBlock' = [dbBlock EXCEPT ![Genesis] = "active"] /\ top' = TopOnDisk
        /\ recent' = RecentEmpty /\ live' = {} /\ job' = [s \in Slots |-> IdleJob]
    BY DEF Crash
  <1>2. \A x \in AllBlocks : Stored(x)' <=> Stored(x) \/ x = Genesis
    BY <1>1 DEF Stored, IInv, TypeOK, StorageTypeOK
  <1>3. ParentsStored'
    <2>1. SUFFICES ASSUME NEW c \in Blocks, Stored(c)'
                   PROVE  Stored(Parent[c])'
      BY DEF ParentsStored, Stored
    <2>2. c \in AllBlocks /\ Parent[c] \in AllBlocks /\ c # Genesis
      BY TreeFacts, TreeAssumption
    <2> QED BY <1>2, <2>1, <2>2 DEF WaitInv, ParentsStored
  <1>4. AtRest'
    <2>1. TopOnDisk \in AllBlocks /\ Stored(TopOnDisk)
      BY DEF IInv, IndexInv, MetaInv, TypeOK, StorageTypeOK, TopOnDisk
    <2>2. dbBlock'[TopOnDisk] # "none"
      BY <1>2, <2>1 DEF Stored
    <2> QED BY <1>1, <2>2 DEF AtRest, RecentEmpty, Stored
  <1>5. \A s \in Slots : JobOK(s)'
    <2>1. SUFFICES ASSUME NEW s \in Slots PROVE JobOK(s)'
      OBVIOUS
    <2> QED BY <1>1, IdleJobOK
  <1> QED BY <1>1, <1>3, <1>4, <1>5 DEF WaitInv, LiveFindable

LEMMA WaitStep ==
  ASSUME MaxIoErrors = 0, IInv, CallsInv, OneAtATime, OneAtATime', WaitInv, [Next]_vars
  PROVE  WaitInv'
  <1>1. CASE \E b \in Blocks : Add(b)
    BY <1>1, AddWait
  <1>2. CASE NextTick
    BY <1>2, NextTickWait
  <1>3. ASSUME NEW s \in Slots, Advance(s) \/ Faulty(s)
        PROVE  WaitInv'
    <2>1. Busy(s) /\ SlotWait(s)
      BY <1>3, SlotTick DEF WaitInv, SlotWait
    <2>2. SlotWait(s)' /\ OnlyJob(s)
      BY <1>3, <2>1, SlotWaitStep, AdvanceSlot, FaultySlot
    <2>3. ASSUME NEW r \in Slots, r # s
          PROVE  JobOK(r)'
      <3>1. ~Busy(r) /\ job'[r] = job[r]
        BY <2>1, <2>2, <2>3 DEF OneAtATime, OnlyJob
      <3> QED BY <3>1 DEF WaitInv, JobOK, Unused, Busy, ReorgPlaces
    <2> QED BY <2>2, <2>3 DEF SlotWait, WaitInv
  <1>4. CASE LateWrite
    <2>1. /\ UNCHANGED <<dbBlock, top, recent, recentTx, live>> /\ SameJobs
          /\ dbTx \subseteq dbTx'
      BY <1>4 DEF LateWrite, LateMeta, LateBatch, ApplyBatch, SameJobs
    <2> QED BY <2>1, WaitSame
  <1>5. CASE Crash
    BY <1>5, CrashWait
  <1>6. CASE UNCHANGED vars
    BY <1>6, WaitSame DEF vars, storageVars, diskVars, chainVars, SameJobs
  <1> QED BY <1>1, <1>2, <1>3, <1>4, <1>5, <1>6 DEF Next

LEMMA InitWait == Init => WaitInv
  <1> SUFFICES ASSUME Init PROVE WaitInv
    OBVIOUS
  <1>1. /\ dbBlock = [b \in AllBlocks |-> IF b = Genesis THEN "active" ELSE "none"]
        /\ top = Genesis /\ recent.index = {} /\ live = {}
        /\ job = [s \in Slots |-> IdleJob]
    BY DEF Init, StorageInit, RecentEmpty
  <1>2. AtRest
    BY <1>1, TreeFacts DEF AtRest, Stored
  <1>3. ParentsStored
    BY <1>1, TreeFacts, TreeAssumption DEF ParentsStored, Stored
  <1>4. \A s \in Slots : JobOK(s)
    BY <1>1 DEF JobOK, Unused, IdleJob, ReorgPlaces
  <1> QED BY <1>1, <1>2, <1>3, <1>4 DEF WaitInv, LiveFindable

(* Without overlap and with a database that answers without errors, the      *)
(* invariant holds, whatever is refused and whenever the process restarts.   *)
THEOREM WaitInvariance ==
  ASSUME MaxIoErrors = 0
  PROVE  AloneSpec => [](AloneInv /\ WaitInv)
  <1>1. AloneInv /\ WaitInv /\ [AloneNext]_vars => WaitInv'
    BY AloneStep, WaitStep DEF AloneInv
  <1> QED BY <1>1, AloneInvariance, InitWait, PTL DEF AloneSpec

-----------------------------------------------------------------------------
(* Without overlap, whatever blocks are refused and wherever the process is  *)
(* restarted, the top block of a chain that is idle has its record on disk:  *)
(* finalizeStep only ever gives the top back to a block that was saved.      *)
THEOREM TopAlwaysStored ==
  ASSUME MaxIoErrors = 0
  PROVE  AloneSpec => []TopStored
  <1>1. WaitInv => TopStored
    BY DEF WaitInv, TopStored, Quiet, AtRest
  <1> QED BY <1>1, WaitInvariance, PTL

(* Without overlap a block whose parent is not stored is never stored:       *)
(* findFork and the block locator reach the genesis block from any block on  *)
(* disk.                                                                     *)
THEOREM ParentsAlwaysStored ==
  ASSUME MaxIoErrors = 0
  PROVE  AloneSpec => []ParentsStored
  <1>1. WaitInv => ParentsStored
    BY DEF WaitInv
  <1> QED BY <1>1, WaitInvariance, PTL

(* Without overlap, when the chain is idle, listeners of txAdd and txRevoke  *)
(* hold no transaction that is off the chain of the top: what a              *)
(* reorganisation leaves has been revoked, and a refused block has announced *)
(* nothing.                                                                  *)
THEOREM LiveStaysOnMain ==
  ASSUME MaxIoErrors = 0
  PROVE  AloneSpec => []LiveOnMain
  <1>1. WaitInv => LiveOnMain
    BY DEF WaitInv, LiveOnMain, MainTxs, Quiet, AtRest, TxsOn, TxsIn
  <1> QED BY <1>1, WaitInvariance, PTL

(* Without overlap a block that add() acknowledges at once as recently added *)
(* is on disk, or is the one in the pipeline: no refused block stays behind  *)
(* in the index.                                                             *)
THEOREM RecentAlwaysStored ==
  ASSUME MaxIoErrors = 0
  PROVE  AloneSpec => []RecentStored
  <1>1. WaitInv /\ AloneInv => RecentStored
    <2> SUFFICES ASSUME WaitInv, IInv, NEW r \in recent.index
                 PROVE  Stored(r) \/ InProgress(r)
      BY DEF RecentStored, AloneInv
    <2>1. CASE \A s \in Slots : ~Busy(s)
      BY <2>1 DEF WaitInv, AtRest
    <2>2. ASSUME NEW s \in Slots, Busy(s)
          PROVE  Stored(r) \/ InProgress(r)
      <3>1. JobOK(s) /\ job[s].pc \in Places /\ job[s].pc # "idle"
        BY <2>2, JobBlockType DEF WaitInv, IInv, JobType, Busy
      <3>2. AtRest \/ RecentUpTo(JobBlock(s))
        BY <3>1 DEF JobOK, Places, ReorgPlaces, Asking, Verifying, InChain, Forking, Reorging,
                    Saving, Saved
      <3> QED BY <2>2, <3>2 DEF AtRest, RecentUpTo, InProgress
    <2> QED BY <2>1, <2>2
  <1> QED BY <1>1, WaitInvariance, PTL
-----------------------------------------------------------------------------
(* Without crashes: blocks that a reorganisation has still to mark inactive, *)
(* that the block of the pipeline is the first to be marked active (so that  *)
(* saving it once more raises no height and the tail waits for its batch     *)
(* alone), and where its transactions are on their way to disk.  A crash     *)
(* between the writes of one block, or an error of one of them, breaks the   *)
(* properties below: nothing in the code makes the writes one.               *)

Active(b) == dbBlock[b] = "active"
AllFindable(b) == \A t \in TxsOf[b] : Findable(t)

(* No stored block is heavier than b.                                        *)
Heaviest(b) == \A x \in AllBlocks : Stored(x) => ~MoreWorkThan(x, b)
ActiveWithin(blocks) == \A x \in AllBlocks : Active(x) => x \in blocks
FoundBut(b) == \A x \in AllBlocks : Stored(x) => x = b \/ AllFindable(x)

InOrder ==
  /\ Heaviest(top)
  /\ ActiveWithin(Lineage[top])
  /\ \A x \in AllBlocks : Stored(x) => AllFindable(x)

Base(s) == IF JobMode(s) = "main" THEN Parent[JobBlock(s)] ELSE top

InChainOrder(s) ==
  /\ Heaviest(Base(s)) /\ ActiveWithin(Lineage[Base(s)])
  /\ \A x \in AllBlocks : Stored(x) => AllFindable(x)

ForkingOrder(s) ==
  /\ InOrder /\ MoreWorkThan(JobBlock(s), top)
  /\ IF job[s].on = <<>> THEN job[s].new = JobBlock(s) ELSE Head(job[s].on) = JobBlock(s)

StillActive(s) ==
  IF job[s].pc \in {"reorgHeight", "reorgIdx"} /\ Disconnecting(s)
  THEN RangeOf(Tail(job[s].off)) ELSE RangeOf(job[s].off)

(* The block itself is the first to be connected, and raises the height.     *)
ReorgOrder(s) ==
  /\ MoreWorkThan(JobBlock(s), top)
  /\ \A x \in AllBlocks : Stored(x) => x = JobBlock(s) \/ ~MoreWorkThan(x, top)
  /\ ActiveWithin(StillActive(s) \cup Lineage[JobBlock(s)])
  /\ FoundBut(JobBlock(s))
  /\ \/ chainHeight >= Height[JobBlock(s)]
     \/ /\ job[s].on # <<>> /\ Head(job[s].on) = JobBlock(s)
        /\ job[s].pc = "reorgIdx" => Disconnecting(s)

(* The batch that will save the transactions is on its way, and no other     *)
(* operation of the block can run the last step before it has ended.         *)
SavingOrder(s) ==
  /\ Heaviest(top) /\ ~MoreWorkThan(JobBlock(s), top)
  /\ ActiveWithin(Lineage[top])
  /\ FoundBut(JobBlock(s))
  /\ wrapper[job[s].bw].active => top = JobBlock(s)
  /\ TxsOf[JobBlock(s)] \subseteq currentBatch.txs
  /\ JobMode(s) = "main" \/ ~RaisesChainHeight(JobBlock(s), wrapper[job[s].bw].active)

TailOrder(s) ==
  /\ Heaviest(top) /\ ActiveWithin(Lineage[top])
  /\ FoundBut(JobBlock(s))
  /\ \/ AllFindable(JobBlock(s))
     \/ JobMode(s) = "main" /\ job[s].step = "connectTransactions"
     \/ /\ JobMode(s) = "side" /\ job[s].step = "connectTransactions" /\ job[s].io = {"idx"}
        /\ TxsOf[JobBlock(s)] \subseteq currentBatch.txs
     \/ /\ JobMode(s) = "side" /\ job[s].step = "queueDependents" /\ job[s].io = {"batch"}
        /\ TxsOf[JobBlock(s)] \subseteq job[s].out.txs

OrderOK(s) ==
  /\ job[s].pc \in {"getPrev", "getSelf", "verifyChild"} => InOrder
  /\ job[s].pc = "verifyBlock" => InChainOrder(s)
  /\ job[s].pc = "findFork" => ForkingOrder(s)
  /\ job[s].pc \in ReorgPlaces => ReorgOrder(s)
  /\ job[s].pc \in {"put", "height"} => SavingOrder(s)
  /\ job[s].pc = "tail" => TailOrder(s)

OrderInv ==
  /\ \A s \in Slots : OrderOK(s)
  /\ (\A s \in Slots : ~Busy(s)) => InOrder

-----------------------------------------------------------------------------
(* The invariant as the step of one slot uses and restores it.               *)
SlotOrder(s) ==
  /\ OrderOK(s)
  /\ ~Busy(s) => InOrder

(* What InOrder speaks about, when only the transactions found grow.         *)
SameOrder == UNCHANGED <<dbBlock, top>> /\ recentTx \subseteq recentTx' /\ dbTx \subseteq dbTx'

LEMMA SameOrderKept ==
  ASSUME SameOrder
  PROVE  /\ \A b : Stored(b)' = Stored(b) /\ Active(b)' = Active(b)
         /\ \A b : AllFindable(b) => AllFindable(b)'
         /\ InOrder => InOrder'
         /\ \A b : FoundBut(b) => FoundBut(b)'
  <1>1. \A b : Stored(b)' = Stored(b) /\ Active(b)' = Active(b)
    BY DEF SameOrder, Stored, Active
  <1>2. \A b : AllFindable(b) => AllFindable(b)'
    BY DEF SameOrder, AllFindable, Findable
  <1> QED BY <1>1, <1>2 DEF SameOrder, InOrder, FoundBut, Heaviest, ActiveWithin

LEMMA IdleOrder ==
  ASSUME NEW s \in Slots, job'[s] = IdleJob, InOrder'
  PROVE  SlotOrder(s)'
  BY DEF SlotOrder, OrderOK, IdleJob, ReorgPlaces

(* A child is heavier than its parent, so what the parent dominates it does. *)
LEMMA HeavierChild ==
  ASSUME NEW b \in Blocks, Heaviest(Parent[b])
  PROVE  Heaviest(b) /\ ~Stored(b) /\ ~MoreWorkThan(b, b)
  <1>1. /\ b \in AllBlocks /\ \A x \in AllBlocks : ChainWork[x] \in Nat
        /\ ChainWork[Parent[b]] < ChainWork[b] /\ Parent[b] \in AllBlocks
    BY TreeFacts, BranchFacts
  <1> QED BY <1>1 DEF Heaviest, MoreWorkThan

-----------------------------------------------------------------------------
(* connectBlock and the verification.                                        *)

LEMMA ConnectingOrder ==
  ASSUME IInv, NEW s \in Slots, SlotOrder(s),
         GetPrev(s) \/ ConnectToStored(s)
  PROVE  SlotOrder(s)'
  <1>1. /\ job[s].pc \in {"getPrev", "getSelf"} /\ SameOrder
    BY DEF GetPrev, ConnectToStored, At, storageVars, diskVars, SameOrder
  <1>2. job'[s].pc \in {"getSelf", "verifyChild"}
    <2>1. CASE GetPrev(s)
      BY <2>1, JobBlockType DEF GetPrev, IInv, TypeOK, JobType
    <2>2. CASE ConnectToStored(s)
      BY <2>2, GotoJob DEF ConnectToStored, IInv
    <2> QED BY <2>1, <2>2
  <1>3. InOrder'
    BY <1>1, SameOrderKept DEF SlotOrder, OrderOK
  <1> QED BY <1>2, <1>3 DEF SlotOrder, OrderOK, ReorgPlaces

LEMMA DiscardOrder ==
  ASSUME IInv, NEW s \in Slots, SlotOrder(s), Discard(s) \/ BecomeOrphan(s)
  PROVE  SlotOrder(s)'
  <1>1. /\ job[s].pc = "getSelf" /\ EndJob(s) /\ SameOrder
    BY DEF Discard, BecomeOrphan, At, storageVars, diskVars, SameOrder
  <1>2. InOrder'
    BY <1>1, SameOrderKept DEF SlotOrder, OrderOK
  <1> QED BY <1>1, <1>2, EndJobIdle, IdleOrder DEF IInv

LEMMA VerifyChildOrder ==
  ASSUME IInv, NEW s \in Slots, SlotWait(s), SlotOrder(s), VerifyChild(s)
  PROVE  SlotOrder(s)'
  <1> DEFINE main == JobMode(s) = "main"
  <1>1. /\ job[s].pc = "verifyChild" /\ Goto(s, "verifyBlock")
        /\ top' = IF main THEN JobBlock(s) ELSE top
        /\ wrapper' = [wrapper EXCEPT ![job[s].bw].active = main]
        /\ UNCHANGED <<dbBlock, dbTx, recentTx>>
    BY DEF VerifyChild, At, storageVars, diskVars
  <1>2. InOrder /\ (main <=> Parent[JobBlock(s)] = top)
    BY <1>1 DEF SlotWait, JobOK, Verifying, SlotOrder, OrderOK
  <1>3. /\ job'[s].pc = "verifyBlock" /\ job'[s].bw = job[s].bw /\ job'[s].block = job[s].block
    BY <1>1, GotoJob DEF IInv
  <1>4. job[s].bw \in Wrappers /\ wrapper[job[s].bw] \in WrapperType
    BY <1>1 DEF IInv, SlotOK, Busy, TypeOK
  <1>5. wrapper'[job[s].bw].mode = JobMode(s)
    BY <1>1, <1>4 DEF IInv, TypeOK, WrapperType, JobMode
  <1>6. Base(s)' = top
    BY <1>1, <1>2, <1>3, <1>5 DEF Base, JobMode, JobBlock
  <1>7. InChainOrder(s)'
    BY <1>1, <1>2, <1>6
       DEF InChainOrder, InOrder, Heaviest, ActiveWithin, Stored, Active, AllFindable, Findable
  <1> QED BY <1>3, <1>7 DEF SlotOrder, OrderOK, Busy, ReorgPlaces

LEMMA VerifyBlockOrder ==
  ASSUME IInv, NEW s \in Slots, SlotWait(s), SlotOrder(s), VerifyBlock(s)
  PROVE  SlotOrder(s)'
  <1> DEFINE b == JobBlock(s)
  <1>1. /\ job[s].pc = "verifyBlock" /\ Goto(s, "put") /\ ~NeedsReorganize(s)
        /\ currentBatch' = PushTransactions(EmptyBatch, TxsOf[b])
        /\ UNCHANGED <<dbBlock, dbTx, recentTx, top, wrapper, chainHeight>>
    BY DEF VerifyBlock, At, diskVars
  <1>2. InChain(s) /\ InChainOrder(s)
    BY <1>1 DEF SlotWait, JobOK, SlotOrder, OrderOK
  <1>3. /\ job'[s].pc = "put" /\ job'[s].bw = job[s].bw /\ job'[s].block = job[s].block
    BY <1>1, GotoJob DEF IInv
  <1>4. /\ b \in Blocks /\ b \in AllBlocks /\ JobMode(s) \in {"main", "side"}
        /\ wrapper[job[s].bw].active = (JobMode(s) = "main")
    BY <1>2, JobBlockType, TreeFacts DEF InChain, Placed, IInv
  <1>5. Heaviest(top) /\ ~MoreWorkThan(b, top) /\ ActiveWithin(Lineage[top])
    <2>1. CASE JobMode(s) = "main"
      <3>1. top = b /\ Heaviest(Parent[b]) /\ ActiveWithin(Lineage[Parent[b]])
        BY <1>2, <2>1 DEF InChain, InChainOrder, Base
      <3>2. Heaviest(b) /\ ~MoreWorkThan(b, b)
        BY <1>4, <3>1, HeavierChild
      <3>3. Lineage[b] = {b} \cup Lineage[Parent[b]]
        BY <1>4, LineageFacts
      <3> QED BY <3>1, <3>2, <3>3 DEF ActiveWithin
    <2>2. CASE JobMode(s) = "side"
      BY <1>1, <1>2, <2>2 DEF InChainOrder, Base, NeedsReorganize
    <2> QED BY <1>4, <2>1, <2>2
  <1>6. JobBlock(s)' = b /\ JobMode(s)' = JobMode(s)
    BY <1>1, <1>3 DEF JobBlock, JobMode
  <1>7. (Heaviest(top) /\ ~MoreWorkThan(b, top) /\ ActiveWithin(Lineage[top]) /\ FoundBut(b))'
    BY <1>1, <1>2, <1>5, <1>6
       DEF InChainOrder, Heaviest, MoreWorkThan, ActiveWithin, FoundBut, Stored, Active,
           AllFindable, Findable
  <1>8. TxsOf[b] \subseteq currentBatch'.txs
    BY <1>1 DEF PushTransactions, EmptyBatch
  <1>9. wrapper[job[s].bw].active => top = b
    BY <1>2, <1>4 DEF InChain
  <1>10. JobMode(s) = "main" \/ ~RaisesChainHeight(b, wrapper[job[s].bw].active)
    BY <1>4 DEF RaisesChainHeight
  <1>11. SavingOrder(s)'
    BY <1>1, <1>3, <1>6, <1>7, <1>8, <1>9, <1>10 DEF SavingOrder, RaisesChainHeight
  <1> QED BY <1>3, <1>11 DEF SlotOrder, OrderOK, Busy, ReorgPlaces

LEMMA ReorganizeOrder ==
  ASSUME IInv, NEW s \in Slots, SlotWait(s), SlotOrder(s), Reorganize(s)
  PROVE  SlotOrder(s)'
  <1>1. /\ job[s].pc = "verifyBlock" /\ NeedsReorganize(s)
        /\ UNCHANGED <<dbBlock, dbTx, recentTx, top>>
    BY DEF Reorganize, At, diskVars
  <1>2. InChainOrder(s) /\ job[s].on = <<>>
    BY <1>1 DEF SlotWait, JobOK, Unused, SlotOrder, OrderOK
  <1>3. /\ job'[s].pc = "findFork" /\ job'[s].block = job[s].block
        /\ job'[s].new = JobBlock(s) /\ job'[s].on = <<>>
    BY <1>2, JobBlockType DEF Reorganize, IInv, TypeOK, JobType
  <1>4. InOrder
    BY <1>1, <1>2 DEF InChainOrder, InOrder, Base, NeedsReorganize
  <1>5. InOrder'
    BY <1>1, <1>4, SameOrderKept DEF SameOrder
  <1>6. ForkingOrder(s)'
    BY <1>1, <1>3, <1>5 DEF ForkingOrder, NeedsReorganize, MoreWorkThan, JobBlock
  <1> QED BY <1>3, <1>6 DEF SlotOrder, OrderOK, Busy, ReorgPlaces

LEMMA RejectOrder ==
  ASSUME IInv, NEW s \in Slots, SlotWait(s), SlotOrder(s), Reject(s)
  PROVE  SlotOrder(s)'
  <1>1. /\ job[s].pc \in {"verifyChild", "verifyBlock"} /\ EndJob(s)
        /\ top' = Rollback(s)
        /\ UNCHANGED <<dbBlock, dbTx, recentTx>>
    BY DEF Reject, FinalizeError, storageVars, diskVars
  <1>2. /\ Heaviest(top') /\ ActiveWithin(Lineage[top'])
        /\ \A x \in AllBlocks : Stored(x) => AllFindable(x)
    <2>1. CASE job[s].pc = "verifyChild"
      <3>1. InOrder /\ Verifying(s)
        BY <2>1 DEF SlotWait, JobOK, SlotOrder, OrderOK
      <3>2. top' = top
        BY <1>1, <3>1 DEF Verifying, Rollback
      <3> QED BY <3>1, <3>2 DEF InOrder
    <2>2. CASE job[s].pc = "verifyBlock"
      <3>1. InChainOrder(s)
        BY <2>2 DEF SlotOrder, OrderOK
      <3>2. top' = Base(s)
        BY <1>1 DEF Base, Rollback
      <3> QED BY <3>1, <3>2 DEF InChainOrder
    <2> QED BY <1>1, <2>1, <2>2
  <1>3. InOrder'
    BY <1>1, <1>2
       DEF InOrder, Heaviest, ActiveWithin, Stored, Active, AllFindable, Findable
  <1> QED BY <1>1, <1>3, EndJobIdle, IdleOrder DEF IInv

-----------------------------------------------------------------------------
(* reorganize.                                                               *)

LEMMA AppendHead ==
  ASSUME NEW S, NEW seq \in Seq(S), NEW x \in S
  PROVE  /\ Append(seq, x) # <<>>
         /\ Head(Append(seq, x)) = IF seq = <<>> THEN x ELSE Head(seq)
  <1>1. /\ Append(seq, x) \in Seq(S) /\ Len(Append(seq, x)) = Len(seq) + 1
        /\ Append(seq, x)[Len(seq) + 1] = x
        /\ \A i \in 1 .. Len(seq) : Append(seq, x)[i] = seq[i]
    OBVIOUS
  <1>2. Append(seq, x) # <<>> /\ Head(Append(seq, x)) = Append(seq, x)[1]
    BY <1>1
  <1>3. CASE seq = <<>>
    BY <1>1, <1>2, <1>3
  <1>4. CASE seq # <<>>
    <2>1. Len(seq) \in Nat /\ Len(seq) >= 1 /\ Head(seq) = seq[1]
      BY <1>4
    <2> QED BY <1>1, <1>2, <1>4, <2>1
  <1> QED BY <1>3, <1>4

(* The block heads the blocks to connect: when the cursors meet without the  *)
(* new one having moved, the block was stored, and so no heavier than the    *)
(* top.                                                                      *)
LEMMA FindForkOrder ==
  ASSUME IInv, NEW s \in Slots, SlotWait(s), SlotOrder(s), FindFork(s)
  PROVE  SlotOrder(s)'
  <1> DEFINE at == Cursor(s)
             p  == Parent[at]
             b  == JobBlock(s)
             moved == IF OldIsHigher(s)
                      THEN [job[s] EXCEPT !.old = p, !.off = Append(@, at)]
                      ELSE [job[s] EXCEPT !.new = p, !.on = Append(@, at)]
  <1>1. job[s].pc = "findFork" /\ UNCHANGED <<dbBlock, dbTx, recentTx, top>>
    BY DEF FindFork, At, storageVars, diskVars
  <1>2. Forking(s) /\ ParentsStored /\ ForkingOrder(s)
    BY <1>1 DEF SlotWait, JobOK, SlotOrder, OrderOK
  <1>3. at \in Blocks /\ at \in AllBlocks /\ Stored(p) /\ p \in AllBlocks
    BY <1>2, ForkFound, TreeFacts
  <1>4. job' = [job EXCEPT ![s] = IF moved.old = moved.new
                                  THEN [moved EXCEPT !.pc = "reorgTxs"] ELSE moved]
    BY <1>3 DEF FindFork
  <1>5. /\ job[s] \in JobType /\ job[s].off \in Seq(AllBlocks) /\ job[s].on \in Seq(AllBlocks)
        /\ b \in AllBlocks /\ job[s].off \in Seq(AllBlocks)
    BY JobBlockType, TreeFacts DEF IInv
  <1>6. /\ moved.block = b /\ moved.pc = "findFork"
        /\ OldIsHigher(s) => /\ moved.old = p /\ moved.new = job[s].new
                             /\ moved.off = Append(job[s].off, at) /\ moved.on = job[s].on
        /\ ~OldIsHigher(s) => /\ moved.old = job[s].old /\ moved.new = p
                              /\ moved.off = job[s].off /\ moved.on = Append(job[s].on, at)
    BY <1>1, <1>5 DEF JobType, JobBlock
  <1>7. moved \in JobType
    <2>1. Append(job[s].off, at) \in Seq(AllBlocks) /\ Append(job[s].on, at) \in Seq(AllBlocks)
      BY <1>3, <1>5
    <2> QED BY <1>3, <1>5, <2>1 DEF JobType
  <1> HIDE DEF moved
  <1>8. /\ job'[s].pc = IF moved.old = moved.new THEN "reorgTxs" ELSE "findFork"
        /\ job'[s].block = b
        /\ job'[s].new = moved.new
        /\ job'[s].off = moved.off /\ job'[s].on = moved.on
    BY <1>4, <1>6, <1>7 DEF IInv, TypeOK, JobType
  <1>9. JobBlock(s)' = b
    BY <1>8 DEF JobBlock
  <1>10. /\ OldIsHigher(s) => at = job[s].old
         /\ ~OldIsHigher(s) => at = job[s].new
    BY DEF Cursor
  <1> HIDE DEF at, p, b
  <1>11. IF moved.on = <<>> THEN moved.new = b ELSE Head(moved.on) = b
    <2>1. IF job[s].on = <<>> THEN job[s].new = b ELSE Head(job[s].on) = b
      BY <1>2 DEF ForkingOrder, b
    <2>2. CASE OldIsHigher(s)
      BY <1>6, <2>1, <2>2
    <2>3. CASE ~OldIsHigher(s)
      <3>1. /\ moved.on # <<>>
            /\ Head(moved.on) = IF job[s].on = <<>> THEN at ELSE Head(job[s].on)
        BY <1>3, <1>5, <1>6, <2>3, AppendHead
      <3> QED BY <1>10, <2>1, <2>3, <3>1
    <2> QED BY <2>2, <2>3
  <1>12. (InOrder /\ MoreWorkThan(b, top))'
    <2>1. InOrder'
      BY <1>1, <1>2, SameOrderKept DEF SameOrder, ForkingOrder
    <2>2. MoreWorkThan(b, top')
      BY <1>1, <1>2 DEF ForkingOrder, b, MoreWorkThan
    <2> QED BY <1>9, <2>1, <2>2 DEF MoreWorkThan, b
  <1>13. CASE moved.old # moved.new
    <2>1. ForkingOrder(s)'
      BY <1>8, <1>9, <1>11, <1>12 DEF ForkingOrder, b
    <2> QED BY <1>8, <1>13, <2>1 DEF SlotOrder, OrderOK, Busy, ReorgPlaces
  <1>14. CASE moved.old = moved.new
    <2>1. Stored(moved.old)
      BY <1>2, <1>3, <1>6 DEF Forking
    <2>2. ~Stored(b)
      BY <1>2, <1>5 DEF ForkingOrder, InOrder, Heaviest, b
    <2>3. moved.on # <<>> /\ Head(moved.on) = b
      BY <1>11, <1>14, <2>1, <2>2
    <2>4. Lineage[top] \subseteq RangeOf(moved.off) \cup Lineage[b]
      <3>1. Lineage[at] = {at} \cup Lineage[p]
        BY <1>3, LineageFacts DEF p
      <3>2. OldIsHigher(s) => RangeOf(moved.off) = RangeOf(job[s].off) \cup {at}
        <4>1. RangeOf(Append(job[s].off, at)) = RangeOf(job[s].off) \cup {at}
          BY <1>3, <1>5, RangeFacts
        <4> QED BY <1>6, <4>1
      <3>3. /\ Lineage[top] \subseteq RangeOf(job[s].off) \cup Lineage[job[s].old]
            /\ Lineage[job[s].new] \subseteq Lineage[b]
        BY <1>2 DEF Forking, b
      <3> QED BY <1>6, <1>10, <1>14, <3>1, <3>2, <3>3
    <2>5. StillActive(s)' = RangeOf(moved.off)
      BY <1>8, <1>14 DEF StillActive, RangeOf
    <2>6. ActiveWithin(StillActive(s) \cup Lineage[JobBlock(s)])'
      <3>1. \A x \in AllBlocks : dbBlock[x] = "active" => x \in RangeOf(moved.off) \cup Lineage[b]
        BY <1>2, <2>4 DEF ForkingOrder, InOrder, ActiveWithin, Active
      <3> QED BY <1>1, <1>9, <2>5, <3>1 DEF ActiveWithin, Active
    <2>7. ReorgOrder(s)'
      BY <1>1, <1>8, <1>9, <1>12, <1>14, <2>3, <2>4, <2>5, <2>6
         DEF ReorgOrder, InOrder, Heaviest, FoundBut, ActiveWithin, b
    <2> QED BY <1>8, <1>14, <2>7 DEF SlotOrder, OrderOK, Busy, ReorgPlaces
  <1> QED BY <1>13, <1>14

(* A step of the reorganisation that leaves the records as they are.         *)
LEMMA ReorgOrderFrame ==
  ASSUME NEW s \in Slots, ReorgOrder(s),
         UNCHANGED <<dbBlock, dbTx, recentTx, top, chainHeight>>,
         job'[s].block = job[s].block, job'[s].off = job[s].off, job'[s].on = job[s].on,
         StillActive(s)' = StillActive(s),
         job'[s].pc \in {"reorgTxs", "reorgAffects", "reorgPut"}
  PROVE  SlotOrder(s)'
  <1>1. ReorgOrder(s)'
    BY DEF ReorgOrder, JobBlock, MoreWorkThan, ActiveWithin, FoundBut, Active, Stored,
           AllFindable, Findable
  <1> QED BY <1>1 DEF SlotOrder, OrderOK, Busy, ReorgPlaces

LEMMA ReorgTxsOrder ==
  ASSUME IInv, NEW s \in Slots, SlotOrder(s),
         DisconnectTransactions(s) \/ ReconnectTransactions(s)
  PROVE  SlotOrder(s)'
  <1>1. /\ job[s].pc \in {"reorgTxs", "reorgAffects"}
        /\ UNCHANGED <<dbBlock, dbTx, recentTx, top, chainHeight>>
    BY DEF DisconnectTransactions, ReconnectTransactions, At, diskVars
  <1>2. ReorgOrder(s)
    BY <1>1 DEF SlotOrder, OrderOK, ReorgPlaces
  <1>3. \/ Goto(s, "reorgPut")
        \/ \E txs, left :
             job' = [job EXCEPT ![s].pc = "reorgAffects", ![s].txs = txs, ![s].left = left]
    BY DEF DisconnectTransactions, ReconnectTransactions, Announce
  <1>4. /\ job'[s].pc \in {"reorgPut", "reorgAffects"}
        /\ job'[s].block = job[s].block
        /\ job'[s].off = job[s].off /\ job'[s].on = job[s].on
    <2>1. CASE Goto(s, "reorgPut")
      BY <2>1, GotoJob DEF IInv
    <2>2. ASSUME NEW txs, NEW left,
                 job' = [job EXCEPT ![s].pc = "reorgAffects", ![s].txs = txs, ![s].left = left]
          PROVE  /\ job'[s].pc = "reorgAffects"
                 /\ job'[s].block = job[s].block
                 /\ job'[s].off = job[s].off /\ job'[s].on = job[s].on
      BY <2>2, JobBlockType DEF IInv, TypeOK, JobType
    <2> QED BY <1>3, <2>1, <2>2
  <1>5. StillActive(s)' = StillActive(s)
    BY <1>1, <1>4 DEF StillActive, Disconnecting
  <1> QED BY <1>1, <1>2, <1>4, <1>5, ReorgOrderFrame

LEMMA ReorgPutOrder ==
  ASSUME IInv, NEW s \in Slots, SlotWait(s), SlotOrder(s), ReorgPut(s)
  PROVE  SlotOrder(s)'
  <1> DEFINE b == JobBlock(s)
             r == ReorgBlock(s)
  <1>1. /\ job[s].pc = "reorgPut" /\ Goto(s, "reorgHeight")
        /\ PutBlock(r, ReorgFlag(s))
        /\ UNCHANGED <<dbTx, top, recentTx, chainHeight>>
    BY DEF ReorgPut, At
  <1>2. Reorging(s) /\ ReorgOrder(s)
    BY <1>1 DEF SlotWait, JobOK, SlotOrder, OrderOK, ReorgPlaces
  <1>3. /\ r \in Blocks /\ Stored(Parent[r])
        /\ Stored(r) \/ r = b
        /\ Disconnecting(s) => RangeOf(job[s].off) = {r} \cup RangeOf(Tail(job[s].off))
        /\ ~Disconnecting(s) => RangeOf(job[s].off) = {} /\ r \in Lineage[b]
    BY <1>1, <1>2, ReorgBlockFacts DEF Reorging, ReorgPlaces
  <1>4. /\ \A x \in AllBlocks : dbBlock'[x] # "none" <=> Stored(x) \/ x = r
        /\ \A x \in AllBlocks \ {r} : dbBlock'[x] = dbBlock[x]
        /\ dbBlock'[r] = IF ~Disconnecting(s) THEN "active" ELSE "inactive"
    <2> HIDE DEF r
    <2>1. PutBlock(r, ReorgFlag(s)) /\ ParentsStored
      BY <1>1 DEF SlotWait
    <2> QED BY <1>3, <2>1, PutRecord DEF ReorgFlag, Stored
  <1>5. /\ job'[s].pc = "reorgHeight" /\ job'[s].block = job[s].block
        /\ job'[s].off = job[s].off /\ job'[s].on = job[s].on
    BY <1>1, GotoJob DEF IInv
  <1>6. JobBlock(s)' = b
    BY <1>5 DEF JobBlock
  <1>7. StillActive(s)' = IF Disconnecting(s) THEN RangeOf(Tail(job[s].off)) ELSE RangeOf(job[s].off)
    BY <1>5 DEF StillActive, Disconnecting
  <1>8. ActiveWithin(RangeOf(job[s].off) \cup Lineage[b])
    BY <1>1, <1>2 DEF ReorgOrder, StillActive
  <1> HIDE DEF b, r
  <1>9. \A x \in AllBlocks : dbBlock'[x] = "active" => x \in StillActive(s)' \cup Lineage[b]
    <2>1. CASE Disconnecting(s)
      BY <1>3, <1>4, <1>7, <1>8, <2>1 DEF ActiveWithin, Active
    <2>2. CASE ~Disconnecting(s)
      BY <1>3, <1>4, <1>7, <1>8, <2>2 DEF ActiveWithin, Active
    <2> QED BY <2>1, <2>2
  <1>10. ActiveWithin(StillActive(s) \cup Lineage[JobBlock(s)])'
    BY <1>6, <1>9 DEF ActiveWithin, Active
  <1>11. \A x \in AllBlocks : dbBlock'[x] # "none" => Stored(x) \/ x = b
    BY <1>3, <1>4
  <1>12. FoundBut(JobBlock(s))'
    BY <1>1, <1>2, <1>6, <1>11 DEF ReorgOrder, FoundBut, Stored, AllFindable, Findable, b
  <1>13. (\A x \in AllBlocks : Stored(x) => x = JobBlock(s) \/ ~MoreWorkThan(x, top))'
    BY <1>1, <1>2, <1>6, <1>11 DEF ReorgOrder, MoreWorkThan, Stored, b
  <1>14. ReorgOrder(s)'
    BY <1>1, <1>2, <1>5, <1>6, <1>10, <1>12, <1>13 DEF ReorgOrder, MoreWorkThan, b
  <1> QED BY <1>5, <1>14 DEF SlotOrder, OrderOK, Busy, ReorgPlaces

(* The first block connected is the block itself, and it raises the height.  *)
LEMMA ReorgHeightOrder ==
  ASSUME IInv, NEW s \in Slots, SlotOrder(s), ReorgHeight(s)
  PROVE  SlotOrder(s)'
  <1> DEFINE b == JobBlock(s)
  <1>1. /\ job[s].pc = "reorgHeight"
        /\ SaveRest(s, ReorgBlock(s), ReorgFlag(s), "reorgIdx")
        /\ UNCHANGED <<dbBlock, dbTx, top, recentTx>>
    BY DEF ReorgHeight, At
  <1>2. ReorgOrder(s)
    BY <1>1 DEF SlotOrder, OrderOK, ReorgPlaces
  <1>3. /\ job'[s].pc = "reorgIdx" /\ job'[s].block = b
        /\ job'[s].off = job[s].off /\ job'[s].on = job[s].on
    BY <1>1, SaveRestJob DEF IInv, JobBlock
  <1>4. chainHeight \in Nat /\ Height[b] \in Nat /\ b \in AllBlocks
    BY JobBlockType, TreeFacts, BranchFacts DEF IInv, TypeOK, StorageTypeOK
  <1>5. chainHeight' = IF ~Disconnecting(s) /\ chainHeight < Height[ReorgBlock(s)]
                       THEN Height[ReorgBlock(s)] ELSE chainHeight
    BY <1>1 DEF SaveRest, RaisesChainHeight, ReorgFlag
  <1>6. JobBlock(s)' = b /\ StillActive(s)' = StillActive(s) /\ Disconnecting(s)' = Disconnecting(s)
    BY <1>1, <1>3 DEF JobBlock, StillActive, Disconnecting
  <1> HIDE DEF b
  <1>7. \/ chainHeight' >= Height[b]
        \/ job[s].on # <<>> /\ Head(job[s].on) = b /\ Disconnecting(s)
    <2>1. CASE chainHeight >= Height[b]
      <3>1. ReorgBlock(s) \in AllBlocks => Height[ReorgBlock(s)] \in Nat
        BY BranchFacts
      <3>2. ReorgBlock(s) \in AllBlocks
        BY <1>1, ReorgBlockType DEF IInv, ReorgPlaces
      <3> QED BY <1>4, <1>5, <2>1, <3>1, <3>2
    <2>2. CASE ~(chainHeight >= Height[b])
      <3>1. job[s].on # <<>> /\ Head(job[s].on) = b
        BY <1>2, <2>2 DEF ReorgOrder, b
      <3>2. CASE ~Disconnecting(s)
        <4>1. ReorgBlock(s) = b
          BY <3>1, <3>2 DEF ReorgBlock
        <4> QED BY <1>4, <1>5, <2>2, <3>2, <4>1
      <3> QED BY <3>1, <3>2
    <2> QED BY <2>1, <2>2
  <1>8. ReorgOrder(s)'
    BY <1>1, <1>2, <1>3, <1>6, <1>7
       DEF ReorgOrder, MoreWorkThan, ActiveWithin, FoundBut, Active, Stored, AllFindable,
           Findable, b
  <1> QED BY <1>3, <1>8 DEF SlotOrder, OrderOK, Busy, ReorgPlaces

LEMMA ReorgSavedOrder ==
  ASSUME IInv, NEW s \in Slots, SlotWait(s), SlotOrder(s), NEW op, ReorgSaved(s, op)
  PROVE  SlotOrder(s)'
  <1> DEFINE b == JobBlock(s)
             off == IF Disconnecting(s) THEN Tail(job[s].off) ELSE job[s].off
             on  == IF Disconnecting(s) THEN job[s].on ELSE Tail(job[s].on)
             last == off = <<>> /\ on = <<>>
  <1>1. /\ job[s].pc = "reorgIdx" /\ NextReorgStep(s, job[s].io \ {op})
        /\ UNCHANGED <<dbBlock, dbTx, recentTx, chainHeight>>
        /\ top' = IF last THEN b ELSE top
        /\ wrapper' = IF last THEN [wrapper EXCEPT ![job[s].bw].active = TRUE] ELSE wrapper
        /\ currentBatch' = IF last THEN PushTransactions(currentBatch, TxsOf[b]) ELSE currentBatch
    BY DEF ReorgSaved, At, NextReorgStep
  <1>2. Reorging(s) /\ ReorgOrder(s) /\ job[s].bw \in Wrappers /\ job[s].pc \in ReorgPlaces
    BY <1>1 DEF SlotWait, JobOK, SlotOrder, OrderOK, ReorgPlaces, IInv, SlotOK, Busy
  <1>3. /\ job'[s].pc = IF last THEN "put" ELSE "reorgTxs"
        /\ job'[s].bw = job[s].bw /\ job'[s].block = b
        /\ job'[s].off = off /\ job'[s].on = on
    BY <1>1, <1>2, NextReorgStepJob DEF JobBlock
  <1>4. JobBlock(s)' = b
    BY <1>3 DEF JobBlock
  <1>5. b \in AllBlocks /\ \A x \in AllBlocks : ChainWork[x] \in Nat
    BY JobBlockType, TreeFacts, BranchFacts DEF IInv
  <1>6. ActiveWithin(RangeOf(off) \cup Lineage[b])
    BY <1>1, <1>2 DEF ReorgOrder, StillActive
  <1>7. \/ chainHeight >= Height[b]
        \/ on # <<>> /\ Head(on) = b
    BY <1>1, <1>2 DEF ReorgOrder
  <1>8. CASE ~last
    <2> HIDE DEF off, on
    <2>1. StillActive(s)' = RangeOf(off)
      BY <1>3, <1>8 DEF StillActive
    <2>2. ReorgOrder(s)'
      BY <1>1, <1>2, <1>3, <1>4, <1>6, <1>7, <1>8, <2>1
         DEF ReorgOrder, MoreWorkThan, ActiveWithin, FoundBut, Active, Stored, AllFindable, Findable
    <2> QED BY <1>3, <1>8, <2>2 DEF SlotOrder, OrderOK, Busy, ReorgPlaces
  <1>9. CASE last
    <2>1. RangeOf(off) = {}
      BY <1>9 DEF RangeOf
    <2> HIDE DEF off, on, b
    <2>2. JobMode(s)' = "side"
      BY <1>1, <1>2, <1>3, <1>9 DEF Reorging, JobMode, IInv, TypeOK, WrapperType
    <2>3. (Heaviest(top) /\ ~MoreWorkThan(JobBlock(s), top))'
      <3>1. \A x \in AllBlocks : Stored(x) => x = b \/ ~MoreWorkThan(x, top)
        BY <1>2 DEF ReorgOrder, b
      <3>2. MoreWorkThan(b, top) /\ top \in AllBlocks
        BY <1>2 DEF ReorgOrder, IInv, TypeOK, b
      <3>3. \A x \in AllBlocks : Stored(x) => ~MoreWorkThan(x, b)
        BY <1>5, <3>1, <3>2 DEF MoreWorkThan
      <3> QED BY <1>1, <1>4, <1>5, <1>9, <3>3 DEF Heaviest, MoreWorkThan, Stored
    <2>4. ActiveWithin(Lineage[top])'
      BY <1>1, <1>6, <1>9, <2>1 DEF ActiveWithin, Active
    <2>5. FoundBut(JobBlock(s))'
      BY <1>1, <1>2, <1>4 DEF ReorgOrder, FoundBut, Stored, AllFindable, Findable, b
    <2>6. TxsOf[b] \subseteq currentBatch'.txs
      BY <1>1, <1>9 DEF PushTransactions, IInv, TypeOK, StorageTypeOK, Batches
    <2>7. chainHeight' >= Height[b]
      BY <1>1, <1>7, <1>9
    <2>8. (JobMode(s) = "main" \/ ~RaisesChainHeight(JobBlock(s), wrapper[job[s].bw].active))'
      <3>1. chainHeight' \in Nat /\ Height[b] \in Nat
        BY <1>1, <1>5, BranchFacts, TreeFacts DEF IInv, TypeOK, StorageTypeOK
      <3> QED BY <1>4, <2>7, <3>1 DEF RaisesChainHeight
    <2>9. SavingOrder(s)'
      BY <1>1, <1>4, <1>9, <2>2, <2>3, <2>4, <2>5, <2>6, <2>8 DEF SavingOrder
    <2> QED BY <1>3, <1>9, <2>9 DEF SlotOrder, OrderOK, Busy, ReorgPlaces
  <1> QED BY <1>8, <1>9, SMTT(60)

-----------------------------------------------------------------------------
(* saveBlockStep and the tail.                                               *)

LEMMA PutOrder ==
  ASSUME IInv, NEW s \in Slots, SlotWait(s), SlotOrder(s), Put(s)
  PROVE  SlotOrder(s)'
  <1> DEFINE b == JobBlock(s)
             active == wrapper[job[s].bw].active
  <1>1. /\ job[s].pc = "put" /\ Goto(s, "height")
        /\ PutBlock(b, active)
        /\ UNCHANGED <<dbTx, top, recentTx, wrapper, chainHeight, currentBatch>>
    BY DEF Put, At
  <1>2. Saving(s) /\ SavingOrder(s)
    BY <1>1 DEF SlotWait, JobOK, SlotOrder, OrderOK
  <1>3. b \in Blocks /\ b \in AllBlocks /\ Stored(Parent[b]) /\ ParentsStored
    BY <1>2, JobBlockType, TreeFacts DEF IInv, SlotWait, Saving, Placed
  <1>4. /\ \A x \in AllBlocks : dbBlock'[x] # "none" <=> Stored(x) \/ x = b
        /\ \A x \in AllBlocks \ {b} : dbBlock'[x] = dbBlock[x]
        /\ dbBlock'[b] = IF active THEN "active" ELSE "inactive"
    <2> HIDE DEF b, active
    <2> QED BY <1>1, <1>3, PutRecord DEF Stored
  <1>5. /\ job'[s].pc = "height" /\ job'[s].bw = job[s].bw /\ job'[s].block = job[s].block
    BY <1>1, GotoJob DEF IInv
  <1>6. JobBlock(s)' = b /\ JobMode(s)' = JobMode(s)
    BY <1>1, <1>5 DEF JobBlock, JobMode
  <1>7. Lineage[b] = {b} \cup Lineage[Parent[b]]
    BY <1>3, LineageFacts
  <1> HIDE DEF b
  <1>8. Heaviest(top)' /\ ~MoreWorkThan(b, top')
    BY <1>1, <1>2, <1>4 DEF SavingOrder, Heaviest, Stored, MoreWorkThan, b
  <1>9. ActiveWithin(Lineage[top])'
    BY <1>1, <1>2, <1>4, <1>7 DEF SavingOrder, ActiveWithin, Active, b
  <1>10. FoundBut(JobBlock(s))'
    BY <1>1, <1>2, <1>4, <1>6 DEF SavingOrder, FoundBut, Stored, AllFindable, Findable, b
  <1>11. SavingOrder(s)'
    BY <1>1, <1>2, <1>5, <1>6, <1>8, <1>9, <1>10 DEF SavingOrder, RaisesChainHeight, MoreWorkThan, b
  <1> QED BY <1>5, <1>11 DEF SlotOrder, OrderOK, Busy, ReorgPlaces

LEMMA PutHeightKeyOrder ==
  ASSUME IInv, NEW s \in Slots, SlotWait(s), SlotOrder(s), PutHeightKey(s)
  PROVE  SlotOrder(s)'
  <1>1. /\ job[s].pc = "height"
        /\ SaveRest(s, JobBlock(s), wrapper[job[s].bw].active, "tail")
        /\ UNCHANGED <<dbBlock, dbTx, top, recentTx, wrapper, currentBatch>>
    BY DEF PutHeightKey, At
  <1>2. /\ Saved(s) /\ SavingOrder(s) /\ job[s].step = "connectTransactions"
    BY <1>1 DEF SlotWait, JobOK, Unused, SlotOrder, OrderOK
  <1>3. /\ job'[s].pc = "tail" /\ job'[s].bw = job[s].bw /\ job'[s].block = job[s].block
        /\ job'[s].step = "connectTransactions"
        /\ job'[s].io = IF RaisesChainHeight(JobBlock(s), wrapper[job[s].bw].active)
                        THEN {"meta", "idx"} ELSE {"idx"}
    BY <1>1, <1>2, SaveRestJob DEF IInv
  <1>4. JobBlock(s)' = JobBlock(s) /\ JobMode(s)' = JobMode(s)
    BY <1>1, <1>3 DEF JobBlock, JobMode
  <1>5. (Heaviest(top) /\ ActiveWithin(Lineage[top]) /\ FoundBut(JobBlock(s)))'
    BY <1>1, <1>2, <1>4 DEF SavingOrder, Heaviest, MoreWorkThan, ActiveWithin, FoundBut, Stored,
                            Active, AllFindable, Findable
  <1>6. JobMode(s) \in {"main", "side"}
    BY <1>2 DEF Saved
  <1>7. JobMode(s) = "side" => job'[s].io = {"idx"}
    BY <1>2, <1>3 DEF SavingOrder
  <1>8. TailOrder(s)'
    BY <1>1, <1>2, <1>3, <1>4, <1>5, <1>6, <1>7 DEF TailOrder, SavingOrder
  <1> QED BY <1>3, <1>8 DEF SlotOrder, OrderOK, Busy, ReorgPlaces

(* The batch of a side chain block is the last operation its tail waits for; *)
(* the transactions of a main chain block are in recentTxIndex by then.      *)
LEMMA CompletesOrder ==
  ASSUME IInv, NEW s \in Slots, SlotOrder(s), NEW op, NEW step, Completes(s, op, step),
         UNCHANGED top, recentTx \subseteq recentTx'
  PROVE  /\ SameOrder /\ TailOrder(s) /\ job[s].step = step /\ op \in job[s].io
         /\ op = "batch" => job[s].out.txs \subseteq dbTx'
  <1>1. /\ job[s].pc = "tail" /\ job[s].step = step /\ op \in job[s].io
        /\ UNCHANGED dbBlock /\ dbTx \subseteq dbTx'
        /\ op = "batch" => job[s].out.txs \subseteq dbTx'
    BY DEF Completes, At, ApplyBatch
  <1> QED BY <1>1 DEF SameOrder, SlotOrder, OrderOK

(* ... so when the last step runs every transaction of the block is found.   *)
LEMMA TailKept ==
  ASSUME IInv, NEW s \in Slots, SameOrder, TailOrder(s)
  PROVE  /\ Heaviest(top)' /\ ActiveWithin(Lineage[top])'
         /\ \A x \in AllBlocks : Stored(x)' => x = JobBlock(s) \/ AllFindable(x)'
         /\ AllFindable(JobBlock(s)) => \A t \in TxsOf[JobBlock(s)] : Findable(t)'
  BY SameOrderKept DEF TailOrder, SameOrder, Heaviest, MoreWorkThan, ActiveWithin, FoundBut,
                       AllFindable

LEMMA TailConnectOrder ==
  ASSUME IInv, NEW s \in Slots, SlotOrder(s), NEW op, TailConnect(s, op)
  PROVE  SlotOrder(s)'
  <1> DEFINE b   == JobBlock(s)
             io  == job[s].io \ {op}
  <1>1. /\ Completes(s, op, "connectTransactions")
        /\ UNCHANGED <<top, wrapper>> /\ recentTx \subseteq recentTx'
        /\ IF JobMode(s) = "main"
           THEN /\ recentTx' = recentTx \cup TxsOf[b]
                /\ job' = [job EXCEPT ![s].io = io \cup {"affects"}, ![s].step = "endTransaction"]
           ELSE EndTransaction(s, io, currentBatch)
    BY DEF TailConnect
  <1>2. /\ SameOrder /\ TailOrder(s)
        /\ job[s].step = "connectTransactions" /\ op \in job[s].io
    BY <1>1, CompletesOrder
  <1>3. /\ job'[s].pc = "tail" /\ job'[s].bw = job[s].bw /\ job'[s].block = b
        /\ JobMode(s) # "main" => /\ job'[s].io = io \cup {"batch"}
                                  /\ job'[s].out = currentBatch
                                  /\ job'[s].step = "queueDependents"
    BY <1>1, JobBlockType, SMTT(60) DEF Completes, At, EndTransaction, IInv, TypeOK, JobType, JobBlock
  <1>4. JobBlock(s)' = b /\ JobMode(s)' = JobMode(s)
    BY <1>1, <1>3 DEF JobBlock, JobMode
  <1>5. /\ Heaviest(top)' /\ ActiveWithin(Lineage[top])' /\ FoundBut(JobBlock(s))'
    BY <1>2, <1>4, TailKept DEF FoundBut
  <1>6. \/ AllFindable(b)'
        \/ /\ JobMode(s) = "side" /\ job'[s].step = "queueDependents" /\ job'[s].io = {"batch"}
           /\ TxsOf[b] \subseteq job'[s].out.txs
    <2>1. CASE AllFindable(b)
      <3>1. \A t \in TxsOf[b] : Findable(t)'
        BY <1>2, <2>1, TailKept
      <3> QED BY <1>4, <3>1 DEF AllFindable
    <2>2. CASE JobMode(s) = "main"
      <3>1. \A t \in TxsOf[b] : t \in recentTx'
        BY <1>1, <2>2
      <3> QED BY <1>4, <3>1 DEF AllFindable, Findable
    <2>3. CASE /\ JobMode(s) = "side" /\ job[s].io = {"idx"}
               /\ TxsOf[b] \subseteq currentBatch.txs
      BY <1>2, <1>3, <2>3
    <2> QED BY <1>2, <2>1, <2>2, <2>3 DEF TailOrder
  <1>7. TailOrder(s)'
    BY <1>4, <1>5, <1>6 DEF TailOrder
  <1> QED BY <1>3, <1>7 DEF SlotOrder, OrderOK, Busy, ReorgPlaces

LEMMA TailEndOrder ==
  ASSUME IInv, NEW s \in Slots, SlotOrder(s), NEW op, TailEnd(s, op)
  PROVE  SlotOrder(s)'
  <1> DEFINE b == JobBlock(s)
  <1>1. /\ Completes(s, op, "endTransaction")
        /\ UNCHANGED <<top, wrapper, recentTx>>
        /\ EndTransaction(s, job[s].io \ {op}, currentBatch)
    BY DEF TailEnd
  <1>2. SameOrder /\ TailOrder(s) /\ job[s].step = "endTransaction"
    BY <1>1, CompletesOrder
  <1>3. job'[s].pc = "tail" /\ job'[s].bw = job[s].bw /\ job'[s].block = b
    BY <1>1, JobBlockType DEF Completes, At, EndTransaction, IInv, TypeOK, JobType, JobBlock
  <1>4. JobBlock(s)' = b
    BY <1>3 DEF JobBlock
  <1>5. /\ Heaviest(top)' /\ ActiveWithin(Lineage[top])' /\ FoundBut(JobBlock(s))'
    BY <1>2, <1>4, TailKept DEF FoundBut
  <1>6. AllFindable(b)'
    <2>1. AllFindable(b)
      BY <1>2 DEF TailOrder
    <2>2. \A t \in TxsOf[b] : Findable(t)'
      BY <1>2, <2>1, TailKept
    <2> QED BY <1>4, <2>2 DEF AllFindable
  <1>7. TailOrder(s)'
    BY <1>4, <1>5, <1>6 DEF TailOrder
  <1> QED BY <1>3, <1>7 DEF SlotOrder, OrderOK, Busy, ReorgPlaces

LEMMA TailFinalizeOrder ==
  ASSUME IInv, NEW s \in Slots, SlotOrder(s), NEW op, TailFinalize(s, op)
  PROVE  SlotOrder(s)'
  <1> DEFINE b == JobBlock(s)
  <1>1. /\ Completes(s, op, "queueDependents") /\ EndJob(s)
        /\ UNCHANGED <<top, wrapper, recentTx>>
    BY DEF TailFinalize
  <1>2. /\ SameOrder /\ TailOrder(s)
        /\ job[s].step = "queueDependents" /\ op \in job[s].io
        /\ op = "batch" => job[s].out.txs \subseteq dbTx'
    BY <1>1, CompletesOrder
  <1>3. \A t \in TxsOf[b] : Findable(t)'
    <2>1. CASE AllFindable(b)
      BY <1>2, <2>1, TailKept
    <2>2. CASE job[s].io = {"batch"} /\ TxsOf[b] \subseteq job[s].out.txs
      BY <1>2, <2>2 DEF Findable
    <2> QED BY <1>2, <2>1, <2>2 DEF TailOrder
  <1>4. /\ Heaviest(top)' /\ ActiveWithin(Lineage[top])'
        /\ \A x \in AllBlocks : Stored(x)' => x = b \/ AllFindable(x)'
    BY <1>2, TailKept
  <1> HIDE DEF b
  <1>5. InOrder'
    BY <1>3, <1>4 DEF InOrder, AllFindable, b
  <1> QED BY <1>1, <1>5, EndJobIdle, IdleOrder DEF IInv

LEMMA SlotOrderStep ==
  ASSUME MaxIoErrors = 0, IInv, NEW s \in Slots, SlotWait(s), SlotOrder(s),
         Advance(s) \/ Faulty(s)
  PROVE  SlotOrder(s)'
  <1>1. CASE Advance(s)
    BY <1>1, ConnectingOrder, DiscardOrder, VerifyChildOrder, VerifyBlockOrder, ReorganizeOrder,
       FindForkOrder, ReorgTxsOrder, ReorgPutOrder, ReorgHeightOrder, ReorgSavedOrder, PutOrder,
       PutHeightKeyOrder, TailConnectOrder, TailEndOrder, TailFinalizeOrder
    DEF Advance
  <1>2. CASE Faulty(s)
    <2>1. faults.io = 0
      BY DEF IInv, TypeOK
    <2>2. PipelineError(s) \/ FindForkError(s) \/ ReorgError(s) => faults.io > 0
      BY DEF PipelineError, FindForkError, ReorgError, IoErrorAllowed
    <2> QED BY <1>2, <2>1, <2>2, RejectOrder DEF Faulty
  <1> QED BY <1>1, <1>2

-----------------------------------------------------------------------------
(* The steps that find every slot free, and the invariant.                   *)

LEMMA ProcessBlockOrder ==
  ASSUME IInv, OrderInv, \A s \in Slots : ~Busy(s), SameOrder,
         NEW w \in Wrappers, NEW wr \in [Wrappers -> WrapperType], NEW q,
         ProcessBlock(w, wr, q)
  PROVE  OrderInv'
  <1>1. InOrder'
    BY SameOrderKept DEF OrderInv
  <1>2. ASSUME NEW r \in Slots, job'[r] = job[r]
        PROVE  OrderOK(r)'
    BY <1>2 DEF OrderOK, Busy, ReorgPlaces
  <1>3. CASE job' = job
    BY <1>1, <1>2, <1>3 DEF OrderInv
  <1>4. ASSUME NEW s \in Slots, OnlyJob(s), job'[s].pc \in {"verifyChild", "getPrev"}
        PROVE  OrderInv'
    <2>1. OrderOK(s)'
      BY <1>1, <1>4 DEF OrderOK, ReorgPlaces
    <2> QED BY <1>1, <1>2, <1>4, <2>1 DEF OrderInv, OnlyJob
  <1> QED BY <1>3, <1>4, ProcessBlockJob

(* A step that at most adds transactions to the database.                    *)
LEMMA OrderSame ==
  ASSUME OrderInv,
         UNCHANGED <<dbBlock, top, recentTx, chainHeight, currentBatch>>, SameJobs,
         dbTx \subseteq dbTx'
  PROVE  OrderInv'
  <1>1. \A t : Findable(t) => Findable(t)'
    BY DEF Findable
  <1>2. InOrder => InOrder'
    BY <1>1 DEF InOrder, Heaviest, ActiveWithin, AllFindable, Active, Stored
  <1>3. ASSUME NEW s \in Slots, OrderOK(s)
        PROVE  OrderOK(s)'
    <2>1. CASE ~Busy(s)
      BY <2>1 DEF OrderOK, SameJobs, Busy, ReorgPlaces
    <2>2. CASE Busy(s)
      <3>1. /\ job' = job /\ JobMode(s)' = JobMode(s)
            /\ wrapper'[job[s].bw].active = wrapper[job[s].bw].active
        BY <2>2 DEF SameJobs, JobMode
      <3> QED BY <1>1, <1>2, <1>3, <3>1
              DEF OrderOK, InOrder, InChainOrder, ForkingOrder, ReorgOrder, SavingOrder,
                  TailOrder, Base, StillActive, Disconnecting, Heaviest, ActiveWithin, FoundBut,
                  AllFindable, Active, Stored, MoreWorkThan, RaisesChainHeight, JobBlock
    <2> QED BY <2>1, <2>2
  <1> QED BY <1>2, <1>3 DEF OrderInv, SameJobs, Busy

LEMMA OrderStep ==
  ASSUME MaxIoErrors = 0, MaxCrashes = 0,
         AloneInv, OneAtATime', WaitInv, OrderInv, [Next]_vars
  PROVE  OrderInv'
  <1> USE DEF AloneInv
  <1>1. ASSUME NEW b \in Blocks, Add(b)
        PROVE  OrderInv'
    <2>1. UNCHANGED <<dbBlock, dbTx, top, recentTx, chainHeight, currentBatch>> /\ SameOrder
      BY <1>1 DEF Add, storageVars, diskVars, SameOrder
    <2> QED BY <1>1, <2>1, AddCases, OrderSame, ProcessBlockOrder
  <1>2. CASE NextTick
    <2>1. SameOrder
      BY <1>2 DEF NextTick, storageVars, diskVars, SameOrder
    <2> QED BY <1>2, <2>1, NextTickCases, ProcessBlockOrder
  <1>3. ASSUME NEW s \in Slots, Advance(s) \/ Faulty(s)
        PROVE  OrderInv'
    <2>1. Busy(s) /\ SlotWait(s) /\ SlotOrder(s)
      BY <1>3, SlotTick DEF WaitInv, SlotWait, OrderInv, SlotOrder
    <2>2. SlotOrder(s)' /\ OnlyJob(s)
      BY <1>3, <2>1, SlotOrderStep, AdvanceSlot, FaultySlot
    <2>3. ASSUME NEW r \in Slots, r # s
          PROVE  OrderOK(r)'
      <3>1. ~Busy(r) /\ job'[r] = job[r]
        BY <2>1, <2>2, <2>3 DEF OneAtATime, OnlyJob
      <3> QED BY <3>1 DEF OrderOK, Busy, ReorgPlaces
    <2> QED BY <2>2, <2>3 DEF SlotOrder, OrderInv
  <1>4. CASE LateWrite
    <2>1. /\ UNCHANGED <<dbBlock, top, recentTx, chainHeight, currentBatch>> /\ SameJobs
          /\ dbTx \subseteq dbTx'
      BY <1>4 DEF LateWrite, LateMeta, LateBatch, ApplyBatch, SameJobs
    <2> QED BY <2>1, OrderSame
  <1>5. ~Crash
    BY DEF Crash, IInv, TypeOK
  <1>6. CASE UNCHANGED vars
    BY <1>6, OrderSame DEF vars, storageVars, diskVars, chainVars, SameJobs
  <1> QED BY <1>1, <1>2, <1>3, <1>4, <1>5, <1>6 DEF Next

LEMMA InitOrder == Init => OrderInv
  <1> SUFFICES ASSUME Init PROVE OrderInv
    OBVIOUS
  <1>1. /\ dbBlock = [b \in AllBlocks |-> IF b = Genesis THEN "active" ELSE "none"]
        /\ top = Genesis /\ job = [s \in Slots |-> IdleJob]
    BY DEF Init, StorageInit
  <1>2. Heaviest(top)
    BY <1>1, TreeFacts, BranchFacts DEF Heaviest, Stored, MoreWorkThan
  <1>3. ActiveWithin(Lineage[top])
    BY <1>1, TreeFacts, LineageFacts DEF ActiveWithin, Active
  <1>4. InOrder
    BY <1>1, <1>2, <1>3, TxAssumption DEF InOrder, Stored, AllFindable
  <1> QED BY <1>1, <1>4 DEF OrderInv, OrderOK, IdleJob, ReorgPlaces

LEMMA OrderInvariance ==
  ASSUME MaxIoErrors = 0, MaxCrashes = 0
  PROVE  AloneSpec => [](AloneInv /\ WaitInv /\ OrderInv)
  <1>1. AloneInv /\ WaitInv /\ OrderInv /\ [AloneNext]_vars => OrderInv'
    BY AloneStep, OrderStep DEF AloneInv
  <1> QED BY <1>1, InitOrder, WaitInvariance, PTL DEF AloneSpec

(* A chain that is idle has everything in order.                             *)
LEMMA QuietOrder == OrderInv /\ Quiet => InOrder
  BY DEF OrderInv, Quiet

-----------------------------------------------------------------------------
(* Without overlap, whatever tree of blocks is offered, in whatever order,   *)
(* and whichever of them are refused, no stored block has more work than the *)
(* top of an idle chain: reorganizeStep and the rollback of finalizeStep     *)
(* leave none behind.                                                        *)
THEOREM TopAlwaysHeaviest ==
  ASSUME MaxIoErrors = 0, MaxCrashes = 0
  PROVE  AloneSpec => []TopIsHeaviest
  <1>1. OrderInv => TopIsHeaviest
    BY QuietOrder DEF InOrder, Heaviest, TopIsHeaviest
  <1> QED BY <1>1, OrderInvariance, PTL

(* Without overlap every block that an idle chain marks active on disk is on *)
(* the chain of the top: reorganize has cleared the flag of each block it    *)
(* left, and the block saved last has not brought a flag back.               *)
THEOREM ActiveStaysOnMain ==
  ASSUME MaxIoErrors = 0, MaxCrashes = 0
  PROVE  AloneSpec => []ActiveOnMain
  <1>1. OrderInv => ActiveOnMain
    BY QuietOrder DEF InOrder, ActiveWithin, Active, ActiveOnMain
  <1> QED BY <1>1, OrderInvariance, PTL

(* Without overlap, when the chain is idle, every transaction of every       *)
(* stored block is in recentTxIndex or on disk, although saveBlock lets the  *)
(* pipeline go on before the batch that holds the transactions has been      *)
(* written.                                                                  *)
THEOREM TxsAlwaysFindable ==
  ASSUME MaxIoErrors = 0, MaxCrashes = 0
  PROVE  AloneSpec => []TxsFindable
  <1>1. OrderInv => TxsFindable
    BY QuietOrder DEF InOrder, AllFindable, TxsFindable
  <1> QED BY <1>1, OrderInvariance, PTL

-----------------------------------------------------------------------------
(* The block pipeline implements HeaviestChain: under the refinement mapping *)
(* of BlockChain.tla (best <- top, known <- the genesis block and Connected) *)
(* every step of the pipeline is a step of the abstract chain or a stutter.  *)
(*                                                                           *)
(* The argument has two halves.  Connected is written over everything the    *)
(* code keeps - the records, the recent index and the jobs; the invariants   *)
(* of this part reduce it to the stored blocks and the block in the          *)
(* pipeline (KnownView), so the index shows nothing of its own.  Then each   *)
(* step is mapped: verifyChild learns, a reorganisation adopts, a refusal    *)
(* drops, and everything else stutters; that a learnt block is new and an    *)
(* adopted one heavier comes from OrderInv.                                  *)

Known == {Genesis} \cup Connected

(* A block is known from the moment verifyChild has connected it.            *)
Late(s) == job[s].pc \notin {"idle", "getPrev", "getSelf", "verifyChild"}

OnDisk == {Genesis} \cup {x \in Blocks : Stored(x)}

(* What is known, seen from the one slot that may be busy.                   *)
KnownBy(s) == OnDisk \cup (IF Late(s) THEN {JobBlock(s)} ELSE {})

MappedStep == [Chain!AbstractNext]_<<top, Known>>

-----------------------------------------------------------------------------
(* The recent index names stored blocks and the block in the pipeline.       *)

LEMMA RecentKnown ==
  ASSUME IInv, WaitInv, NEW s \in Slots, \A r \in Slots : r # s => ~Busy(r)
  PROVE  \A x \in recent.index : Stored(x) \/ (Late(s) /\ x = JobBlock(s))
  <1>1. CASE Busy(s)
    <2>1. JobOK(s) /\ job[s].pc \in Places /\ job[s].pc # "idle"
      BY <1>1, JobBlockType DEF WaitInv, IInv, JobType, Busy
    <2>2. AtRest \/ (Late(s) /\ RecentUpTo(JobBlock(s)))
      BY <2>1 DEF JobOK, Places, ReorgPlaces, Asking, Verifying, InChain, Forking, Reorging,
                  Saving, Saved, Late
    <2> QED BY <2>2 DEF AtRest, RecentUpTo
  <1>2. CASE ~Busy(s)
    BY <1>2 DEF WaitInv, AtRest
  <1> QED BY <1>1, <1>2

LEMMA KnownView ==
  \A s \in Slots :
    IInv /\ WaitInv /\ (\A r \in Slots : r # s => ~Busy(r)) => Known = KnownBy(s)
  <1> SUFFICES ASSUME NEW s \in Slots, IInv, WaitInv, \A r \in Slots : r # s => ~Busy(r)
               PROVE  Known = KnownBy(s)
    OBVIOUS
  <1>1. \A x \in recent.index : Stored(x) \/ (Late(s) /\ x = JobBlock(s))
    BY RecentKnown
  <1>2. \A r \in Slots : Late(r) => r = s
    BY DEF Late, Busy
  <1>3. JobBlock(s) \in Blocks
    BY JobBlockType DEF IInv
  <1>4. \A x \in Blocks : x \in Connected <=> Stored(x) \/ (Late(s) /\ x = JobBlock(s))
    BY <1>1, <1>2 DEF Connected, Late
  <1>5. Connected \subseteq Blocks
    BY DEF Connected
  <1> QED BY <1>3, <1>4, <1>5 DEF Known, KnownBy, OnDisk

LEMMA IdleKnown ==
  IInv /\ WaitInv /\ (\A s \in Slots : ~Busy(s)) => Known = OnDisk
  <1> SUFFICES ASSUME IInv, WaitInv, \A s \in Slots : ~Busy(s)
               PROVE  Known = OnDisk
    OBVIOUS
  <1>1. \A x \in recent.index : Stored(x)
    BY DEF WaitInv, AtRest
  <1> QED BY <1>1 DEF Known, OnDisk, Connected, Busy

(* The same of the next state.                                               *)
LEMMA KnownNext ==
  (/\ IInv /\ WaitInv /\ (\A s \in Slots : ~Busy(s)) => Known = OnDisk
   /\ \A s \in Slots :
        IInv /\ WaitInv /\ (\A r \in Slots : r # s => ~Busy(r)) => Known = KnownBy(s))'
  <1>1. /\ IInv /\ WaitInv /\ (\A s \in Slots : ~Busy(s)) => Known = OnDisk
        /\ \A s \in Slots :
             IInv /\ WaitInv /\ (\A r \in Slots : r # s => ~Busy(r)) => Known = KnownBy(s)
    BY KnownView, IdleKnown
  <1> QED BY <1>1, PTL

LEMMA OnDiskFacts ==
  ASSUME NEW x \in AllBlocks
  PROVE  Stored(x) => x \in OnDisk
  BY DEF OnDisk, AllBlocks

-----------------------------------------------------------------------------
(* The steps of a slot.                                                      *)

(* The step of slot s, as the lemmas below assume it.                        *)
Viewed(s) == Known = KnownBy(s) /\ Known' = KnownBy(s)'

LEMMA SameKnown ==
  ASSUME NEW s \in Slots, Viewed(s), UNCHANGED <<dbBlock, top>>,
         JobBlock(s)' = JobBlock(s), Late(s)' = Late(s)
  PROVE  MappedStep
  <1>1. KnownBy(s)' = KnownBy(s)
    BY DEF KnownBy, OnDisk, Stored
  <1> QED BY <1>1 DEF MappedStep, Viewed

(* connectBlock: nothing is known of the block yet.                          *)
LEMMA ConnectingMapped ==
  ASSUME IInv, NEW s \in Slots, Viewed(s),
         GetPrev(s) \/ ConnectToStored(s) \/ Discard(s) \/ BecomeOrphan(s)
  PROVE  MappedStep
  <1>1. /\ job[s].pc \in {"getPrev", "getSelf"} /\ UNCHANGED <<dbBlock, top>>
    BY DEF GetPrev, ConnectToStored, Discard, BecomeOrphan, At, storageVars, diskVars
  <1>2. job'[s].pc \in {"getSelf", "verifyChild", "idle"}
    <2>1. CASE GetPrev(s)
      BY <2>1, JobBlockType DEF GetPrev, IInv, TypeOK, JobType
    <2>2. CASE ConnectToStored(s)
      BY <2>2, GotoJob DEF ConnectToStored, IInv
    <2>3. CASE Discard(s) \/ BecomeOrphan(s)
      BY <2>3, EndJobIdle DEF Discard, BecomeOrphan, IInv, IdleJob
    <2> QED BY <2>1, <2>2, <2>3
  <1>3. KnownBy(s) = OnDisk /\ KnownBy(s)' = OnDisk'
    BY <1>1, <1>2 DEF KnownBy, Late
  <1> QED BY <1>1, <1>3 DEF MappedStep, Viewed, OnDisk, Stored

(* verifyChild: the block is learnt after its parent, and is the new best    *)
(* block if that was the best one; a block that is on disk already can only  *)
(* go to a side chain, where nothing shows.                                  *)
LEMMA VerifyChildMapped ==
  ASSUME IInv, NEW s \in Slots, SlotWait(s), SlotOrder(s), Viewed(s), VerifyChild(s)
  PROVE  MappedStep
  <1> DEFINE b == JobBlock(s)
  <1>1. /\ job[s].pc = "verifyChild" /\ Goto(s, "verifyBlock")
        /\ top' = IF JobMode(s) = "main" THEN b ELSE top
        /\ UNCHANGED dbBlock
    BY DEF VerifyChild, At, storageVars, diskVars
  <1>2. /\ Stored(Parent[b]) /\ InOrder
        /\ JobMode(s) = "main" <=> Parent[b] = top
    BY <1>1 DEF SlotWait, JobOK, Verifying, Placed, SlotOrder, OrderOK
  <1>3. b \in Blocks /\ b # Genesis /\ Parent[b] \in AllBlocks
    BY JobBlockType, TreeFacts, TreeAssumption DEF IInv
  <1>4. job'[s].pc = "verifyBlock" /\ JobBlock(s)' = b
    BY <1>1, GotoJob DEF IInv, JobBlock
  <1> HIDE DEF b
  <1>5. Known = OnDisk /\ Known' = OnDisk \cup {b}
    BY <1>1, <1>4 DEF Viewed, KnownBy, Late, OnDisk, Stored
  <1>6. CASE Stored(b)
    <2>1. Parent[b] # top
      BY <1>2, <1>3, <1>6, HeavierChild DEF InOrder
    <2>2. b \in OnDisk
      BY <1>3, <1>6, TreeFacts, OnDiskFacts
    <2> QED BY <1>1, <1>2, <1>5, <2>1, <2>2 DEF MappedStep
  <1>7. CASE ~Stored(b)
    <2>1. b \notin Known /\ Parent[b] \in Known
      BY <1>2, <1>3, <1>5, <1>7, OnDiskFacts DEF OnDisk
    <2>2. top' = IF Parent[b] = top THEN b ELSE top
      BY <1>1, <1>2
    <2>3. Chain!Learn(b)
      BY <1>5, <2>1, <2>2 DEF Chain!Learn, Known
    <2> QED BY <1>3, <2>3 DEF MappedStep, Chain!AbstractNext
  <1> QED BY <1>6, <1>7

(* verifyBlock succeeded: the block stays what it is.                        *)
LEMMA VerifyBlockMapped ==
  ASSUME IInv, NEW s \in Slots, Viewed(s), VerifyBlock(s) \/ Reorganize(s)
  PROVE  MappedStep
  <1>1. /\ job[s].pc = "verifyBlock" /\ UNCHANGED <<dbBlock, top>>
    BY DEF VerifyBlock, Reorganize, At, diskVars
  <1>2. job'[s].pc \in {"put", "findFork"} /\ job'[s].block = job[s].block
    <2>1. CASE VerifyBlock(s)
      BY <2>1, GotoJob DEF VerifyBlock, IInv
    <2>2. CASE Reorganize(s)
      BY <2>2, JobBlockType DEF Reorganize, IInv, TypeOK, JobType
    <2> QED BY <2>1, <2>2
  <1> QED BY <1>1, <1>2, SameKnown DEF Late, JobBlock

(* A refused block is dropped, before anything is known on top of it: a      *)
(* stored child would have a stored parent.                                  *)
LEMMA RejectMapped ==
  ASSUME IInv, NEW s \in Slots, SlotWait(s), SlotOrder(s), Viewed(s), Reject(s)
  PROVE  MappedStep
  <1> DEFINE b == JobBlock(s)
  <1>1. /\ job[s].pc \in {"verifyChild", "verifyBlock"} /\ EndJob(s)
        /\ top' = IF JobMode(s) = "main" THEN Parent[b] ELSE top
        /\ UNCHANGED dbBlock
    BY DEF Reject, FinalizeError, Rollback, storageVars, diskVars
  <1>2. b \in Blocks /\ b \in AllBlocks /\ b # Genesis
    BY JobBlockType, TreeFacts, TreeAssumption DEF IInv
  <1>3. ~Late(s)'
    BY <1>1, EndJobIdle DEF IInv, Late, IdleJob
  <1>4. Known' = OnDisk
    BY <1>1, <1>3 DEF Viewed, KnownBy, OnDisk, Stored
  <1>5. CASE job[s].pc = "verifyChild"
    <2>1. Verifying(s) /\ ~Late(s)
      BY <1>5 DEF SlotWait, JobOK, Late
    <2>2. top' = top
      BY <1>1, <2>1 DEF Verifying
    <2>3. Known = OnDisk
      BY <2>1 DEF Viewed, KnownBy
    <2> QED BY <1>4, <2>2, <2>3 DEF MappedStep
  <1>6. CASE job[s].pc = "verifyBlock"
    <2>1. InChain(s) /\ InChainOrder(s) /\ ParentsStored /\ Late(s)
      BY <1>6 DEF SlotWait, JobOK, SlotOrder, OrderOK, Late
    <2>2. Known = OnDisk \cup {b}
      BY <2>1 DEF Viewed, KnownBy
    <2>3. CASE Stored(b)
      <3>1. JobMode(s) # "main"
        BY <1>2, <2>1, <2>3, HeavierChild DEF InChainOrder, Base
      <3>2. b \in OnDisk
        BY <1>2, <2>3, OnDiskFacts
      <3> QED BY <1>1, <1>4, <2>2, <3>1, <3>2 DEF MappedStep
    <2>4. CASE ~Stored(b)
      <3> HIDE DEF b
      <3>1. b \notin OnDisk
        BY <1>2, <2>4 DEF OnDisk
      <3>2. b \in Known /\ Known' = Known \ {b}
        BY <1>4, <2>2, <3>1
      <3>3. \A c \in Blocks : c \in Known => Parent[c] # b
        <4>1. \A c \in Blocks : Stored(c) => Parent[c] # b
          BY <2>1, <2>4 DEF ParentsStored
        <4> QED BY <1>2, <2>2, <4>1, BranchFacts, TreeAssumption DEF OnDisk
      <3>4. top' = IF top = b THEN Parent[b] ELSE top
        BY <1>1, <2>1, <2>4 DEF InChain, b
      <3>5. Chain!Drop(b)
        BY <3>2, <3>3, <3>4 DEF Chain!Drop, Known
      <3> QED BY <1>2, <3>5 DEF MappedStep, Chain!AbstractNext
    <2> QED BY <2>3, <2>4
  <1> QED BY <1>1, <1>5, <1>6

-----------------------------------------------------------------------------
(* reorganize.                                                               *)

LEMMA FindForkMapped ==
  ASSUME IInv, NEW s \in Slots, SlotWait(s), Viewed(s), FindFork(s)
  PROVE  MappedStep
  <1> DEFINE at == Cursor(s)
             p  == Parent[at]
             moved == IF OldIsHigher(s)
                      THEN [job[s] EXCEPT !.old = p, !.off = Append(@, at)]
                      ELSE [job[s] EXCEPT !.new = p, !.on = Append(@, at)]
             next == IF moved.old = moved.new THEN [moved EXCEPT !.pc = "reorgTxs"] ELSE moved
  <1>1. /\ job[s].pc = "findFork" /\ UNCHANGED <<dbBlock, top>>
    BY DEF FindFork, At, storageVars, diskVars
  <1>2. at \in Blocks /\ Stored(p)
    BY <1>1, ForkFound DEF SlotWait, JobOK
  <1>3. job' = [job EXCEPT ![s] = next]
    BY <1>2 DEF FindFork
  <1>4. /\ moved.pc = "findFork" /\ moved.block = job[s].block
        /\ next.pc \in {"findFork", "reorgTxs"} /\ next.block = job[s].block
    BY <1>1, JobBlockType DEF IInv, JobType
  <1> HIDE DEF next
  <1>5. job'[s].pc \in {"findFork", "reorgTxs"} /\ job'[s].block = job[s].block
    BY <1>3, <1>4 DEF IInv, TypeOK
  <1> QED BY <1>1, <1>5, SameKnown DEF Late, JobBlock

LEMMA ReorgTxsMapped ==
  ASSUME IInv, NEW s \in Slots, Viewed(s),
         DisconnectTransactions(s) \/ ReconnectTransactions(s)
  PROVE  MappedStep
  <1>1. /\ job[s].pc \in {"reorgTxs", "reorgAffects"} /\ UNCHANGED <<dbBlock, top>>
    BY DEF DisconnectTransactions, ReconnectTransactions, At, diskVars
  <1>2. \/ Goto(s, "reorgPut")
        \/ \E txs, left :
             job' = [job EXCEPT ![s].pc = "reorgAffects", ![s].txs = txs, ![s].left = left]
    BY DEF DisconnectTransactions, ReconnectTransactions, Announce
  <1>3. job'[s].pc \in {"reorgPut", "reorgAffects"} /\ job'[s].block = job[s].block
    <2>1. CASE Goto(s, "reorgPut")
      BY <2>1, GotoJob DEF IInv
    <2>2. ASSUME NEW txs, NEW left,
                 job' = [job EXCEPT ![s].pc = "reorgAffects", ![s].txs = txs, ![s].left = left]
          PROVE  job'[s].pc = "reorgAffects" /\ job'[s].block = job[s].block
      BY <2>2, JobBlockType DEF IInv, TypeOK, JobType
    <2> QED BY <1>2, <2>1, <2>2
  <1> QED BY <1>1, <1>3, SameKnown DEF Late, JobBlock

(* A put saves a block that is known: one of the two branches, or the block  *)
(* of the pipeline itself.                                                   *)
LEMMA PutMapped ==
  ASSUME IInv, NEW s \in Slots, SlotWait(s), Viewed(s), ReorgPut(s) \/ Put(s)
  PROVE  MappedStep
  <1> DEFINE x == IF ReorgPut(s) THEN ReorgBlock(s) ELSE JobBlock(s)
  <1>1. /\ job[s].pc \in {"reorgPut", "put"} /\ UNCHANGED top
        /\ \E active : PutBlock(x, active)
        /\ \E place \in {"reorgHeight", "height"} : Goto(s, place)
    BY DEF ReorgPut, Put, At
  <1>2. /\ x \in Blocks /\ Stored(Parent[x]) /\ (Stored(x) \/ x = JobBlock(s))
    <2>1. CASE ReorgPut(s)
      <3>1. job[s].pc \in ReorgPlaces /\ Collected(s)
        BY <2>1 DEF ReorgPut, At, SlotWait, JobOK, ReorgPlaces, Reorging
      <3> QED BY <2>1, <3>1, ReorgBlockFacts
    <2>2. CASE ~ReorgPut(s)
      <3>1. job[s].pc = "put"
        BY <2>2 DEF Put, At
      <3> QED BY <2>2, <3>1, JobBlockType DEF SlotWait, JobOK, Saving, Placed, IInv
    <2> QED BY <2>1, <2>2
  <1>3. job'[s].pc \in {"reorgHeight", "height"} /\ JobBlock(s)' = JobBlock(s)
    BY <1>1, GotoJob DEF IInv, JobBlock
  <1> HIDE DEF x
  <1>4. \A y \in Blocks : Stored(y)' <=> Stored(y) \/ y = x
    BY <1>1, <1>2, PutRecord, TreeFacts DEF SlotWait
  <1>5. Late(s) /\ Late(s)'
    BY <1>1, <1>3 DEF Late
  <1>6. OnDisk' = OnDisk \cup {x}
    BY <1>2, <1>4 DEF OnDisk
  <1>7. KnownBy(s)' = KnownBy(s)
    BY <1>2, <1>3, <1>5, <1>6 DEF KnownBy, OnDisk
  <1> QED BY <1>1, <1>7 DEF MappedStep, Viewed

LEMMA HeightMapped ==
  ASSUME IInv, NEW s \in Slots, Viewed(s), ReorgHeight(s) \/ PutHeightKey(s)
  PROVE  MappedStep
  <1>1. /\ job[s].pc \in {"reorgHeight", "height"} /\ UNCHANGED <<dbBlock, top>>
        /\ \E b, active : \E place \in {"reorgIdx", "tail"} : SaveRest(s, b, active, place)
    BY DEF ReorgHeight, PutHeightKey, At
  <1>2. job'[s].pc \in {"reorgIdx", "tail"} /\ job'[s].block = job[s].block
    BY <1>1, SaveRestJob DEF IInv
  <1> QED BY <1>1, <1>2, SameKnown DEF Late, JobBlock

(* The last block of a reorganisation: the chain adopts the heavier block.   *)
LEMMA ReorgSavedMapped ==
  ASSUME IInv, NEW s \in Slots, SlotOrder(s), Viewed(s), NEW op, ReorgSaved(s, op)
  PROVE  MappedStep
  <1> DEFINE b == JobBlock(s)
             off == IF Disconnecting(s) THEN Tail(job[s].off) ELSE job[s].off
             on  == IF Disconnecting(s) THEN job[s].on ELSE Tail(job[s].on)
             last == off = <<>> /\ on = <<>>
  <1>1. /\ job[s].pc = "reorgIdx" /\ NextReorgStep(s, job[s].io \ {op})
        /\ UNCHANGED dbBlock
        /\ top' = IF last THEN b ELSE top
    BY ZenonT(30) DEF ReorgSaved, At, NextReorgStep
  <1>2. job[s].pc \in ReorgPlaces /\ MoreWorkThan(b, top)
    BY <1>1 DEF ReorgPlaces, SlotOrder, OrderOK, ReorgOrder
  <1>3. job'[s].pc \in {"put", "reorgTxs"} /\ job'[s].block = b
    BY <1>1, <1>2, NextReorgStepJob DEF JobBlock
  <1>4. JobBlock(s)' = b /\ Late(s) /\ Late(s)'
    BY <1>1, <1>3 DEF JobBlock, Late
  <1>5. CASE top' = top
    BY <1>1, <1>4, <1>5, SameKnown
  <1>6. CASE top' = b
    <2>1. Known' = Known /\ b \in Known
      BY <1>1, <1>4 DEF Viewed, KnownBy, OnDisk, Stored
    <2>2. b \in Blocks
      BY JobBlockType DEF IInv
    <2>3. Chain!Adopt(b)
      BY <1>2, <1>6, <2>1 DEF Chain!Adopt, Chain!MoreWorkThan, MoreWorkThan, Known
    <2> QED BY <2>2, <2>3 DEF MappedStep, Chain!AbstractNext
  <1> QED BY <1>1, <1>5, <1>6, SMTT(60)

-----------------------------------------------------------------------------
(* The tail: the block is on disk, so its end shows nothing.                 *)
LEMMA TailMapped ==
  ASSUME IInv, NEW s \in Slots, SlotWait(s), Viewed(s), NEW op,
         TailConnect(s, op) \/ TailEnd(s, op) \/ TailFinalize(s, op)
  PROVE  MappedStep
  <1>1. /\ job[s].pc = "tail" /\ UNCHANGED <<dbBlock, top>>
    BY DEF TailConnect, TailEnd, TailFinalize, Completes, At
  <1>2. Stored(JobBlock(s)) /\ JobBlock(s) \in Blocks
    BY <1>1, JobBlockType DEF SlotWait, JobOK, Saved, IInv
  <1>3. KnownBy(s) = OnDisk
    BY <1>2 DEF KnownBy, OnDisk
  <1>4. CASE TailFinalize(s, op)
    <2>1. ~Late(s)'
      BY <1>4, EndJobIdle DEF TailFinalize, IInv, Late, IdleJob
    <2> QED BY <1>1, <1>3, <2>1 DEF MappedStep, Viewed, KnownBy, OnDisk, Stored
  <1>5. CASE TailConnect(s, op) \/ TailEnd(s, op)
    <2>1. job'[s].pc = "tail" /\ job'[s].block = job[s].block
      <3>1. \/ \E io : job' = [job EXCEPT ![s].io = io, ![s].step = "endTransaction"]
            \/ \E io : EndTransaction(s, io, currentBatch)
        BY <1>5 DEF TailConnect, TailEnd
      <3>2. ASSUME NEW io, job' = [job EXCEPT ![s].io = io, ![s].step = "endTransaction"]
            PROVE  job'[s].pc = job[s].pc /\ job'[s].block = job[s].block
        BY <3>2, JobBlockType DEF IInv, TypeOK, JobType
      <3>3. ASSUME NEW io, EndTransaction(s, io, currentBatch)
            PROVE  job'[s].pc = job[s].pc /\ job'[s].block = job[s].block
        BY <3>3, JobBlockType DEF EndTransaction, IInv, TypeOK, JobType
      <3> QED BY <1>1, <3>1, <3>2, <3>3
    <2> QED BY <1>1, <2>1, SameKnown DEF Late, JobBlock
  <1> QED BY <1>4, <1>5

LEMMA SlotMapped ==
  ASSUME MaxIoErrors = 0, IInv, NEW s \in Slots, SlotWait(s), SlotOrder(s), Viewed(s),
         Advance(s) \/ Faulty(s)
  PROVE  MappedStep
  <1>1. CASE Advance(s)
    BY <1>1, ConnectingMapped, VerifyChildMapped, VerifyBlockMapped, FindForkMapped,
       ReorgTxsMapped, PutMapped, HeightMapped, ReorgSavedMapped, TailMapped
    DEF Advance
  <1>2. CASE Faulty(s)
    <2>1. faults.io = 0
      BY DEF IInv, TypeOK
    <2>2. PipelineError(s) \/ FindForkError(s) \/ ReorgError(s) => faults.io > 0
      BY DEF PipelineError, FindForkError, ReorgError, IoErrorAllowed
    <2> QED BY <1>2, <2>1, <2>2, RejectMapped DEF Faulty
  <1> QED BY <1>1, <1>2

-----------------------------------------------------------------------------
(* The steps that find every slot free put a block at the door at most.      *)
LEMMA ProcessBlockMapped ==
  ASSUME IInv, WaitInv, IInv', WaitInv', \A s \in Slots : ~Busy(s),
         UNCHANGED <<dbBlock, top>>,
         NEW w \in Wrappers, NEW wr \in [Wrappers -> WrapperType], NEW q,
         ProcessBlock(w, wr, q)
  PROVE  MappedStep
  <1>1. Known = OnDisk /\ OnDisk' = OnDisk
    BY IdleKnown DEF OnDisk, Stored
  <1>2. CASE job' = job
    <2>1. \A s \in Slots : ~Busy(s)'
      BY <1>2 DEF Busy
    <2>2. Known' = OnDisk'
      BY <2>1, KnownNext
    <2> QED BY <1>1, <2>2 DEF MappedStep
  <1>3. ASSUME NEW s \in Slots, OnlyJob(s), job'[s].pc \in {"verifyChild", "getPrev"}
        PROVE  MappedStep
    <2>1. \A r \in Slots : r # s => ~Busy(r)'
      BY <1>3 DEF OnlyJob, Busy
    <2>2. Known' = KnownBy(s)'
      BY <2>1, KnownNext
    <2> QED BY <1>1, <1>3, <2>2 DEF MappedStep, KnownBy, Late
  <1> QED BY <1>2, <1>3, ProcessBlockJob

LEMMA MappedSame ==
  ASSUME UNCHANGED <<dbBlock, top, recent, job>>
  PROVE  MappedStep
  <1>1. Known' = Known
    BY DEF Known, Connected, Stored, JobBlock
  <1> QED BY <1>1 DEF MappedStep

LEMMA StepMapped ==
  ASSUME MaxIoErrors = 0, MaxCrashes = 0,
         AloneInv, OneAtATime', WaitInv, OrderInv, [Next]_vars
  PROVE  MappedStep
  <1> USE DEF AloneInv
  <1>1. IInv' /\ WaitInv'
    BY StepIInv, WaitStep
  <1>2. ASSUME NEW b \in Blocks, Add(b)
        PROVE  MappedStep
    <2>1. UNCHANGED <<dbBlock, top, recent>>
      BY <1>2 DEF Add, storageVars, diskVars
    <2>2. CASE SameJobs
      BY <2>1, <2>2, MappedSame DEF SameJobs
    <2> QED BY <1>1, <1>2, <2>1, <2>2, AddCases, ProcessBlockMapped
  <1>3. CASE NextTick
    <2>1. UNCHANGED <<dbBlock, top>>
      BY <1>3 DEF NextTick, storageVars, diskVars
    <2> QED BY <1>1, <1>3, <2>1, NextTickCases, ProcessBlockMapped
  <1>4. ASSUME NEW s \in Slots, Advance(s) \/ Faulty(s)
        PROVE  MappedStep
    <2>1. Busy(s) /\ SlotWait(s) /\ SlotOrder(s) /\ OnlyJob(s)
      BY <1>4, SlotTick, AdvanceSlot, FaultySlot
         DEF WaitInv, SlotWait, OrderInv, SlotOrder
    <2>2. \A r \in Slots : r # s => ~Busy(r) /\ ~Busy(r)'
      BY <2>1 DEF OneAtATime, OnlyJob, Busy
    <2>3. Known = KnownBy(s)
      BY <2>2, KnownView
    <2>4. Known' = KnownBy(s)'
      BY <1>1, <2>2, KnownNext
    <2>5. Viewed(s)
      BY <2>3, <2>4 DEF Viewed
    <2> QED BY <1>4, <2>1, <2>5, SlotMapped
  <1>5. CASE LateWrite
    BY <1>5, MappedSame DEF LateWrite, LateMeta, LateBatch
  <1>6. ~Crash
    BY DEF Crash, IInv, TypeOK
  <1>7. CASE UNCHANGED vars
    BY <1>7, MappedSame DEF vars, storageVars, diskVars, chainVars
  <1> QED BY <1>2, <1>3, <1>4, <1>5, <1>6, <1>7 DEF Next

(* Without overlap, whatever is offered and whatever is refused, the         *)
(* pipeline is a HeaviestChain: a block is learnt after its parent, the top  *)
(* moves to a child of itself or to a heavier known block, and a refused     *)
(* block is dropped before anything rests on it.                             *)
THEOREM PipelineImplementsChain ==
  ASSUME MaxIoErrors = 0, MaxCrashes = 0
  PROVE  AloneSpec => ImplementsChain
  <1>1. Init => Chain!AbstractInit
    <2> SUFFICES ASSUME Init PROVE Chain!AbstractInit
      OBVIOUS
    <2>1. Connected = {}
      BY TreeAssumption DEF Init, StorageInit, Connected, Stored, RecentEmpty, IdleJob, AllBlocks
    <2> QED BY <2>1 DEF Init, Chain!AbstractInit
  <1>2. AloneInv /\ WaitInv /\ OrderInv /\ [AloneNext]_vars
          => [Chain!AbstractNext]_<<top, {Genesis} \cup Connected>>
    BY AloneStep, StepMapped DEF AloneInv, MappedStep, Known
  <1> QED BY <1>1, <1>2, OrderInvariance, PTL
          DEF AloneSpec, ImplementsChain, Chain!AbstractSpec, Chain!abstractVars
=============================================================================
