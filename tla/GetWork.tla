------------------------------- MODULE GetWork -------------------------------
(* Mining: the getwork call of lib/rpc/getwork.js with prepareNextBlock of   *)
(* lib/schema/block.js, and the way of a solved block through the chain,     *)
(* where lib/blockchain.js verifies it as the child of its parent, with the  *)
(* queries by height of both storages.                                       *)
(*                                                                           *)
(* A block in memory is an object that several hold at a time: getwork sets  *)
(* the timestamp of its object at every call, hands it to the chain, where   *)
(* it may become the top block, and sets its hash at every submission.  A    *)
(* hash stands for what it is the hash of: the headers from the genesis      *)
(* block on, each with bits and timestamp, the last of them solved or not.   *)
(* The script of the coinbase is not what is serialised, so the extra nonce  *)
(* does not change the Merkle root, and newBlocksCache, which has it for its *)
(* key, holds one entry.                                                     *)
(*                                                                           *)
(* The chain takes one block after the other and never reorganises, nor does *)
(* it keep orphans: BlockChain has these.  A definition whose name extends   *)
(* that of the one below it is a faulty variant, with the mistake a change   *)
(* of the code could make.                                                   *)
EXTENDS BlockRules, SequencesExt

CONSTANTS
  Chains,       \* the chains to begin with: stored blocks and the last of them
  RefreshTime,  \* seconds after which new transactions are taken (60)
  FutureTime,   \* seconds a timestamp may be ahead (two hours)
  StartTime, MaxTime,  \* bounds: the first and the last second,
  MaxBlocks,    \*   the blocks stored,
  MaxForeign,   \*   the blocks that other nodes offer,
  MaxCalls,     \*   the calls waiting and the works handed out,
  MaxSubmits,   \*   the solutions,
  MaxQueue      \*   and the blocks on their way into the chain

VARIABLES
  config,         \* the storage and the network
  alive,          \* FALSE when an exception has ended the program
  now,            \* the clock
  db,             \* the blocks stored by their hash: timestamp and active flag
  keys,           \* LevelDB's height keys: the hash saved last at each height
  objs,           \* the block objects made
  currentTopBlock,  \* the object at the top
  recentBlockIndex, \* objects by the hash they were added with
  queue,          \* blocks being added, the first of them processed
  job,            \* how far it is, its mode and its parent's object, 0 for a
                  \* copy of the parent that was read from the storage
  foreign,        \* blocks other nodes offered
  blockData,      \* getwork's object, 0 for null
  lastPrevHeight, lastTime,
  cache,          \* newBlocksCache: the object and its time, Null if empty
  calls,          \* calls in prepareNextBlock: time, top, median time known
  works, last,    \* the works handed out, and the last of them
  submits         \* the solutions handed in

storeVars == <<config, alive, db, keys>>
addVars == <<currentTopBlock, recentBlockIndex, queue, job, foreign>>
getworkVars == <<blockData, lastPrevHeight, lastTime, cache, calls, works, last, submits>>
vars == <<now, storeVars, objs, addVars, getworkVars>>

-----------------------------------------------------------------------------
(* Hashes and objects                                                        *)

NoHash == <<>>

Header(bits, time, solved) == [bits |-> bits, time |-> time, solved |-> solved]

Object(prev, bits, time, hash) ==
  [prev |-> prev, bits |-> bits, time |-> time, hash |-> hash, active |-> FALSE]

(* The hash of a solved header, and what checkProofOfWork leaves of the hash *)
(* of another: it reverses the hash and then throws.                         *)
SolvedHash(obj) == Append(obj.prev, Header(obj.bits, obj.time, TRUE))
Reversed(obj) == Append(obj.prev, Header(obj.bits, obj.time, FALSE))

(* The height of the block with this hash; a block's is Len(prev).           *)
HeightOf(hash) == Len(hash) - 1

ChainWork(hash) == FoldLeft(LAMBDA work, header : work + getWork(header.bits), 0, hash)

Work(obj) == ChainWork(obj.prev) + getWork(obj.bits)

(* A block as it is read from the storage.                                   *)
Stored(hash) ==
  [Object(Front(hash), Last(hash).bits, db[hash].time, hash) EXCEPT !.active = db[hash].active]

-----------------------------------------------------------------------------
(* Queries by height                                                         *)

StoredAt(height) == {hash \in DOMAIN db : HeightOf(hash) = height}

Found(hash) == [bits |-> Last(hash).bits, time |-> db[hash].time]

(* LevelDB finds whatever block was saved last at a height, MongoDB an       *)
(* active one.                                                               *)
getBlockByHeight(height) ==
  LET found == IF config.backend = "leveldb" THEN {keys[h] : h \in DOMAIN keys \cap {height}}
               ELSE {hash \in StoredAt(height) : db[hash].active}
  IN  IF found = {} THEN NoBlock ELSE Found(CHOOSE hash \in found : TRUE)

(* LevelDB finds one block for each of the heights, and a height without a   *)
(* key is an error; MongoDB finds all the blocks that there are.             *)
getBlocksByHeights(heights) ==
  IF config.backend = "leveldb" THEN {keys[h] : h \in heights}
  ELSE UNION {StoredAt(h) : h \in heights}

getMedianTimePast(obj) ==
  MedianTime([hash \in getBlocksByHeights(LastHeights(Len(obj.prev))) |-> db[hash].time])

getNextWorkOfLater(obj, time) ==
  LET height == Len(obj.prev)
  IN  NextBits(height, [h \in 0 .. height |-> IF h = height THEN [bits |-> obj.bits, time |-> obj.time]
                                              ELSE getBlockByHeight(h + 1)], time, config.testnet)

(* The bits for the child of an object.  The search of the test network for  *)
(* a block with a difficulty of its own is one step here.                    *)
getNextWork(obj, time) ==
  LET height == Len(obj.prev)
  IN  NextBits(height, [h \in 0 .. height |-> IF h = height THEN [bits |-> obj.bits, time |-> obj.time]
                                              ELSE getBlockByHeight(h)], time, config.testnet)

-----------------------------------------------------------------------------
Null == [obj |-> 0, time |-> 0]
Idle == [step |-> "idle", mode |-> "none", parent |-> 0]

Init ==
  \E chain \in Chains :
    /\ config = [backend |-> chain.backend, testnet |-> chain.testnet]
    /\ db = [hash \in {SubSeq(chain.top, 1, n) : n \in 1 .. Len(chain.top)} |->
               [time |-> Last(hash).time, active |-> TRUE]]
    /\ keys = [h \in 0 .. HeightOf(chain.top) |-> SubSeq(chain.top, 1, h + 1)]
    /\ objs = <<Stored(chain.top)>>
    /\ currentTopBlock = 1 /\ recentBlockIndex = <<>>
    /\ queue = <<>> /\ job = Idle /\ foreign = 0
    /\ alive = TRUE /\ now = StartTime
    /\ blockData = 0 /\ lastPrevHeight = -1 /\ lastTime = 0
    /\ cache = Null /\ calls = {} /\ works = {} /\ last = NoHash /\ submits = 0

Tick ==
  /\ now < MaxTime
  /\ now' = now + 1
  /\ UNCHANGED <<storeVars, objs, addVars, getworkVars>>

-----------------------------------------------------------------------------
(* A block's way into the chain                                              *)

(* connectBlock up to its first query: a parent at the top, in the recent    *)
(* index, or to be read from the storage.                                    *)
connectBlock(bw, objects, top, recent) ==
  LET prev == objects[bw.obj].prev
  IN  IF prev = objects[top].hash THEN [step |-> "bits", mode |-> "main", parent |-> top]
      ELSE IF prev \in DOMAIN recent
        THEN [step |-> "bits", mode |-> "side", parent |-> recent[prev]]
      ELSE [step |-> "read", mode |-> "none", parent |-> 0]

Connecting == IF job.step \in {"read", "bits", "time"} THEN {Head(queue).hash} ELSE {}

(* add, of an object that was given the hash it is added with: one that is   *)
(* connecting or was added recently is answered at once.                     *)
add(obj, objects) ==
  LET bw == [obj |-> obj, hash |-> objects[obj].hash]
  IN  /\ objs' = objects
      /\ IF bw.hash \in Connecting \cup DOMAIN recentBlockIndex
            \/ objects[obj].time > now + FutureTime
           THEN UNCHANGED <<queue, job>>
           ELSE /\ Len(queue) < MaxQueue
                /\ queue' = Append(queue, bw)
                /\ job' = IF queue # <<>> THEN job
                          ELSE connectBlock(bw, objects, currentTopBlock, recentBlockIndex)

(* A block of another node.                                                  *)
Offer(prev, bits, time) ==
  /\ foreign < MaxForeign
  /\ foreign' = foreign + 1
  /\ LET block == Object(prev, bits, time, NoHash)
     IN  add(Len(objs) + 1, Append(objs, [block EXCEPT !.hash = SolvedHash(block)]))
  /\ UNCHANGED <<now, storeVars, currentTopBlock, recentBlockIndex, getworkVars>>

Processed == objs[Head(queue).obj]
Parent == IF job.parent = 0 THEN Stored(Processed.prev) ELSE objs[job.parent]

(* finalizeStep: the next block is processed before anything else happens.   *)
finalize(top, recent) ==
  /\ currentTopBlock' = top /\ recentBlockIndex' = recent
  /\ queue' = Tail(queue)
  /\ job' = IF queue' = <<>> THEN Idle ELSE connectBlock(Head(queue'), objs, top, recent)
  /\ UNCHANGED foreign

Fail == finalize(IF job.mode = "main" THEN job.parent ELSE currentTopBlock,
                 [hash \in DOMAIN recentBlockIndex \ {Head(queue).hash} |-> recentBlockIndex[hash]])

(* The two reads of connectBlock: a block that is stored already is          *)
(* discarded, and so is an orphan here.                                      *)
ReadParent ==
  /\ job.step = "read"
  /\ IF Processed.prev \in DOMAIN db /\ Processed.hash \notin DOMAIN db
       THEN /\ job' = [step |-> "bits", mode |-> "side", parent |-> 0]
            /\ UNCHANGED <<currentTopBlock, recentBlockIndex, queue, foreign>>
       ELSE finalize(currentTopBlock, recentBlockIndex)
  /\ UNCHANGED <<now, storeVars, objs, getworkVars>>

(* verifyChild in two steps, each with a query of the storage.  Where the    *)
(* bits need no query the code goes on at once; here it may.                 *)
VerifyBits ==
  /\ job.step = "bits"
  /\ IF Processed.bits = getNextWork(Parent, Processed.time)
       THEN job' = [job EXCEPT !.step = "time"]
            /\ UNCHANGED <<currentTopBlock, recentBlockIndex, queue, foreign>>
       ELSE Fail
  /\ UNCHANGED <<now, storeVars, objs, getworkVars>>

(* With the answer about the time the block becomes the top in memory        *)
(* (connectToMainChain) or one of a side chain, before its transactions are  *)
(* verified.                                                                 *)
VerifyTime ==
  /\ job.step = "time"
  /\ IF Processed.time > getMedianTimePast(Parent)
       THEN /\ job' = [job EXCEPT !.step = "txs"]
            /\ currentTopBlock' = IF job.mode = "main" THEN Head(queue).obj ELSE currentTopBlock
            /\ recentBlockIndex' = (Head(queue).hash :> Head(queue).obj) @@ recentBlockIndex
            /\ objs' = [objs EXCEPT ![Head(queue).obj].active = job.mode = "main"]
            /\ UNCHANGED <<queue, foreign>>
       ELSE Fail /\ UNCHANGED objs
  /\ UNCHANGED <<now, storeVars, getworkVars>>

(* Its transactions are refused, or the storage fails before it writes.      *)
Refuse ==
  /\ job.step = "txs"
  /\ Fail
  /\ UNCHANGED <<now, storeVars, objs, getworkVars>>

(* saveBlock writes the object as it is by now, under the hash it has by     *)
(* now.                                                                      *)
Save ==
  /\ job.step = "txs"
  /\ Cardinality(DOMAIN db) < MaxBlocks
  /\ job.mode = "side" => Work(Processed) <= Work(objs[currentTopBlock])
  /\ db' = (Processed.hash :> [time |-> Processed.time, active |-> Processed.active]) @@ db
  /\ keys' = (Len(Processed.prev) :> Processed.hash) @@ keys
  /\ finalize(currentTopBlock, recentBlockIndex)
  /\ UNCHANGED <<now, config, alive, objs, getworkVars>>

-----------------------------------------------------------------------------
(* A call for work                                                           *)

Top == objs[currentTopBlock]

(* The end of every call: its time becomes the object's, and the header is   *)
(* handed out.                                                               *)
issue(obj, time, objects) ==
  /\ objs' = [objects EXCEPT ![obj].time = time]
  /\ cache' = [obj |-> obj, time |-> time]
  /\ last' = SolvedHash(objs'[obj])
  /\ works' = works \cup {last'}

NotTooMany == Cardinality(calls) + Cardinality(works) < MaxCalls

(* New work is prepared when the height has changed, or for new transactions *)
(* (lastTxCount is never set, so any transaction in memory will do).         *)
NeedsWork(transactions) ==
  \/ lastPrevHeight # Len(Top.prev)
  \/ transactions /\ now - lastTime > RefreshTime

CallPreparing(transactions) ==
  /\ NotTooMany /\ NeedsWork(transactions)
  /\ calls' = calls \cup {[time |-> now, top |-> currentTopBlock, median |-> FALSE]}
  /\ lastPrevHeight' = Len(Top.prev)
  /\ cache' = IF lastPrevHeight # Len(Top.prev) THEN Null ELSE cache
  /\ UNCHANGED <<now, storeVars, objs, addVars, blockData, lastTime, works, last, submits>>

(* The object of an earlier call, with another timestamp; without one the    *)
(* call fails.                                                               *)
CallAgain(transactions) ==
  /\ NotTooMany /\ ~NeedsWork(transactions)
  /\ blockData # 0
  /\ issue(blockData, now, objs)
  /\ UNCHANGED <<now, storeVars, addVars, blockData, lastPrevHeight, lastTime, calls, submits>>

(* The first query of prepareNextBlock.  LevelDB has no key for the height   *)
(* of a top block that is not saved yet, and throws its error out of the     *)
(* callback, which ends the program.                                         *)
MedianTimeKnown(call) ==
  /\ ~call.median
  /\ IF config.backend = "leveldb" /\ Len(objs[call.top].prev) \notin DOMAIN keys
       THEN alive' = FALSE /\ UNCHANGED calls
       ELSE calls' = (calls \ {call}) \cup {[call EXCEPT !.median = TRUE]} /\ UNCHANGED alive
  /\ UNCHANGED <<now, config, db, keys, objs, addVars,
                 blockData, lastPrevHeight, lastTime, cache, works, last, submits>>

(* The second: the new block has no timestamp yet when its bits are asked    *)
(* for, and getwork puts its own over the one chosen here.                   *)
prepareNextBlockBehindTop(top, time) ==
  Object(Top.hash, getNextWork(top, 0), time, NoHash)

prepareNextBlock(top, time) == Object(top.hash, getNextWork(top, 0), time, NoHash)

(* A block that is not found is an error, which getwork answers.             *)
Prepared(call) ==
  LET block == prepareNextBlock(objs[call.top], call.time)
  IN  /\ call.median
      /\ calls' = calls \ {call}
      /\ IF block.bits = NoBits
           THEN UNCHANGED <<objs, blockData, lastTime, cache, works, last>>
           ELSE /\ blockData' = Len(objs) + 1
                /\ lastTime' = call.time
                /\ issue(Len(objs) + 1, call.time, Append(objs, block))
      /\ UNCHANGED <<now, storeVars, addVars, lastPrevHeight, submits>>

-----------------------------------------------------------------------------
(* A solution of a work, whose nonce is right for that header only.  It sets *)
(* nonce, timestamp and hash of the object, the top block's, too.            *)

Restamped == [objs[cache.obj] EXCEPT !.time = cache.time]

Solves(work) == cache # Null /\ SolvedHash(Restamped) = work

CountSubmit == submits < MaxSubmits /\ submits' = submits + 1

Submit(work) ==
  /\ Solves(work)
  /\ CountSubmit
  /\ add(cache.obj, [objs EXCEPT ![cache.obj] = [Restamped EXCEPT !.hash = work]])
  /\ UNCHANGED <<now, storeVars, currentTopBlock, recentBlockIndex, foreign,
                 blockData, lastPrevHeight, lastTime, cache, calls, works, last>>

(* A solution of another header, or a wrong one, with the Merkle root of the *)
(* entry, which is the same for all works.                                   *)
SubmitWrong ==
  /\ cache # Null
  /\ CountSubmit
  /\ objs' = [objs EXCEPT ![cache.obj] = [Restamped EXCEPT !.hash = Reversed(Restamped)]]
  /\ UNCHANGED <<now, storeVars, addVars,
                 blockData, lastPrevHeight, lastTime, cache, calls, works, last>>

(* What other nodes offer: blocks that obey the rules and blocks that do not,*)
(* behind any block but the genesis block.                                   *)
OfferedParents == {hash \in DOMAIN db : Len(hash) > 1 /\ Last(hash).solved}

OfferedTimes(prev) == {Last(prev).time, Last(prev).time + 1, now + FutureTime}

OfferedBits(prev, time) ==
  ({Last(hash).bits : hash \in DOMAIN db}
   \cup {getNextWork(parent, time) : parent \in {Stored(prev), Top}}) \ {NoBits}

Next ==
  /\ alive
  /\ \/ Tick \/ ReadParent \/ VerifyBits \/ VerifyTime \/ Refuse \/ Save
     \/ \E prev \in OfferedParents : \E time \in OfferedTimes(prev) :
          \E bits \in OfferedBits(prev, time) : Offer(prev, bits, time)
     \/ \E transactions \in BOOLEAN : CallPreparing(transactions) \/ CallAgain(transactions)
     \/ \E call \in calls : MedianTimeKnown(call) \/ Prepared(call)
     \/ SubmitWrong
     \/ \E work \in works : Submit(work)

Spec == Init /\ [][Next]_vars

-----------------------------------------------------------------------------
(* The heights at which the rules for the child of a block look for others.  *)
Window(height) == height - Max({MedianSpan, Interval}) + 1 .. height

(* No stored block competes with one of these at those heights, and those    *)
(* stored are as they were hashed.                                           *)
NoRivals(hash) ==
  \A h \in Window(HeightOf(hash)) : \A stored \in StoredAt(h) :
    IsPrefix(stored, hash) /\ db[stored].time = Last(stored).time

(* The rules by the ancestors a hash is made of.                             *)
ObeysRules(hash) ==
  LET height == HeightOf(hash) - 1
      found == [h \in 0 .. height |-> [bits |-> hash[h + 1].bits, time |-> hash[h + 1].time]]
  IN  /\ Last(hash).bits = NextBits(height, found, Last(hash).time, config.testnet)
      /\ Last(hash).time > MedianTime([h \in LastHeights(height) |-> found[h].time])

(* A block that is stored obeys the rules by its ancestors, although the     *)
(* code finds blocks by their height and keeps verified objects open to      *)
(* change, if it is still the one that was added, its parent in memory is    *)
(* the one it names, and no other chain has blocks at the heights looked at. *)
StoredByRules ==
  \A hash \in DOMAIN db' \ DOMAIN db :
    (/\ hash = Head(queue).hash /\ Processed.time = Last(hash).time
     /\ SolvedHash(Parent) = Front(hash)
     /\ NoRivals(Front(hash)))
    => ObeysRules(hash)

RulesByAncestors == [][StoredByRules]_vars

(* The work handed out last is not lost while its parent is the top block    *)
(* and the cache has an entry: the entry stands for it, and its bits are     *)
(* those verifyChild will expect, whatever was stored since they were asked  *)
(* for, unless the top block was changed in memory, another chain has blocks *)
(* at the heights looked at, or the time is so late that the test network    *)
(* has the least difficulty.                                                 *)
WorkRedeemable ==
  LET work == Last(last)
      late == config.testnet /\ work.time > Top.time + 2 * Spacing
  IN  (/\ last # NoHash /\ cache # Null
       /\ Front(last) = Top.hash /\ SolvedHash(Top) = Top.hash /\ NoRivals(Top.hash))
      => Solves(last) /\ (late \/ work.bits = getNextWork(Top, work.time))
=============================================================================
