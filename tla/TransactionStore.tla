-------------------------- MODULE TransactionStore --------------------------
(* The memory pool: lib/transactionstore.js with the verification of         *)
(* lib/schema/transaction.js that it drives.                                 *)
(*                                                                           *)
(* add() starts a verification and returns; what the verification waits for  *)
(* (inputs still being verified, the outputs of confirmed transactions, the  *)
(* scripts, the search for conflicts) ends in a callback.  Its end calls     *)
(* every callback in the transaction's queue, which may end other            *)
(* verifications, whose callbacks run at once and first: that cascade is the *)
(* stack calls, run one item at a time with nothing else in between.         *)
(*                                                                           *)
(* The block chain is the environment.  The transactions of a block are      *)
(* saved (SaveTx) and, in the main chain, announced (ConnectTx is the txAdd  *)
(* event).  On MongoDB they are saved first, and are the index of spent      *)
(* outputs themselves; on LevelDB all is written after the event, when the   *)
(* batch is, and the spends have entries of their own.  No block is          *)
(* disconnected, and blocks hold only valid transactions without rivals.     *)
(*                                                                           *)
(* A definition whose name extends that of the one below it is a faulty      *)
(* variant, with the mistake a change of the code could make.                *)
EXTENDS Naturals, Sequences

CONSTANTS
  Txs,            \* transactions
  Outpoints,      \* outputs of them
  Ins,            \* the outpoints a transaction spends, in order
  Source,         \* the transaction an outpoint belongs to
  NonStandard,    \* transactions that isStandard() refuses
  Invalid,        \* transactions whose scripts or values are wrong
  Confirmed,      \* transactions in the block chain at the start
  Backend,        \* storage: "mongodb" or "leveldb"
  LiveAccounting, \* cfg.feature.liveAccounting
  Callers         \* calls of add() and get(), each made at most once

Sources(t) == {Source[Ins[t][i]] : i \in DOMAIN Ins[t]}
Spends(t) == {Ins[t][i] : i \in DOMAIN Ins[t]}

ASSUME TxAssumption ==
  /\ Txs # {}
  /\ Ins \in [Txs -> Seq(Outpoints)]
  /\ Source \in [Outpoints -> Txs]
  /\ \A t \in Txs : t \notin Sources(t)
  /\ NonStandard \subseteq Txs
  /\ Invalid \subseteq Txs
  /\ Confirmed \subseteq Txs
  /\ \A s, t \in Confirmed : s # t => Spends(s) \cap Spends(t) = {}
  /\ Backend \in {"mongodb", "leveldb"}
  /\ LiveAccounting \in BOOLEAN

VARIABLES
  txIndex,       \* "absent", "verifying" (an array in the code) or "added"
  queue,         \* the callbacks of that array
  job,           \* the verification of a transaction
  orphanTxIndex, \* transactions that were once orphans
  orphanTxByPrev,\* for a missing transaction, those that wait for it
  txIndexByKey,  \* transactions entered in the index by key
  calls,         \* callbacks and statements due at once
  live,          \* txNotify minus txCancel: what listeners think is pooled
  call,          \* what each caller asked and was told
  chain,         \* transactions whose outputs the block chain finds: those of
                 \* all blocks saved, side chains included, and connected
  spent,         \* those whose inputs the database lists as spent
  connected      \* those of the main chain, announced by txAdd

poolVars == <<txIndex, queue, job, orphanTxIndex, orphanTxByPrev,
              txIndexByKey, calls, live, call>>
vars == <<poolVars, chain, spent, connected>>

Errors == {"missing", "rejected"}
Outcomes == {"ok"} \cup Errors

CallerCb(c) == [kind |-> "caller", who |-> c]
InputCb(t) == [kind |-> "input", who |-> t]
RemovalCb(t) == [kind |-> "removal", who |-> t]
DisabledCb(t) == [kind |-> "disabled", who |-> t]
Callbacks == [kind : {"caller"}, who : Callers]
             \cup [kind : {"input", "removal", "disabled"}, who : Txs]

CallItems == [do : {"call"}, tx : Txs, cb : Callbacks, err : Outcomes]
Statements == [do : {"added", "retry", "notify"}, tx : Txs]

JobType == [at : {"idle", "findMem", "findChain", "scripts", "count",
                  "spender"},
            waits : SUBSET Txs, found : SUBSET Txs]
NoJob == [at |-> "idle", waits |-> {}, found |-> {}]

CallType == [op : {"unused", "add", "get"}, tx : Txs,
             answer : {"none", "unknown"} \cup Outcomes]
NoCall == [op |-> "unused", tx |-> CHOOSE t \in Txs : TRUE, answer |-> "none"]

Added == {t \in Txs : txIndex[t] = "added"}
AtRest == calls = <<>>
IsKnown(t) == txIndex[t] # "absent" \/ t \in orphanTxIndex
IsCoinBase(t) == Ins[t] = <<>>

Init ==
  /\ txIndex = [t \in Txs |-> "absent"]
  /\ queue = [t \in Txs |-> <<>>]
  /\ job = [t \in Txs |-> NoJob]
  /\ orphanTxIndex = {}
  /\ orphanTxByPrev = [t \in Txs |-> <<>>]
  /\ txIndexByKey = {}
  /\ calls = <<>>
  /\ live = {}
  /\ call = [c \in Callers |-> NoCall]
  /\ chain = Confirmed
  /\ spent = Confirmed
  /\ connected = Confirmed

-----------------------------------------------------------------------------
(* The end of a verification: runCallbacks().                                *)

(* The callbacks find() gave out for t do nothing once it has failed.        *)
Disable(t, cb) == IF cb = InputCb(t) THEN DisabledCb(t) ELSE cb
DisableQueue(t, q) == [i \in DOMAIN q |-> Disable(t, q[i])]
DisableCalls(t, s) ==
  [i \in DOMAIN s |-> IF s[i].do = "call"
                      THEN [s[i] EXCEPT !.cb = Disable(t, s[i].cb)] ELSE s[i]]

CallsOfSwapped(t, err) ==
  [i \in DOMAIN queue[t] |->
     [do |-> "call", tx |-> t, cb |-> queue[t][i], err |-> t]]

CallsOf(t, err) ==
  [i \in DOMAIN queue[t] |->
     [do |-> "call", tx |-> t, cb |-> queue[t][i], err |-> err]]

(* Success: the callbacks run, then the statements after runCallbacks().     *)
Accept(t) ==
  /\ txIndex' = [txIndex EXCEPT ![t] = "added"]
  /\ queue' = [queue EXCEPT ![t] = <<>>]
  /\ job' = [job EXCEPT ![t] = NoJob]
  /\ calls' = CallsOf(t, "ok") \o <<[do |-> "added", tx |-> t]>>
  /\ UNCHANGED <<orphanTxIndex, txIndexByKey, orphanTxByPrev, live, call>>

FailSilent(t, err, rest) ==
  /\ txIndex' = [txIndex EXCEPT ![t] = "absent"]
  /\ queue' = [s \in Txs |-> IF s = t THEN <<>> ELSE DisableQueue(t, queue[s])]
  /\ job' = [job EXCEPT ![t] = NoJob]
  /\ calls' = DisableCalls(t, rest)

(* Failure, in front of whatever else was still to run.                      *)
Fail(t, err, rest) ==
  /\ txIndex' = [txIndex EXCEPT ![t] = "absent"]
  /\ queue' = [s \in Txs |-> IF s = t THEN <<>> ELSE DisableQueue(t, queue[s])]
  /\ job' = [job EXCEPT ![t] = NoJob]
  /\ calls' = CallsOf(t, err) \o DisableCalls(t, rest)

-----------------------------------------------------------------------------
(* add() and get()                                                           *)

(* cacheInputs() asks the store for the inputs: those being verified answer  *)
(* later, through their queues.                                              *)
Pending(t) == {s \in Sources(t) : txIndex[s] = "verifying"}

StartVerification(t, q) ==
  /\ txIndex' = [txIndex EXCEPT ![t] = "verifying"]
  /\ queue' = [s \in Txs |-> IF s = t THEN q
                             ELSE IF s \in Pending(t)
                             THEN Append(queue[s], InputCb(t)) ELSE queue[s]]
  /\ job' = [job EXCEPT ![t] =
       [at |-> IF Pending(t) = {} THEN "findChain" ELSE "findMem",
        waits |-> Pending(t),
        found |-> Sources(t) \cap Added]]

Answer(c, t, op, answer) ==
  call' = [call EXCEPT ![c] = [op |-> op, tx |-> t, answer |-> answer]]

Enqueue(c, t, op) ==
  /\ queue' = [queue EXCEPT ![t] = Append(@, CallerCb(c))]
  /\ Answer(c, t, op, "none")
  /\ UNCHANGED <<txIndex, job>>

Add(c, t) ==
  /\ AtRest
  /\ call[c].op = "unused"
  /\ \/ txIndex[t] = "verifying" /\ Enqueue(c, t, "add")
     \/ /\ txIndex[t] = "added"
        /\ Answer(c, t, "add", "ok")
        /\ UNCHANGED <<txIndex, queue, job>>
     \/ /\ txIndex[t] = "absent"
        /\ IsCoinBase(t) \/ t \in NonStandard
        /\ Answer(c, t, "add", "rejected")
        /\ UNCHANGED <<txIndex, queue, job>>
     \/ /\ txIndex[t] = "absent"
        /\ ~IsCoinBase(t) /\ t \notin NonStandard
        /\ StartVerification(t, <<CallerCb(c)>>)
        /\ Answer(c, t, "add", "none")
  /\ UNCHANGED <<orphanTxIndex, orphanTxByPrev, txIndexByKey, calls, live,
                 chain, spent, connected>>

(* A peer's transaction (Node.handleTx) is added unless it is known; one of  *)
(* our own (Node.sendTx) in any case.                                        *)
HandleTx(c, t) == ~IsKnown(t) /\ Add(c, t)
SendTx(c, t) == IsKnown(t) /\ Add(c, t)

Get(c, t) ==
  /\ AtRest
  /\ call[c].op = "unused"
  /\ \/ txIndex[t] = "verifying" /\ Enqueue(c, t, "get")
     \/ /\ txIndex[t] # "verifying"
        /\ Answer(c, t, "get", IF txIndex[t] = "added" THEN "ok" ELSE "unknown")
        /\ UNCHANGED <<txIndex, queue, job>>
  /\ UNCHANGED <<orphanTxIndex, orphanTxByPrev, txIndexByKey, calls, live,
                 chain, spent, connected>>

-----------------------------------------------------------------------------
(* The verification                                                          *)

Available(t) == job[t].found \cup (Sources(t) \cap chain)

(* The first input whose source is not found is the one verify() reports.    *)
MissingSource(t) ==
  Source[Ins[t][CHOOSE i \in DOMAIN Ins[t] :
    /\ Source[Ins[t][i]] \notin Available(t)
    /\ \A j \in 1..(i - 1) : Source[Ins[t][j]] \in Available(t)]]

(* The outputs have been looked up in the block chain; all are there.        *)
InputsFound(t) ==
  /\ AtRest
  /\ job[t].at = "findChain"
  /\ Sources(t) \subseteq Available(t)
  /\ job' = [job EXCEPT ![t].at = "scripts", ![t].found = Available(t)]
  /\ UNCHANGED <<txIndex, queue, orphanTxIndex, orphanTxByPrev, txIndexByKey,
                 calls, live, call, chain, spent, connected>>

BecomeOrphan(t) ==
  /\ AtRest
  /\ job[t].at = "findChain"
  /\ ~(Sources(t) \subseteq Available(t))
  /\ orphanTxIndex' = orphanTxIndex \cup {t}
  /\ orphanTxByPrev' = [orphanTxByPrev EXCEPT ![MissingSource(t)] = Append(@, t)]
  /\ Fail(t, "missing", calls)
  /\ UNCHANGED <<txIndexByKey, live, call, chain, spent, connected>>

ScriptsRight(t) ==
  /\ AtRest
  /\ job[t].at = "scripts"
  /\ t \notin Invalid
  /\ job' = [job EXCEPT ![t].at = "count"]
  /\ UNCHANGED <<txIndex, queue, orphanTxIndex, orphanTxByPrev, txIndexByKey,
                 calls, live, call, chain, spent, connected>>

ScriptsWrong(t) ==
  /\ AtRest
  /\ job[t].at = "scripts"
  /\ t \in Invalid
  /\ Fail(t, "rejected", calls)
  /\ UNCHANGED <<orphanTxIndex, orphanTxByPrev, txIndexByKey, live, call,
                 chain, spent, connected>>

Spenders(t) == {s \in spent : Spends(s) \cap Spends(t) # {}}

(* countConflictingTransactions().  MongoDB counts the transactions; LevelDB *)
(* reports an error for an outpoint it has no entry for, that is an unspent  *)
(* one, and counts only entries that are strings, when all are Buffers.      *)
CountConflictsNone(t) == "none"

CountConflicts(t) ==
  IF Backend = "mongodb" THEN IF Spenders(t) = {} THEN "none" ELSE "some"
  ELSE IF \A o \in Spends(t) : \E s \in spent : o \in Spends(s)
       THEN "none" ELSE "error"

NoConflict(t) ==
  /\ AtRest
  /\ job[t].at = "count"
  /\ CountConflicts(t) = "none"
  /\ Accept(t)
  /\ UNCHANGED <<chain, spent, connected>>

CountFails(t) ==
  /\ AtRest
  /\ job[t].at = "count"
  /\ CountConflicts(t) = "error"
  /\ Fail(t, "rejected", calls)
  /\ UNCHANGED <<orphanTxIndex, orphanTxByPrev, txIndexByKey, live, call,
                 chain, spent, connected>>

LookForSpender(t) ==
  /\ AtRest
  /\ job[t].at = "count"
  /\ CountConflicts(t) = "some"
  /\ job' = [job EXCEPT ![t].at = "spender"]
  /\ UNCHANGED <<txIndex, queue, orphanTxIndex, orphanTxByPrev, txIndexByKey,
                 calls, live, call, chain, spent, connected>>

(* The first spender decides: a transaction does not conflict with itself.   *)
SpenderIsItself(t) ==
  /\ AtRest
  /\ job[t].at = "spender"
  /\ t \in Spenders(t)
  /\ Accept(t)
  /\ UNCHANGED <<chain, spent, connected>>

SpenderIsAnother(t) ==
  /\ AtRest
  /\ job[t].at = "spender"
  /\ Spenders(t) \ {t} # {}
  /\ Fail(t, "rejected", calls)
  /\ UNCHANGED <<orphanTxIndex, orphanTxByPrev, txIndexByKey, live, call,
                 chain, spent, connected>>

-----------------------------------------------------------------------------
(* remove(), and the callbacks one after the other                           *)

(* getAffectedKeys() needs the cache of inputs when it has not run before,   *)
(* which is before txNotify, and remove() does not pass it: it throws, after *)
(* txCancel.  MongoDB's callback catches and logs the exception, so the rest *)
(* of the cascade does not run; LevelDB's does not, and the process ends:    *)
(* there is no next state.                                                   *)
RemoveThrowsNever(t) == FALSE
RemoveThrowsAlways(t) == t \notin live
RemoveThrows(t) == LiveAccounting /\ t \notin live

RemoveAtOnce(t, rest) ==
  /\ txIndex' = [txIndex EXCEPT ![t] = "absent"]
  /\ live' = live \ {t}
  /\ calls' = rest
  /\ UNCHANGED <<queue, job, orphanTxIndex, orphanTxByPrev, txIndexByKey, call>>

Remove(t, rest) ==
  /\ \/ /\ txIndex[t] = "verifying"
        /\ queue' = [queue EXCEPT ![t] = Append(@, RemovalCb(t))]
        /\ calls' = rest
        /\ UNCHANGED <<txIndex, live>>
     \/ /\ txIndex[t] = "added"
        /\ RemoveThrows(t) => Backend = "mongodb"
        /\ txIndex' = [txIndex EXCEPT ![t] = "absent"]
        /\ live' = live \ {t}
        /\ calls' = IF RemoveThrows(t) THEN <<>> ELSE rest
        /\ UNCHANGED queue
     \/ /\ txIndex[t] = "absent"
        /\ calls' = rest
        /\ UNCHANGED <<txIndex, queue, live>>
  /\ UNCHANGED <<job, orphanTxIndex, orphanTxByPrev, txIndexByKey, call>>

(* A transaction removed while it was verified leaves once it is accepted.   *)
RunRemoval(i, rest) ==
  /\ i.do = "call" /\ i.cb.kind = "removal"
  /\ \/ i.err = "ok" /\ Remove(i.cb.who, rest)
     \/ /\ i.err # "ok"
        /\ calls' = rest
        /\ UNCHANGED <<txIndex, queue, job, orphanTxIndex, orphanTxByPrev,
                       txIndexByKey, live, call>>

RunCaller(i, rest) ==
  /\ i.do = "call" /\ i.cb.kind = "caller"
  /\ call' = [call EXCEPT ![i.cb.who].answer = i.err]
  /\ calls' = rest
  /\ UNCHANGED <<txIndex, queue, job, orphanTxIndex, orphanTxByPrev,
                 txIndexByKey, live>>

RunDisabled(i, rest) ==
  /\ i.do = "call" /\ i.cb.kind = "disabled"
  /\ calls' = rest
  /\ UNCHANGED <<txIndex, queue, job, orphanTxIndex, orphanTxByPrev,
                 txIndexByKey, live, call>>

RunInputAnyway(i, rest) ==
  /\ i.do = "call" /\ i.cb.kind = "input"
  /\ job' = [job EXCEPT
       ![i.cb.who].waits = @ \ {i.tx},
       ![i.cb.who].found = @ \cup {i.tx},
       ![i.cb.who].at = IF job[i.cb.who].waits \subseteq {i.tx}
                        THEN "findChain" ELSE "findMem"]
  /\ calls' = rest
  /\ UNCHANGED <<txIndex, queue, orphanTxIndex, orphanTxByPrev, txIndexByKey,
                 live, call>>

(* An input answers find(): an error fails the verification that asked.      *)
RunInput(i, rest) ==
  /\ i.do = "call" /\ i.cb.kind = "input"
  /\ LET t == i.cb.who
         left == job[t].waits \ {i.tx}
     IN \/ /\ i.err = "ok"
           /\ job' = [job EXCEPT ![t] =
                [at |-> IF left = {} THEN "findChain" ELSE "findMem",
                 waits |-> left,
                 found |-> job[t].found \cup {i.tx}]]
           /\ calls' = rest
           /\ UNCHANGED <<txIndex, queue>>
        \/ i.err # "ok" /\ Fail(t, i.err, rest)
  /\ UNCHANGED <<orphanTxIndex, orphanTxByPrev, txIndexByKey, live, call>>

(* The orphans that wait for an accepted transaction are added again.        *)
RunAdded(i, rest) ==
  /\ i.do = "added"
  /\ calls' = [k \in DOMAIN orphanTxByPrev[i.tx] |->
                 [do |-> "retry", tx |-> orphanTxByPrev[i.tx][k]]]
              \o <<[do |-> "notify", tx |-> i.tx]>> \o rest
  /\ orphanTxByPrev' = [orphanTxByPrev EXCEPT ![i.tx] = <<>>]
  /\ UNCHANGED <<txIndex, queue, job, orphanTxIndex, txIndexByKey, live, call>>

RunRetry(i, rest) ==
  /\ i.do = "retry"
  /\ \/ txIndex[i.tx] = "absent" /\ StartVerification(i.tx, <<>>)
     \/ txIndex[i.tx] # "absent" /\ UNCHANGED <<txIndex, queue, job>>
  /\ calls' = rest
  /\ UNCHANGED <<orphanTxIndex, orphanTxByPrev, txIndexByKey, live, call>>

RunNotify(i, rest) ==
  /\ i.do = "notify"
  /\ live' = live \cup {i.tx}
  /\ txIndexByKey' = IF LiveAccounting THEN txIndexByKey \cup {i.tx}
                     ELSE txIndexByKey
  /\ calls' = rest
  /\ UNCHANGED <<txIndex, queue, job, orphanTxIndex, orphanTxByPrev, call>>

RunNext ==
  /\ calls # <<>>
  /\ LET i == Head(calls)
         rest == Tail(calls)
     IN \/ RunRemoval(i, rest) \/ RunCaller(i, rest) \/ RunDisabled(i, rest)
        \/ RunInput(i, rest) \/ RunAdded(i, rest) \/ RunRetry(i, rest)
        \/ RunNotify(i, rest)
  /\ UNCHANGED <<chain, spent, connected>>

-----------------------------------------------------------------------------
(* The block chain                                                           *)

Fits(t) ==
  /\ t \notin Invalid
  /\ Sources(t) \subseteq chain
  /\ \A s \in chain \ {t} : Spends(s) \cap Spends(t) = {}

(* A block with t is saved: its own step before txAdd on MongoDB, where the  *)
(* inputs of what is stored are spent; the batch of a side chain's block on  *)
(* LevelDB, which does not list them.                                        *)
SaveTx(t) ==
  /\ AtRest
  /\ t \notin chain
  /\ Fits(t)
  /\ chain' = chain \cup {t}
  /\ spent' = IF Backend = "mongodb" THEN spent \cup {t} ELSE spent
  /\ UNCHANGED <<poolVars, connected>>

(* A block with t joins the main chain: txAdd reaches handleTxAdd(), and t   *)
(* can be found in recentTxIndex from now on.                                *)
ConnectTx(t) ==
  /\ AtRest
  /\ t \notin connected
  /\ Fits(t)
  /\ Backend = "mongodb" => t \in chain
  /\ chain' = chain \cup {t}
  /\ connected' = connected \cup {t}
  /\ Remove(t, calls)
  /\ UNCHANGED spent

(* The batch with the entries of its inputs is written; MongoDB has none.    *)
SaveSpends(t) ==
  /\ AtRest
  /\ Backend = "leveldb"
  /\ t \in connected \ spent
  /\ spent' = spent \cup {t}
  /\ UNCHANGED <<poolVars, chain, connected>>

ChainStep(t) == SaveTx(t) \/ ConnectTx(t) \/ SaveSpends(t)

-----------------------------------------------------------------------------
VerificationStep(t) ==
  \/ InputsFound(t) \/ BecomeOrphan(t) \/ ScriptsRight(t) \/ ScriptsWrong(t)
  \/ NoConflict(t) \/ CountFails(t) \/ LookForSpender(t)
  \/ SpenderIsItself(t) \/ SpenderIsAnother(t)

Next ==
  \/ \E c \in Callers, t \in Txs : HandleTx(c, t) \/ SendTx(c, t) \/ Get(c, t)
  \/ \E t \in Txs : VerificationStep(t) \/ ChainStep(t)
  \/ RunNext

Spec == Init /\ [][Next]_vars

(* The storage answers and the scripts end; callbacks that are due run.      *)
Fairness ==
  /\ \A t \in Txs : WF_vars(VerificationStep(t))
  /\ WF_vars(RunNext)

FairSpec == Spec /\ Fairness

-----------------------------------------------------------------------------
(* Properties                                                                *)

(* The state has the shape of the objects of TransactionStore.               *)
TypeOK ==
  /\ txIndex \in [Txs -> {"absent", "verifying", "added"}]
  /\ queue \in [Txs -> Seq(Callbacks)]
  /\ job \in [Txs -> JobType]
  /\ orphanTxIndex \subseteq Txs
  /\ orphanTxByPrev \in [Txs -> Seq(Txs)]
  /\ txIndexByKey \subseteq Txs
  /\ calls \in Seq(CallItems \cup Statements)
  /\ live \subseteq Txs
  /\ call \in [Callers -> CallType]
  /\ chain \subseteq Txs
  /\ spent \subseteq chain
  /\ connected \subseteq chain

(* Whenever runCallbacks() runs there is a queue to run: a verification is   *)
(* under way exactly for the transactions whose entry is an array, so the    *)
(* "callback misfired" branch (transactionstore.js:63) is never taken.       *)
NeverMisfires ==
  \A t \in Txs : /\ txIndex[t] = "verifying" <=> job[t].at # "idle"
                 /\ txIndex[t] # "verifying" => queue[t] = <<>>

(* An accepted transaction can be included in a block once its parents are:  *)
(* each is pooled or confirmed, although the parents were looked up several  *)
(* callbacks before it was accepted.                                         *)
ParentsPooled ==
  \A t \in Added : \A s \in Sources(t) : s \in Added \/ s \in chain

(* Between two events the listeners of txNotify and txCancel know exactly    *)
(* the pool, so that remove() called by a block finds the keys it needs and  *)
(* does not throw into the block chain.                                      *)
ListenersKnowPool == AtRest => live = Added

(* An input that a verification waits for is being verified and will answer  *)
(* it, so no verification waits for nothing.                                 *)
WaitersQueued ==
  AtRest => \A t \in Txs :
    /\ job[t].at = "findMem" => job[t].waits # {}
    /\ \A s \in job[t].waits :
         /\ txIndex[s] = "verifying"
         /\ \E i \in DOMAIN queue[s] : queue[s][i] = InputCb(t)

(* Every step of the store is a step of a memory pool that accepts only      *)
(* valid transactions with their parents, none in conflict with the blocks   *)
(* stored, and gives up only those that the main chain has announced.  It is *)
(* about MongoDB: LevelDB's search for conflicts finds none.                 *)
Refused == Invalid \cup NonStandard \cup {t \in Txs : IsCoinBase(t)}
Rivals(s, t) == Spends(s) \cap Spends(t) # {}
Pool == INSTANCE MemoryPool WITH
  Txs <- Txs, Invalid <- Refused, Parents <- Sources, Conflict <- Rivals,
  pool <- Added, stored <- chain, confirmed <- connected
ImplementsPool == Pool!PoolSpec

(* Whoever asks for a transaction that is being verified gets it as soon as  *)
(* it is ready (transactionstore.js:174), and add() calls back.              *)
CallersAnswered ==
  \A c \in Callers : call[c].op # "unused" ~> call[c].answer # "none"
=============================================================================
