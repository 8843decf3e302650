----------------------- MODULE TransactionStoreProofs -----------------------
(* Proofs about TransactionStore: types, that no callback misfires, that     *)
(* what is pooled can be mined, the refinement of MemoryPool, and, each      *)
(* under the hypothesis its theorem states, that waiting verifications are   *)
(* answered and that the listeners know the pool.                            *)
EXTENDS TransactionStore, SequenceTheorems, TLAPS

-----------------------------------------------------------------------------
(* Values                                                                    *)

LEMMA FunctionIsSeq ==
  ASSUME NEW S, NEW n \in Nat, NEW f \in [1..n -> S]
  PROVE  f \in Seq(S) /\ Len(f) = n
OBVIOUS

LEMMA SourcesType ==
  ASSUME NEW t \in Txs
  PROVE  /\ Ins[t] \in Seq(Outpoints)
         /\ Sources(t) \subseteq Txs
         /\ t \notin Sources(t)
BY TxAssumption DEF Sources

LEMMA CallbackTypes ==
  ASSUME NEW t \in Txs
  PROVE  /\ \A c \in Callers : CallerCb(c) \in Callbacks
         /\ InputCb(t) \in Callbacks
         /\ RemovalCb(t) \in Callbacks
         /\ DisabledCb(t) \in Callbacks
BY DEF CallerCb, InputCb, RemovalCb, DisabledCb, Callbacks

LEMMA DisableQueueType ==
  ASSUME NEW t \in Txs, NEW q \in Seq(Callbacks)
  PROVE  /\ DisableQueue(t, q) \in Seq(Callbacks)
         /\ Len(DisableQueue(t, q)) = Len(q)
<1>1. DOMAIN q = 1..Len(q) /\ Len(q) \in Nat
  OBVIOUS
<1>2. \A i \in 1..Len(q) : Disable(t, q[i]) \in Callbacks
  BY CallbackTypes DEF Disable
<1>3. DisableQueue(t, q) \in [1..Len(q) -> Callbacks]
  BY <1>1, <1>2 DEF DisableQueue
<1> QED BY <1>1, <1>3, FunctionIsSeq

Items == CallItems \cup Statements

LEMMA DisableCallsType ==
  ASSUME NEW t \in Txs, NEW s \in Seq(Items)
  PROVE  /\ DisableCalls(t, s) \in Seq(Items)
         /\ Len(DisableCalls(t, s)) = Len(s)
<1>1. DOMAIN s = 1..Len(s) /\ Len(s) \in Nat
  OBVIOUS
<1>2. ASSUME NEW i \in 1..Len(s)
      PROVE  (IF s[i].do = "call"
              THEN [s[i] EXCEPT !.cb = Disable(t, s[i].cb)] ELSE s[i]) \in Items
  <2>1. s[i] \in Items
    OBVIOUS
  <2>2. CASE s[i] \in CallItems
    <3>1. s[i].cb \in Callbacks
      BY <2>2 DEF CallItems
    <3>2. Disable(t, s[i].cb) \in Callbacks
      BY <3>1, CallbackTypes DEF Disable
    <3> QED BY <2>2, <3>2 DEF CallItems, Items
  <2>3. CASE s[i] \in Statements
    BY <2>3 DEF Statements, Items
  <2> QED BY <2>1, <2>2, <2>3 DEF Items
<1>3. DisableCalls(t, s) \in [1..Len(s) -> Items]
  BY <1>1, <1>2 DEF DisableCalls
<1> QED BY <1>1, <1>3, FunctionIsSeq

LEMMA CallsOfType ==
  ASSUME NEW t \in Txs, NEW err \in Outcomes, TypeOK
  PROVE  /\ CallsOf(t, err) \in Seq(Items)
         /\ Len(CallsOf(t, err)) = Len(queue[t])
<1>1. queue[t] \in Seq(Callbacks)
  BY DEF TypeOK
<1>2. DOMAIN queue[t] = 1..Len(queue[t]) /\ Len(queue[t]) \in Nat
  BY <1>1
<1>3. CallsOf(t, err) \in [1..Len(queue[t]) -> CallItems]
  BY <1>1, <1>2 DEF CallsOf, CallItems
<1>4. CallsOf(t, err) \in [1..Len(queue[t]) -> Items]
  BY <1>3 DEF Items
<1> QED BY <1>2, <1>4, FunctionIsSeq

LEMMA RestType ==
  ASSUME TypeOK, calls # <<>>
  PROVE  /\ Head(calls) \in Items
         /\ Tail(calls) \in Seq(Items)
BY HeadTailProperties DEF TypeOK, Items

-----------------------------------------------------------------------------
(* The types are kept by the parts the actions are made of.                  *)

PoolTypes ==
  /\ txIndex \in [Txs -> {"absent", "verifying", "added"}]
  /\ queue \in [Txs -> Seq(Callbacks)]
  /\ job \in [Txs -> JobType]
  /\ calls \in Seq(Items)

LEMMA TypeParts ==
  TypeOK <=> /\ PoolTypes
             /\ orphanTxIndex \subseteq Txs
             /\ orphanTxByPrev \in [Txs -> Seq(Txs)]
             /\ txIndexByKey \subseteq Txs
             /\ live \subseteq Txs
             /\ call \in [Callers -> CallType]
             /\ chain \subseteq Txs
             /\ spent \subseteq chain
             /\ connected \subseteq chain
BY DEF TypeOK, PoolTypes, Items

LEMMA AcceptType ==
  ASSUME TypeOK, NEW t \in Txs, Accept(t)
  PROVE  PoolTypes'
<1>1. txIndex' \in [Txs -> {"absent", "verifying", "added"}]
  BY DEF TypeOK, Accept
<1>2. queue' \in [Txs -> Seq(Callbacks)]
  BY EmptySeq DEF TypeOK, Accept
<1>3. job' \in [Txs -> JobType]
  BY DEF TypeOK, Accept, NoJob, JobType
<1>4. CallsOf(t, "ok") \in Seq(Items)
  BY CallsOfType DEF Outcomes
<1>5. [do |-> "added", tx |-> t] \in Items
  BY DEF Items, Statements
<1>6. calls' \in Seq(Items)
  BY <1>4, <1>5 DEF Accept
<1> QED BY <1>1, <1>2, <1>3, <1>6 DEF PoolTypes

LEMMA FailType ==
  ASSUME TypeOK, NEW t \in Txs, NEW err \in Outcomes, NEW rest \in Seq(Items),
         Fail(t, err, rest)
  PROVE  PoolTypes'
<1>1. txIndex' \in [Txs -> {"absent", "verifying", "added"}]
  BY DEF TypeOK, Fail
<1>2. queue' \in [Txs -> Seq(Callbacks)]
  <2>1. \A s \in Txs : DisableQueue(t, queue[s]) \in Seq(Callbacks)
    BY DisableQueueType DEF TypeOK
  <2> QED BY <2>1, EmptySeq DEF Fail
<1>3. job' \in [Txs -> JobType]
  BY DEF TypeOK, Fail, NoJob, JobType
<1>4. calls' \in Seq(Items)
  <2>1. CallsOf(t, err) \in Seq(Items)
    BY CallsOfType
  <2>2. DisableCalls(t, rest) \in Seq(Items)
    BY DisableCallsType
  <2> QED BY <2>1, <2>2, ConcatProperties DEF Fail
<1> QED BY <1>1, <1>2, <1>3, <1>4 DEF PoolTypes

LEMMA StartType ==
  ASSUME TypeOK, NEW t \in Txs, NEW q \in Seq(Callbacks),
         StartVerification(t, q)
  PROVE  /\ txIndex' \in [Txs -> {"absent", "verifying", "added"}]
         /\ queue' \in [Txs -> Seq(Callbacks)]
         /\ job' \in [Txs -> JobType]
<1>1. txIndex' \in [Txs -> {"absent", "verifying", "added"}]
  BY DEF TypeOK, StartVerification
<1>2. queue' \in [Txs -> Seq(Callbacks)]
  <2>1. \A s \in Txs : Append(queue[s], InputCb(t)) \in Seq(Callbacks)
    BY CallbackTypes, AppendProperties DEF TypeOK
  <2> QED BY <2>1 DEF TypeOK, StartVerification
<1>3. job' \in [Txs -> JobType]
  <2>1. Pending(t) \in SUBSET Txs /\ Sources(t) \cap Added \in SUBSET Txs
    BY SourcesType DEF Pending
  <2> QED BY <2>1 DEF TypeOK, StartVerification, JobType
<1> QED BY <1>1, <1>2, <1>3

LEMMA RemoveType ==
  ASSUME TypeOK, NEW t \in Txs, NEW rest \in Seq(Items), Remove(t, rest)
  PROVE  PoolTypes' /\ live' \subseteq Txs
<1>1. txIndex' \in [Txs -> {"absent", "verifying", "added"}]
  BY DEF TypeOK, Remove
<1>2. queue' \in [Txs -> Seq(Callbacks)]
  <2>1. Append(queue[t], RemovalCb(t)) \in Seq(Callbacks)
    BY CallbackTypes, AppendProperties DEF TypeOK
  <2> QED BY <2>1 DEF TypeOK, Remove
<1>3. job' \in [Txs -> JobType]
  BY DEF TypeOK, Remove
<1>4. calls' \in Seq(Items)
  BY EmptySeq DEF Remove
<1>5. live' \subseteq Txs
  BY DEF TypeOK, Remove
<1> QED BY <1>1, <1>2, <1>3, <1>4, <1>5 DEF PoolTypes

-----------------------------------------------------------------------------
(* TypeOK                                                                    *)

LEMMA InitType == Init => TypeOK
<1> SUFFICES ASSUME Init PROVE TypeOK
  OBVIOUS
<1>1. NoCall \in CallType
  BY TxAssumption DEF NoCall, CallType
<1>2. NoJob \in JobType
  BY DEF NoJob, JobType
<1>3. calls \in Seq(CallItems \cup Statements)
  BY EmptySeq DEF Init
<1>4. queue \in [Txs -> Seq(Callbacks)] /\ orphanTxByPrev \in [Txs -> Seq(Txs)]
  BY EmptySeq DEF Init
<1> QED BY <1>1, <1>2, <1>3, <1>4, TxAssumption DEF Init, TypeOK

LEMMA AnswerType ==
  ASSUME TypeOK, NEW c \in Callers, NEW t \in Txs, NEW op \in {"add", "get"},
         NEW a \in {"none", "unknown"} \cup Outcomes, Answer(c, t, op, a)
  PROVE  call' \in [Callers -> CallType]
BY DEF TypeOK, Answer, CallType

LEMMA EnqueueType ==
  ASSUME TypeOK, NEW c \in Callers, NEW t \in Txs, NEW op \in {"add", "get"},
         Enqueue(c, t, op), UNCHANGED calls
  PROVE  PoolTypes' /\ call' \in [Callers -> CallType]
<1>1. call' \in [Callers -> CallType]
  BY AnswerType DEF Enqueue
<1>2. Append(queue[t], CallerCb(c)) \in Seq(Callbacks)
  BY CallbackTypes, AppendProperties DEF TypeOK
<1>3. queue' \in [Txs -> Seq(Callbacks)]
  BY <1>2 DEF TypeOK, Enqueue
<1> QED BY <1>1, <1>3, TypeParts DEF Enqueue, PoolTypes

LEMMA AddType ==
  ASSUME TypeOK, NEW c \in Callers, NEW t \in Txs, Add(c, t)
  PROVE  TypeOK'
<1> USE DEF Outcomes, Errors
<1>1. PoolTypes' /\ call' \in [Callers -> CallType]
  <2>1. CASE Enqueue(c, t, "add")
    BY <2>1, EnqueueType DEF Add
  <2>2. CASE Answer(c, t, "add", "ok") /\ UNCHANGED <<txIndex, queue, job>>
    BY <2>2, AnswerType, TypeParts DEF Add, PoolTypes
  <2>3. CASE Answer(c, t, "add", "rejected") /\ UNCHANGED <<txIndex, queue, job>>
    BY <2>3, AnswerType, TypeParts DEF Add, PoolTypes
  <2>4. CASE StartVerification(t, <<CallerCb(c)>>) /\ Answer(c, t, "add", "none")
    <3>1. <<CallerCb(c)>> \in Seq(Callbacks)
      BY CallbackTypes
    <3>2. call' \in [Callers -> CallType]
      BY <2>4, AnswerType
    <3> QED BY <2>4, <3>1, <3>2, StartType, TypeParts DEF Add, PoolTypes
  <2> QED BY <2>1, <2>2, <2>3, <2>4 DEF Add
<1> QED BY <1>1, TypeParts DEF Add, TypeOK, PoolTypes, Items

LEMMA GetType ==
  ASSUME TypeOK, NEW c \in Callers, NEW t \in Txs, Get(c, t)
  PROVE  TypeOK'
<1> USE DEF Outcomes
<1>1. PoolTypes' /\ call' \in [Callers -> CallType]
  <2>1. CASE Enqueue(c, t, "get")
    BY <2>1, EnqueueType DEF Get
  <2>2. CASE /\ Answer(c, t, "get", IF txIndex[t] = "added" THEN "ok" ELSE "unknown")
             /\ UNCHANGED <<txIndex, queue, job>>
    BY <2>2, AnswerType, TypeParts DEF Get, PoolTypes
  <2> QED BY <2>1, <2>2 DEF Get
<1> QED BY <1>1 DEF Get, TypeOK, PoolTypes, Items

LEMMA JobStepType ==
  ASSUME TypeOK, NEW t \in Txs,
         NEW at \in {"scripts", "count", "spender"}, NEW found \in SUBSET Txs
  PROVE  /\ [job EXCEPT ![t].at = at] \in [Txs -> JobType]
         /\ [job EXCEPT ![t].at = at, ![t].found = found] \in [Txs -> JobType]
<1>1. job[t] \in JobType /\ job \in [Txs -> JobType]
  BY DEF TypeOK
<1>2. [job[t] EXCEPT !.at = at] \in JobType
  BY <1>1 DEF JobType
<1>3. [job[t] EXCEPT !.at = at, !.found = found] \in JobType
  BY <1>1 DEF JobType
<1>4. [job EXCEPT ![t] = [job[t] EXCEPT !.at = at]] \in [Txs -> JobType]
  BY <1>1, <1>2
<1>5. [job EXCEPT ![t] = [job[t] EXCEPT !.at = at, !.found = found]] \in [Txs -> JobType]
  BY <1>1, <1>3
<1>6. [job EXCEPT ![t].at = at] = [job EXCEPT ![t] = [job[t] EXCEPT !.at = at]]
  BY <1>1
<1>7. [job EXCEPT ![t].at = at, ![t].found = found]
      = [job EXCEPT ![t] = [job[t] EXCEPT !.at = at, !.found = found]]
  BY <1>1
<1> QED BY <1>4, <1>5, <1>6, <1>7

LEMMA VerificationType ==
  ASSUME TypeOK, NEW t \in Txs, VerificationStep(t)
  PROVE  TypeOK'
<1> USE DEF Outcomes, Errors
<1>1. CASE InputsFound(t)
  <2>1. Available(t) \in SUBSET Txs
    BY DEF TypeOK, JobType, Available
  <2>3. job' \in [Txs -> JobType]
    BY <1>1, <2>1, JobStepType DEF InputsFound
  <2> QED BY <1>1, <2>3 DEF InputsFound, TypeOK
<1>2. CASE BecomeOrphan(t)
  <2>1. PoolTypes'
    BY <1>2, FailType, TypeParts DEF BecomeOrphan, PoolTypes
  <2>2. orphanTxByPrev' \in [Txs -> Seq(Txs)]
    BY <1>2, AppendProperties DEF BecomeOrphan, TypeOK
  <2> QED BY <1>2, <2>1, <2>2 DEF BecomeOrphan, TypeOK, PoolTypes, Items
<1>3. CASE ScriptsRight(t) \/ LookForSpender(t)
  <2>2. {} \in SUBSET Txs
    OBVIOUS
  <2>3. /\ [job EXCEPT ![t].at = "count"] \in [Txs -> JobType]
        /\ [job EXCEPT ![t].at = "spender"] \in [Txs -> JobType]
    BY <2>2, JobStepType
  <2>1. job' \in [Txs -> JobType]
    BY <1>3, <2>3 DEF ScriptsRight, LookForSpender
  <2> QED BY <1>3, <2>1 DEF ScriptsRight, LookForSpender, TypeOK
<1>4. CASE ScriptsWrong(t) \/ CountFails(t) \/ SpenderIsAnother(t)
  <2>1. Fail(t, "rejected", calls)
    BY <1>4 DEF ScriptsWrong, CountFails, SpenderIsAnother
  <2>2. PoolTypes'
    BY <2>1, FailType, TypeParts DEF PoolTypes
  <2> QED BY <1>4, <2>2
          DEF ScriptsWrong, CountFails, SpenderIsAnother, TypeOK, PoolTypes, Items
<1>5. CASE NoConflict(t) \/ SpenderIsItself(t)
  <2>1. Accept(t)
    BY <1>5 DEF NoConflict, SpenderIsItself
  <2>2. PoolTypes'
    BY <2>1, AcceptType
  <2> QED BY <1>5, <2>1, <2>2
          DEF NoConflict, SpenderIsItself, Accept, TypeOK, PoolTypes, Items
<1> QED BY <1>1, <1>2, <1>3, <1>4, <1>5 DEF VerificationStep

LEMMA ChainType ==
  ASSUME TypeOK, NEW t \in Txs, ChainStep(t)
  PROVE  TypeOK'
<1>1. CASE ConnectTx(t)
  <2>1. PoolTypes' /\ live' \subseteq Txs
    BY <1>1, RemoveType, TypeParts DEF ConnectTx, PoolTypes
  <2> QED BY <1>1, <2>1 DEF ConnectTx, Remove, TypeOK, PoolTypes, Items
<1>2. CASE SaveTx(t) \/ SaveSpends(t)
  BY <1>2 DEF SaveTx, SaveSpends, poolVars, TypeOK
<1> QED BY <1>1, <1>2 DEF ChainStep

LEMMA RunNextType ==
  ASSUME TypeOK, RunNext
  PROVE  TypeOK'
<1> DEFINE i == Head(calls)
           rest == Tail(calls)
<1>1. i \in Items /\ rest \in Seq(Items)
  BY RestType DEF RunNext
<1>2. UNCHANGED <<chain, spent, connected>>
  BY DEF RunNext
<1>3. i.do = "call" => i.cb \in Callbacks /\ i.tx \in Txs /\ i.err \in Outcomes
  BY <1>1 DEF Items, CallItems, Statements
<1>4. i.tx \in Txs
  BY <1>1 DEF Items, CallItems, Statements
<1>5. RunRemoval(i, rest) \/ RunCaller(i, rest) \/ RunDisabled(i, rest)
      \/ RunInput(i, rest) \/ RunAdded(i, rest) \/ RunRetry(i, rest)
      \/ RunNotify(i, rest)
  BY DEF RunNext
<1> HIDE DEF i, rest
<1>6. CASE RunRemoval(i, rest)
  <2>1. i.cb.who \in Txs
    BY <1>3, <1>6 DEF RunRemoval, Callbacks
  <2>2. CASE Remove(i.cb.who, rest)
    <3>1. PoolTypes' /\ live' \subseteq Txs
      BY <1>1, <2>1, <2>2, RemoveType
    <3> QED BY <1>2, <2>2, <3>1 DEF Remove, TypeOK, PoolTypes, Items
  <2>3. CASE /\ calls' = rest
             /\ UNCHANGED <<txIndex, queue, job, orphanTxIndex, orphanTxByPrev,
                            txIndexByKey, live, call>>
    BY <1>1, <1>2, <2>3 DEF TypeOK, Items
  <2> QED BY <1>6, <2>2, <2>3 DEF RunRemoval
<1>7. CASE RunCaller(i, rest)
  <2>1. i.cb.who \in Callers /\ i.err \in Outcomes
    BY <1>3, <1>7 DEF RunCaller, Callbacks
  <2>2. call' \in [Callers -> CallType]
    BY <1>7, <2>1, ZenonT(60) DEF RunCaller, TypeOK, CallType
  <2> QED BY <1>1, <1>2, <1>7, <2>2 DEF RunCaller, TypeOK, Items
<1>8. CASE RunDisabled(i, rest)
  BY <1>1, <1>2, <1>8 DEF RunDisabled, TypeOK, Items
<1>9. CASE RunInput(i, rest)
  <2>1. i.cb.who \in Txs
    BY <1>3, <1>9 DEF RunInput, Callbacks
  <2>2. CASE Fail(i.cb.who, i.err, rest)
    <3>1. i.err \in Outcomes
      BY <1>3, <1>9 DEF RunInput
    <3>2. PoolTypes'
      BY <1>1, <2>1, <2>2, <3>1, FailType
    <3> QED BY <1>2, <1>9, <3>2 DEF RunInput, TypeOK, PoolTypes, Items
  <2>3. CASE i.err = "ok"
    <3> DEFINE left == job[i.cb.who].waits \ {i.tx}
               new == [at |-> IF left = {} THEN "findChain" ELSE "findMem",
                       waits |-> left, found |-> job[i.cb.who].found \cup {i.tx}]
    <3>1. job[i.cb.who] \in JobType
      BY <2>1 DEF TypeOK
    <3>2. new \in JobType
      BY <1>4, <3>1 DEF JobType
    <3>3. /\ job' = [job EXCEPT ![i.cb.who] = new]
          /\ calls' = rest
          /\ UNCHANGED <<txIndex, queue>>
      BY <1>9, <2>3 DEF RunInput
    <3>4. job' \in [Txs -> JobType]
      BY <3>2, <3>3 DEF TypeOK
    <3> HIDE DEF new
    <3> QED BY <1>1, <1>2, <1>9, <3>3, <3>4 DEF RunInput, TypeOK, Items
  <2> QED BY <1>9, <2>2, <2>3 DEF RunInput
<1>10. CASE RunAdded(i, rest)
  <2> DEFINE list == orphanTxByPrev[i.tx]
             retries == [k \in DOMAIN list |-> [do |-> "retry", tx |-> list[k]]]
  <2>1. list \in Seq(Txs)
    BY <1>4 DEF TypeOK
  <2>2. DOMAIN list = 1..Len(list) /\ Len(list) \in Nat
    BY <2>1
  <2>3. retries \in [1..Len(list) -> Items]
    BY <2>1, <2>2 DEF Items, Statements
  <2>4. retries \in Seq(Items)
    BY <2>2, <2>3, FunctionIsSeq
  <2>5. <<[do |-> "notify", tx |-> i.tx]>> \in Seq(Items)
    BY <1>4 DEF Items, Statements
  <2>6. calls' = retries \o <<[do |-> "notify", tx |-> i.tx]>> \o rest
    BY <1>10 DEF RunAdded
  <2> HIDE DEF retries
  <2>7. calls' \in Seq(Items)
    BY <1>1, <2>4, <2>5, <2>6, ConcatProperties
  <2>8. orphanTxByPrev' \in [Txs -> Seq(Txs)]
    BY <1>10, EmptySeq DEF RunAdded, TypeOK
  <2> QED BY <1>2, <1>10, <2>7, <2>8 DEF RunAdded, TypeOK, Items
<1>11. CASE RunRetry(i, rest)
  <2>1. CASE StartVerification(i.tx, <<>>)
    <3>1. /\ txIndex' \in [Txs -> {"absent", "verifying", "added"}]
          /\ queue' \in [Txs -> Seq(Callbacks)]
          /\ job' \in [Txs -> JobType]
      BY <1>4, <2>1, StartType, EmptySeq
    <3> QED BY <1>1, <1>2, <1>11, <3>1 DEF RunRetry, TypeOK, Items
  <2>2. CASE UNCHANGED <<txIndex, queue, job>>
    BY <1>1, <1>2, <1>11, <2>2 DEF RunRetry, TypeOK, Items
  <2> QED BY <1>11, <2>1, <2>2 DEF RunRetry
<1>12. CASE RunNotify(i, rest)
  BY <1>1, <1>2, <1>4, <1>12 DEF RunNotify, TypeOK, Items
<1> QED BY <1>5, <1>6, <1>7, <1>8, <1>9, <1>10, <1>11, <1>12

LEMMA NextType ==
  ASSUME TypeOK, [Next]_vars
  PROVE  TypeOK'
<1>1. CASE \E c \in Callers, t \in Txs : HandleTx(c, t) \/ SendTx(c, t) \/ Get(c, t)
  BY <1>1, AddType, GetType DEF HandleTx, SendTx
<1>2. CASE \E t \in Txs : VerificationStep(t) \/ ChainStep(t)
  BY <1>2, VerificationType, ChainType
<1>3. CASE RunNext
  BY <1>3, RunNextType
<1>4. CASE UNCHANGED vars
  BY <1>4 DEF vars, poolVars, TypeOK
<1> QED BY <1>1, <1>2, <1>3, <1>4 DEF Next

(* Every variable of the store keeps its type.                               *)
THEOREM StoreTypeCorrect == Spec => []TypeOK
<1>1. Init => TypeOK
  BY InitType
<1>2. TypeOK /\ [Next]_vars => TypeOK'
  BY NextType
<1> QED BY <1>1, <1>2, PTL DEF Spec

-----------------------------------------------------------------------------
(* Who waits for whom.  A callback that find() gave out for t, in the queue  *)
(* of s or due to be called, means that t still waits for s; there is only   *)
(* one, so that t stops waiting for s when it has run.                       *)

IsAsk(i, s, t) == i.do = "call" /\ i.tx = s /\ i.cb = InputCb(t)
Waiting(s, t) == job[t].at = "findMem" /\ s \in job[t].waits

QueueInv ==
  \A s, t \in Txs : \A k \in DOMAIN queue[s] : queue[s][k] = InputCb(t) =>
    /\ Waiting(s, t)
    /\ \A l \in DOMAIN queue[s] : queue[s][l] = InputCb(t) => l = k

CallsInv ==
  \A s, t \in Txs : \A k \in DOMAIN calls : IsAsk(calls[k], s, t) =>
    /\ Waiting(s, t)
    /\ \A l \in DOMAIN calls : IsAsk(calls[l], s, t) => l = k
    /\ \A l \in DOMAIN queue[s] : queue[s][l] # InputCb(t)

WaitsInv == \A t \in Txs : job[t].waits \subseteq Sources(t)

AskInv == TypeOK /\ NeverMisfires /\ QueueInv /\ CallsInv /\ WaitsInv

LEMMA CallbackKinds ==
  /\ \A t, u : InputCb(t) = InputCb(u) => t = u
  /\ \A t, c : CallerCb(c) # InputCb(t)
  /\ \A t, u : RemovalCb(u) # InputCb(t)
  /\ \A t, u : DisabledCb(u) # InputCb(t)
<1>1. ASSUME NEW t, NEW u, InputCb(t) = InputCb(u)
      PROVE  t = u
  <2>1. InputCb(t).who = InputCb(u).who
    BY <1>1
  <2> QED BY <2>1 DEF InputCb
<1>2. ASSUME NEW t, NEW u
      PROVE  CallerCb(u) # InputCb(t) /\ RemovalCb(u) # InputCb(t)
             /\ DisabledCb(u) # InputCb(t)
  <2>1. /\ CallerCb(u).kind = "caller" /\ RemovalCb(u).kind = "removal"
        /\ DisabledCb(u).kind = "disabled" /\ InputCb(t).kind = "input"
    BY DEF CallerCb, RemovalCb, DisabledCb, InputCb
  <2> QED BY <2>1
<1> QED BY <1>1, <1>2

(* Calls that are a part of the calls before, moved by m places.             *)
LEMMA CallsShift ==
  ASSUME CallsInv, NEW m \in Int, calls' \in Seq(Items),
         \A k \in DOMAIN calls' : calls'[k].do = "call" =>
            k + m \in DOMAIN calls /\ calls[k + m] = calls'[k],
         \A s, t \in Txs : \A k \in DOMAIN calls' : IsAsk(calls'[k], s, t) =>
            /\ Waiting(s, t)'
            /\ \A l \in DOMAIN queue'[s] : queue'[s][l] = InputCb(t) =>
                 \E j \in DOMAIN queue[s] : queue[s][j] = InputCb(t)
  PROVE  CallsInv'
<1>1. SUFFICES ASSUME NEW s \in Txs, NEW t \in Txs, NEW k \in DOMAIN calls',
                      IsAsk(calls'[k], s, t)
               PROVE  /\ Waiting(s, t)'
                      /\ \A l \in DOMAIN calls' : IsAsk(calls'[l], s, t) => l = k
                      /\ \A l \in DOMAIN queue'[s] : queue'[s][l] # InputCb(t)
  BY DEF CallsInv, IsAsk, InputCb
<1>2. k + m \in DOMAIN calls /\ IsAsk(calls[k + m], s, t)
  BY <1>1 DEF IsAsk
<1>3. \A l \in DOMAIN calls' : IsAsk(calls'[l], s, t) => l = k
  <2>1. SUFFICES ASSUME NEW l \in DOMAIN calls', IsAsk(calls'[l], s, t)
                 PROVE  l = k
    OBVIOUS
  <2>2. l + m \in DOMAIN calls /\ IsAsk(calls[l + m], s, t)
    BY <2>1 DEF IsAsk
  <2>3. l + m = k + m
    BY <1>2, <2>2 DEF CallsInv
  <2>4. k \in Int /\ l \in Int
    OBVIOUS
  <2> QED BY <2>3, <2>4
<1>4. \A l \in DOMAIN queue'[s] : queue'[s][l] # InputCb(t)
  BY <1>1, <1>2 DEF CallsInv
<1> QED BY <1>1, <1>3, <1>4

(* A callback other than find's goes to the end of a queue.                  *)
LEMMA QueueAppend ==
  ASSUME AskInv, NEW t \in Txs, NEW cb \in Callbacks, \A u \in Txs : cb # InputCb(u),
         queue' = [queue EXCEPT ![t] = Append(@, cb)], UNCHANGED job
  PROVE  /\ QueueInv'
         /\ \A s, u \in Txs : \A l \in DOMAIN queue'[s] : queue'[s][l] = InputCb(u) =>
              l \in DOMAIN queue[s] /\ queue[s][l] = InputCb(u)
<1>1. queue \in [Txs -> Seq(Callbacks)]
  BY DEF AskInv, TypeOK
<1>2. ASSUME NEW s \in Txs, NEW u \in Txs, NEW l \in DOMAIN queue'[s],
             queue'[s][l] = InputCb(u)
      PROVE  l \in DOMAIN queue[s] /\ queue[s][l] = InputCb(u)
  <2>1. CASE s # t
    BY <1>1, <1>2, <2>1
  <2>2. CASE s = t
    <3>1. queue'[s] = Append(queue[s], cb) /\ queue[s] \in Seq(Callbacks)
      BY <1>1, <2>2
    <3>2. DOMAIN queue'[s] = 1..(Len(queue[s]) + 1)
          /\ DOMAIN queue[s] = 1..Len(queue[s]) /\ Len(queue[s]) \in Nat
      BY <3>1, AppendProperties
    <3>3. queue'[s][Len(queue[s]) + 1] = cb
      BY <3>1, AppendProperties
    <3>4. l # Len(queue[s]) + 1
      BY <1>2, <3>3
    <3>5. l \in 1..Len(queue[s])
      BY <1>2, <3>2, <3>4
    <3>6. queue'[s][l] = queue[s][l]
      BY <3>1, <3>5, AppendProperties
    <3> QED BY <1>2, <3>2, <3>5, <3>6
  <2> QED BY <2>1, <2>2
<1>3. \A s, u : Waiting(s, u)' <=> Waiting(s, u)
  BY DEF Waiting
<1>4. QueueInv'
  <2>1. QueueInv
    BY DEF AskInv
  <2>2. SUFFICES ASSUME NEW s \in Txs, NEW u \in Txs, NEW k \in DOMAIN queue'[s],
                        queue'[s][k] = InputCb(u)
                 PROVE  /\ Waiting(s, u)'
                        /\ \A l \in DOMAIN queue'[s] : queue'[s][l] = InputCb(u) => l = k
    BY DEF QueueInv, InputCb
  <2>3. k \in DOMAIN queue[s] /\ queue[s][k] = InputCb(u)
    BY <1>2, <2>2
  <2>4. Waiting(s, u)'
    BY <1>3, <2>1, <2>3 DEF QueueInv
  <2>5. ASSUME NEW l \in DOMAIN queue'[s], queue'[s][l] = InputCb(u)
        PROVE  l = k
    BY <1>2, <2>1, <2>3, <2>5 DEF QueueInv
  <2> QED BY <2>4, <2>5
<1> QED BY <1>2, <1>4

LEMMA NoInputWhenAbsent ==
  ASSUME AskInv, NEW t \in Txs, job[t].at # "findMem"
  PROVE  /\ \A s \in Txs : \A k \in DOMAIN queue[s] : queue[s][k] # InputCb(t)
         /\ \A s \in Txs : \A k \in DOMAIN calls : ~IsAsk(calls[k], s, t)
BY DEF AskInv, QueueInv, CallsInv, Waiting

AskParts == NeverMisfires /\ QueueInv /\ CallsInv /\ WaitsInv

(* Nothing changes for the inputs when the next call is taken off.           *)
LEMMA TailShift ==
  ASSUME TypeOK, calls # <<>>
  PROVE  \A k \in DOMAIN Tail(calls) :
           k + 1 \in DOMAIN calls /\ calls[k + 1] = Tail(calls)[k]
<1>1. calls \in Seq(Items)
  BY DEF TypeOK, Items
<1>2. /\ Tail(calls) \in Seq(Items)
      /\ Len(Tail(calls)) = Len(calls) - 1
      /\ \A i \in 1..Len(Tail(calls)) : Tail(calls)[i] = calls[i + 1]
  BY <1>1, HeadTailProperties
<1>3. DOMAIN Tail(calls) = 1..Len(Tail(calls)) /\ DOMAIN calls = 1..Len(calls)
      /\ Len(calls) \in Nat
  BY <1>1, <1>2
<1> QED BY <1>2, <1>3

(* The same with queues and jobs left alone.                                 *)
LEMMA CallsKept ==
  ASSUME CallsInv, NEW m \in Int, calls' \in Seq(Items),
         \A k \in DOMAIN calls' : calls'[k].do = "call" =>
            k + m \in DOMAIN calls /\ calls[k + m] = calls'[k],
         UNCHANGED job,
         \A s, u \in Txs : \A l \in DOMAIN queue'[s] : queue'[s][l] = InputCb(u) =>
            l \in DOMAIN queue[s] /\ queue[s][l] = InputCb(u)
  PROVE  CallsInv'
<1>1. ASSUME NEW s \in Txs, NEW t \in Txs, NEW k \in DOMAIN calls',
             IsAsk(calls'[k], s, t)
      PROVE  /\ Waiting(s, t)'
             /\ \A l \in DOMAIN queue'[s] : queue'[s][l] = InputCb(t) =>
                  \E j \in DOMAIN queue[s] : queue[s][j] = InputCb(t)
  <2>1. k + m \in DOMAIN calls /\ IsAsk(calls[k + m], s, t)
    BY <1>1 DEF IsAsk
  <2>2. Waiting(s, t)
    BY <2>1 DEF CallsInv
  <2>3. Waiting(s, t)'
    BY <2>2 DEF Waiting
  <2> QED BY <2>3
<1> QED BY <1>1, CallsShift

LEMMA SameQueues ==
  ASSUME UNCHANGED queue
  PROVE  \A s, u \in Txs : \A l \in DOMAIN queue'[s] : queue'[s][l] = InputCb(u) =>
            l \in DOMAIN queue[s] /\ queue[s][l] = InputCb(u)
OBVIOUS

LEMMA SameCalls ==
  ASSUME TypeOK, UNCHANGED calls
  PROVE  /\ calls' \in Seq(Items)
         /\ \A k \in DOMAIN calls' : calls'[k].do = "call" =>
              k + 0 \in DOMAIN calls /\ calls[k + 0] = calls'[k]
<1>1. calls \in Seq(Items)
  BY DEF TypeOK, Items
<1>2. \A k \in DOMAIN calls : k + 0 = k
  BY <1>1
<1> QED BY <1>1, <1>2

LEMMA EnqueueAsk ==
  ASSUME AskInv, NEW c \in Callers, NEW t \in Txs, NEW op,
         txIndex[t] = "verifying", Enqueue(c, t, op), UNCHANGED calls
  PROVE  AskParts'
<1>1. CallerCb(c) \in Callbacks /\ \A u \in Txs : CallerCb(c) # InputCb(u)
  BY CallbackTypes, CallbackKinds
<1>2. queue' = [queue EXCEPT ![t] = Append(@, CallerCb(c))] /\ UNCHANGED <<txIndex, job>>
  BY DEF Enqueue
<1>3. /\ QueueInv'
      /\ \A s, u \in Txs : \A l \in DOMAIN queue'[s] : queue'[s][l] = InputCb(u) =>
           l \in DOMAIN queue[s] /\ queue[s][l] = InputCb(u)
  BY <1>1, <1>2, QueueAppend
<1>4. CallsInv'
  <2>1. CallsInv /\ TypeOK /\ 0 \in Int
    BY DEF AskInv
  <2> QED BY <1>2, <1>3, <2>1, SameCalls, CallsKept
<1>5. NeverMisfires'
  BY <1>2 DEF AskInv, TypeOK, NeverMisfires
<1>6. WaitsInv'
  BY <1>2 DEF AskInv, WaitsInv
<1> QED BY <1>3, <1>4, <1>5, <1>6 DEF AskParts

(* A verification starts: it asks each input at most once.                   *)
LEMMA StartAsk ==
  ASSUME AskInv, NEW t \in Txs, NEW q \in Seq(Callbacks),
         \A k \in DOMAIN q : \A u \in Txs : q[k] # InputCb(u),
         txIndex[t] = "absent", StartVerification(t, q)
  PROVE  /\ NeverMisfires' /\ QueueInv' /\ WaitsInv'
         /\ \A s, u \in Txs : u # t =>
              /\ Waiting(s, u)' <=> Waiting(s, u)
              /\ \A l \in DOMAIN queue'[s] : queue'[s][l] = InputCb(u) =>
                   l \in DOMAIN queue[s] /\ queue[s][l] = InputCb(u)
<1> USE DEF AskInv
<1>1. queue \in [Txs -> Seq(Callbacks)] /\ job \in [Txs -> JobType]
      /\ txIndex \in [Txs -> {"absent", "verifying", "added"}]
  BY DEF TypeOK
<1>2. job[t].at # "findMem" /\ queue[t] = <<>> /\ job[t].at = "idle"
  BY <1>1 DEF NeverMisfires
<1>3. \A s \in Txs : \A k \in DOMAIN queue[s] : queue[s][k] # InputCb(t)
  BY <1>2, NoInputWhenAbsent
<1>4. t \notin Pending(t)
  BY SourcesType DEF Pending
<1>5. job'[t] = [at |-> IF Pending(t) = {} THEN "findChain" ELSE "findMem",
                 waits |-> Pending(t), found |-> Sources(t) \cap Added]
      /\ \A u \in Txs \ {t} : job'[u] = job[u]
  BY <1>1 DEF StartVerification
<1>6. \A s, u \in Txs : u # t => (Waiting(s, u)' <=> Waiting(s, u))
  BY <1>5 DEF Waiting
<1>7. \A s \in Pending(t) : Waiting(s, t)'
  BY <1>5 DEF Waiting
<1>8. ASSUME NEW s \in Txs
      PROVE  /\ s = t => queue'[s] = q
             /\ s \in Pending(t) => queue'[s] = Append(queue[s], InputCb(t))
             /\ s # t /\ s \notin Pending(t) => queue'[s] = queue[s]
  BY <1>4, <1>8 DEF StartVerification
<1>9. ASSUME NEW s \in Txs, NEW u \in Txs, NEW l \in DOMAIN queue'[s],
             queue'[s][l] = InputCb(u)
      PROVE  /\ u # t => l \in DOMAIN queue[s] /\ queue[s][l] = InputCb(u)
             /\ u = t => s \in Pending(t) /\ l = Len(queue[s]) + 1
  <2>1. CASE s = t
    BY <1>8, <1>9, <2>1
  <2>2. CASE s # t /\ s \notin Pending(t)
    BY <1>3, <1>8, <1>9, <2>2
  <2>3. CASE s \in Pending(t)
    <3>1. queue'[s] = Append(queue[s], InputCb(t)) /\ queue[s] \in Seq(Callbacks)
          /\ InputCb(t) \in Callbacks
      BY <1>1, <1>8, <2>3, CallbackTypes
    <3>2. DOMAIN queue'[s] = 1..(Len(queue[s]) + 1)
          /\ DOMAIN queue[s] = 1..Len(queue[s]) /\ Len(queue[s]) \in Nat
      BY <3>1, AppendProperties
    <3>3. CASE l = Len(queue[s]) + 1
      <4>1. queue'[s][l] = InputCb(t)
        BY <3>1, <3>3, AppendProperties
      <4>2. u = t
        BY <1>9, <4>1, CallbackKinds
      <4> QED BY <2>3, <3>3, <4>2
    <3>4. CASE l # Len(queue[s]) + 1
      <4>1. l \in 1..Len(queue[s])
        BY <3>2, <3>4
      <4>2. queue[s][l] = InputCb(u)
        BY <1>9, <3>1, <4>1, AppendProperties
      <4>3. u # t
        BY <1>3, <3>2, <4>1, <4>2
      <4> QED BY <3>2, <4>1, <4>2, <4>3
    <3> QED BY <3>3, <3>4
  <2> QED BY <2>1, <2>2, <2>3
<1>10. QueueInv'
  <2>1. SUFFICES ASSUME NEW s \in Txs, NEW u \in Txs, NEW k \in DOMAIN queue'[s],
                        queue'[s][k] = InputCb(u)
                 PROVE  /\ Waiting(s, u)'
                        /\ \A l \in DOMAIN queue'[s] : queue'[s][l] = InputCb(u) => l = k
    BY DEF QueueInv, InputCb
  <2>2. CASE u = t
    <3>1. s \in Pending(t) /\ k = Len(queue[s]) + 1
      BY <1>9, <2>1, <2>2
    <3>2. \A l \in DOMAIN queue'[s] : queue'[s][l] = InputCb(u) => l = k
      BY <1>9, <2>2, <3>1
    <3> QED BY <1>7, <2>2, <3>1, <3>2
  <2>3. CASE u # t
    <3>1. k \in DOMAIN queue[s] /\ queue[s][k] = InputCb(u)
      BY <1>9, <2>1, <2>3
    <3>2. Waiting(s, u)'
      BY <1>6, <2>3, <3>1 DEF QueueInv
    <3>3. ASSUME NEW l \in DOMAIN queue'[s], queue'[s][l] = InputCb(u)
          PROVE  l = k
      BY <1>9, <2>3, <3>1, <3>3 DEF QueueInv
    <3> QED BY <3>2, <3>3
  <2> QED BY <2>2, <2>3
<1>11. NeverMisfires'
  <2>1. ASSUME NEW u \in Txs
        PROVE  /\ txIndex'[u] = "verifying" <=> job'[u].at # "idle"
               /\ txIndex'[u] # "verifying" => queue'[u] = <<>>
    <3>1. CASE u = t
      BY <1>1, <1>5, <3>1 DEF StartVerification
    <3>2. CASE u # t
      <4>1. txIndex'[u] = txIndex[u] /\ job'[u] = job[u]
        BY <1>1, <1>5, <3>2 DEF StartVerification
      <4>2. txIndex[u] # "verifying" => u \notin Pending(t)
        BY DEF Pending
      <4>3. txIndex[u] # "verifying" => queue'[u] = queue[u]
        BY <1>8, <3>2, <4>2
      <4> QED BY <4>1, <4>3 DEF NeverMisfires
    <3> QED BY <3>1, <3>2
  <2> QED BY <2>1 DEF NeverMisfires
<1>12. WaitsInv'
  <2>1. ASSUME NEW u \in Txs
        PROVE  job'[u].waits \subseteq Sources(u)
    <3>1. CASE u = t
      BY <1>5, <3>1 DEF Pending
    <3>2. CASE u # t
      BY <1>5, <3>2 DEF WaitsInv
    <3> QED BY <3>1, <3>2
  <2> QED BY <2>1 DEF WaitsInv, Sources
<1> QED BY <1>6, <1>9, <1>10, <1>11, <1>12

LEMMA DisableKeeps ==
  ASSUME NEW t \in Txs, NEW u \in Txs, NEW cb, Disable(t, cb) = InputCb(u)
  PROVE  cb = InputCb(u) /\ u # t
BY CallbackKinds DEF Disable

(* A verification fails, in front of rest, which is the calls from place m.  *)
LEMMA FailAsk ==
  ASSUME AskInv, NEW t \in Txs, NEW err \in Outcomes, NEW rest \in Seq(Items),
         NEW m \in Nat,
         \A k \in DOMAIN rest : k + m \in DOMAIN calls /\ calls[k + m] = rest[k],
         Fail(t, err, rest)
  PROVE  AskParts'
<1> USE DEF AskInv
<1> DEFINE n == Len(queue[t])
<1>1. queue \in [Txs -> Seq(Callbacks)] /\ job \in [Txs -> JobType]
      /\ txIndex \in [Txs -> {"absent", "verifying", "added"}]
  BY DEF TypeOK
<1>2. n \in Nat /\ DOMAIN queue[t] = 1..n
  BY <1>1
<1>3. job'[t] = NoJob /\ (\A u \in Txs \ {t} : job'[u] = job[u])
      /\ txIndex'[t] = "absent" /\ (\A u \in Txs \ {t} : txIndex'[u] = txIndex[u])
  BY <1>1 DEF Fail
<1>4. queue'[t] = <<>> /\ \A s \in Txs \ {t} : queue'[s] = DisableQueue(t, queue[s])
  BY DEF Fail
<1>5. \A s, u \in Txs : u # t => (Waiting(s, u)' <=> Waiting(s, u))
  BY <1>3 DEF Waiting
<1>6. ASSUME NEW s \in Txs, NEW u \in Txs, NEW l \in DOMAIN queue'[s],
             queue'[s][l] = InputCb(u)
      PROVE  s # t /\ u # t /\ l \in DOMAIN queue[s] /\ queue[s][l] = InputCb(u)
  <2>1. s # t
    BY <1>4, <1>6
  <2>2. queue'[s] = DisableQueue(t, queue[s])
    BY <1>4, <2>1
  <2>3. l \in DOMAIN queue[s] /\ Disable(t, queue[s][l]) = InputCb(u)
    BY <1>6, <2>2 DEF DisableQueue
  <2> QED BY <2>1, <2>3, DisableKeeps
<1>7. QueueInv'
  <2>1. SUFFICES ASSUME NEW s \in Txs, NEW u \in Txs, NEW k \in DOMAIN queue'[s],
                        queue'[s][k] = InputCb(u)
                 PROVE  /\ Waiting(s, u)'
                        /\ \A l \in DOMAIN queue'[s] : queue'[s][l] = InputCb(u) => l = k
    BY DEF QueueInv, InputCb
  <2>2. u # t /\ k \in DOMAIN queue[s] /\ queue[s][k] = InputCb(u)
    BY <1>6, <2>1
  <2>3. Waiting(s, u)'
    BY <1>5, <2>2 DEF QueueInv
  <2>4. ASSUME NEW l \in DOMAIN queue'[s], queue'[s][l] = InputCb(u)
        PROVE  l = k
    BY <1>6, <2>2, <2>4 DEF QueueInv
  <2> QED BY <2>3, <2>4
<1>8. /\ CallsOf(t, err) \in Seq(Items) /\ Len(CallsOf(t, err)) = n
      /\ DisableCalls(t, rest) \in Seq(Items) /\ Len(DisableCalls(t, rest)) = Len(rest)
      /\ Len(rest) \in Nat /\ DOMAIN rest = 1..Len(rest)
  BY CallsOfType, DisableCallsType
<1>9. calls' = CallsOf(t, err) \o DisableCalls(t, rest)
  BY DEF Fail
<1>10. /\ DOMAIN calls' = 1..(n + Len(rest))
       /\ \A k \in 1..n : calls'[k] = CallsOf(t, err)[k]
       /\ \A k \in 1..(n + Len(rest)) : k > n => calls'[k] = DisableCalls(t, rest)[k - n]
  <2> DEFINE p == CallsOf(t, err)
             d == DisableCalls(t, rest)
  <2>1. p \in Seq(Items) /\ d \in Seq(Items) /\ Len(p) = n /\ Len(d) = Len(rest)
        /\ calls' = p \o d /\ n \in Nat /\ Len(rest) \in Nat
    BY <1>2, <1>8, <1>9
  <2> HIDE DEF p, d, n
  <2>2. /\ calls' \in Seq(Items) /\ Len(calls') = n + Len(rest)
        /\ \A k \in 1..(n + Len(rest)) :
             calls'[k] = IF k <= n THEN p[k] ELSE d[k - n]
    <3>1. /\ p \o d \in Seq(Items) /\ Len(p \o d) = Len(p) + Len(d)
          /\ \A k \in 1..(Len(p) + Len(d)) :
               (p \o d)[k] = IF k <= Len(p) THEN p[k] ELSE d[k - Len(p)]
      BY <2>1, ConcatProperties, ZenonT(60)
    <3>2. calls' = p \o d /\ Len(p) = n /\ Len(d) = Len(rest)
      BY <2>1
    <3> QED BY <3>1, <3>2
  <2>3. DOMAIN calls' = 1..(n + Len(rest))
    BY <2>2
  <2>4. \A k \in 1..n : calls'[k] = p[k]
    BY <2>1, <2>2
  <2>5. \A k \in 1..(n + Len(rest)) : k > n => calls'[k] = d[k - n]
    BY <2>1, <2>2
  <2> QED BY <2>3, <2>4, <2>5 DEF p, d
<1> HIDE DEF n
<1>11. ASSUME NEW s \in Txs, NEW u \in Txs, NEW k \in DOMAIN calls',
              IsAsk(calls'[k], s, u)
       PROVE  /\ u # t
              /\ k <= n => s = t /\ k \in DOMAIN queue[t] /\ queue[t][k] = InputCb(u)
              /\ k > n => k - n + m \in DOMAIN calls /\ IsAsk(calls[k - n + m], s, u)
  <2>1. CASE k <= n
    <3>1. k \in DOMAIN queue[t] /\ k \in 1..n
      BY <1>2, <1>10, <2>1
    <3>2. calls'[k] = [do |-> "call", tx |-> t, cb |-> queue[t][k], err |-> err]
      BY <1>10, <3>1 DEF CallsOf
    <3>3. s = t /\ queue[t][k] = InputCb(u)
      BY <1>11, <3>2 DEF IsAsk
    <3>4. Waiting(t, u)
      BY <3>1, <3>3 DEF QueueInv
    <3>5. t \in Sources(u)
      BY <3>4 DEF Waiting, WaitsInv
    <3>6. u # t
      BY <3>5, SourcesType
    <3>7. ~(k > n)
      BY <1>2, <2>1, <3>1
    <3> HIDE DEF n
    <3> QED BY <3>1, <3>3, <3>6, <3>7
  <2>2. CASE k > n
    <3>1. k \in 1..(n + Len(rest)) /\ k - n \in DOMAIN rest
      BY <1>2, <1>8, <1>10, <2>2
    <3>2. calls'[k] = IF rest[k - n].do = "call"
                      THEN [rest[k - n] EXCEPT !.cb = Disable(t, rest[k - n].cb)]
                      ELSE rest[k - n]
      BY <1>10, <2>2, <3>1 DEF DisableCalls
    <3>3. rest[k - n] \in Items
      BY <1>8, <3>1
    <3>4. rest[k - n].do = "call"
      BY <1>11, <3>2 DEF IsAsk
    <3>5. rest[k - n] \in CallItems
      BY <3>3, <3>4 DEF Items, CallItems, Statements
    <3>6. rest[k - n].tx = s /\ Disable(t, rest[k - n].cb) = InputCb(u)
      BY <1>11, <3>2, <3>4, <3>5 DEF IsAsk, CallItems
    <3>7. rest[k - n].cb = InputCb(u) /\ u # t
      BY <3>6, DisableKeeps
    <3>8. (k - n) + m \in DOMAIN calls /\ calls[(k - n) + m] = rest[k - n]
      BY <3>1
    <3>9. IsAsk(calls[(k - n) + m], s, u)
      BY <3>4, <3>6, <3>7, <3>8 DEF IsAsk
    <3>10. ~(k <= n)
      BY <1>2, <2>2, <3>1
    <3> QED BY <3>7, <3>8, <3>9, <3>10
  <2>3. k \in Int /\ n \in Int
    BY <1>2, <1>10
  <2> QED BY <2>1, <2>2, <2>3
<1>12. CallsInv'
  <2>1. SUFFICES ASSUME NEW s \in Txs, NEW u \in Txs, NEW k \in DOMAIN calls',
                        IsAsk(calls'[k], s, u)
                 PROVE  /\ Waiting(s, u)'
                        /\ \A l \in DOMAIN calls' : IsAsk(calls'[l], s, u) => l = k
                        /\ \A l \in DOMAIN queue'[s] : queue'[s][l] # InputCb(u)
    BY DEF CallsInv, IsAsk, InputCb
  <2>2. u # t
    BY <1>11, <2>1
  <2>3. k \in Int /\ n \in Int /\ m \in Int
    BY <1>2, <1>10
  <2>4. CASE k <= n
    <3>1. s = t /\ k \in DOMAIN queue[t] /\ queue[t][k] = InputCb(u)
      BY <1>11, <2>1, <2>4
    <3>2. Waiting(s, u)'
      BY <1>5, <2>2, <3>1 DEF QueueInv
    <3>3. ASSUME NEW l \in DOMAIN calls', IsAsk(calls'[l], s, u)
          PROVE  l = k
      <4>1. CASE l <= n
        <5>1. l \in DOMAIN queue[t] /\ queue[t][l] = InputCb(u)
          BY <1>11, <3>3, <4>1
        <5> QED BY <3>1, <5>1 DEF QueueInv
      <4>2. CASE l > n
        <5>1. l - n + m \in DOMAIN calls /\ IsAsk(calls[l - n + m], s, u)
          BY <1>11, <3>3, <4>2
        <5>2. FALSE
          BY <3>1, <5>1 DEF CallsInv
        <5> QED BY <5>2
      <4> QED BY <1>2, <1>10, <4>1, <4>2
    <3>4. \A l \in DOMAIN queue'[s] : queue'[s][l] # InputCb(u)
      BY <1>4, <3>1
    <3> QED BY <3>2, <3>3, <3>4
  <2>5. CASE k > n
    <3>1. k - n + m \in DOMAIN calls /\ IsAsk(calls[k - n + m], s, u)
      BY <1>11, <2>1, <2>5
    <3>2. Waiting(s, u)'
      BY <1>5, <2>2, <3>1 DEF CallsInv
    <3>3. ASSUME NEW l \in DOMAIN calls', IsAsk(calls'[l], s, u)
          PROVE  l = k
      <4>1. CASE l <= n
        <5>1. s = t /\ l \in DOMAIN queue[t] /\ queue[t][l] = InputCb(u)
          BY <1>11, <3>3, <4>1
        <5>2. FALSE
          BY <3>1, <5>1 DEF CallsInv
        <5> QED BY <5>2
      <4>2. CASE l > n
        <5>1. l - n + m \in DOMAIN calls /\ IsAsk(calls[l - n + m], s, u)
          BY <1>11, <3>3, <4>2
        <5>2. l - n + m = k - n + m
          BY <3>1, <5>1 DEF CallsInv
        <5>3. l \in Int
          BY <1>10
        <5> QED BY <2>3, <5>2, <5>3
      <4> QED BY <1>2, <1>10, <4>1, <4>2
    <3>4. \A l \in DOMAIN queue'[s] : queue'[s][l] # InputCb(u)
      BY <1>6, <3>1 DEF CallsInv
    <3> QED BY <3>2, <3>3, <3>4
  <2> QED BY <2>3, <2>4, <2>5
<1>13. NeverMisfires'
  <2>1. ASSUME NEW u \in Txs
        PROVE  /\ txIndex'[u] = "verifying" <=> job'[u].at # "idle"
               /\ txIndex'[u] # "verifying" => queue'[u] = <<>>
    <3>1. CASE u = t
      BY <1>3, <1>4, <3>1 DEF NoJob
    <3>2. CASE u # t
      <4>1. txIndex'[u] = txIndex[u] /\ job'[u] = job[u]
            /\ queue'[u] = DisableQueue(t, queue[u])
        BY <1>3, <1>4, <3>2
      <4>2. ASSUME txIndex[u] # "verifying"
            PROVE  queue'[u] = <<>>
        <5>1. queue[u] = <<>>
          BY <4>2 DEF NeverMisfires
        <5>2. DisableQueue(t, queue[u]) \in Seq(Callbacks)
              /\ Len(DisableQueue(t, queue[u])) = 0
          BY <5>1, EmptySeq, DisableQueueType
        <5> QED BY <4>1, <5>2, EmptySeq
      <4> QED BY <4>1, <4>2 DEF NeverMisfires
    <3> QED BY <3>1, <3>2
  <2> QED BY <2>1 DEF NeverMisfires
<1>14. WaitsInv'
  <2>1. ASSUME NEW u \in Txs
        PROVE  job'[u].waits \subseteq Sources(u)
    <3>1. CASE u = t
      BY <1>3, <3>1 DEF NoJob
    <3>2. CASE u # t
      BY <1>3, <3>2 DEF WaitsInv
    <3> QED BY <3>1, <3>2
  <2> QED BY <2>1 DEF WaitsInv, Sources
<1> QED BY <1>7, <1>12, <1>13, <1>14 DEF AskParts

(* A verification succeeds: nothing else was due.                            *)
LEMMA AcceptAsk ==
  ASSUME AskInv, NEW t \in Txs, job[t].at \in {"count", "spender"}, Accept(t)
  PROVE  AskParts'
<1> USE DEF AskInv
<1> DEFINE n == Len(queue[t])
           p == CallsOf(t, "ok")
           d == <<[do |-> "added", tx |-> t]>>
<1>1. queue \in [Txs -> Seq(Callbacks)] /\ job \in [Txs -> JobType]
      /\ txIndex \in [Txs -> {"absent", "verifying", "added"}]
  BY DEF TypeOK
<1>2. n \in Nat /\ DOMAIN queue[t] = 1..n
  BY <1>1
<1>3. job'[t] = NoJob /\ (\A u \in Txs \ {t} : job'[u] = job[u])
      /\ txIndex'[t] = "added" /\ (\A u \in Txs \ {t} : txIndex'[u] = txIndex[u])
      /\ queue'[t] = <<>> /\ (\A u \in Txs \ {t} : queue'[u] = queue[u])
  BY <1>1 DEF Accept
<1>4. job[t].at # "findMem"
  OBVIOUS
<1>5. \A s, u \in Txs : Waiting(s, u) => u # t /\ Waiting(s, u)'
  BY <1>3, <1>4 DEF Waiting
<1>6. \A s, u \in Txs : \A l \in DOMAIN queue'[s] : queue'[s][l] = InputCb(u) =>
        s # t /\ l \in DOMAIN queue[s] /\ queue[s][l] = InputCb(u)
  <2>1. ASSUME NEW s \in Txs, NEW u \in Txs, NEW l \in DOMAIN queue'[s],
               queue'[s][l] = InputCb(u)
        PROVE  s # t /\ l \in DOMAIN queue[s] /\ queue[s][l] = InputCb(u)
    <3>1. s # t
      BY <1>3, <2>1
    <3> QED BY <1>3, <2>1, <3>1
  <2> QED BY <2>1
<1>7. QueueInv'
  <2>1. SUFFICES ASSUME NEW s \in Txs, NEW u \in Txs, NEW k \in DOMAIN queue'[s],
                        queue'[s][k] = InputCb(u)
                 PROVE  /\ Waiting(s, u)'
                        /\ \A l \in DOMAIN queue'[s] : queue'[s][l] = InputCb(u) => l = k
    BY DEF QueueInv, InputCb
  <2>2. k \in DOMAIN queue[s] /\ queue[s][k] = InputCb(u)
    BY <1>6, <2>1
  <2>3. Waiting(s, u)'
    BY <1>5, <2>2 DEF QueueInv
  <2>4. ASSUME NEW l \in DOMAIN queue'[s], queue'[s][l] = InputCb(u)
        PROVE  l = k
    BY <1>6, <2>2, <2>4 DEF QueueInv
  <2> QED BY <2>3, <2>4
<1>8. p \in Seq(Items) /\ Len(p) = n
  BY CallsOfType DEF Outcomes
<1>9. d \in Seq(Items) /\ Len(d) = 1 /\ d[1] = [do |-> "added", tx |-> t]
  BY DEF Items, Statements
<1>10. calls' = p \o d
  BY DEF Accept
<1>11. ASSUME NEW s \in Txs, NEW u \in Txs, NEW k \in DOMAIN calls',
              IsAsk(calls'[k], s, u)
       PROVE  s = t /\ k \in DOMAIN queue[t] /\ queue[t][k] = InputCb(u)
  <2> HIDE DEF n, p, d
  <2>1. /\ p \o d \in Seq(Items) /\ Len(p \o d) = n + 1
        /\ \A l \in 1..(n + 1) : (p \o d)[l] = IF l <= n THEN p[l] ELSE d[l - n]
    <3>1. /\ p \o d \in Seq(Items) /\ Len(p \o d) = Len(p) + Len(d)
          /\ \A l \in 1..(Len(p) + Len(d)) :
               (p \o d)[l] = IF l <= Len(p) THEN p[l] ELSE d[l - Len(p)]
      BY <1>8, <1>9, ConcatProperties
    <3>2. Len(p) = n /\ Len(d) = 1
      BY <1>8, <1>9
    <3> QED BY <3>1, <3>2
  <2>2. k \in 1..(n + 1)
    BY <1>2, <1>10, <2>1
  <2>3. CASE k = n + 1
    <3>1. calls'[k] = d[1]
      BY <1>2, <1>10, <2>1, <2>2, <2>3
    <3>2. calls'[k].do = "added"
      BY <1>9, <3>1
    <3> QED BY <1>11, <3>2 DEF IsAsk
  <2>4. CASE k # n + 1
    <3>1. k \in DOMAIN queue[t] /\ k \in 1..n
      BY <1>2, <2>2, <2>4
    <3>2. calls'[k] = p[k]
      BY <1>2, <1>10, <2>1, <2>2, <3>1
    <3>3. calls'[k] = [do |-> "call", tx |-> t, cb |-> queue[t][k], err |-> "ok"]
      BY <3>1, <3>2 DEF p, CallsOf
    <3> QED BY <1>11, <3>1, <3>3 DEF IsAsk
  <2> QED BY <2>3, <2>4
<1>12. CallsInv'
  <2>1. SUFFICES ASSUME NEW s \in Txs, NEW u \in Txs, NEW k \in DOMAIN calls',
                        IsAsk(calls'[k], s, u)
                 PROVE  /\ Waiting(s, u)'
                        /\ \A l \in DOMAIN calls' : IsAsk(calls'[l], s, u) => l = k
                        /\ \A l \in DOMAIN queue'[s] : queue'[s][l] # InputCb(u)
    BY DEF CallsInv, IsAsk, InputCb
  <2>2. s = t /\ k \in DOMAIN queue[t] /\ queue[t][k] = InputCb(u)
    BY <1>11, <2>1
  <2>3. Waiting(s, u)'
    BY <1>5, <2>2 DEF QueueInv
  <2>4. ASSUME NEW l \in DOMAIN calls', IsAsk(calls'[l], s, u)
        PROVE  l = k
    <3>1. l \in DOMAIN queue[t] /\ queue[t][l] = InputCb(u)
      BY <1>11, <2>4
    <3> QED BY <2>2, <3>1 DEF QueueInv
  <2>5. \A l \in DOMAIN queue'[s] : queue'[s][l] # InputCb(u)
    BY <1>6, <2>2
  <2> QED BY <2>3, <2>4, <2>5
<1>13. NeverMisfires'
  <2>1. ASSUME NEW u \in Txs
        PROVE  /\ txIndex'[u] = "verifying" <=> job'[u].at # "idle"
               /\ txIndex'[u] # "verifying" => queue'[u] = <<>>
    <3>1. CASE u = t
      BY <1>3, <3>1 DEF NoJob
    <3>2. CASE u # t
      BY <1>3, <3>2 DEF NeverMisfires
    <3> QED BY <3>1, <3>2
  <2> QED BY <2>1 DEF NeverMisfires
<1>14. WaitsInv'
  <2>1. ASSUME NEW u \in Txs
        PROVE  job'[u].waits \subseteq Sources(u)
    <3>1. CASE u = t
      BY <1>3, <3>1 DEF NoJob
    <3>2. CASE u # t
      BY <1>3, <3>2 DEF WaitsInv
    <3> QED BY <3>1, <3>2
  <2> QED BY <2>1 DEF WaitsInv, Sources
<1> QED BY <1>7, <1>12, <1>13, <1>14 DEF AskParts

(* The queues and the jobs stay, calls go.                                   *)
LEMMA KeptAsk ==
  ASSUME AskInv, NEW m \in Int, calls' \in Seq(Items),
         \A k \in DOMAIN calls' : calls'[k].do = "call" =>
            k + m \in DOMAIN calls /\ calls[k + m] = calls'[k],
         UNCHANGED <<txIndex, queue, job>>
  PROVE  AskParts'
<1>1. CallsInv'
  BY SameQueues, CallsKept DEF AskInv
<1>2. QueueInv'
  BY DEF AskInv, QueueInv, Waiting
<1>3. NeverMisfires'
  BY DEF AskInv, NeverMisfires
<1>4. WaitsInv'
  BY DEF AskInv, WaitsInv
<1> QED BY <1>1, <1>2, <1>3, <1>4 DEF AskParts

LEMMA RemoveAsk ==
  ASSUME AskInv, NEW t \in Txs, NEW m \in Int, NEW rest \in Seq(Items),
         \A k \in DOMAIN rest : k + m \in DOMAIN calls /\ calls[k + m] = rest[k],
         Remove(t, rest)
  PROVE  AskParts'
<1>1. calls' \in Seq(Items)
  BY EmptySeq DEF Remove
<1>2. calls' = <<>> \/ calls' = rest
  BY DEF Remove
<1>3. \A k \in DOMAIN calls' : calls'[k].do = "call" =>
         k + m \in DOMAIN calls /\ calls[k + m] = calls'[k]
  <2>1. CASE calls' = <<>>
    BY <2>1
  <2>2. CASE calls' = rest
    BY <2>2
  <2> QED BY <1>2, <2>1, <2>2
<1>4. UNCHANGED job
  BY DEF Remove
<1>5. CASE txIndex[t] = "verifying"
  <2>1. queue' = [queue EXCEPT ![t] = Append(@, RemovalCb(t))] /\ UNCHANGED txIndex
    BY <1>5 DEF Remove
  <2>2. RemovalCb(t) \in Callbacks /\ \A u \in Txs : RemovalCb(t) # InputCb(u)
    BY CallbackTypes, CallbackKinds
  <2>3. /\ QueueInv'
        /\ \A s, u \in Txs : \A l \in DOMAIN queue'[s] : queue'[s][l] = InputCb(u) =>
             l \in DOMAIN queue[s] /\ queue[s][l] = InputCb(u)
    BY <1>4, <2>1, <2>2, QueueAppend
  <2>4. CallsInv'
    BY <1>1, <1>3, <1>4, <2>3, CallsKept DEF AskInv
  <2>5. NeverMisfires'
    BY <1>4, <1>5, <2>1 DEF AskInv, TypeOK, NeverMisfires
  <2>6. WaitsInv'
    BY <1>4 DEF AskInv, WaitsInv
  <2> QED BY <2>3, <2>4, <2>5, <2>6 DEF AskParts
<1>6. CASE txIndex[t] # "verifying"
  <2>1. UNCHANGED queue
    BY <1>6 DEF Remove
  <2>2. CallsInv'
    BY <1>1, <1>3, <1>4, <2>1, SameQueues, CallsKept DEF AskInv
  <2>3. QueueInv'
    BY <1>4, <2>1 DEF AskInv, QueueInv, Waiting
  <2>4. NeverMisfires'
    <3>1. txIndex' = txIndex \/ txIndex' = [txIndex EXCEPT ![t] = "absent"]
      BY <1>6 DEF Remove
    <3>2. \A u \in Txs : txIndex'[u] = "verifying" <=> txIndex[u] = "verifying"
      BY <1>6, <3>1 DEF AskInv, TypeOK
    <3> QED BY <1>4, <2>1, <3>2 DEF AskInv, NeverMisfires
  <2>5. WaitsInv'
    BY <1>4 DEF AskInv, WaitsInv
  <2> QED BY <2>2, <2>3, <2>4, <2>5 DEF AskParts
<1> QED BY <1>5, <1>6

(* A verification starts and calls that were due stay due.                   *)
LEMMA StartCallsAsk ==
  ASSUME AskInv, NEW t \in Txs, NEW q \in Seq(Callbacks),
         \A k \in DOMAIN q : \A u \in Txs : q[k] # InputCb(u),
         txIndex[t] = "absent", StartVerification(t, q),
         NEW m \in Int, calls' \in Seq(Items),
         \A k \in DOMAIN calls' : calls'[k].do = "call" =>
            k + m \in DOMAIN calls /\ calls[k + m] = calls'[k]
  PROVE  AskParts'
<1>1. /\ NeverMisfires' /\ QueueInv' /\ WaitsInv'
      /\ \A s, u \in Txs : u # t =>
           /\ Waiting(s, u)' <=> Waiting(s, u)
           /\ \A l \in DOMAIN queue'[s] : queue'[s][l] = InputCb(u) =>
                l \in DOMAIN queue[s] /\ queue[s][l] = InputCb(u)
  BY StartAsk
<1>2. job[t].at # "findMem"
  BY DEF AskInv, NeverMisfires
<1>3. ASSUME NEW s \in Txs, NEW u \in Txs, NEW k \in DOMAIN calls',
             IsAsk(calls'[k], s, u)
      PROVE  /\ Waiting(s, u)'
             /\ \A l \in DOMAIN queue'[s] : queue'[s][l] = InputCb(u) =>
                  \E j \in DOMAIN queue[s] : queue[s][j] = InputCb(u)
  <2>1. k + m \in DOMAIN calls /\ IsAsk(calls[k + m], s, u)
    BY <1>3 DEF IsAsk
  <2>2. u # t
    BY <1>2, <2>1, NoInputWhenAbsent
  <2>3. Waiting(s, u)
    BY <2>1 DEF AskInv, CallsInv
  <2> QED BY <1>1, <2>2, <2>3
<1>4. CallsInv'
  BY <1>3, CallsShift DEF AskInv
<1> QED BY <1>1, <1>4 DEF AskParts

LEMMA AddAsk ==
  ASSUME AskInv, NEW c \in Callers, NEW t \in Txs, Add(c, t)
  PROVE  AskParts'
<1>1. UNCHANGED calls /\ TypeOK
  BY DEF Add, AskInv
<1>2. /\ calls' \in Seq(Items) /\ 0 \in Int
      /\ \A k \in DOMAIN calls' : calls'[k].do = "call" =>
           k + 0 \in DOMAIN calls /\ calls[k + 0] = calls'[k]
  BY <1>1, SameCalls
<1>3. CASE txIndex[t] = "verifying" /\ Enqueue(c, t, "add")
  BY <1>1, <1>3, EnqueueAsk
<1>4. CASE UNCHANGED <<txIndex, queue, job>>
  BY <1>2, <1>4, KeptAsk
<1>5. CASE txIndex[t] = "absent" /\ StartVerification(t, <<CallerCb(c)>>)
  <2> DEFINE q == <<CallerCb(c)>>
  <2>1. q \in Seq(Callbacks) /\ \A k \in DOMAIN q : \A u \in Txs : q[k] # InputCb(u)
    BY CallbackTypes, CallbackKinds
  <2>2. txIndex[t] = "absent" /\ StartVerification(t, q)
    BY <1>5
  <2> HIDE DEF q
  <2> QED BY <1>2, <2>1, <2>2, StartCallsAsk
<1> QED BY <1>3, <1>4, <1>5 DEF Add

LEMMA GetAsk ==
  ASSUME AskInv, NEW c \in Callers, NEW t \in Txs, Get(c, t)
  PROVE  AskParts'
<1>1. UNCHANGED calls /\ TypeOK
  BY DEF Get, AskInv
<1>2. /\ calls' \in Seq(Items) /\ 0 \in Int
      /\ \A k \in DOMAIN calls' : calls'[k].do = "call" =>
           k + 0 \in DOMAIN calls /\ calls[k + 0] = calls'[k]
  BY <1>1, SameCalls
<1>3. CASE txIndex[t] = "verifying" /\ Enqueue(c, t, "get")
  BY <1>1, <1>3, EnqueueAsk
<1>4. CASE UNCHANGED <<txIndex, queue, job>>
  BY <1>2, <1>4, KeptAsk
<1> QED BY <1>3, <1>4 DEF Get

(* A verification that waits for no input goes on to its next state.         *)
LEMMA JobStepAsk ==
  ASSUME AskInv, NEW t \in Txs, job[t].at \notin {"idle", "findMem"},
         NEW at \in {"findChain", "scripts", "count", "spender"},
         NEW found, job' = [job EXCEPT ![t].at = at, ![t].found = found],
         UNCHANGED <<txIndex, queue, calls>>
  PROVE  AskParts'
<1>1. job \in [Txs -> JobType] /\ TypeOK
  BY DEF AskInv, TypeOK
<1>2. /\ job'[t].at = at /\ job'[t].waits = job[t].waits
      /\ \A u \in Txs \ {t} : job'[u] = job[u]
  BY <1>1 DEF JobType
<1>3. \A s, u \in Txs : Waiting(s, u) => Waiting(s, u)'
  BY <1>2 DEF Waiting
<1>4. QueueInv'
  <2>1. QueueInv
    BY DEF AskInv
  <2>2. SUFFICES ASSUME NEW s \in Txs, NEW u \in Txs, NEW k \in DOMAIN queue'[s],
                        queue'[s][k] = InputCb(u)
                 PROVE  /\ Waiting(s, u)'
                        /\ \A l \in DOMAIN queue'[s] : queue'[s][l] = InputCb(u) => l = k
    BY DEF QueueInv, InputCb
  <2>3. /\ Waiting(s, u)
        /\ \A l \in DOMAIN queue[s] : queue[s][l] = InputCb(u) => l = k
    BY <2>1, <2>2 DEF QueueInv
  <2> QED BY <1>3, <2>3
<1>5. CallsInv'
  <2>1. CallsInv
    BY DEF AskInv
  <2>2. SUFFICES ASSUME NEW s \in Txs, NEW u \in Txs, NEW k \in DOMAIN calls',
                        IsAsk(calls'[k], s, u)
                 PROVE  /\ Waiting(s, u)'
                        /\ \A l \in DOMAIN calls' : IsAsk(calls'[l], s, u) => l = k
                        /\ \A l \in DOMAIN queue'[s] : queue'[s][l] # InputCb(u)
    BY DEF CallsInv, IsAsk, InputCb
  <2>3. /\ Waiting(s, u)
        /\ \A l \in DOMAIN calls : IsAsk(calls[l], s, u) => l = k
        /\ \A l \in DOMAIN queue[s] : queue[s][l] # InputCb(u)
    BY <2>1, <2>2 DEF CallsInv
  <2> QED BY <1>3, <2>3
<1>6. NeverMisfires'
  <2>1. \A u \in Txs : job'[u].at # "idle" <=> job[u].at # "idle"
    BY <1>2
  <2> QED BY <2>1 DEF AskInv, NeverMisfires
<1>7. WaitsInv'
  <2>1. \A u \in Txs : job'[u].waits = job[u].waits
    BY <1>2
  <2> QED BY <2>1 DEF AskInv, WaitsInv, Sources
<1> QED BY <1>4, <1>5, <1>6, <1>7 DEF AskParts

(* A verification that waits for the database or the scripts fails.          *)
LEMMA FailNowAsk ==
  ASSUME AskInv, NEW t \in Txs, NEW err \in Outcomes, Fail(t, err, calls)
  PROVE  AskParts'
<1>1. calls \in Seq(Items)
  BY DEF AskInv, TypeOK, Items
<1>2. 0 \in Nat /\ \A k \in DOMAIN calls : k + 0 \in DOMAIN calls /\ calls[k + 0] = calls[k]
  BY <1>1
<1> QED BY <1>1, <1>2, FailAsk

LEMMA VerificationAsk ==
  ASSUME AskInv, NEW t \in Txs, VerificationStep(t)
  PROVE  AskParts'
<1>1. job \in [Txs -> JobType] /\ "missing" \in Outcomes /\ "rejected" \in Outcomes
  BY DEF AskInv, TypeOK, Outcomes, Errors
<1>2. CASE InputsFound(t)
  <2>1. job[t].at \notin {"idle", "findMem"} /\ "scripts" \in {"findChain", "scripts", "count", "spender"}
        /\ job' = [job EXCEPT ![t].at = "scripts", ![t].found = Available(t)]
        /\ UNCHANGED <<txIndex, queue, calls>>
    BY <1>2 DEF InputsFound
  <2> QED BY <2>1, JobStepAsk
<1>3. CASE ScriptsRight(t)
  <2>1. job[t].at \notin {"idle", "findMem"} /\ "count" \in {"findChain", "scripts", "count", "spender"}
        /\ job' = [job EXCEPT ![t].at = "count", ![t].found = job[t].found]
        /\ UNCHANGED <<txIndex, queue, calls>>
    BY <1>1, <1>3 DEF ScriptsRight, JobType
  <2> QED BY <2>1, JobStepAsk
<1>4. CASE LookForSpender(t)
  <2>1. job[t].at \notin {"idle", "findMem"} /\ "spender" \in {"findChain", "scripts", "count", "spender"}
        /\ job' = [job EXCEPT ![t].at = "spender", ![t].found = job[t].found]
        /\ UNCHANGED <<txIndex, queue, calls>>
    BY <1>1, <1>4 DEF LookForSpender, JobType
  <2> QED BY <2>1, JobStepAsk
<1>5. CASE BecomeOrphan(t)
  <2>1. Fail(t, "missing", calls)
    BY <1>5 DEF BecomeOrphan
  <2> QED BY <1>1, <2>1, FailNowAsk
<1>6. CASE ScriptsWrong(t) \/ CountFails(t) \/ SpenderIsAnother(t)
  <2>1. Fail(t, "rejected", calls)
    BY <1>6 DEF ScriptsWrong, CountFails, SpenderIsAnother
  <2> QED BY <1>1, <2>1, FailNowAsk
<1>7. CASE NoConflict(t) \/ SpenderIsItself(t)
  <2>1. job[t].at \in {"count", "spender"} /\ Accept(t)
    BY <1>7 DEF NoConflict, SpenderIsItself
  <2> QED BY <2>1, AcceptAsk
<1> QED BY <1>2, <1>3, <1>4, <1>5, <1>6, <1>7 DEF VerificationStep

LEMMA ChainAsk ==
  ASSUME AskInv, NEW t \in Txs, ChainStep(t)
  PROVE  AskParts'
<1>1. calls \in Seq(Items) /\ TypeOK
  BY DEF AskInv, TypeOK, Items
<1>2. 0 \in Int /\ \A k \in DOMAIN calls : k + 0 \in DOMAIN calls /\ calls[k + 0] = calls[k]
  BY <1>1
<1>3. CASE ConnectTx(t)
  <2>1. Remove(t, calls)
    BY <1>3 DEF ConnectTx
  <2> QED BY <1>1, <1>2, <2>1, RemoveAsk
<1>4. CASE SaveTx(t) \/ SaveSpends(t)
  <2>1. UNCHANGED <<txIndex, queue, job, calls>>
    BY <1>4 DEF SaveTx, SaveSpends, poolVars
  <2> QED BY <1>1, <1>2, <2>1, SameCalls, KeptAsk
<1> QED BY <1>3, <1>4 DEF ChainStep

(* An input answers: t does not wait for s any more.                         *)
LEMMA InputAnswered ==
  ASSUME AskInv, calls # <<>>, NEW s \in Txs, NEW t \in Txs,
         IsAsk(Head(calls), s, t), calls' = Tail(calls),
         UNCHANGED <<txIndex, queue>>,
         NEW found,
         job' = [job EXCEPT ![t] =
           [at |-> IF job[t].waits \ {s} = {} THEN "findChain" ELSE "findMem",
            waits |-> job[t].waits \ {s}, found |-> found]]
  PROVE  AskParts'
<1> USE DEF AskInv
<1>1. calls \in Seq(Items) /\ job \in [Txs -> JobType]
  BY DEF TypeOK, Items
<1>2. 1 \in DOMAIN calls /\ IsAsk(calls[1], s, t)
  <2>1. Len(calls) \in Nat \ {0} /\ Head(calls) = calls[1]
    BY <1>1
  <2> QED BY <1>1, <2>1
<1>3. /\ Waiting(s, t)
      /\ \A l \in DOMAIN calls : IsAsk(calls[l], s, t) => l = 1
      /\ \A l \in DOMAIN queue[s] : queue[s][l] # InputCb(t)
  BY <1>2 DEF CallsInv
<1>4. /\ job'[t] = [at |-> IF job[t].waits \ {s} = {} THEN "findChain" ELSE "findMem",
                    waits |-> job[t].waits \ {s}, found |-> found]
      /\ \A u \in Txs \ {t} : job'[u] = job[u]
  BY <1>1
<1>5. \A r, u \in Txs : Waiting(r, u) /\ ~(r = s /\ u = t) => Waiting(r, u)'
  <2>1. ASSUME NEW r \in Txs, NEW u \in Txs, Waiting(r, u), ~(r = s /\ u = t)
        PROVE  Waiting(r, u)'
    <3>1. CASE u # t
      BY <1>4, <2>1, <3>1 DEF Waiting
    <3>2. CASE u = t
      <4>1. r \in job[t].waits \ {s}
        BY <2>1, <3>2 DEF Waiting
      <4>2. job'[t].at = "findMem" /\ r \in job'[t].waits
        BY <1>4, <4>1
      <4> QED BY <3>2, <4>2 DEF Waiting
    <3> QED BY <3>1, <3>2
  <2> QED BY <2>1
<1>6. QueueInv'
  <2>1. SUFFICES ASSUME NEW r \in Txs, NEW u \in Txs, NEW k \in DOMAIN queue'[r],
                        queue'[r][k] = InputCb(u)
                 PROVE  /\ Waiting(r, u)'
                        /\ \A l \in DOMAIN queue'[r] : queue'[r][l] = InputCb(u) => l = k
    BY DEF QueueInv, InputCb
  <2>2. /\ Waiting(r, u)
        /\ \A l \in DOMAIN queue[r] : queue[r][l] = InputCb(u) => l = k
    BY <2>1 DEF QueueInv
  <2>3. ~(r = s /\ u = t)
    BY <1>3, <2>1
  <2> QED BY <1>5, <2>2, <2>3
<1>7. CallsInv'
  <2>1. \A k \in DOMAIN calls' : k + 1 \in DOMAIN calls /\ calls[k + 1] = calls'[k]
    BY TailShift
  <2>2. calls' \in Seq(Items)
    BY RestType
  <2>3. ASSUME NEW r \in Txs, NEW u \in Txs, NEW k \in DOMAIN calls',
               IsAsk(calls'[k], r, u)
        PROVE  /\ Waiting(r, u)'
               /\ \A l \in DOMAIN queue'[r] : queue'[r][l] = InputCb(u) =>
                    \E j \in DOMAIN queue[r] : queue[r][j] = InputCb(u)
    <3>1. k + 1 \in DOMAIN calls /\ IsAsk(calls[k + 1], r, u)
      BY <2>1, <2>3
    <3>2. k \in 1..Len(calls')
      BY <2>2, <2>3
    <3>3. k + 1 # 1
      BY <3>2
    <3>4. ~(r = s /\ u = t)
      BY <1>3, <3>1, <3>3
    <3>5. Waiting(r, u)
      BY <3>1 DEF CallsInv
    <3> QED BY <1>5, <3>4, <3>5
  <2> QED BY <2>1, <2>2, <2>3, CallsShift, 1 \in Int
<1>8. NeverMisfires'
  <2>1. ASSUME NEW u \in Txs
        PROVE  job'[u].at # "idle" <=> job[u].at # "idle"
    <3>1. CASE u = t
      BY <1>3, <1>4, <3>1 DEF Waiting
    <3>2. CASE u # t
      BY <1>4, <3>2
    <3> QED BY <3>1, <3>2
  <2> QED BY <2>1 DEF NeverMisfires
<1>9. WaitsInv'
  <2>1. ASSUME NEW u \in Txs
        PROVE  job'[u].waits \subseteq job[u].waits
    <3>1. CASE u = t
      BY <1>4, <3>1
    <3>2. CASE u # t
      BY <1>4, <3>2
    <3> QED BY <3>1, <3>2
  <2> QED BY <2>1 DEF WaitsInv, Sources
<1> QED BY <1>6, <1>7, <1>8, <1>9 DEF AskParts

(* The statements that follow an acceptance come before what was due.        *)
LEMMA AddedAsk ==
  ASSUME AskInv, calls # <<>>, RunAdded(Head(calls), Tail(calls)), TypeOK'
  PROVE  AskParts'
<1> DEFINE i == Head(calls)
           rest == Tail(calls)
           o == orphanTxByPrev[i.tx]
           a == [k \in DOMAIN o |-> [do |-> "retry", tx |-> o[k]]]
           b == <<[do |-> "notify", tx |-> i.tx]>>
<1>1. i \in Items /\ rest \in Seq(Items) /\ i.do = "added"
  BY RestType DEF AskInv, RunAdded
<1>2. i.tx \in Txs
  BY <1>1 DEF Items, CallItems, Statements
<1>3. o \in Seq(Txs)
  BY <1>2 DEF AskInv, TypeOK
<1>4. a \in Seq(Items) /\ (\A k \in DOMAIN a : a[k].do = "retry")
  <2>1. DOMAIN o = 1..Len(o) /\ Len(o) \in Nat
    BY <1>3
  <2>2. \A k \in 1..Len(o) : [do |-> "retry", tx |-> o[k]] \in Items
    BY <1>3 DEF Items, Statements
  <2>3. a \in [1..Len(o) -> Items]
    BY <2>1, <2>2
  <2> QED BY <2>1, <2>3, FunctionIsSeq
<1>5. b \in Seq(Items) /\ Len(b) = 1 /\ b[1].do = "notify"
  BY <1>2 DEF Items, Statements
<1>6. calls' = (a \o b) \o rest
  BY DEF RunAdded
<1>7. UNCHANGED <<txIndex, queue, job>>
  BY DEF RunAdded
<1>8. calls' \in Seq(Items)
  BY DEF TypeOK, Items
<1> DEFINE n == Len(a) + 1
           ab == a \o b
<1>9. /\ ab \in Seq(Items) /\ Len(ab) = n /\ n \in Nat
      /\ \A k \in 1..n : ab[k].do # "call"
  <2> HIDE DEF a, b
  <2>1. /\ a \o b \in Seq(Items) /\ Len(a \o b) = Len(a) + Len(b)
        /\ \A k \in 1..(Len(a) + Len(b)) :
             (a \o b)[k] = IF k <= Len(a) THEN a[k] ELSE b[k - Len(a)]
    BY <1>4, <1>5, ConcatProperties
  <2>2. Len(a) \in Nat /\ DOMAIN a = 1..Len(a)
    BY <1>4
  <2>3. ASSUME NEW k \in 1..n
        PROVE  ab[k].do # "call"
    <3>1. CASE k <= Len(a)
      <4>1. k \in 1..(Len(a) + Len(b)) /\ k \in DOMAIN a
        BY <1>5, <2>2, <2>3, <3>1
      <4>2. ab[k] = a[k]
        BY <2>1, <3>1, <4>1
      <4> QED BY <1>4, <4>1, <4>2
    <3>2. CASE k > Len(a)
      <4>1. k - Len(a) = 1
        BY <2>2, <2>3, <3>2
      <4>2. ab[k] = b[1]
        BY <1>5, <2>1, <2>2, <2>3, <3>2, <4>1
      <4> QED BY <1>5, <4>2
    <3>3. k <= Len(a) \/ k > Len(a)
      BY <2>2, <2>3
    <3> QED BY <3>1, <3>2, <3>3
  <2> QED BY <1>5, <2>1, <2>2, <2>3
<1>10. /\ ab \o rest \in Seq(Items) /\ Len(ab \o rest) = n + Len(rest)
       /\ \A k \in 1..(n + Len(rest)) :
            (ab \o rest)[k] = IF k <= n THEN ab[k] ELSE rest[k - n]
  <2> HIDE DEF ab, rest, n
  <2>1. /\ ab \o rest \in Seq(Items) /\ Len(ab \o rest) = Len(ab) + Len(rest)
        /\ \A k \in 1..(Len(ab) + Len(rest)) :
             (ab \o rest)[k] = IF k <= Len(ab) THEN ab[k] ELSE rest[k - Len(ab)]
    BY <1>1, <1>9, ConcatProperties
  <2> QED BY <1>9, <2>1
<1>11. ASSUME NEW k \in DOMAIN calls', calls'[k].do = "call"
       PROVE  k + (1 - n) \in DOMAIN calls /\ calls[k + (1 - n)] = calls'[k]
  <2>1. \A l \in DOMAIN rest : l + 1 \in DOMAIN calls /\ calls[l + 1] = rest[l]
    BY TailShift DEF AskInv
  <2>2. DOMAIN rest = 1..Len(rest) /\ Len(rest) \in Nat
    BY <1>1
  <2> HIDE DEF ab, rest, n, a, b, o, i
  <2>3. calls' = ab \o rest
    BY <1>6 DEF ab
  <2>4. k \in 1..(n + Len(rest))
    BY <1>8, <1>9, <1>10, <2>2, <2>3
  <2>5. ~(k <= n)
    <3>1. k <= n => calls'[k] = ab[k] /\ k \in 1..n
      BY <1>9, <1>10, <2>3, <2>4
    <3> QED BY <1>9, <1>11, <3>1
  <2>6. calls'[k] = rest[k - n] /\ k - n \in 1..Len(rest)
    BY <1>9, <1>10, <2>2, <2>3, <2>4, <2>5, SMTT(60)
  <2>7. (k - n) + 1 \in DOMAIN calls /\ calls[(k - n) + 1] = rest[k - n]
    BY <2>1, <2>2, <2>6
  <2>8. (k - n) + 1 = k + (1 - n)
    BY <1>9, <2>4
  <2> QED BY <2>6, <2>7, <2>8
<1>12. 1 - n \in Int
  <2> HIDE DEF ab, rest, n, a, b, o, i
  <2> QED BY <1>9
<1> HIDE DEF n
<1> QED BY <1>7, <1>8, <1>11, <1>12, KeptAsk

LEMMA RunAsk ==
  ASSUME AskInv, RunNext, TypeOK'
  PROVE  AskParts'
<1> DEFINE i == Head(calls)
           rest == Tail(calls)
<1>1. calls # <<>>
  BY DEF RunNext
<1>2. i \in Items /\ rest \in Seq(Items)
  BY <1>1, RestType DEF AskInv
<1>3. \A k \in DOMAIN rest : k + 1 \in DOMAIN calls /\ calls[k + 1] = rest[k]
  BY <1>1, TailShift DEF AskInv
<1>4. 1 \in Int /\ 1 \in Nat
  OBVIOUS
<1>5. i.do = "call" => i.tx \in Txs /\ i.cb \in Callbacks /\ i.err \in Outcomes
  BY <1>2 DEF Items, CallItems, Statements
<1>6. i.tx \in Txs
  BY <1>2 DEF Items, CallItems, Statements
<1>7. CASE calls' = rest /\ UNCHANGED <<txIndex, queue, job>>
  <2> HIDE DEF rest
  <2>1. \A k \in DOMAIN calls' : calls'[k].do = "call" =>
          k + 1 \in DOMAIN calls /\ calls[k + 1] = calls'[k]
    BY <1>3, <1>7
  <2>2. calls' \in Seq(Items)
    BY <1>2, <1>7
  <2> QED BY <1>4, <1>7, <2>1, <2>2, KeptAsk
<1>8. CASE RunRemoval(i, rest)
  <2>1. CASE i.err = "ok" /\ Remove(i.cb.who, rest)
    <3>1. i.cb.who \in Txs
      BY <1>5, <1>8 DEF RunRemoval, Callbacks
    <3> HIDE DEF rest, i
    <3> QED BY <1>2, <1>3, <1>4, <2>1, <3>1, RemoveAsk
  <2> QED BY <1>7, <1>8, <2>1 DEF RunRemoval
<1>9. CASE RunCaller(i, rest) \/ RunDisabled(i, rest) \/ RunNotify(i, rest)
  BY <1>7, <1>9 DEF RunCaller, RunDisabled, RunNotify
<1>10. CASE RunAdded(i, rest)
  BY <1>1, <1>10, AddedAsk
<1>11. CASE RunInput(i, rest)
  <2> DEFINE t == i.cb.who
  <2>1. i.do = "call" /\ i.cb.kind = "input"
    BY <1>11 DEF RunInput
  <2>2. t \in Txs /\ i.cb = InputCb(t)
    BY <1>5, <2>1 DEF Callbacks, InputCb
  <2>3. IsAsk(i, i.tx, t)
    BY <2>1, <2>2 DEF IsAsk
  <2>4. CASE i.err # "ok" /\ Fail(t, i.err, rest)
    <3> HIDE DEF rest, i, t
    <3> QED BY <1>2, <1>3, <1>4, <1>5, <2>1, <2>2, <2>4, FailAsk
  <2>5. CASE ~(i.err # "ok" /\ Fail(t, i.err, rest))
    <3>1. /\ job' = [job EXCEPT ![t] =
               [at |-> IF job[t].waits \ {i.tx} = {} THEN "findChain" ELSE "findMem",
                waits |-> job[t].waits \ {i.tx}, found |-> job[t].found \cup {i.tx}]]
          /\ calls' = rest /\ UNCHANGED <<txIndex, queue>>
      BY <1>11, <2>5 DEF RunInput
    <3> HIDE DEF t
    <3> QED BY <1>1, <1>6, <2>2, <2>3, <3>1, InputAnswered
  <2> QED BY <2>4, <2>5
<1>12. CASE RunRetry(i, rest)
  <2>1. calls' = rest
    BY <1>12 DEF RunRetry
  <2>2. CASE txIndex[i.tx] = "absent" /\ StartVerification(i.tx, <<>>)
    <3> DEFINE q == <<>>
    <3>1. q \in Seq(Callbacks) /\ \A k \in DOMAIN q : \A u \in Txs : q[k] # InputCb(u)
      BY EmptySeq
    <3>2. StartVerification(i.tx, q) /\ txIndex[i.tx] = "absent"
      BY <2>2
    <3>3. \A k \in DOMAIN calls' : calls'[k].do = "call" =>
             k + 1 \in DOMAIN calls /\ calls[k + 1] = calls'[k]
      BY <1>3, <2>1
    <3>4. calls' \in Seq(Items)
      BY <1>2, <2>1
    <3> HIDE DEF rest, i, q
    <3> QED BY <1>4, <1>6, <3>1, <3>2, <3>3, <3>4, StartCallsAsk
  <2> QED BY <1>7, <1>12, <2>1, <2>2 DEF RunRetry
<1> QED BY <1>8, <1>9, <1>10, <1>11, <1>12 DEF RunNext

-----------------------------------------------------------------------------

LEMMA InitAsk == Init => AskInv
<1> SUFFICES ASSUME Init PROVE AskInv
  OBVIOUS
<1>1. TypeOK
  BY InitType
<1>2. /\ \A t \in Txs : txIndex[t] = "absent" /\ queue[t] = <<>> /\ job[t] = NoJob
      /\ calls = <<>>
  BY DEF Init
<1>3. NeverMisfires /\ WaitsInv
  BY <1>2 DEF NeverMisfires, WaitsInv, NoJob
<1>4. QueueInv /\ CallsInv
  BY <1>2 DEF QueueInv, CallsInv
<1> QED BY <1>1, <1>3, <1>4 DEF AskInv

LEMMA NextAsk == AskInv /\ [Next]_vars => AskInv'
<1> SUFFICES ASSUME AskInv, [Next]_vars PROVE AskInv'
  OBVIOUS
<1>1. TypeOK'
  BY NextType DEF AskInv
<1>2. ASSUME NEW c \in Callers, NEW t \in Txs,
             HandleTx(c, t) \/ SendTx(c, t) \/ Get(c, t)
      PROVE  AskParts'
  BY <1>2, AddAsk, GetAsk DEF HandleTx, SendTx
<1>3. ASSUME NEW t \in Txs, VerificationStep(t) \/ ChainStep(t)
      PROVE  AskParts'
  BY <1>3, VerificationAsk, ChainAsk
<1>4. ASSUME RunNext
      PROVE  AskParts'
  BY <1>1, <1>4, RunAsk
<1>5. ASSUME UNCHANGED vars
      PROVE  AskParts'
  <2>1. UNCHANGED <<txIndex, queue, job, calls>>
    BY <1>5 DEF vars, poolVars
  <2>2. TypeOK
    BY DEF AskInv
  <2>3. /\ calls' \in Seq(Items) /\ 0 \in Int
        /\ \A k \in DOMAIN calls' : calls'[k].do = "call" =>
             k + 0 \in DOMAIN calls /\ calls[k + 0] = calls'[k]
    BY <2>1, <2>2, SameCalls
  <2> QED BY <2>1, <2>3, KeptAsk
<1>6. AskParts'
  BY <1>2, <1>3, <1>4, <1>5 DEF Next
<1> QED BY <1>1, <1>6 DEF AskInv, AskParts

(* For all transactions, callers and schedules, runCallbacks() runs exactly  *)
(* once per verification, on the queue that verification was given: the      *)
(* branch "Transaction callback misfired" (transactionstore.js:63) is dead.  *)
THEOREM StoreNeverMisfires == Spec => []NeverMisfires
<1>1. AskInv => NeverMisfires
  BY DEF AskInv
<1> QED BY <1>1, InitAsk, NextAsk, PTL DEF Spec

-----------------------------------------------------------------------------
(* What is accepted can be included in a block.                              *)

(* A removal waits only for a confirmed transaction, the callbacks of a      *)
(* success belong to a pooled or confirmed one, and only standard            *)
(* transactions are verified, wait as orphans or are tried again.            *)

Known == Added \cup chain
Standard == {t \in Txs : t \notin NonStandard /\ ~IsCoinBase(t)}

SafeCallbacks(C) == {cb \in Callbacks : cb.kind = "removal" => cb.who \in C}
SafeItems(C, K) ==
  {i \in Items : /\ i.do = "call" => /\ i.cb \in SafeCallbacks(C)
                                     /\ i.err = "ok" => i.tx \in K
                 /\ i.do = "retry" => i.tx \in Standard}

QueuesSafe == queue \in [Txs -> Seq(SafeCallbacks(connected))]
CallsSafe == calls \in Seq(SafeItems(connected, Known))
OrphansStandard == orphanTxByPrev \in [Txs -> Seq(Standard)]

JobOK(t) ==
  /\ job[t].found \subseteq Known
  /\ job[t].at \in {"scripts", "count", "spender"} => Sources(t) \subseteq job[t].found
  /\ job[t].at \in {"count", "spender"} => t \notin Invalid
  /\ job[t].at # "idle" => t \in Standard

ChainAgrees == \A s, t \in chain : s # t => ~Rivals(s, t)

SafeInv ==
  /\ QueuesSafe
  /\ CallsSafe
  /\ OrphansStandard
  /\ \A t \in Txs : JobOK(t)
  /\ ChainAgrees
  /\ ParentsPooled

Grows == chain \subseteq chain' /\ connected \subseteq connected' /\ Known \subseteq Known'

LEMMA SafeCallback ==
  ASSUME NEW C, NEW t \in Txs
  PROVE  /\ \A c \in Callers : CallerCb(c) \in SafeCallbacks(C)
         /\ InputCb(t) \in SafeCallbacks(C)
         /\ DisabledCb(t) \in SafeCallbacks(C)
         /\ t \in C => RemovalCb(t) \in SafeCallbacks(C)
         /\ \A cb \in SafeCallbacks(C) : Disable(t, cb) \in SafeCallbacks(C)
<1>1. /\ \A c \in Callers : CallerCb(c) \in Callbacks /\ CallerCb(c).kind = "caller"
      /\ InputCb(t) \in Callbacks /\ InputCb(t).kind = "input"
      /\ DisabledCb(t) \in Callbacks /\ DisabledCb(t).kind = "disabled"
      /\ RemovalCb(t) \in Callbacks /\ RemovalCb(t).who = t
  BY CallbackTypes DEF CallerCb, InputCb, DisabledCb, RemovalCb
<1>2. DisabledCb(t) \in SafeCallbacks(C)
  BY <1>1 DEF SafeCallbacks
<1>3. \A cb \in SafeCallbacks(C) : Disable(t, cb) \in SafeCallbacks(C)
  BY <1>2 DEF Disable
<1> QED BY <1>1, <1>2, <1>3 DEF SafeCallbacks

LEMMA SafeMonotone ==
  ASSUME NEW C, NEW D, NEW K, NEW L, C \subseteq D, K \subseteq L
  PROVE  /\ SafeCallbacks(C) \subseteq SafeCallbacks(D)
         /\ SafeItems(C, K) \subseteq SafeItems(D, L)
BY DEF SafeCallbacks, SafeItems

LEMMA SeqMonotone ==
  ASSUME NEW S, NEW T, S \subseteq T, NEW s \in Seq(S)
  PROVE  s \in Seq(T)
<1>1. s \in [1..Len(s) -> T] /\ Len(s) \in Nat
  OBVIOUS
<1> QED BY <1>1, FunctionIsSeq

LEMMA SafeDisableQueue ==
  ASSUME NEW C, NEW t \in Txs, NEW q \in Seq(SafeCallbacks(C))
  PROVE  DisableQueue(t, q) \in Seq(SafeCallbacks(C))
<1>1. DOMAIN q = 1..Len(q) /\ Len(q) \in Nat
  OBVIOUS
<1>2. \A i \in 1..Len(q) : Disable(t, q[i]) \in SafeCallbacks(C)
  BY SafeCallback
<1>3. DisableQueue(t, q) \in [1..Len(q) -> SafeCallbacks(C)]
  BY <1>1, <1>2 DEF DisableQueue
<1> QED BY <1>1, <1>3, FunctionIsSeq

LEMMA SafeDisableCalls ==
  ASSUME NEW C, NEW K, NEW t \in Txs, NEW s \in Seq(SafeItems(C, K))
  PROVE  DisableCalls(t, s) \in Seq(SafeItems(C, K))
<1>1. DOMAIN s = 1..Len(s) /\ Len(s) \in Nat
  OBVIOUS
<1>2. ASSUME NEW i \in 1..Len(s)
      PROVE  (IF s[i].do = "call"
              THEN [s[i] EXCEPT !.cb = Disable(t, s[i].cb)] ELSE s[i]) \in SafeItems(C, K)
  <2>1. s[i] \in SafeItems(C, K)
    OBVIOUS
  <2>2. CASE s[i].do = "call"
    <3>1. s[i] \in CallItems
      BY <2>1, <2>2 DEF SafeItems, Items, Statements
    <3>2. Disable(t, s[i].cb) \in SafeCallbacks(C)
      BY <2>1, <2>2, SafeCallback DEF SafeItems
    <3>3. Disable(t, s[i].cb) \in Callbacks
      BY <3>2 DEF SafeCallbacks
    <3> DEFINE r == [s[i] EXCEPT !.cb = Disable(t, s[i].cb)]
    <3>4. r \in CallItems /\ r.do = "call" /\ r.cb = Disable(t, s[i].cb)
          /\ r.tx = s[i].tx /\ r.err = s[i].err
      BY <2>2, <3>1, <3>3 DEF CallItems
    <3>5. r \in SafeItems(C, K)
      <4> HIDE DEF r
      <4> QED BY <2>1, <2>2, <3>2, <3>4 DEF SafeItems, Items
    <3> QED BY <2>2, <3>5
  <2>3. CASE s[i].do # "call"
    BY <2>1, <2>3
  <2> QED BY <2>2, <2>3
<1>3. DisableCalls(t, s) \in [1..Len(s) -> SafeItems(C, K)]
  BY <1>1, <1>2 DEF DisableCalls
<1> QED BY <1>1, <1>3, FunctionIsSeq

LEMMA SafeCallsOf ==
  ASSUME NEW C, NEW K, NEW t \in Txs, NEW err \in Outcomes,
         queue[t] \in Seq(SafeCallbacks(C)), err = "ok" => t \in K
  PROVE  CallsOf(t, err) \in Seq(SafeItems(C, K))
<1>1. DOMAIN queue[t] = 1..Len(queue[t]) /\ Len(queue[t]) \in Nat
  OBVIOUS
<1>2. ASSUME NEW i \in 1..Len(queue[t])
      PROVE  [do |-> "call", tx |-> t, cb |-> queue[t][i], err |-> err] \in SafeItems(C, K)
  <2>1. queue[t][i] \in SafeCallbacks(C)
    BY <1>1
  <2>2. queue[t][i] \in Callbacks
    BY <2>1 DEF SafeCallbacks
  <2> QED BY <2>1, <2>2 DEF SafeItems, Items, CallItems
<1>3. CallsOf(t, err) \in [1..Len(queue[t]) -> SafeItems(C, K)]
  BY <1>1, <1>2 DEF CallsOf
<1> QED BY <1>1, <1>3, FunctionIsSeq

(* What stays as it is stays safe when more is known.                        *)
LEMMA KeptSafe ==
  ASSUME SafeInv, Grows
  PROVE  /\ queue \in [Txs -> Seq(SafeCallbacks(connected'))]
         /\ calls \in Seq(SafeItems(connected', Known'))
         /\ \A t \in Txs : job'[t] = job[t] => JobOK(t)'
<1>1. SafeCallbacks(connected) \subseteq SafeCallbacks(connected')
      /\ SafeItems(connected, Known) \subseteq SafeItems(connected', Known')
  BY SafeMonotone DEF Grows
<1>2. \A t \in Txs : queue[t] \in Seq(SafeCallbacks(connected'))
  BY <1>1, SeqMonotone DEF SafeInv, QueuesSafe
<1>3. queue \in [Txs -> Seq(SafeCallbacks(connected'))]
  BY <1>2 DEF SafeInv, QueuesSafe
<1>4. calls \in Seq(SafeItems(connected', Known'))
  BY <1>1, SeqMonotone DEF SafeInv, CallsSafe
<1>5. ASSUME NEW t \in Txs, job'[t] = job[t]
      PROVE  JobOK(t)'
  <2>1. JobOK(t)
    BY DEF SafeInv
  <2> QED BY <1>5, <2>1 DEF JobOK, Grows, Sources, Standard, IsCoinBase
<1> QED BY <1>3, <1>4, <1>5

LEMMA ParentsKept ==
  ASSUME SafeInv, Grows,
         \A t \in Added' \ Added : Sources(t) \subseteq Known'
  PROVE  ParentsPooled'
<1>1. ASSUME NEW t \in Added'
      PROVE  Sources(t) \subseteq Known'
  <2>1. CASE t \in Added
    <3>1. Sources(t) \subseteq Known
      BY <2>1, SourcesType DEF SafeInv, ParentsPooled, Known, Added
    <3> QED BY <3>1 DEF Grows
  <2>2. CASE t \notin Added
    BY <1>1, <2>2
  <2> QED BY <2>1, <2>2
<1> QED BY <1>1 DEF ParentsPooled, Known, Sources

StoreInv == AskInv /\ SafeInv

LEMMA SafeFrom ==
  ASSUME SafeInv, Grows, QueuesSafe', CallsSafe', OrphansStandard',
         \A t \in Txs : JobOK(t)', ChainAgrees',
         \A t \in Added' \ Added : Sources(t) \subseteq Known'
  PROVE  SafeInv'
<1>1. ParentsPooled'
  BY ParentsKept
<1>2. \A t \in Txs : JobOK(t)'
  OBVIOUS
<1> QED BY <1>1, <1>2 DEF SafeInv

LEMMA SameGrows ==
  ASSUME Added' = Added, UNCHANGED <<chain, connected>>
  PROVE  Grows /\ Known' = Known
BY DEF Grows, Known

(* A verification fails.                                                     *)
LEMMA FailSafe ==
  ASSUME StoreInv, NEW t \in Txs, job[t].at # "idle", NEW err \in Errors,
         NEW rest \in Seq(SafeItems(connected, Known)), Fail(t, err, rest),
         UNCHANGED <<chain, connected>>
  PROVE  /\ Added' = Added
         /\ QueuesSafe' /\ CallsSafe' /\ \A u \in Txs : JobOK(u)'
<1>1. txIndex \in [Txs -> {"absent", "verifying", "added"}] /\ job \in [Txs -> JobType]
  BY DEF StoreInv, AskInv, TypeOK
<1>2. txIndex[t] = "verifying"
  BY DEF StoreInv, AskInv, NeverMisfires
<1>3. Added' = Added
  BY <1>1, <1>2 DEF Fail, Added
<1>4. Grows /\ Known' = Known
  BY <1>3, SameGrows
<1>5. QueuesSafe'
  <2>1. \A s \in Txs : DisableQueue(t, queue[s]) \in Seq(SafeCallbacks(connected))
    BY SafeDisableQueue DEF StoreInv, SafeInv, QueuesSafe
  <2> QED BY <2>1, EmptySeq DEF Fail, QueuesSafe
<1>6. CallsSafe'
  <2>1. queue[t] \in Seq(SafeCallbacks(connected))
    BY DEF StoreInv, SafeInv, QueuesSafe
  <2>2. err \in Outcomes /\ err # "ok"
    BY DEF Outcomes, Errors
  <2>3. CallsOf(t, err) \in Seq(SafeItems(connected, Known))
    BY <2>1, <2>2, SafeCallsOf
  <2>4. DisableCalls(t, rest) \in Seq(SafeItems(connected, Known))
    BY SafeDisableCalls
  <2>5. calls' \in Seq(SafeItems(connected, Known))
    BY <2>3, <2>4, ConcatProperties DEF Fail
  <2> QED BY <1>4, <2>5 DEF CallsSafe
<1>7. ASSUME NEW u \in Txs
      PROVE  JobOK(u)'
  <2>1. CASE u = t
    <3>1. job'[u] = NoJob
      BY <1>1, <2>1 DEF Fail
    <3> QED BY <3>1 DEF NoJob, JobOK
  <2>2. CASE u # t
    <3>1. job'[u] = job[u]
      BY <1>1, <2>2 DEF Fail
    <3> QED BY <1>4, <3>1, KeptSafe DEF StoreInv
  <2> QED BY <2>1, <2>2
<1> QED BY <1>3, <1>5, <1>6, <1>7

(* A verification starts.                                                    *)
LEMMA StartSafe ==
  ASSUME StoreInv, NEW t \in Standard, NEW q \in Seq(SafeCallbacks(connected)),
         txIndex[t] = "absent", StartVerification(t, q), UNCHANGED <<chain, connected>>
  PROVE  /\ Added' = Added
         /\ QueuesSafe' /\ \A u \in Txs : JobOK(u)'
<1>1. txIndex \in [Txs -> {"absent", "verifying", "added"}] /\ job \in [Txs -> JobType]
      /\ t \in Txs
  BY DEF StoreInv, AskInv, TypeOK, Standard
<1>2. Added' = Added
  BY <1>1 DEF StartVerification, Added
<1>3. Grows /\ Known' = Known
  BY <1>2, SameGrows
<1>4. QueuesSafe'
  <2>1. \A s \in Txs : queue[s] \in Seq(SafeCallbacks(connected))
    BY DEF StoreInv, SafeInv, QueuesSafe
  <2>2. \A s \in Txs : Append(queue[s], InputCb(t)) \in Seq(SafeCallbacks(connected))
    BY <1>1, <2>1, SafeCallback, AppendProperties
  <2> QED BY <2>1, <2>2 DEF StartVerification, QueuesSafe
<1>5. ASSUME NEW u \in Txs
      PROVE  JobOK(u)'
  <2>1. CASE u = t
    <3>1. job'[u].found \subseteq Added /\ job'[u].at \in {"findChain", "findMem"}
      BY <1>1, <2>1 DEF StartVerification
    <3>2. job'[u].found \subseteq Known'
      BY <1>3, <3>1 DEF Known
    <3>3. u \in Standard'
      BY <2>1 DEF Standard, IsCoinBase
    <3> QED BY <3>1, <3>2, <3>3 DEF JobOK
  <2>2. CASE u # t
    <3>1. job'[u] = job[u]
      BY <1>1, <2>2 DEF StartVerification
    <3> QED BY <1>3, <3>1, KeptSafe DEF StoreInv
  <2> QED BY <2>1, <2>2
<1> QED BY <1>2, <1>4, <1>5

(* A verification goes on.                                                   *)
LEMMA JobStepSafe ==
  ASSUME StoreInv, NEW t \in Txs, Added' = Added, UNCHANGED <<chain, connected>>,
         JobOK(t)', \A u \in Txs \ {t} : job'[u] = job[u]
  PROVE  \A u \in Txs : JobOK(u)'
<1>1. Grows
  BY SameGrows
<1>2. ASSUME NEW u \in Txs
      PROVE  JobOK(u)'
  <2>1. CASE u = t
    BY <2>1
  <2>2. CASE u # t
    BY <1>1, <2>2, KeptSafe DEF StoreInv
  <2> QED BY <2>1, <2>2
<1> QED BY <1>2

(* Calls taken off, queues and jobs left alone or one callback put in.       *)
LEMMA AnswersSafe ==
  ASSUME StoreInv, UNCHANGED <<txIndex, job, orphanTxByPrev, chain, connected>>,
         CallsSafe', QueuesSafe'
  PROVE  SafeInv' /\ Added' = Added
<1>1. Added' = Added
  BY DEF Added
<1>2. Grows
  BY <1>1, SameGrows
<1>3. \A u \in Txs : JobOK(u)'
  BY <1>2, KeptSafe DEF StoreInv
<1>4. OrphansStandard' /\ ChainAgrees'
  BY DEF StoreInv, SafeInv, OrphansStandard, ChainAgrees, Standard, IsCoinBase, Rivals, Spends
<1>5. SafeInv
  BY DEF StoreInv
<1> QED BY <1>1, <1>2, <1>3, <1>4, <1>5, SafeFrom

LEMMA SameSafe ==
  ASSUME StoreInv, Added' = Added, UNCHANGED <<chain, connected>>
  PROVE  /\ UNCHANGED queue => QueuesSafe'
         /\ UNCHANGED calls => CallsSafe'
         /\ UNCHANGED orphanTxByPrev => OrphansStandard'
         /\ ChainAgrees'
<1>1. Known' = Known
  BY SameGrows
<1> QED BY <1>1 DEF StoreInv, SafeInv, QueuesSafe, CallsSafe, OrphansStandard,
                    ChainAgrees, Standard, IsCoinBase, Rivals, Spends

LEMMA EnqueueSafe ==
  ASSUME StoreInv, NEW c \in Callers, NEW t \in Txs, NEW op, Enqueue(c, t, op),
         UNCHANGED <<calls, orphanTxByPrev, chain, connected>>
  PROVE  SafeInv' /\ Added' = Added
<1>1. QueuesSafe'
  <2>1. \A s \in Txs : queue[s] \in Seq(SafeCallbacks(connected))
    BY DEF StoreInv, SafeInv, QueuesSafe
  <2>2. Append(queue[t], CallerCb(c)) \in Seq(SafeCallbacks(connected))
    BY <2>1, SafeCallback, AppendProperties
  <2> QED BY <2>2 DEF StoreInv, SafeInv, QueuesSafe, Enqueue
<1>2. Added' = Added
  BY DEF Enqueue, Added
<1>3. CallsSafe'
  BY <1>2, SameSafe
<1>4. UNCHANGED <<txIndex, job, orphanTxByPrev, chain, connected>>
  BY DEF Enqueue
<1> QED BY <1>1, <1>3, <1>4, AnswersSafe

LEMMA AddSafe ==
  ASSUME StoreInv, NEW c \in Callers, NEW t \in Txs, Add(c, t)
  PROVE  SafeInv' /\ Added' = Added
<1>1. UNCHANGED <<calls, orphanTxByPrev, chain, connected>>
  BY DEF Add
<1>2. CASE Enqueue(c, t, "add")
  BY <1>1, <1>2, EnqueueSafe
<1>3. CASE UNCHANGED <<txIndex, queue, job>>
  <2>1. Added' = Added
    BY <1>3 DEF Added
  <2>2. CallsSafe' /\ QueuesSafe'
    BY <1>1, <1>3, <2>1, SameSafe
  <2> QED BY <1>1, <1>3, <2>2, AnswersSafe
<1>4. CASE /\ txIndex[t] = "absent" /\ ~IsCoinBase(t) /\ t \notin NonStandard
           /\ StartVerification(t, <<CallerCb(c)>>)
  <2> DEFINE q == <<CallerCb(c)>>
  <2>1. q \in Seq(SafeCallbacks(connected))
    BY SafeCallback
  <2>2. t \in Standard
    BY <1>4 DEF Standard
  <2>3. StartVerification(t, q)
    BY <1>4
  <2> HIDE DEF q
  <2>4. Added' = Added /\ QueuesSafe' /\ \A u \in Txs : JobOK(u)'
    BY <1>1, <1>4, <2>1, <2>2, <2>3, StartSafe
  <2>5. CallsSafe' /\ OrphansStandard' /\ ChainAgrees'
    BY <1>1, <2>4, SameSafe
  <2>6. SafeInv /\ Grows
    BY <1>1, <2>4, SameGrows DEF StoreInv
  <2> QED BY <2>4, <2>5, <2>6, SafeFrom
<1> QED BY <1>2, <1>3, <1>4 DEF Add

LEMMA GetSafe ==
  ASSUME StoreInv, NEW c \in Callers, NEW t \in Txs, Get(c, t)
  PROVE  SafeInv' /\ Added' = Added
<1>1. UNCHANGED <<calls, orphanTxByPrev, chain, connected>>
  BY DEF Get
<1>2. CASE Enqueue(c, t, "get")
  BY <1>1, <1>2, EnqueueSafe
<1>3. CASE UNCHANGED <<txIndex, queue, job>>
  <2>1. Added' = Added
    BY <1>3 DEF Added
  <2>2. CallsSafe' /\ QueuesSafe'
    BY <1>1, <1>3, <2>1, SameSafe
  <2> QED BY <1>1, <1>3, <2>2, AnswersSafe
<1> QED BY <1>2, <1>3 DEF Get

(* A verification succeeds.                                                  *)
LEMMA AcceptSafe ==
  ASSUME StoreInv, NEW t \in Txs, job[t].at \in {"count", "spender"},
         Accept(t), UNCHANGED <<chain, connected>>
  PROVE  /\ SafeInv'
         /\ Added' = Added \cup {t}
         /\ t \notin Added \cup Refused
         /\ Sources(t) \subseteq Known
<1>1. txIndex \in [Txs -> {"absent", "verifying", "added"}] /\ job \in [Txs -> JobType]
  BY DEF StoreInv, AskInv, TypeOK
<1>2. txIndex[t] = "verifying"
  BY DEF StoreInv, AskInv, NeverMisfires
<1>3. Added' = Added \cup {t} /\ t \notin Added
  BY <1>1, <1>2 DEF Accept, Added
<1>4. Grows /\ t \in Known'
  BY <1>3 DEF Grows, Known
<1>5. JobOK(t) /\ SafeInv
  BY DEF StoreInv, SafeInv
<1>6. Sources(t) \subseteq Known /\ t \notin Invalid /\ t \in Standard
  BY <1>5 DEF JobOK
<1>7. t \notin Refused
  BY <1>6 DEF Refused, Standard
<1>8. QueuesSafe'
  <2>1. queue \in [Txs -> Seq(SafeCallbacks(connected'))]
    BY <1>4, <1>5, KeptSafe
  <2> QED BY <2>1, EmptySeq DEF Accept, QueuesSafe
<1>9. CallsSafe'
  <2>1. queue[t] \in Seq(SafeCallbacks(connected'))
    BY <1>4, <1>5, KeptSafe
  <2>2. "ok" \in Outcomes
    BY DEF Outcomes
  <2>3. CallsOf(t, "ok") \in Seq(SafeItems(connected', Known'))
    BY <1>4, <2>1, <2>2, SafeCallsOf
  <2> DEFINE d == <<[do |-> "added", tx |-> t]>>
  <2>4. d \in Seq(SafeItems(connected', Known'))
    BY DEF SafeItems, Items, Statements
  <2>5. calls' = CallsOf(t, "ok") \o d
    BY DEF Accept
  <2> HIDE DEF d
  <2> QED BY <2>3, <2>4, <2>5, ConcatProperties DEF CallsSafe
<1>10. ASSUME NEW u \in Txs
       PROVE  JobOK(u)'
  <2>1. CASE u = t
    <3>1. job'[u] = NoJob
      BY <1>1, <2>1 DEF Accept
    <3> QED BY <3>1 DEF NoJob, JobOK
  <2>2. CASE u # t
    <3>1. job'[u] = job[u]
      BY <1>1, <2>2 DEF Accept
    <3> QED BY <1>4, <1>5, <3>1, KeptSafe
  <2> QED BY <2>1, <2>2
<1>11. OrphansStandard' /\ ChainAgrees'
  BY <1>5 DEF Accept, SafeInv, OrphansStandard, ChainAgrees, Standard, IsCoinBase,
              Rivals, Spends
<1>12. \A u \in Added' \ Added : Sources(u) \subseteq Known'
  BY <1>3, <1>4, <1>6 DEF Grows
<1>13. SafeInv'
  BY <1>4, <1>5, <1>8, <1>9, <1>10, <1>11, <1>12, SafeFrom
<1> QED BY <1>3, <1>6, <1>7, <1>13

Accepts(t) ==
  /\ Added' = Added \cup {t}
  /\ t \notin Added \cup Refused
  /\ Sources(t) \subseteq Known
  /\ NoConflict(t) \/ SpenderIsItself(t)

LEMMA VerificationSafe ==
  ASSUME StoreInv, NEW t \in Txs, VerificationStep(t)
  PROVE  SafeInv' /\ (Added' = Added \/ Accepts(t))
<1>1. /\ txIndex \in [Txs -> {"absent", "verifying", "added"}]
      /\ job \in [Txs -> JobType] /\ UNCHANGED <<chain, connected>>
  BY DEF StoreInv, AskInv, TypeOK, VerificationStep, InputsFound, BecomeOrphan,
         ScriptsRight, ScriptsWrong, NoConflict, CountFails, LookForSpender,
         SpenderIsItself, SpenderIsAnother
<1>2. SafeInv /\ JobOK(t) /\ calls \in Seq(SafeItems(connected, Known))
  BY DEF StoreInv, SafeInv, CallsSafe
<1>3. ASSUME Fail(t, "missing", calls) \/ Fail(t, "rejected", calls),
             job[t].at # "idle"
      PROVE  /\ Added' = Added
             /\ QueuesSafe' /\ CallsSafe' /\ \A u \in Txs : JobOK(u)'
  <2>1. "missing" \in Errors /\ "rejected" \in Errors
    BY DEF Errors
  <2> QED BY <1>1, <1>2, <1>3, <2>1, FailSafe
<1>4. CASE NoConflict(t) \/ SpenderIsItself(t)
  <2>1. job[t].at \in {"count", "spender"} /\ Accept(t)
    BY <1>4 DEF NoConflict, SpenderIsItself
  <2> QED BY <1>1, <1>4, <2>1, AcceptSafe DEF Accepts
<1>5. CASE BecomeOrphan(t)
  <2>1. job[t].at # "idle" /\ Fail(t, "missing", calls)
    BY <1>5 DEF BecomeOrphan
  <2>2. /\ Added' = Added
        /\ QueuesSafe' /\ CallsSafe' /\ \A u \in Txs : JobOK(u)'
    BY <1>3, <2>1
  <2>3. t \in Standard
    BY <1>2, <2>1 DEF JobOK
  <2>4. OrphansStandard'
    <3>1. orphanTxByPrev \in [Txs -> Seq(Standard)]
      BY <1>2 DEF SafeInv, OrphansStandard
    <3>2. \A s \in Txs : Append(orphanTxByPrev[s], t) \in Seq(Standard)
      BY <2>3, <3>1, AppendProperties
    <3>3. orphanTxByPrev' = [orphanTxByPrev EXCEPT ![MissingSource(t)] = Append(@, t)]
      BY <1>5 DEF BecomeOrphan
    <3>4. orphanTxByPrev' \in [Txs -> Seq(Standard)]
      BY <3>1, <3>2, <3>3
    <3> QED BY <3>4 DEF OrphansStandard, Standard, IsCoinBase
  <2>5. ChainAgrees'
    BY <1>1, <2>2, SameSafe
  <2>6. Grows
    BY <1>1, <2>2, SameGrows
  <2> QED BY <1>2, <2>2, <2>4, <2>5, <2>6, SafeFrom
<1>6. CASE ScriptsWrong(t) \/ CountFails(t) \/ SpenderIsAnother(t)
  <2>1. job[t].at # "idle" /\ Fail(t, "rejected", calls) /\ UNCHANGED orphanTxByPrev
    BY <1>6 DEF ScriptsWrong, CountFails, SpenderIsAnother
  <2>2. /\ Added' = Added
        /\ QueuesSafe' /\ CallsSafe' /\ \A u \in Txs : JobOK(u)'
    BY <1>3, <2>1
  <2>3. OrphansStandard' /\ ChainAgrees' /\ Grows
    BY <1>1, <2>1, <2>2, SameSafe, SameGrows
  <2> QED BY <1>2, <2>2, <2>3, SafeFrom
<1>7. ASSUME UNCHANGED <<txIndex, queue, orphanTxByPrev, calls>>, JobOK(t)',
             \A u \in Txs \ {t} : job'[u] = job[u]
      PROVE  SafeInv' /\ Added' = Added
  <2>1. Added' = Added
    BY <1>7 DEF Added
  <2>2. QueuesSafe' /\ CallsSafe' /\ OrphansStandard' /\ ChainAgrees' /\ Grows
    BY <1>1, <1>7, <2>1, SameSafe, SameGrows
  <2>3. \A u \in Txs : JobOK(u)'
    BY <1>1, <1>7, <2>1, JobStepSafe
  <2> QED BY <1>2, <2>1, <2>2, <2>3, SafeFrom
<1>8. ASSUME UNCHANGED <<txIndex, chain, connected>>
      PROVE  Known' = Known /\ Sources(t)' = Sources(t) /\ Standard' = Standard
  BY <1>8 DEF Known, Added, Sources, Standard, IsCoinBase
<1>9. CASE InputsFound(t)
  <2>1. /\ job' = [job EXCEPT ![t].at = "scripts", ![t].found = Available(t)]
        /\ UNCHANGED <<txIndex, queue, orphanTxByPrev, calls, chain, connected>>
        /\ job[t].at # "idle" /\ Sources(t) \subseteq Available(t)
    BY <1>9 DEF InputsFound
  <2>2. job'[t].at = "scripts" /\ job'[t].found = Available(t)
    BY <1>1, <2>1 DEF JobType
  <2>3. Available(t) \subseteq Known /\ t \in Standard
    BY <1>2, <2>1 DEF Available, Known, JobOK
  <2>4. JobOK(t)'
    BY <1>8, <2>1, <2>2, <2>3 DEF JobOK
  <2> QED BY <1>1, <1>7, <2>1, <2>4
<1>10. CASE ScriptsRight(t)
  <2>1. /\ job' = [job EXCEPT ![t].at = "count"] /\ t \notin Invalid
        /\ UNCHANGED <<txIndex, queue, orphanTxByPrev, calls, chain, connected>>
        /\ job[t].at = "scripts"
    BY <1>10 DEF ScriptsRight
  <2>2. job'[t].at = "count" /\ job'[t].found = job[t].found
    BY <1>1, <2>1 DEF JobType
  <2>3. JobOK(t)'
    BY <1>2, <1>8, <2>1, <2>2 DEF JobOK
  <2> QED BY <1>1, <1>7, <2>1, <2>3
<1>11. CASE LookForSpender(t)
  <2>1. /\ job' = [job EXCEPT ![t].at = "spender"]
        /\ UNCHANGED <<txIndex, queue, orphanTxByPrev, calls, chain, connected>>
        /\ job[t].at = "count"
    BY <1>11 DEF LookForSpender
  <2>2. job'[t].at = "spender" /\ job'[t].found = job[t].found
    BY <1>1, <2>1 DEF JobType
  <2>3. JobOK(t)'
    BY <1>2, <1>8, <2>1, <2>2 DEF JobOK
  <2> QED BY <1>1, <1>7, <2>1, <2>3
<1> QED BY <1>4, <1>5, <1>6, <1>9, <1>10, <1>11 DEF VerificationStep

(* A confirmed transaction leaves the pool, now or after its verification.   *)
LEMMA RemoveSafe ==
  ASSUME StoreInv, NEW t \in Txs, t \in connected', connected \subseteq connected',
         chain \subseteq chain', t \in chain', ChainAgrees',
         NEW rest \in Seq(SafeItems(connected, Known)), Remove(t, rest)
  PROVE  SafeInv' /\ (Added' = Added \/ Added' = Added \ {t})
<1>1. txIndex \in [Txs -> {"absent", "verifying", "added"}]
  BY DEF StoreInv, AskInv, TypeOK
<1>2. txIndex' = txIndex \/ txIndex' = [txIndex EXCEPT ![t] = "absent"]
  BY DEF Remove
<1>3. Added' = Added \/ Added' = Added \ {t}
  BY <1>1, <1>2 DEF Added
<1>4. Grows
  BY <1>3 DEF Grows, Known
<1>5. SafeInv
  BY DEF StoreInv
<1>6. QueuesSafe'
  <2>1. queue \in [Txs -> Seq(SafeCallbacks(connected'))]
    BY <1>4, <1>5, KeptSafe
  <2>2. Append(queue[t], RemovalCb(t)) \in Seq(SafeCallbacks(connected'))
    BY <2>1, SafeCallback, AppendProperties
  <2> QED BY <2>1, <2>2 DEF Remove, QueuesSafe
<1>7. CallsSafe'
  <2>1. rest \in Seq(SafeItems(connected', Known'))
    BY <1>4, SafeMonotone, SeqMonotone DEF Grows
  <2>2. calls' = rest \/ calls' = <<>>
    BY DEF Remove
  <2> QED BY <2>1, <2>2, EmptySeq DEF CallsSafe
<1>8. \A u \in Txs : JobOK(u)'
  BY <1>4, <1>5, KeptSafe DEF Remove
<1>9. OrphansStandard'
  BY <1>5 DEF Remove, SafeInv, OrphansStandard, Standard, IsCoinBase
<1>10. Added' \ Added = {}
  BY <1>3
<1> QED BY <1>3, <1>4, <1>5, <1>6, <1>7, <1>8, <1>9, <1>10, SafeFrom

LEMMA ChainSafe ==
  ASSUME StoreInv, NEW t \in Txs
  PROVE  /\ ConnectTx(t) => SafeInv' /\ Added' = Added \ {t}
         /\ SaveTx(t) \/ SaveSpends(t) => SafeInv' /\ Added' = Added
<1>1. SafeInv /\ calls \in Seq(SafeItems(connected, Known)) /\ chain \subseteq Txs
  BY DEF StoreInv, SafeInv, CallsSafe, AskInv, TypeOK
<1>2. ASSUME chain' = chain \cup {t}, Fits(t)
      PROVE  ChainAgrees'
  <2>1. \A r, s \in chain : r # s => ~Rivals(r, s)
    BY <1>1 DEF SafeInv, ChainAgrees
  <2>2. \A s \in chain \ {t} : ~Rivals(s, t) /\ ~Rivals(t, s)
    BY <1>2 DEF Fits, Rivals
  <2>3. \A r, s \in chain' : r # s => ~Rivals(r, s)
    BY <1>2, <2>1, <2>2
  <2> QED BY <2>3 DEF ChainAgrees, Rivals, Spends
<1>3. ASSUME ConnectTx(t)
      PROVE  SafeInv' /\ Added' = Added \ {t}
  <2>1. /\ chain' = chain \cup {t} /\ connected' = connected \cup {t}
        /\ Remove(t, calls) /\ Fits(t)
    BY <1>3 DEF ConnectTx
  <2>2. ChainAgrees'
    BY <1>2, <2>1
  <2>3. SafeInv'
    BY <1>1, <2>1, <2>2, RemoveSafe
  <2>4. Added' = Added \ {t}
    <3>1. txIndex \in [Txs -> {"absent", "verifying", "added"}]
      BY DEF StoreInv, AskInv, TypeOK
    <3> QED BY <2>1, <3>1 DEF Remove, Added
  <2> QED BY <2>3, <2>4
<1>4. ASSUME SaveTx(t) \/ SaveSpends(t)
      PROVE  SafeInv' /\ Added' = Added
  <2>1. /\ UNCHANGED <<txIndex, queue, job, orphanTxByPrev, calls, connected>>
        /\ chain' = chain \/ (chain' = chain \cup {t} /\ Fits(t))
    BY <1>4 DEF SaveTx, SaveSpends, poolVars
  <2>2. Added' = Added
    BY <2>1 DEF Added
  <2>3. Grows
    BY <2>1, <2>2 DEF Grows, Known
  <2>4. QueuesSafe' /\ CallsSafe' /\ \A u \in Txs : JobOK(u)'
    BY <1>1, <2>1, <2>3, KeptSafe DEF QueuesSafe, CallsSafe
  <2>5. ChainAgrees'
    BY <1>1, <1>2, <2>1 DEF SafeInv, ChainAgrees, Rivals, Spends
  <2>6. OrphansStandard'
    BY <1>1, <2>1 DEF SafeInv, OrphansStandard, Standard, IsCoinBase
  <2> QED BY <1>1, <2>2, <2>3, <2>4, <2>5, <2>6, SafeFrom
<1> QED BY <1>3, <1>4

LEMMA RunAddedSafe ==
  ASSUME StoreInv, calls # <<>>, RunAdded(Head(calls), Tail(calls)), UNCHANGED <<chain, connected>>
  PROVE  SafeInv' /\ Added' = Added
<1> DEFINE i == Head(calls)
           rest == Tail(calls)
           o == orphanTxByPrev[i.tx]
           a == [k \in DOMAIN o |-> [do |-> "retry", tx |-> o[k]]]
           b == <<[do |-> "notify", tx |-> i.tx]>>
           S == SafeItems(connected, Known)
<1>1. calls \in Seq(S) /\ orphanTxByPrev \in [Txs -> Seq(Standard)] /\ SafeInv
  BY DEF StoreInv, SafeInv, CallsSafe, OrphansStandard
<1>2. i \in S /\ rest \in Seq(S)
  <2> HIDE DEF S
  <2> QED BY <1>1, HeadTailProperties
<1>3. i.tx \in Txs
  BY <1>2 DEF SafeItems, Items, CallItems, Statements
<1>4. o \in Seq(Standard)
  BY <1>1, <1>3
<1>5. a \in Seq(S)
  <2>1. DOMAIN o = 1..Len(o) /\ Len(o) \in Nat
    BY <1>4
  <2>2. \A k \in 1..Len(o) : o[k] \in Standard /\ o[k] \in Txs
    BY <1>4 DEF Standard
  <2>3. \A k \in 1..Len(o) : [do |-> "retry", tx |-> o[k]] \in S
    BY <2>2 DEF SafeItems, Items, Statements
  <2>4. a \in [1..Len(o) -> S]
    BY <2>1, <2>3
  <2> HIDE DEF S, a, o
  <2> QED BY <2>1, <2>4, FunctionIsSeq
<1>6. b \in Seq(S)
  BY <1>3 DEF SafeItems, Items, Statements
<1>7. calls' = (a \o b) \o rest
  BY DEF RunAdded
<1>8. calls' \in Seq(S)
  <2> HIDE DEF a, b, rest, S
  <2>1. a \o b \in Seq(S)
    BY <1>5, <1>6, ConcatProperties
  <2> QED BY <1>2, <1>7, <2>1, ConcatProperties
<1>9. Added' = Added
  BY DEF RunAdded, Added
<1>10. Grows /\ Known' = Known
  BY <1>9, SameGrows
<1>11. CallsSafe'
  BY <1>8, <1>10 DEF CallsSafe
<1>12. OrphansStandard'
  BY <1>1, EmptySeq DEF RunAdded, OrphansStandard, Standard, IsCoinBase
<1>13. QueuesSafe' /\ ChainAgrees'
  BY <1>9, SameSafe DEF RunAdded
<1>14. \A u \in Txs : JobOK(u)'
  BY <1>1, <1>10, KeptSafe DEF RunAdded
<1> QED BY <1>1, <1>9, <1>10, <1>11, <1>12, <1>13, <1>14, SafeFrom

LEMMA InputOkSafe ==
  ASSUME NEW t \in Txs, NEW s \in Known, NEW j, StoreInv, job \in [Txs -> JobType],
         UNCHANGED <<chain, connected>>, j.at \in {"findChain", "findMem"},
         job' = [job EXCEPT ![t] = j], Added' = Added, Known' = Known,
         job[t].at # "idle", j.found = job[t].found \cup {s}
  PROVE  \A u \in Txs : JobOK(u)'
<1>1. JobOK(t)
  BY DEF StoreInv, SafeInv
<1>2. job'[t] = j /\ \A u \in Txs \ {t} : job'[u] = job[u]
  OBVIOUS
<1>3. j.found \subseteq Known /\ t \in Standard
  BY <1>1 DEF JobOK
<1>4. JobOK(t)'
  BY <1>2, <1>3 DEF JobOK, Standard, IsCoinBase
<1> QED BY <1>2, <1>4, JobStepSafe

LEMMA RunInputSafe ==
  ASSUME StoreInv, calls # <<>>, RunInput(Head(calls), Tail(calls)), UNCHANGED <<chain, connected>>
  PROVE  SafeInv' /\ Added' = Added
<1> DEFINE i == Head(calls)
           rest == Tail(calls)
           t == i.cb.who
           S == SafeItems(connected, Known)
<1>1. calls \in Seq(S) /\ SafeInv /\ job \in [Txs -> JobType]
  BY DEF StoreInv, SafeInv, CallsSafe, AskInv, TypeOK
<1>2. i \in S /\ rest \in Seq(S)
  <2> HIDE DEF S
  <2> QED BY <1>1, HeadTailProperties
<1>3. i.do = "call" /\ i.cb.kind = "input" /\ UNCHANGED orphanTxByPrev
  BY DEF RunInput
<1>4. i \in CallItems
  BY <1>2, <1>3 DEF SafeItems, Items, Statements
<1>5. t \in Txs /\ i.cb = InputCb(t) /\ i.tx \in Txs /\ i.err \in Outcomes
  BY <1>3, <1>4 DEF CallItems, Callbacks, InputCb
<1>6. job[t].at # "idle"
  <2>1. 1 \in DOMAIN calls /\ calls[1] = i
    BY <1>1
  <2>2. IsAsk(calls[1], i.tx, t)
    BY <1>3, <1>5, <2>1 DEF IsAsk
  <2>3. Waiting(i.tx, t)
    BY <1>5, <2>1, <2>2 DEF StoreInv, AskInv, CallsInv
  <2> QED BY <2>3 DEF Waiting
<1>8. CASE i.err # "ok" /\ Fail(t, i.err, rest)
  <2>1. i.err \in Errors
    BY <1>5, <1>8 DEF Outcomes
  <2> HIDE DEF t, i, rest, S
  <2>2. /\ Added' = Added
        /\ QueuesSafe' /\ CallsSafe' /\ \A u \in Txs : JobOK(u)'
    BY <1>2, <1>5, <1>6, <1>8, <2>1, FailSafe DEF S
  <2>3. OrphansStandard' /\ ChainAgrees' /\ Grows
    BY <1>3, <2>2, SameSafe, SameGrows
  <2> QED BY <1>1, <2>2, <2>3, SafeFrom
<1>9. CASE ~(i.err # "ok" /\ Fail(t, i.err, rest))
  <2> DEFINE j == [at |-> IF job[t].waits \ {i.tx} = {} THEN "findChain" ELSE "findMem",
                   waits |-> job[t].waits \ {i.tx}, found |-> job[t].found \cup {i.tx}]
  <2>1. /\ i.err = "ok" /\ job' = [job EXCEPT ![t] = j]
        /\ calls' = rest /\ UNCHANGED <<txIndex, queue>>
    BY <1>9 DEF RunInput
  <2>2. Added' = Added
    BY <2>1 DEF Added
  <2>3. Grows /\ Known' = Known
    BY <2>2, SameGrows
  <2>4. i.tx \in Known
    BY <1>2, <1>3, <2>1 DEF SafeItems
  <2>8. \A u \in Txs : JobOK(u)'
    <3>1. /\ j.found = job[t].found \cup {i.tx}
          /\ j.at \in {"findChain", "findMem"}
      OBVIOUS
    <3> HIDE DEF t, j, i
    <3> QED BY <1>1, <1>5, <1>6, <2>1, <2>2, <2>3, <2>4, <3>1, InputOkSafe
  <2>9. CallsSafe'
    BY <1>2, <2>1, <2>3 DEF CallsSafe
  <2>10. QueuesSafe' /\ OrphansStandard' /\ ChainAgrees'
    BY <1>3, <2>1, <2>2, SameSafe
  <2> QED BY <1>1, <2>2, <2>3, <2>8, <2>9, <2>10, SafeFrom
<1> QED BY <1>8, <1>9

Leaves == \E t \in Txs : t \in Added \cap connected /\ Added' = Added \ {t}

LEMMA RunSafe ==
  ASSUME StoreInv, RunNext
  PROVE  SafeInv' /\ (Added' = Added \/ Leaves)
<1> DEFINE i == Head(calls)
           rest == Tail(calls)
<1>1. calls # <<>> /\ UNCHANGED <<chain, connected>> /\ calls \in Seq(SafeItems(connected, Known)) /\ SafeInv
  BY DEF RunNext, StoreInv, SafeInv, CallsSafe
<1>2. i \in SafeItems(connected, Known) /\ rest \in Seq(SafeItems(connected, Known))
  BY <1>1, HeadTailProperties
<1>3. ASSUME calls' = rest, UNCHANGED <<txIndex, queue, job, orphanTxByPrev>>
      PROVE  SafeInv' /\ Added' = Added
  <2>1. Added' = Added
    BY <1>3 DEF Added
  <2>2. Known' = Known /\ QueuesSafe'
    BY <1>1, <1>3, <2>1, SameGrows, SameSafe
  <2>3. CallsSafe'
    BY <1>1, <1>2, <1>3, <2>2 DEF CallsSafe
  <2> QED BY <1>1, <1>3, <2>2, <2>3, AnswersSafe
<1>4. CASE RunRemoval(i, rest)
  <2> DEFINE t == i.cb.who
  <2>1. CASE i.err = "ok" /\ Remove(t, rest)
    <3>1. i.cb \in SafeCallbacks(connected) /\ i.cb.kind = "removal"
      BY <1>2, <1>4 DEF RunRemoval, SafeItems
    <3>2. t \in Txs /\ t \in connected
      BY <3>1 DEF SafeCallbacks, Callbacks
    <3>3. /\ ChainAgrees' /\ t \in connected'
          /\ connected \subseteq connected' /\ chain \subseteq chain' /\ t \in chain'
      <4>1. connected \subseteq chain
        BY DEF StoreInv, AskInv, TypeOK
      <4> QED BY <1>1, <3>2, <4>1 DEF SafeInv, ChainAgrees, Rivals, Spends
    <3> HIDE DEF t, rest
    <3>4. SafeInv' /\ (Added' = Added \/ Added' = Added \ {t})
      BY <1>2, <2>1, <3>2, <3>3, RemoveSafe
    <3>5. Added' = Added \/ Leaves
      <4>1. t \notin Added => Added \ {t} = Added
        OBVIOUS
      <4> QED BY <3>2, <3>4, <4>1 DEF Leaves
    <3> QED BY <3>4, <3>5
  <2> QED BY <1>3, <1>4, <2>1 DEF RunRemoval
<1>5. CASE RunCaller(i, rest) \/ RunDisabled(i, rest) \/ RunNotify(i, rest)
  BY <1>3, <1>5 DEF RunCaller, RunDisabled, RunNotify
<1>6. CASE RunInput(i, rest)
  BY <1>1, <1>6, RunInputSafe
<1>7. CASE RunAdded(i, rest)
  BY <1>1, <1>7, RunAddedSafe
<1>8. CASE RunRetry(i, rest)
  <2>1. CASE txIndex[i.tx] = "absent" /\ StartVerification(i.tx, <<>>)
    <3> DEFINE q == <<>>
    <3>1. i.tx \in Standard /\ UNCHANGED orphanTxByPrev /\ calls' = rest
      BY <1>2, <1>8 DEF RunRetry, SafeItems
    <3>2. q \in Seq(SafeCallbacks(connected))
      BY EmptySeq
    <3>3. StartVerification(i.tx, q)
      BY <2>1
    <3> HIDE DEF q
    <3>4. Added' = Added /\ QueuesSafe' /\ \A u \in Txs : JobOK(u)'
      BY <1>1, <2>1, <3>1, <3>2, <3>3, StartSafe
    <3>5. Grows /\ Known' = Known /\ OrphansStandard' /\ ChainAgrees'
      BY <1>1, <3>1, <3>4, SameGrows, SameSafe
    <3>6. CallsSafe'
      BY <1>1, <1>2, <3>1, <3>5 DEF CallsSafe
    <3> QED BY <1>1, <3>4, <3>5, <3>6, SafeFrom
  <2> QED BY <1>3, <1>8, <2>1 DEF RunRetry
<1> QED BY <1>4, <1>5, <1>6, <1>7, <1>8 DEF RunNext

-----------------------------------------------------------------------------

LEMMA InitSafe == Init => StoreInv
<1> SUFFICES ASSUME Init PROVE StoreInv
  OBVIOUS
<1>1. AskInv
  BY InitAsk
<1>2. /\ \A t \in Txs : txIndex[t] = "absent" /\ job[t] = NoJob
      /\ queue = [t \in Txs |-> <<>>] /\ orphanTxByPrev = [t \in Txs |-> <<>>]
      /\ calls = <<>> /\ chain = Confirmed /\ connected = Confirmed
  BY DEF Init
<1>3. QueuesSafe /\ CallsSafe /\ OrphansStandard
  BY <1>2, EmptySeq DEF QueuesSafe, CallsSafe, OrphansStandard
<1>4. \A t \in Txs : JobOK(t)
  <2> SUFFICES ASSUME NEW t \in Txs PROVE JobOK(t)
    OBVIOUS
  <2>1. job[t].found = {} /\ job[t].at = "idle"
    BY <1>2 DEF NoJob
  <2> QED BY <2>1 DEF JobOK
<1>5. ChainAgrees
  BY <1>2, TxAssumption DEF ChainAgrees, Rivals
<1>6. ParentsPooled
  BY <1>2 DEF ParentsPooled, Added
<1> QED BY <1>1, <1>3, <1>4, <1>5, <1>6 DEF StoreInv, SafeInv

LEMMA NextSafe == StoreInv /\ [Next]_vars => StoreInv'
<1> SUFFICES ASSUME StoreInv, [Next]_vars PROVE StoreInv'
  OBVIOUS
<1>1. AskInv'
  BY NextAsk DEF StoreInv
<1>2. ASSUME NEW c \in Callers, NEW t \in Txs,
             HandleTx(c, t) \/ SendTx(c, t) \/ Get(c, t)
      PROVE  SafeInv'
  BY <1>2, AddSafe, GetSafe DEF HandleTx, SendTx
<1>3. ASSUME NEW t \in Txs, VerificationStep(t) \/ ChainStep(t)
      PROVE  SafeInv'
  BY <1>3, VerificationSafe, ChainSafe DEF ChainStep
<1>4. ASSUME RunNext
      PROVE  SafeInv'
  BY <1>4, RunSafe
<1>5. ASSUME UNCHANGED vars
      PROVE  SafeInv'
  <2>1. UNCHANGED <<txIndex, queue, job, orphanTxByPrev, calls, chain, connected>>
    BY <1>5 DEF vars, poolVars
  <2>2. Added' = Added
    BY <2>1 DEF Added
  <2>3. CallsSafe' /\ QueuesSafe'
    BY <2>1, <2>2, SameSafe
  <2> QED BY <2>1, <2>3, AnswersSafe
<1>6. SafeInv'
  BY <1>2, <1>3, <1>4, <1>5 DEF Next
<1> QED BY <1>1, <1>6 DEF StoreInv

(* Whatever is removed, confirmed or fails while a transaction is verified,  *)
(* the parents it was verified with are pooled or confirmed when it is       *)
(* accepted and as long as it is pooled, so it can be included in a block.   *)
THEOREM StoreKeepsParents == Spec => []ParentsPooled
<1>1. StoreInv => ParentsPooled
  BY DEF StoreInv, SafeInv
<1> QED BY <1>1, InitSafe, NextSafe, PTL DEF Spec

-----------------------------------------------------------------------------
(* MongoDB's answers make the store a MemoryPool: what is stored there is    *)
(* what its inputs are searched in.                                          *)

SpendsStored == spent = chain

LEMMA SpendsStoredKept ==
  ASSUME Backend = "mongodb", SpendsStored, [Next]_vars
  PROVE  SpendsStored'
<1>1. ASSUME NEW c \in Callers, NEW t \in Txs,
             HandleTx(c, t) \/ SendTx(c, t) \/ Get(c, t)
      PROVE  UNCHANGED <<chain, spent>>
  BY <1>1 DEF HandleTx, SendTx, Add, Get
<1>2. ASSUME NEW t \in Txs, VerificationStep(t)
      PROVE  UNCHANGED <<chain, spent>>
  BY <1>2 DEF VerificationStep, InputsFound, BecomeOrphan, ScriptsRight, ScriptsWrong,
              NoConflict, CountFails, LookForSpender, SpenderIsItself, SpenderIsAnother
<1>3. ASSUME NEW t \in Txs, ChainStep(t)
      PROVE  SpendsStored'
  <2>1. CASE ConnectTx(t)
    BY <2>1 DEF ConnectTx, SpendsStored
  <2>2. CASE SaveTx(t) \/ SaveSpends(t)
    BY <2>2 DEF SaveTx, SaveSpends, SpendsStored
  <2> QED BY <1>3, <2>1, <2>2 DEF ChainStep
<1>4. ASSUME RunNext \/ UNCHANGED vars
      PROVE  UNCHANGED <<chain, spent>>
  BY <1>4 DEF RunNext, vars
<1> QED BY <1>1, <1>2, <1>3, <1>4 DEF Next, SpendsStored

LEMMA EnterMapped ==
  ASSUME StoreInv, SpendsStored, Backend = "mongodb", NEW t \in Txs,
         VerificationStep(t), Accepts(t)
  PROVE  Pool!Enter(t)
<1>1. UNCHANGED <<chain, connected>>
  BY DEF Accepts, NoConflict, SpenderIsItself
<1>2. spent = chain /\ ChainAgrees
  BY DEF StoreInv, SafeInv, SpendsStored
<1>3. \A s \in chain \ {t} : ~Rivals(s, t)
  <2>1. CASE NoConflict(t)
    <3>1. Spenders(t) = {}
      BY <2>1 DEF NoConflict, CountConflicts
    <3> QED BY <1>2, <3>1 DEF Spenders, Rivals
  <2>2. CASE SpenderIsItself(t)
    <3>1. t \in chain
      BY <1>2, <2>2 DEF SpenderIsItself, Spenders
    <3> QED BY <1>2, <3>1 DEF ChainAgrees
  <2> QED BY <2>1, <2>2 DEF Accepts
<1> QED BY <1>1, <1>3 DEF Accepts, Known, Pool!Enter

LEMMA StepMapped ==
  ASSUME StoreInv, SpendsStored, Backend = "mongodb", [Next]_vars
  PROVE  [Pool!PoolNext]_<<Added, chain, connected>>
<1>1. ASSUME NEW c \in Callers, NEW t \in Txs,
             HandleTx(c, t) \/ SendTx(c, t) \/ Get(c, t)
      PROVE  UNCHANGED <<Added, chain, connected>>
  <2>1. Added' = Added
    BY <1>1, AddSafe, GetSafe DEF HandleTx, SendTx
  <2>2. UNCHANGED <<chain, connected>>
    BY <1>1 DEF HandleTx, SendTx, Add, Get
  <2> QED BY <2>1, <2>2
<1>2. ASSUME NEW t \in Txs, VerificationStep(t)
      PROVE  UNCHANGED <<Added, chain, connected>> \/ Pool!Enter(t)
  <2>1. Added' = Added \/ Accepts(t)
    BY <1>2, VerificationSafe
  <2>2. UNCHANGED <<chain, connected>>
    BY <1>2 DEF VerificationStep, InputsFound, BecomeOrphan, ScriptsRight, ScriptsWrong,
                NoConflict, CountFails, LookForSpender, SpenderIsItself, SpenderIsAnother
  <2> QED BY <1>2, <2>1, <2>2, EnterMapped
<1>3. ASSUME NEW t \in Txs, ConnectTx(t)
      PROVE  Pool!Confirm(t)
  <2>1. Added' = Added \ {t}
    BY <1>3, ChainSafe
  <2>2. t \in chain /\ chain' = chain /\ t \notin connected /\ connected' = connected \cup {t}
    BY <1>3 DEF ConnectTx
  <2> QED BY <2>1, <2>2 DEF Pool!Confirm
<1>4. ASSUME NEW t \in Txs, SaveTx(t)
      PROVE  Pool!Store(t)
  <2>1. Added' = Added
    BY <1>4, ChainSafe
  <2> QED BY <1>4, <2>1 DEF SaveTx, Pool!Store
<1>5. ASSUME NEW t \in Txs, SaveSpends(t)
      PROVE  FALSE
  BY <1>5 DEF SaveSpends
<1>6. ASSUME RunNext
      PROVE  UNCHANGED <<Added, chain, connected>> \/ \E t \in Txs : Pool!Leave(t)
  <2>1. Added' = Added \/ Leaves
    BY <1>6, RunSafe
  <2>2. UNCHANGED <<chain, connected>>
    BY <1>6 DEF RunNext
  <2> QED BY <2>1, <2>2 DEF Leaves, Pool!Leave
<1>7. ASSUME UNCHANGED vars
      PROVE  UNCHANGED <<Added, chain, connected>>
  BY <1>7 DEF vars, poolVars, Added
<1> QED BY <1>1, <1>2, <1>3, <1>4, <1>5, <1>6, <1>7 DEF Next, ChainStep, Pool!PoolNext

(* On MongoDB every step of the store, for all transactions, callers and     *)
(* orders of callbacks, is a step of MemoryPool: only valid transactions     *)
(* enter, with their parents and without a rival in a block that is stored,  *)
(* from the storing on, and only those that txAdd has announced leave.       *)
THEOREM StoreImplementsPool ==
  ASSUME Backend = "mongodb"
  PROVE  Spec => ImplementsPool
<1>1. Init => Pool!PoolInit /\ SpendsStored
  BY DEF Init, Pool!PoolInit, Added, SpendsStored
<1>2. SpendsStored /\ [Next]_vars => SpendsStored'
  BY SpendsStoredKept
<1>3. StoreInv /\ SpendsStored /\ [Next]_vars => [Pool!PoolNext]_<<Added, chain, connected>>
  BY StepMapped
<1> QED BY <1>1, <1>2, <1>3, InitSafe, NextSafe, PTL DEF Spec, ImplementsPool, Pool!PoolSpec

-----------------------------------------------------------------------------
(* Nobody waits for nothing.  The converse of QueueInv and CallsInv: an      *)
(* input that t waits for still has the callback of t in its queue, or the   *)
(* callback is due.  It holds where no callback is lost, that is where the   *)
(* exception of remove() ends the process or cannot occur.                   *)

CallAsks(s, t, q) == \E k \in DOMAIN q : IsAsk(q[k], s, t)
QueueAsks(s, t) == \E k \in DOMAIN queue[s] : queue[s][k] = InputCb(t)
Answered(s, t) == QueueAsks(s, t) \/ CallAsks(s, t, calls)

WaitersInv ==
  \A t \in Txs : /\ job[t].at = "findMem" => job[t].waits # {}
                 /\ \A s \in job[t].waits : Answered(s, t)

LEMMA AppendKeeps ==
  ASSUME NEW S, NEW q \in Seq(S), NEW x \in S
  PROVE  /\ \A k \in DOMAIN q : k \in DOMAIN Append(q, x) /\ Append(q, x)[k] = q[k]
         /\ Len(q) + 1 \in DOMAIN Append(q, x) /\ Append(q, x)[Len(q) + 1] = x
OBVIOUS

LEMMA ConcatAsks ==
  ASSUME NEW p \in Seq(Items), NEW q \in Seq(Items), NEW s, NEW t,
         CallAsks(s, t, p) \/ CallAsks(s, t, q)
  PROVE  CallAsks(s, t, p \o q)
<1> DEFINE n == Len(p)
<1>1. /\ Len(p) \in Nat /\ DOMAIN p = 1..Len(p) /\ Len(q) \in Nat /\ DOMAIN q = 1..Len(q)
      /\ DOMAIN (p \o q) = 1..(Len(p) + Len(q))
      /\ \A k \in 1..(Len(p) + Len(q)) :
           (p \o q)[k] = IF k <= Len(p) THEN p[k] ELSE q[k - Len(p)]
  BY ConcatProperties
<1>2. ASSUME NEW k \in DOMAIN p, IsAsk(p[k], s, t)
      PROVE  CallAsks(s, t, p \o q)
  <2>1. k \in DOMAIN (p \o q) /\ (p \o q)[k] = p[k]
    BY <1>1
  <2> QED BY <1>2, <2>1 DEF CallAsks
<1>3. ASSUME NEW k \in DOMAIN q, IsAsk(q[k], s, t)
      PROVE  CallAsks(s, t, p \o q)
  <2>1. /\ k + Len(p) \in 1..(Len(p) + Len(q)) /\ ~(k + Len(p) <= Len(p))
        /\ k + Len(p) - Len(p) = k
    BY <1>1
  <2>2. k + Len(p) \in DOMAIN (p \o q) /\ (p \o q)[k + Len(p)] = q[k]
    BY <1>1, <2>1
  <2> QED BY <1>3, <2>2 DEF CallAsks
<1> QED BY <1>2, <1>3 DEF CallAsks

LEMMA TailAsks ==
  ASSUME NEW q \in Seq(Items), q # <<>>, NEW s, NEW t, CallAsks(s, t, q),
         ~IsAsk(Head(q), s, t)
  PROVE  CallAsks(s, t, Tail(q))
<1>1. PICK k \in DOMAIN q : IsAsk(q[k], s, t)
  BY DEF CallAsks
<1>2. /\ Len(Tail(q)) = Len(q) - 1 /\ Head(q) = q[1] /\ Len(q) \in Nat
      /\ \A i \in 1..Len(Tail(q)) : Tail(q)[i] = q[i + 1]
      /\ DOMAIN q = 1..Len(q) /\ DOMAIN Tail(q) = 1..Len(Tail(q))
  BY HeadTailProperties
<1>3. k # 1
  BY <1>1, <1>2
<1>4. k - 1 \in DOMAIN Tail(q) /\ k - 1 + 1 = k
  BY <1>2, <1>3
<1>5. Tail(q)[k - 1] = q[k]
  BY <1>2, <1>4
<1> QED BY <1>1, <1>4, <1>5 DEF CallAsks

LEMMA DisabledAsks ==
  ASSUME NEW t \in Txs, NEW u \in Txs, u # t, NEW s
  PROVE  /\ \A q \in Seq(Items) : CallAsks(s, u, q) => CallAsks(s, u, DisableCalls(t, q))
         /\ \A q : (\E k \in DOMAIN q : q[k] = InputCb(u)) =>
                     \E k \in DOMAIN DisableQueue(t, q) : DisableQueue(t, q)[k] = InputCb(u)
<1>1. Disable(t, InputCb(u)) = InputCb(u)
  BY CallbackKinds DEF Disable
<1>2. ASSUME NEW q \in Seq(Items), NEW k \in DOMAIN q, IsAsk(q[k], s, u)
      PROVE  CallAsks(s, u, DisableCalls(t, q))
  <2>1. k \in DOMAIN DisableCalls(t, q)
        /\ DisableCalls(t, q)[k] = [q[k] EXCEPT !.cb = Disable(t, q[k].cb)]
    BY <1>2 DEF DisableCalls, IsAsk
  <2>2. q[k] \in CallItems
    <3>1. q[k] \in Items
      BY <1>2
    <3> QED BY <1>2, <3>1 DEF Items, Statements, IsAsk
  <2>3. IsAsk(DisableCalls(t, q)[k], s, u)
    BY <1>1, <1>2, <2>1, <2>2 DEF IsAsk, CallItems
  <2> QED BY <2>1, <2>3 DEF CallAsks
<1>3. ASSUME NEW q, NEW k \in DOMAIN q, q[k] = InputCb(u)
      PROVE  k \in DOMAIN DisableQueue(t, q) /\ DisableQueue(t, q)[k] = InputCb(u)
  BY <1>1, <1>3 DEF DisableQueue
<1> QED BY <1>2, <1>3 DEF CallAsks

(* The callbacks of t become calls.                                          *)
LEMMA QueueToCalls ==
  ASSUME NEW t \in Txs, NEW u, NEW err, QueueAsks(t, u)
  PROVE  CallAsks(t, u, CallsOf(t, err))
<1>1. PICK k \in DOMAIN queue[t] : queue[t][k] = InputCb(u)
  BY DEF QueueAsks
<1>2. /\ k \in DOMAIN CallsOf(t, err)
      /\ CallsOf(t, err)[k] = [do |-> "call", tx |-> t, cb |-> InputCb(u), err |-> err]
  BY <1>1 DEF CallsOf
<1> QED BY <1>2 DEF CallAsks, IsAsk

(* Verifications end or keep waiting for the same inputs, whose answers come.*)
LEMMA WaitMove ==
  ASSUME AskInv, WaitersInv,
         \A u \in Txs : \/ job'[u] = NoJob
                        \/ /\ job'[u].waits = job[u].waits
                           /\ job'[u].at = "findMem" => job[u].at = "findMem"
                           /\ \A s \in Txs : Answered(s, u) => Answered(s, u)'
  PROVE  WaitersInv'
<1>1. \A u \in Txs : job[u].waits \subseteq Txs
  BY DEF AskInv, TypeOK, JobType
<1> QED BY <1>1 DEF WaitersInv, NoJob

(* Queues grow at their ends, jobs stay, and the calls that asks are among   *)
(* stay due.                                                                 *)
LEMMA WaitGrow ==
  ASSUME AskInv, WaitersInv, UNCHANGED job,
         UNCHANGED queue \/ \E t \in Txs, cb \in Callbacks :
                              queue' = [queue EXCEPT ![t] = Append(@, cb)],
         \A s, u \in Txs : CallAsks(s, u, calls) => CallAsks(s, u, calls')
  PROVE  WaitersInv'
<1>1. ASSUME NEW s \in Txs, NEW u \in Txs, QueueAsks(s, u)
      PROVE  QueueAsks(s, u)'
  <2>1. CASE UNCHANGED queue
    BY <1>1, <2>1 DEF QueueAsks
  <2>2. ASSUME NEW t \in Txs, NEW cb \in Callbacks,
               queue' = [queue EXCEPT ![t] = Append(@, cb)]
        PROVE  QueueAsks(s, u)'
    <3>1. queue[s] \in Seq(Callbacks) /\ queue \in [Txs -> Seq(Callbacks)]
      BY DEF AskInv, TypeOK
    <3>2. PICK k \in DOMAIN queue[s] : queue[s][k] = InputCb(u)
      BY <1>1 DEF QueueAsks
    <3>3. k \in DOMAIN Append(queue[s], cb) /\ Append(queue[s], cb)[k] = queue[s][k]
      BY <3>1, AppendKeeps
    <3>4. queue'[s] = queue[s] \/ queue'[s] = Append(queue[s], cb)
      BY <2>2, <3>1
    <3>5. k \in DOMAIN queue'[s] /\ queue'[s][k] = InputCb(u)
      BY <3>2, <3>3, <3>4
    <3> QED BY <3>5 DEF QueueAsks
  <2> QED BY <2>1, <2>2
<1>2. \A s, u \in Txs : Answered(s, u) => Answered(s, u)'
  BY <1>1 DEF Answered
<1> QED BY <1>2, WaitMove

LEMMA StartWait ==
  ASSUME AskInv, WaitersInv, NEW t \in Txs, NEW q, txIndex[t] = "absent",
         StartVerification(t, q),
         \A s, u \in Txs : CallAsks(s, u, calls) => CallAsks(s, u, calls')
  PROVE  WaitersInv'
<1>1. queue \in [Txs -> Seq(Callbacks)] /\ job \in [Txs -> JobType]
  BY DEF AskInv, TypeOK
<1>2. queue[t] = <<>> /\ t \notin Pending(t) /\ Pending(t) \subseteq Txs
  BY SourcesType DEF AskInv, NeverMisfires, Pending
<1>3. /\ job'[t].waits = Pending(t)
      /\ job'[t].at = "findMem" => Pending(t) # {}
      /\ \A u \in Txs \ {t} : job'[u] = job[u]
  BY <1>1 DEF StartVerification
<1>4. ASSUME NEW s \in Txs
      PROVE  /\ s \in Pending(t) => queue'[s] = Append(queue[s], InputCb(t))
             /\ s # t /\ s \notin Pending(t) => queue'[s] = queue[s]
  BY <1>2, <1>4 DEF StartVerification
<1>5. ASSUME NEW s \in Txs
      PROVE  /\ \A k \in DOMAIN queue[s] : k \in DOMAIN Append(queue[s], InputCb(t))
                                           /\ Append(queue[s], InputCb(t))[k] = queue[s][k]
             /\ Len(queue[s]) + 1 \in DOMAIN Append(queue[s], InputCb(t))
             /\ Append(queue[s], InputCb(t))[Len(queue[s]) + 1] = InputCb(t)
  BY <1>1, AppendKeeps, CallbackTypes
<1>6. ASSUME NEW s \in Txs, NEW u \in Txs, Answered(s, u)
      PROVE  Answered(s, u)'
  <2>1. CASE CallAsks(s, u, calls)
    BY <2>1 DEF Answered
  <2>2. CASE QueueAsks(s, u)
    <3>1. PICK k \in DOMAIN queue[s] : queue[s][k] = InputCb(u)
      BY <2>2 DEF QueueAsks
    <3>2. s # t
      BY <1>2, <3>1
    <3>3. k \in DOMAIN queue'[s] /\ queue'[s][k] = InputCb(u)
      BY <1>4, <1>5, <3>1, <3>2
    <3> QED BY <3>3 DEF Answered, QueueAsks
  <2> QED BY <1>6, <2>1, <2>2 DEF Answered
<1>7. ASSUME NEW u \in Txs
      PROVE  /\ job'[u].at = "findMem" => job'[u].waits # {}
             /\ \A s \in job'[u].waits : Answered(s, u)'
  <2>1. CASE u = t
    <3>1. ASSUME NEW s \in Pending(t)
          PROVE  Answered(s, t)'
      <4>1. Len(queue[s]) + 1 \in DOMAIN queue'[s]
            /\ queue'[s][Len(queue[s]) + 1] = InputCb(t)
        BY <1>2, <1>4, <1>5
      <4> QED BY <4>1 DEF Answered, QueueAsks
    <3> QED BY <1>3, <2>1, <3>1
  <2>2. CASE u # t
    <3>1. job'[u] = job[u] /\ job[u].waits \subseteq Txs
      BY <1>1, <1>3, <2>2 DEF JobType
    <3> QED BY <1>6, <3>1 DEF WaitersInv
  <2> QED BY <2>1, <2>2
<1> QED BY <1>7 DEF WaitersInv

(* A verification ends: its callbacks become calls.                          *)
LEMMA FailWait ==
  ASSUME AskInv, WaitersInv, NEW t \in Txs, NEW err \in Outcomes, NEW rest \in Seq(Items),
         Fail(t, err, rest),
         \A s, u \in Txs : u # t /\ CallAsks(s, u, calls) => CallAsks(s, u, rest)
  PROVE  WaitersInv'
<1>1. queue \in [Txs -> Seq(Callbacks)] /\ job \in [Txs -> JobType] /\ TypeOK
  BY DEF AskInv, TypeOK
<1>2. /\ job'[t] = NoJob /\ (\A u \in Txs \ {t} : job'[u] = job[u])
      /\ \A s \in Txs \ {t} : queue'[s] = DisableQueue(t, queue[s])
      /\ calls' = CallsOf(t, err) \o DisableCalls(t, rest)
  BY <1>1 DEF Fail
<1>3. CallsOf(t, err) \in Seq(Items) /\ DisableCalls(t, rest) \in Seq(Items)
  BY <1>1, CallsOfType, DisableCallsType
<1>4. ASSUME NEW s \in Txs, NEW u \in Txs \ {t}, Answered(s, u)
      PROVE  Answered(s, u)'
  <2>1. CASE CallAsks(s, u, calls)
    <3>1. CallAsks(s, u, DisableCalls(t, rest))
      BY <2>1, DisabledAsks
    <3>2. CallAsks(s, u, calls')
      BY <1>2, <1>3, <3>1, ConcatAsks
    <3> QED BY <3>2 DEF Answered
  <2>2. CASE QueueAsks(s, u) /\ s = t
    <3>1. CallAsks(s, u, CallsOf(t, err))
      BY <2>2, QueueToCalls
    <3>2. CallAsks(s, u, calls')
      BY <1>2, <1>3, <3>1, ConcatAsks
    <3> QED BY <3>2 DEF Answered
  <2>3. CASE QueueAsks(s, u) /\ s # t
    <3>1. \E k \in DOMAIN DisableQueue(t, queue[s]) : DisableQueue(t, queue[s])[k] = InputCb(u)
      BY <2>3, DisabledAsks DEF QueueAsks
    <3> QED BY <1>2, <2>3, <3>1 DEF Answered, QueueAsks
  <2> QED BY <1>4, <2>1, <2>2, <2>3 DEF Answered
<1> QED BY <1>2, <1>4, WaitMove

LEMMA AcceptWait ==
  ASSUME AskInv, WaitersInv, AtRest, NEW t \in Txs, Accept(t)
  PROVE  WaitersInv'
<1>1. queue \in [Txs -> Seq(Callbacks)] /\ job \in [Txs -> JobType] /\ TypeOK
  BY DEF AskInv, TypeOK
<1>2. /\ job'[t] = NoJob /\ (\A u \in Txs \ {t} : job'[u] = job[u])
      /\ \A s \in Txs \ {t} : queue'[s] = queue[s]
      /\ calls' = CallsOf(t, "ok") \o <<[do |-> "added", tx |-> t]>>
  BY <1>1 DEF Accept
<1>3. CallsOf(t, "ok") \in Seq(Items) /\ <<[do |-> "added", tx |-> t]>> \in Seq(Items)
  BY <1>1, CallsOfType DEF Outcomes, Items, Statements
<1>4. ASSUME NEW s \in Txs, NEW u \in Txs, Answered(s, u)
      PROVE  Answered(s, u)'
  <2>1. QueueAsks(s, u)
    BY <1>4 DEF Answered, CallAsks, AtRest
  <2>2. CASE s = t
    <3>1. CallAsks(s, u, CallsOf(t, "ok"))
      BY <2>1, <2>2, QueueToCalls
    <3>2. CallAsks(s, u, calls')
      BY <1>2, <1>3, <3>1, ConcatAsks
    <3> QED BY <3>2 DEF Answered
  <2>3. CASE s # t
    BY <1>2, <2>1, <2>3 DEF Answered, QueueAsks
  <2> QED BY <2>2, <2>3
<1> QED BY <1>2, <1>4, WaitMove

(* remove() loses no callback where an exception ends the process.           *)
NoCallbackLost == LiveAccounting => Backend = "leveldb"

LEMMA RemoveWait ==
  ASSUME AskInv, WaitersInv, NoCallbackLost, NEW t \in Txs, NEW rest, Remove(t, rest),
         \A s, u \in Txs : CallAsks(s, u, calls) => CallAsks(s, u, rest)
  PROVE  WaitersInv'
<1>1. calls' = rest /\ UNCHANGED job
  BY DEF Remove, RemoveThrows, NoCallbackLost
<1>2. UNCHANGED queue \/ queue' = [queue EXCEPT ![t] = Append(@, RemovalCb(t))]
  BY DEF Remove
<1>3. RemovalCb(t) \in Callbacks
  BY CallbackTypes
<1>4. \A s, u \in Txs : CallAsks(s, u, calls) => CallAsks(s, u, calls')
  BY <1>1
<1> QED BY <1>1, <1>2, <1>3, <1>4, WaitGrow

LEMMA CallerWait ==
  ASSUME AskInv, WaitersInv, NEW c \in Callers, NEW t \in Txs, Add(c, t) \/ Get(c, t)
  PROVE  WaitersInv'
<1>1. \A s, u \in Txs : CallAsks(s, u, calls) => CallAsks(s, u, calls')
  BY DEF Add, Get
<1>2. ASSUME NEW op, Enqueue(c, t, op)
      PROVE  WaitersInv'
  <2>1. queue' = [queue EXCEPT ![t] = Append(@, CallerCb(c))] /\ UNCHANGED job
    BY <1>2 DEF Enqueue
  <2>2. CallerCb(c) \in Callbacks
    BY CallbackTypes
  <2> QED BY <1>1, <2>1, <2>2, WaitGrow
<1>3. CASE UNCHANGED <<queue, job>>
  BY <1>1, <1>3, WaitGrow
<1>4. CASE txIndex[t] = "absent" /\ StartVerification(t, <<CallerCb(c)>>)
  BY <1>1, <1>4, StartWait
<1> QED BY <1>2, <1>3, <1>4 DEF Add, Get

LEMMA VerificationWait ==
  ASSUME AskInv, WaitersInv, NEW t \in Txs, VerificationStep(t)
  PROVE  WaitersInv'
<1>1. job \in [Txs -> JobType] /\ calls \in Seq(Items)
  BY DEF AskInv, TypeOK, Items
<1>2. CASE InputsFound(t) \/ ScriptsRight(t) \/ LookForSpender(t)
  <2>1. /\ job'[t].waits = job[t].waits /\ job'[t].at # "findMem"
        /\ \A u \in Txs \ {t} : job'[u] = job[u]
    BY <1>1, <1>2 DEF InputsFound, ScriptsRight, LookForSpender, JobType
  <2>2. UNCHANGED <<queue, calls>>
    BY <1>2 DEF InputsFound, ScriptsRight, LookForSpender
  <2>3. \A s, u \in Txs : Answered(s, u) => Answered(s, u)'
    BY <2>2 DEF Answered, QueueAsks
  <2> QED BY <2>1, <2>3, WaitMove
<1>3. ASSUME NEW err \in Outcomes, Fail(t, err, calls)
      PROVE  WaitersInv'
  BY <1>1, <1>3, FailWait
<1>4. CASE BecomeOrphan(t) \/ ScriptsWrong(t) \/ CountFails(t) \/ SpenderIsAnother(t)
  <2>1. \E err \in Outcomes : Fail(t, err, calls)
    BY <1>4 DEF BecomeOrphan, ScriptsWrong, CountFails, SpenderIsAnother, Outcomes, Errors
  <2> QED BY <1>3, <2>1
<1>5. CASE NoConflict(t) \/ SpenderIsItself(t)
  <2>1. AtRest /\ Accept(t)
    BY <1>5 DEF NoConflict, SpenderIsItself
  <2> QED BY <2>1, AcceptWait
<1> QED BY <1>2, <1>4, <1>5 DEF VerificationStep

LEMMA ChainWait ==
  ASSUME AskInv, WaitersInv, NoCallbackLost, NEW t \in Txs, ChainStep(t)
  PROVE  WaitersInv'
<1>1. CASE ConnectTx(t)
  BY <1>1, RemoveWait DEF ConnectTx
<1>2. CASE SaveTx(t) \/ SaveSpends(t)
  BY <1>2, WaitGrow DEF SaveTx, SaveSpends, poolVars
<1> QED BY <1>1, <1>2 DEF ChainStep

LEMMA RunWait ==
  ASSUME AskInv, WaitersInv, NoCallbackLost, RunNext
  PROVE  WaitersInv'
<1> DEFINE i == Head(calls)
           rest == Tail(calls)
<1>1. calls # <<>> /\ calls \in Seq(Items) /\ i \in Items /\ rest \in Seq(Items)
  BY RestType DEF RunNext, AskInv, TypeOK, Items
<1>2. \A s, u \in Txs : ~IsAsk(i, s, u) => (CallAsks(s, u, calls) => CallAsks(s, u, rest))
  BY <1>1, TailAsks
<1>3. i.tx \in Txs /\ (i.do = "call" => i.cb \in Callbacks /\ i.err \in Outcomes)
  BY <1>1 DEF Items, CallItems, Statements
<1> HIDE DEF rest
<1>4. CASE RunRemoval(i, rest)
  <2>1. i.cb.who \in Txs /\ \A s, u \in Txs : ~IsAsk(i, s, u)
    BY <1>3, <1>4 DEF RunRemoval, Callbacks, IsAsk, InputCb
  <2>2. \A s, u \in Txs : CallAsks(s, u, calls) => CallAsks(s, u, rest)
    BY <1>2, <2>1
  <2> HIDE DEF i
  <2>3. CASE Remove(i.cb.who, rest)
    BY <2>1, <2>2, <2>3, RemoveWait
  <2>4. CASE calls' = rest /\ UNCHANGED <<queue, job>>
    BY <2>2, <2>4, WaitGrow
  <2> QED BY <1>4, <2>3, <2>4 DEF RunRemoval
<1>5. CASE RunCaller(i, rest) \/ RunDisabled(i, rest) \/ RunNotify(i, rest)
  <2>1. \A s, u \in Txs : ~IsAsk(i, s, u)
    BY <1>5 DEF RunCaller, RunDisabled, RunNotify, IsAsk, InputCb
  <2>2. calls' = rest /\ UNCHANGED <<queue, job>>
    BY <1>5 DEF RunCaller, RunDisabled, RunNotify
  <2>3. \A s, u \in Txs : CallAsks(s, u, calls) => CallAsks(s, u, calls')
    BY <1>2, <2>1, <2>2
  <2> QED BY <2>2, <2>3, WaitGrow
<1>6. CASE RunInput(i, rest)
  <2> DEFINE t == i.cb.who
  <2>1. t \in Txs /\ i.cb = InputCb(t) /\ i.do = "call"
    BY <1>3, <1>6 DEF RunInput, Callbacks, InputCb
  <2>2. \A s, u \in Txs : IsAsk(i, s, u) => s = i.tx /\ u = t
    BY <2>1, CallbackKinds DEF IsAsk
  <2>3. CASE Fail(t, i.err, rest)
    <3>1. \A s, u \in Txs : u # t /\ CallAsks(s, u, calls) => CallAsks(s, u, rest)
      BY <1>2, <2>2
    <3> HIDE DEF i, t
    <3> QED BY <1>1, <1>3, <2>1, <2>3, <3>1, FailWait
  <2>4. CASE ~Fail(t, i.err, rest)
    <3> DEFINE left == job[t].waits \ {i.tx}
    <3>1. /\ job' = [job EXCEPT ![t] =
               [at |-> IF left = {} THEN "findChain" ELSE "findMem",
                waits |-> left, found |-> job[t].found \cup {i.tx}]]
          /\ calls' = rest /\ UNCHANGED queue
      BY <1>6, <2>4 DEF RunInput
    <3>2. job \in [Txs -> JobType]
      BY DEF AskInv, TypeOK
    <3>3. /\ job'[t].at = "findMem" => left # {}
          /\ job'[t].waits = left /\ \A u \in Txs \ {t} : job'[u] = job[u]
      BY <2>1, <3>1, <3>2
    <3>4. ASSUME NEW s \in Txs, NEW u \in Txs, Answered(s, u), ~(s = i.tx /\ u = t)
          PROVE  Answered(s, u)'
      BY <1>2, <2>2, <3>1, <3>4 DEF Answered, QueueAsks
    <3>5. ASSUME NEW u \in Txs
          PROVE  /\ job'[u].at = "findMem" => job'[u].waits # {}
                 /\ \A s \in job'[u].waits : Answered(s, u)'
      <4>1. job[u].waits \subseteq Txs
        BY <3>2 DEF JobType
      <4>2. CASE u = t
        BY <3>3, <3>4, <4>1, <4>2 DEF WaitersInv
      <4>3. CASE u # t
        BY <3>3, <3>4, <4>1, <4>3 DEF WaitersInv
      <4> QED BY <4>2, <4>3
    <3> QED BY <3>5 DEF WaitersInv
  <2> QED BY <2>3, <2>4
<1>7. CASE RunAdded(i, rest)
  <2> DEFINE o == orphanTxByPrev[i.tx]
             a == [k \in DOMAIN o |-> [do |-> "retry", tx |-> o[k]]]
             b == <<[do |-> "notify", tx |-> i.tx]>>
  <2>1. o \in Seq(Txs)
    BY <1>3 DEF AskInv, TypeOK
  <2>2. a \in Seq(Items)
    <3>1. DOMAIN o = 1..Len(o) /\ Len(o) \in Nat
      BY <2>1
    <3>2. \A k \in 1..Len(o) : [do |-> "retry", tx |-> o[k]] \in Items
      BY <2>1 DEF Items, Statements
    <3>3. a \in [1..Len(o) -> Items]
      BY <3>1, <3>2
    <3> QED BY <3>1, <3>3, FunctionIsSeq
  <2>3. b \in Seq(Items)
    BY <1>3 DEF Items, Statements
  <2>4. calls' = (a \o b) \o rest /\ UNCHANGED <<queue, job>>
    BY <1>7 DEF RunAdded
  <2>5. \A s, u \in Txs : ~IsAsk(i, s, u)
    BY <1>7 DEF RunAdded, IsAsk
  <2> HIDE DEF a, b, i
  <2>6. a \o b \in Seq(Items)
    BY <2>2, <2>3
  <2>7. \A s, u \in Txs : CallAsks(s, u, calls) => CallAsks(s, u, calls')
    BY <1>1, <1>2, <2>4, <2>5, <2>6, ConcatAsks
  <2> QED BY <2>4, <2>7, WaitGrow
<1>8. CASE RunRetry(i, rest)
  <2>1. \A s, u \in Txs : ~IsAsk(i, s, u)
    BY <1>8 DEF RunRetry, IsAsk
  <2>2. \A s, u \in Txs : CallAsks(s, u, calls) => CallAsks(s, u, calls')
    BY <1>2, <1>8, <2>1 DEF RunRetry
  <2>3. CASE txIndex[i.tx] = "absent" /\ StartVerification(i.tx, <<>>)
    BY <1>3, <2>2, <2>3, StartWait
  <2>4. CASE UNCHANGED <<queue, job>>
    BY <2>2, <2>4, WaitGrow
  <2> QED BY <1>8, <2>3, <2>4 DEF RunRetry
<1> QED BY <1>4, <1>5, <1>6, <1>7, <1>8 DEF RunNext, rest

LEMMA NextWait ==
  ASSUME AskInv, WaitersInv, NoCallbackLost, [Next]_vars
  PROVE  WaitersInv'
<1>1. ASSUME NEW c \in Callers, NEW t \in Txs,
             HandleTx(c, t) \/ SendTx(c, t) \/ Get(c, t)
      PROVE  WaitersInv'
  BY <1>1, CallerWait DEF HandleTx, SendTx
<1>2. ASSUME NEW t \in Txs, VerificationStep(t) \/ ChainStep(t)
      PROVE  WaitersInv'
  BY <1>2, VerificationWait, ChainWait
<1>3. CASE RunNext
  BY <1>3, RunWait
<1>4. CASE UNCHANGED vars
  BY <1>4, WaitGrow DEF vars, poolVars
<1> QED BY <1>1, <1>2, <1>3, <1>4 DEF Next

(* An input that a verification waits for is being verified and holds its    *)
(* callback, for all transactions and orders of callbacks, unless MongoDB    *)
(* swallows an exception of remove(), which only live accounting can cause.  *)
THEOREM StoreAnswersWaiters ==
  ASSUME NoCallbackLost
  PROVE  Spec => []WaitersQueued
<1>1. Init => WaitersInv
  <2> SUFFICES ASSUME Init PROVE WaitersInv
    OBVIOUS
  <2>1. \A t \in Txs : job[t].at = "idle" /\ job[t].waits = {}
    BY DEF Init, NoJob
  <2> QED BY <2>1 DEF WaitersInv
<1>2. AskInv /\ WaitersInv /\ [Next]_vars => WaitersInv'
  BY NextWait
<1>3. AskInv /\ WaitersInv => WaitersQueued
  <2> SUFFICES ASSUME AskInv, WaitersInv, AtRest, NEW t \in Txs
               PROVE  /\ job[t].at = "findMem" => job[t].waits # {}
                      /\ \A s \in job[t].waits : txIndex[s] = "verifying" /\ QueueAsks(s, t)
    BY DEF WaitersQueued, QueueAsks
  <2>1. ASSUME NEW s \in job[t].waits
        PROVE  txIndex[s] = "verifying" /\ QueueAsks(s, t)
    <3>1. s \in Txs
      BY <2>1 DEF AskInv, TypeOK, JobType
    <3>2. QueueAsks(s, t)
      BY <2>1 DEF WaitersInv, Answered, CallAsks, AtRest
    <3>3. queue[s] # <<>>
      BY <3>2 DEF QueueAsks
    <3> QED BY <3>1, <3>2, <3>3 DEF AskInv, NeverMisfires
  <2> QED BY <2>1 DEF WaitersInv
<1> QED BY <1>1, <1>2, <1>3, InitAsk, NextAsk, PTL DEF Spec

-----------------------------------------------------------------------------
(* What the listeners know.  A transaction enters the pool some calls before *)
(* txNotify announces it.  The statement that does so is the last of what is *)
(* due, the callbacks of the success come before it, and a removal is in the *)
(* queue of the transaction that it removes: it finds it unannounced, and    *)
(* under live accounting its exception takes the announcement with it.       *)

Statement(i) == i.do \in {"added", "notify"}

Due(q) == IF q # <<>> /\ Statement(q[Len(q)]) THEN {q[Len(q)].tx} ELSE {}

CallsShape(q) ==
  \A k \in DOMAIN q :
    /\ Statement(q[k]) => k = Len(q)
    /\ q[k].do = "call" /\ q[k].err = "ok" => q[Len(q)].do = "added" /\ q[Len(q)].tx = q[k].tx
    /\ q[k].do = "call" /\ q[k].cb.kind = "removal" => q[k].cb.who = q[k].tx

RemovalsOwn ==
  \A t \in Txs : \A k \in DOMAIN queue[t] :
    queue[t][k].kind = "removal" => queue[t][k].who = t

LiveInv ==
  /\ RemovalsOwn /\ CallsShape(calls)
  /\ Added = live \cup Due(calls) /\ live \cap Due(calls) = {}

LEMMA ShapeTail ==
  ASSUME NEW q \in Seq(Items), q # <<>>, CallsShape(q), ~Statement(Head(q))
  PROVE  CallsShape(Tail(q)) /\ Due(Tail(q)) = Due(q)
<1> DEFINE r == Tail(q)
<1>1. /\ Len(r) = Len(q) - 1 /\ Head(q) = q[1] /\ Len(q) \in Nat \ {0}
      /\ \A i \in 1..Len(r) : r[i] = q[i + 1]
      /\ DOMAIN q = 1..Len(q) /\ DOMAIN r = 1..Len(r) /\ r \in Seq(Items)
  BY HeadTailProperties
<1> HIDE DEF r
<1>2. r # <<>> <=> Len(q) # 1
  <2>1. r # <<>> <=> Len(r) # 0
    BY <1>1
  <2> QED BY <1>1, <2>1
<1>3. CASE Len(q) = 1
  <2>1. r = <<>> /\ DOMAIN r = {} /\ ~Statement(q[Len(q)])
    BY <1>1, <1>2, <1>3
  <2> QED BY <2>1 DEF CallsShape, Due, r
<1>4. CASE Len(q) # 1
  <2>1. r # <<>> /\ r[Len(r)] = q[Len(q)]
    BY <1>1, <1>2, <1>4
  <2>2. Due(r) = Due(q)
    BY <1>2, <1>4, <2>1 DEF Due
  <2>3. ASSUME NEW k \in DOMAIN r
        PROVE  r[k] = q[k + 1] /\ k + 1 \in DOMAIN q /\ (k + 1 = Len(q) => k = Len(r))
    BY <1>1, <2>3
  <2>4. CallsShape(r)
    BY <2>1, <2>3 DEF CallsShape
  <2> QED BY <2>2, <2>4 DEF r
<1> QED BY <1>3, <1>4

(* Calls of a failure before the rest.                                       *)
LEMMA ShapeConcat ==
  ASSUME NEW p \in Seq(Items), NEW q \in Seq(Items), CallsShape(q),
         \A k \in DOMAIN p : p[k].do = "call" /\ p[k].err # "ok"
                             /\ (p[k].cb.kind = "removal" => p[k].cb.who = p[k].tx)
  PROVE  CallsShape(p \o q) /\ Due(p \o q) = Due(q)
<1> DEFINE r == p \o q
<1>1. /\ Len(p) \in Nat /\ DOMAIN p = 1..Len(p) /\ Len(q) \in Nat /\ DOMAIN q = 1..Len(q)
      /\ Len(r) = Len(p) + Len(q) /\ DOMAIN r = 1..(Len(p) + Len(q)) /\ r \in Seq(Items)
      /\ \A k \in 1..(Len(p) + Len(q)) : r[k] = IF k <= Len(p) THEN p[k] ELSE q[k - Len(p)]
  BY ConcatProperties
<1> HIDE DEF r
<1>2. CASE Len(q) = 0
  <2>1. q = <<>> /\ \A k \in DOMAIN r : k \in DOMAIN p /\ r[k] = p[k]
    BY <1>1, <1>2
  <2>2. r # <<>> => Len(r) \in DOMAIN r
    BY <1>1
  <2>3. CallsShape(r)
    BY <2>1 DEF CallsShape, Statement
  <2>4. Due(r) = {} /\ Due(q) = {}
    BY <2>1, <2>2 DEF Due, Statement
  <2> QED BY <2>3, <2>4 DEF r
<1>3. CASE Len(q) # 0
  <2>1. r # <<>> /\ q # <<>> /\ r[Len(r)] = q[Len(q)]
    <3>1. Len(r) \in 1..(Len(p) + Len(q)) /\ ~(Len(r) <= Len(p)) /\ Len(r) - Len(p) = Len(q)
      BY <1>1, <1>3
    <3>2. Len(r) # 0 /\ Len(<<>>) = 0
      BY <1>1, <1>3
    <3> QED BY <1>1, <1>3, <3>1, <3>2
  <2>2. Due(r) = Due(q)
    BY <2>1 DEF Due
  <2>3. ASSUME NEW k \in DOMAIN r, k <= Len(p)
        PROVE  k \in DOMAIN p /\ r[k] = p[k]
    BY <1>1, <2>3
  <2>4. ASSUME NEW k \in DOMAIN r, ~(k <= Len(p))
        PROVE  k - Len(p) \in DOMAIN q /\ r[k] = q[k - Len(p)]
               /\ (k - Len(p) = Len(q) => k = Len(r))
    BY <1>1, <2>4
  <2>5. ASSUME NEW k \in DOMAIN r
        PROVE  /\ Statement(r[k]) => k = Len(r)
               /\ r[k].do = "call" /\ r[k].err = "ok" =>
                    r[Len(r)].do = "added" /\ r[Len(r)].tx = r[k].tx
               /\ r[k].do = "call" /\ r[k].cb.kind = "removal" => r[k].cb.who = r[k].tx
    <3>1. CASE k <= Len(p)
      BY <2>3, <3>1 DEF Statement
    <3>2. CASE ~(k <= Len(p))
      BY <2>1, <2>4, <3>2 DEF CallsShape
    <3> QED BY <3>1, <3>2
  <2>6. CallsShape(r)
    BY <2>5 DEF CallsShape
  <2> QED BY <2>2, <2>6 DEF r
<1> QED BY <1>2, <1>3

LEMMA ShapeDisable ==
  ASSUME NEW t \in Txs, NEW q \in Seq(Items), CallsShape(q)
  PROVE  CallsShape(DisableCalls(t, q)) /\ Due(DisableCalls(t, q)) = Due(q)
<1> DEFINE r == DisableCalls(t, q)
<1>1. /\ r \in Seq(Items) /\ Len(r) = Len(q) /\ DOMAIN r = DOMAIN q
      /\ (r # <<>> <=> q # <<>>) /\ (q # <<>> => Len(q) \in DOMAIN q)
  BY DisableCallsType
<1>2. ASSUME NEW k \in DOMAIN q
      PROVE  /\ r[k].do = q[k].do /\ r[k].tx = q[k].tx
             /\ q[k].do = "call" =>
                  /\ r[k].err = q[k].err
                  /\ r[k].cb.kind = "removal" => r[k].cb = q[k].cb
  <2>1. CASE q[k].do # "call"
    BY <1>2, <2>1 DEF DisableCalls
  <2>2. CASE q[k].do = "call"
    <3>1. q[k] \in CallItems
      <4>1. q[k] \in Items
        BY <1>2
      <4> QED BY <2>2, <4>1 DEF Items, Statements
    <3>2. r[k] = [q[k] EXCEPT !.cb = Disable(t, q[k].cb)]
      BY <1>2, <2>2 DEF DisableCalls
    <3>3. /\ r[k].do = q[k].do /\ r[k].tx = q[k].tx /\ r[k].err = q[k].err
          /\ r[k].cb = Disable(t, q[k].cb)
      BY <3>1, <3>2 DEF CallItems
    <3>4. r[k].cb.kind = "removal" => r[k].cb = q[k].cb
      BY <3>3 DEF Disable, DisabledCb
    <3> QED BY <3>3, <3>4
  <2> QED BY <2>1, <2>2
<1> HIDE DEF r
<1>3. CallsShape(r)
  <2>1. ASSUME NEW k \in DOMAIN q
        PROVE  Len(q) \in DOMAIN q
    BY <2>1
  <2> QED BY <1>1, <1>2, <2>1 DEF CallsShape, Statement
<1>4. Due(r) = Due(q)
  BY <1>1, <1>2 DEF Due, Statement
<1> QED BY <1>3, <1>4 DEF r

(* Calls that end with the statement of an accepted transaction.             *)
LEMMA ShapeEnd ==
  ASSUME NEW p \in Seq(Items), NEW x \in Items, Statement(x),
         \A k \in DOMAIN p :
           /\ ~Statement(p[k])
           /\ p[k].do = "call" => /\ x.do = "added" /\ x.tx = p[k].tx
                                  /\ p[k].cb.kind = "removal" => p[k].cb.who = p[k].tx
  PROVE  CallsShape(p \o <<x>>) /\ Due(p \o <<x>>) = {x.tx}
<1> DEFINE r == p \o <<x>>
           n == Len(p)
<1>1. n \in Nat /\ DOMAIN p = 1..n /\ Len(r) = n + 1 /\ DOMAIN r = 1..(n + 1) /\ r # <<>>
  OBVIOUS
<1>2. r[n + 1] = x /\ \A k \in 1..n : r[k] = p[k]
  OBVIOUS
<1> HIDE DEF r, n
<1>3. ASSUME NEW k \in DOMAIN r
      PROVE  /\ Statement(r[k]) => k = Len(r)
             /\ r[k].do = "call" /\ r[k].err = "ok" =>
                  r[Len(r)].do = "added" /\ r[Len(r)].tx = r[k].tx
             /\ r[k].do = "call" /\ r[k].cb.kind = "removal" => r[k].cb.who = r[k].tx
  <2>1. CASE k = n + 1
    BY <1>1, <1>2, <2>1 DEF Statement
  <2>2. CASE k # n + 1
    <3>1. k \in DOMAIN p /\ r[k] = p[k]
      BY <1>1, <1>2, <1>3, <2>2
    <3> QED BY <1>1, <1>2, <3>1
  <2> QED BY <2>1, <2>2
<1>4. CallsShape(r)
  BY <1>3 DEF CallsShape
<1>5. Due(r) = {x.tx}
  BY <1>1, <1>2 DEF Due
<1> QED BY <1>4, <1>5 DEF r

LEMMA OwnAppend ==
  ASSUME AskInv, RemovalsOwn, NEW t \in Txs, NEW cb \in Callbacks,
         cb.kind = "removal" => cb.who = t,
         queue' = [queue EXCEPT ![t] = Append(@, cb)]
  PROVE  RemovalsOwn'
<1>1. queue \in [Txs -> Seq(Callbacks)]
  BY DEF AskInv, TypeOK
<1>2. ASSUME NEW s \in Txs, NEW k \in DOMAIN queue'[s]
      PROVE  queue'[s][k].kind = "removal" => queue'[s][k].who = s
  <2>1. CASE s # t
    BY <1>1, <1>2, <2>1 DEF RemovalsOwn
  <2>2. CASE s = t
    <3>1. queue'[t] = Append(queue[t], cb) /\ queue[t] \in Seq(Callbacks)
      BY <1>1
    <3>2. /\ DOMAIN queue'[t] = 1..(Len(queue[t]) + 1) /\ Len(queue[t]) \in Nat
          /\ DOMAIN queue[t] = 1..Len(queue[t])
          /\ queue'[t][Len(queue[t]) + 1] = cb
          /\ \A l \in 1..Len(queue[t]) : queue'[t][l] = queue[t][l]
      BY <3>1, AppendProperties
    <3>3. CASE k = Len(queue[t]) + 1
      BY <2>2, <3>2, <3>3
    <3>4. CASE k # Len(queue[t]) + 1
      <4>1. k \in DOMAIN queue[t] /\ queue'[t][k] = queue[t][k]
        BY <1>2, <2>2, <3>2, <3>4
      <4> QED BY <2>2, <4>1 DEF RemovalsOwn
    <3> QED BY <3>3, <3>4
  <2> QED BY <2>1, <2>2
<1> QED BY <1>2 DEF RemovalsOwn

(* A verification that starts puts no removal into a queue.                  *)
LEMMA StartOwn ==
  ASSUME AskInv, RemovalsOwn, NEW t \in Txs, NEW q, \A k \in DOMAIN q : q[k].kind # "removal",
         StartVerification(t, q)
  PROVE  RemovalsOwn'
<1>1. queue \in [Txs -> Seq(Callbacks)]
  BY DEF AskInv, TypeOK
<1>2. ASSUME NEW s \in Txs, NEW k \in DOMAIN queue'[s]
      PROVE  queue'[s][k].kind = "removal" => queue'[s][k].who = s
  <2>1. \/ queue'[s] = q /\ s = t
        \/ queue'[s] = queue[s] \/ queue'[s] = Append(queue[s], InputCb(t))
    BY DEF StartVerification
  <2>2. CASE queue'[s] = q /\ s = t
    BY <1>2, <2>2
  <2>3. CASE queue'[s] = queue[s]
    BY <1>2, <2>3 DEF RemovalsOwn
  <2>4. CASE queue'[s] = Append(queue[s], InputCb(t))
    <3>1. queue[s] \in Seq(Callbacks) /\ InputCb(t) \in Callbacks
          /\ InputCb(t).kind # "removal"
      BY <1>1, CallbackTypes DEF InputCb
    <3>2. /\ DOMAIN queue'[s] = 1..(Len(queue[s]) + 1) /\ Len(queue[s]) \in Nat
          /\ DOMAIN queue[s] = 1..Len(queue[s])
          /\ queue'[s][Len(queue[s]) + 1] = InputCb(t)
          /\ \A l \in 1..Len(queue[s]) : queue'[s][l] = queue[s][l]
      BY <2>4, <3>1, AppendProperties
    <3>3. CASE k = Len(queue[s]) + 1
      BY <3>1, <3>2, <3>3
    <3>4. CASE k # Len(queue[s]) + 1
      <4>1. k \in DOMAIN queue[s] /\ queue'[s][k] = queue[s][k]
        BY <1>2, <3>2, <3>4
      <4> QED BY <4>1 DEF RemovalsOwn
    <3> QED BY <3>3, <3>4
  <2> QED BY <2>1, <2>2, <2>3, <2>4
<1> QED BY <1>2 DEF RemovalsOwn

LEMMA CallsOfShape ==
  ASSUME RemovalsOwn, NEW t \in Txs, NEW err
  PROVE  \A k \in DOMAIN CallsOf(t, err) :
           /\ CallsOf(t, err)[k].do = "call" /\ CallsOf(t, err)[k].err = err
           /\ CallsOf(t, err)[k].tx = t
           /\ CallsOf(t, err)[k].cb.kind = "removal" => CallsOf(t, err)[k].cb.who = t
BY DEF CallsOf, RemovalsOwn

LEMMA FailLive ==
  ASSUME AskInv, LiveInv, NEW t \in Txs, txIndex[t] = "verifying", NEW err \in Errors,
         NEW rest \in Seq(Items), CallsShape(rest), Due(rest) = Due(calls),
         Fail(t, err, rest), UNCHANGED live
  PROVE  LiveInv'
<1>1. txIndex \in [Txs -> {"absent", "verifying", "added"}] /\ TypeOK
      /\ err \in Outcomes /\ err # "ok"
  BY DEF AskInv, TypeOK, Outcomes, Errors
<1>2. Added' = Added
  BY <1>1 DEF Fail, Added
<1>3. RemovalsOwn'
  <2>1. ASSUME NEW s \in Txs, NEW k \in DOMAIN queue'[s]
        PROVE  queue'[s][k].kind = "removal" => queue'[s][k].who = s
    <3>1. CASE s = t
      BY <2>1, <3>1 DEF Fail
    <3>2. CASE s # t
      <4>1. queue'[s] = DisableQueue(t, queue[s])
        BY <3>2 DEF Fail
      <4>2. k \in DOMAIN queue[s] /\ queue'[s][k] = Disable(t, queue[s][k])
        BY <2>1, <4>1 DEF DisableQueue
      <4>3. queue'[s][k].kind = "removal" => queue'[s][k] = queue[s][k]
        BY <4>2 DEF Disable, DisabledCb
      <4> QED BY <4>2, <4>3 DEF LiveInv, RemovalsOwn
    <3> QED BY <3>1, <3>2
  <2> QED BY <2>1 DEF RemovalsOwn
<1>4. CallsShape(calls') /\ Due(calls') = Due(calls)
  <2>1. CallsOf(t, err) \in Seq(Items) /\ DisableCalls(t, rest) \in Seq(Items)
    BY <1>1, CallsOfType, DisableCallsType
  <2>2. CallsShape(DisableCalls(t, rest)) /\ Due(DisableCalls(t, rest)) = Due(rest)
    BY ShapeDisable
  <2>3. calls' = CallsOf(t, err) \o DisableCalls(t, rest)
    BY DEF Fail
  <2> QED BY <1>1, <2>1, <2>2, <2>3, ShapeConcat, CallsOfShape DEF LiveInv
<1> QED BY <1>2, <1>3, <1>4 DEF LiveInv

LEMMA AcceptLive ==
  ASSUME AskInv, LiveInv, AtRest, NEW t \in Txs, txIndex[t] = "verifying", Accept(t)
  PROVE  LiveInv'
<1>1. txIndex \in [Txs -> {"absent", "verifying", "added"}] /\ TypeOK /\ "ok" \in Outcomes
  BY DEF AskInv, TypeOK, Outcomes
<1>2. Added' = Added \cup {t} /\ t \notin Added /\ Added = live /\ live' = live
  BY <1>1 DEF Accept, Added, LiveInv, Due, AtRest
<1>3. RemovalsOwn'
  BY <1>1 DEF Accept, LiveInv, RemovalsOwn, AskInv, TypeOK
<1>4. CallsShape(calls') /\ Due(calls') = {t}
  <2> DEFINE x == [do |-> "added", tx |-> t]
  <2>1. x \in Items /\ Statement(x) /\ x.do = "added" /\ x.tx = t
    BY DEF Items, Statements, Statement
  <2>2. CallsOf(t, "ok") \in Seq(Items) /\ calls' = CallsOf(t, "ok") \o <<x>>
    BY <1>1, CallsOfType DEF Accept
  <2> HIDE DEF x
  <2>3. \A k \in DOMAIN CallsOf(t, "ok") :
          LET c == CallsOf(t, "ok")[k]
          IN  /\ ~Statement(c)
              /\ c.do = "call" => /\ x.do = "added" /\ x.tx = c.tx
                                  /\ c.cb.kind = "removal" => c.cb.who = c.tx
    BY <2>1, CallsOfShape DEF LiveInv, Statement
  <2>4. CallsShape(CallsOf(t, "ok") \o <<x>>) /\ Due(CallsOf(t, "ok") \o <<x>>) = {x.tx}
    BY <2>1, <2>2, <2>3, ShapeEnd
  <2> QED BY <2>1, <2>2, <2>4
<1> QED BY <1>2, <1>3, <1>4 DEF LiveInv

(* Nothing that matters for the listeners happens.                           *)
LEMMA SameLive ==
  ASSUME LiveInv, RemovalsOwn', Added' = Added, UNCHANGED live,
         CallsShape(calls') /\ Due(calls') = Due(calls)
  PROVE  LiveInv'
BY DEF LiveInv

LEMMA CallerLive ==
  ASSUME StoreInv, LiveInv, NEW c \in Callers, NEW t \in Txs, Add(c, t) \/ Get(c, t)
  PROVE  LiveInv'
<1>1. Added' = Added /\ UNCHANGED <<live, calls>> /\ AskInv
  BY AddSafe, GetSafe DEF Add, Get, StoreInv
<1>2. CallerCb(c) \in Callbacks /\ CallerCb(c).kind # "removal"
  BY CallbackTypes DEF CallerCb
<1>3. ASSUME NEW op, Enqueue(c, t, op)
      PROVE  RemovalsOwn'
  BY <1>1, <1>2, <1>3, OwnAppend DEF Enqueue, LiveInv
<1>4. CASE UNCHANGED queue
  BY <1>1, <1>4, SameLive DEF LiveInv, RemovalsOwn
<1>5. CASE StartVerification(t, <<CallerCb(c)>>)
  <2> DEFINE q == <<CallerCb(c)>>
  <2>1. \A k \in DOMAIN q : q[k].kind # "removal"
    BY <1>2
  <2>2. StartVerification(t, q)
    BY <1>5
  <2> HIDE DEF q
  <2>3. RemovalsOwn'
    BY <1>1, <2>1, <2>2, StartOwn DEF LiveInv
  <2> QED BY <1>1, <2>3, SameLive DEF LiveInv
<1>6. RemovalsOwn' => LiveInv'
  BY <1>1, SameLive DEF LiveInv
<1> QED BY <1>3, <1>4, <1>5, <1>6 DEF Add, Get

LEMMA VerificationLive ==
  ASSUME AskInv, LiveInv, NEW t \in Txs, VerificationStep(t)
  PROVE  LiveInv'
<1>1. CASE InputsFound(t) \/ ScriptsRight(t) \/ LookForSpender(t)
  <2>1. UNCHANGED <<txIndex, queue, calls, live>>
    BY <1>1 DEF InputsFound, ScriptsRight, LookForSpender
  <2> QED BY <2>1 DEF LiveInv, RemovalsOwn, Added
<1>2. txIndex[t] = "verifying" /\ calls \in Seq(Items)
  BY DEF AskInv, NeverMisfires, TypeOK, Items, VerificationStep, InputsFound, BecomeOrphan,
         ScriptsRight, ScriptsWrong, NoConflict, CountFails, LookForSpender, SpenderIsItself,
         SpenderIsAnother
<1>3. CASE BecomeOrphan(t) \/ ScriptsWrong(t) \/ CountFails(t) \/ SpenderIsAnother(t)
  <2>1. /\ \E err \in Errors : Fail(t, err, calls)
        /\ UNCHANGED live
    BY <1>3 DEF BecomeOrphan, ScriptsWrong, CountFails, SpenderIsAnother, Errors
  <2> QED BY <1>2, <2>1, FailLive DEF LiveInv
<1>4. CASE NoConflict(t) \/ SpenderIsItself(t)
  BY <1>2, <1>4, AcceptLive DEF NoConflict, SpenderIsItself
<1> QED BY <1>1, <1>3, <1>4 DEF VerificationStep

LEMMA ChainLive ==
  ASSUME StoreInv, LiveInv, NEW t \in Txs, ChainStep(t)
  PROVE  LiveInv'
<1>1. CASE SaveTx(t) \/ SaveSpends(t)
  BY <1>1 DEF SaveTx, SaveSpends, poolVars, LiveInv, RemovalsOwn, Added
<1>2. CASE ConnectTx(t)
  <2>1. calls = <<>> /\ Remove(t, calls) /\ Added' = Added \ {t} /\ AskInv
    BY <1>2, ChainSafe DEF ConnectTx, AtRest, StoreInv
  <2>2. calls' = <<>> /\ Due(calls) = {} /\ Due(calls') = {} /\ CallsShape(calls')
    BY <2>1 DEF Remove, Due, CallsShape
  <2>3. Added = live
    BY <2>2 DEF LiveInv
  <2>4. live' = Added'
    <3>1. CASE txIndex[t] = "added"
      BY <2>1, <2>3, <3>1 DEF Remove
    <3>2. CASE txIndex[t] # "added"
      BY <2>1, <2>3, <3>2 DEF Remove, Added
    <3> QED BY <3>1, <3>2
  <2>5. RemovalsOwn'
    <3>1. CASE UNCHANGED queue
      BY <3>1 DEF LiveInv, RemovalsOwn
    <3>2. CASE queue' = [queue EXCEPT ![t] = Append(@, RemovalCb(t))]
      <4>1. RemovalCb(t) \in Callbacks /\ RemovalCb(t).who = t
        BY CallbackTypes DEF RemovalCb
      <4> QED BY <2>1, <3>2, <4>1, OwnAppend DEF LiveInv
    <3> QED BY <2>1, <3>1, <3>2 DEF Remove
  <2> QED BY <2>2, <2>4, <2>5 DEF LiveInv
<1> QED BY <1>1, <1>2 DEF ChainStep

(* The call that fails a verification finds it under way.                    *)
LEMMA AskerVerifies ==
  ASSUME AskInv, calls # <<>>, Head(calls).do = "call", Head(calls).cb.kind = "input"
  PROVE  Head(calls).cb.who \in Txs /\ txIndex[Head(calls).cb.who] = "verifying"
<1> DEFINE i == Head(calls)
           t == i.cb.who
<1>1. calls \in Seq(Items) /\ i \in Items
  BY RestType DEF AskInv, TypeOK, Items
<1>2. 1 \in DOMAIN calls /\ calls[1] = i
  BY <1>1
<1>3. i.cb \in Callbacks /\ i.tx \in Txs
  BY <1>1 DEF Items, CallItems, Statements
<1>4. t \in Txs /\ i.cb = InputCb(t)
  BY <1>3 DEF Callbacks, InputCb
<1>5. job[t].at # "idle"
  BY <1>2, <1>3, <1>4 DEF AskInv, CallsInv, IsAsk, Waiting
<1> QED BY <1>4, <1>5 DEF AskInv, NeverMisfires

LEMMA RemovalLive ==
  ASSUME StoreInv, LiveInv, LiveAccounting = TRUE, calls # <<>>, Head(calls).err = "ok",
         RunRemoval(Head(calls), Tail(calls))
  PROVE  LiveInv'
<1> DEFINE i == Head(calls)
           w == i.cb.who
<1>1. calls \in Seq(Items) /\ i \in Items /\ AskInv
  BY RestType DEF StoreInv, AskInv, TypeOK, Items
<1>2. 1 \in DOMAIN calls /\ calls[1] = i
  BY <1>1
<1>3. i.do = "call" /\ i.cb.kind = "removal" /\ Remove(w, Tail(calls))
  BY DEF RunRemoval
<1>4. calls[Len(calls)].do = "added" /\ calls[Len(calls)].tx = w
  BY <1>2, <1>3 DEF LiveInv, CallsShape
<1>5. Due(calls) = {w}
  BY <1>4 DEF Due, Statement
<1> HIDE DEF i, w
<1>6. w \in Added /\ w \notin live /\ live = Added \ {w}
  BY <1>5 DEF LiveInv
<1>7. txIndex[w] = "added" /\ w \in Txs
  BY <1>6 DEF Added
<1>8. RemoveThrows(w)
  BY <1>6 DEF RemoveThrows
<1>9. /\ txIndex' = [txIndex EXCEPT ![w] = "absent"] /\ live' = live \ {w}
      /\ calls' = <<>> /\ UNCHANGED queue
  BY <1>3, <1>7, <1>8 DEF Remove
<1>10. Added' = Added \ {w}
  BY <1>1, <1>7, <1>9 DEF Added, AskInv, TypeOK
<1>11. Due(calls') = {} /\ CallsShape(calls') /\ RemovalsOwn'
  BY <1>9 DEF Due, CallsShape, LiveInv, RemovalsOwn
<1> QED BY <1>6, <1>9, <1>10, <1>11 DEF LiveInv

(* A statement is alone when its turn comes.                                 *)
LEMMA StatementAlone ==
  ASSUME AskInv, LiveInv, calls # <<>>, Statement(Head(calls))
  PROVE  Tail(calls) = <<>> /\ Due(calls) = {Head(calls).tx}
<1>1. calls \in Seq(Items)
  BY DEF AskInv, TypeOK, Items
<1>2. 1 \in DOMAIN calls /\ calls[1] = Head(calls)
  BY <1>1
<1>3. Len(calls) = 1
  BY <1>2 DEF LiveInv, CallsShape
<1>4. Tail(calls) = <<>>
  <2>1. Tail(calls) \in Seq(Items) /\ Len(Tail(calls)) = 0
    BY <1>1, <1>3, HeadTailProperties
  <2> QED BY <2>1, EmptySeq
<1> QED BY <1>2, <1>3, <1>4 DEF Due

LEMMA AddedLive ==
  ASSUME AskInv, LiveInv, calls # <<>>, RunAdded(Head(calls), Tail(calls))
  PROVE  LiveInv'
<1> DEFINE i == Head(calls)
           o == orphanTxByPrev[i.tx]
           a == [k \in DOMAIN o |-> [do |-> "retry", tx |-> o[k]]]
           x == [do |-> "notify", tx |-> i.tx]
<1>1. i \in Items /\ i.tx \in Txs
  BY RestType DEF AskInv, Items, CallItems, Statements
<1>2. o \in Seq(Txs)
  BY <1>1 DEF AskInv, TypeOK
<1>3. a \in Seq(Items) /\ \A k \in DOMAIN a : a[k].do = "retry"
  <2>1. DOMAIN o = 1..Len(o) /\ Len(o) \in Nat
    BY <1>2
  <2>2. \A k \in 1..Len(o) : [do |-> "retry", tx |-> o[k]] \in Items
    BY <1>2 DEF Items, Statements
  <2>3. a \in [1..Len(o) -> Items]
    BY <2>1, <2>2
  <2>4. a \in Seq(Items)
    BY <2>1, <2>3, FunctionIsSeq
  <2> QED BY <2>4
<1>4. x \in Items /\ Statement(x) /\ x.tx = i.tx
  BY <1>1, SMTT(60) DEF Items, Statements, Statement
<1>5. Tail(calls) = <<>> /\ Due(calls) = {i.tx}
  BY StatementAlone, ZenonT(30) DEF RunAdded, Statement
<1>6. calls' = (a \o <<x>>) \o Tail(calls) /\ UNCHANGED <<txIndex, queue, live>>
  BY DEF RunAdded
<1> HIDE DEF a, x, i
<1>7. a \o <<x>> \in Seq(Items)
  BY <1>3, <1>4
<1>8. calls' = a \o <<x>>
  BY <1>5, <1>6, <1>7, ConcatEmptySeq
<1>9. \A k \in DOMAIN a : ~Statement(a[k]) /\ a[k].do # "call"
  BY <1>3 DEF Statement
<1>10. CallsShape(a \o <<x>>) /\ Due(a \o <<x>>) = {x.tx}
  BY <1>3, <1>4, <1>9, ShapeEnd
<1>11. RemovalsOwn' /\ Added' = Added
  BY <1>6 DEF LiveInv, RemovalsOwn, Added
<1> QED BY <1>4, <1>5, <1>6, <1>8, <1>10, <1>11, SameLive

LEMMA NotifyLive ==
  ASSUME AskInv, LiveInv, calls # <<>>, RunNotify(Head(calls), Tail(calls))
  PROVE  LiveInv'
<1>1. Tail(calls) = <<>> /\ Due(calls) = {Head(calls).tx}
  BY StatementAlone DEF RunNotify, Statement
<1>2. /\ calls' = <<>> /\ live' = live \cup {Head(calls).tx}
      /\ UNCHANGED <<txIndex, queue>>
  BY <1>1 DEF RunNotify
<1>3. Due(calls') = {} /\ CallsShape(calls') /\ RemovalsOwn' /\ Added' = Added
  BY <1>2 DEF Due, CallsShape, LiveInv, RemovalsOwn, Added
<1> QED BY <1>1, <1>2, <1>3 DEF LiveInv

LEMMA RunLive ==
  ASSUME StoreInv, LiveInv, LiveAccounting = TRUE, RunNext
  PROVE  LiveInv'
<1> DEFINE i == Head(calls)
           rest == Tail(calls)
<1>1. calls # <<>> /\ calls \in Seq(Items) /\ i \in Items /\ rest \in Seq(Items) /\ AskInv
  BY RestType DEF RunNext, StoreInv, AskInv, TypeOK, Items
<1>2. ~Statement(i) => CallsShape(rest) /\ Due(rest) = Due(calls)
  BY <1>1, ShapeTail DEF LiveInv
<1>3. i.do = "call" => i.err \in Outcomes
  BY <1>1 DEF Items, CallItems, Statements
<1>4. ASSUME ~Statement(i), calls' = rest, UNCHANGED <<txIndex, queue, live>>
      PROVE  LiveInv'
  <2> HIDE DEF i, rest
  <2>1. RemovalsOwn' /\ Added' = Added
    BY <1>4 DEF LiveInv, RemovalsOwn, Added
  <2> QED BY <1>2, <1>4, <2>1, SameLive
<1>5. CASE RunRemoval(i, rest)
  <2>1. CASE i.err = "ok"
    BY <1>1, <1>5, <2>1, RemovalLive
  <2>2. CASE i.err # "ok"
    BY <1>4, <1>5, <2>2 DEF RunRemoval, Statement
  <2> QED BY <2>1, <2>2
<1>6. CASE RunCaller(i, rest) \/ RunDisabled(i, rest)
  BY <1>4, <1>6 DEF RunCaller, RunDisabled, Statement
<1>7. CASE RunInput(i, rest)
  <2> DEFINE t == i.cb.who
  <2>1. t \in Txs /\ txIndex[t] = "verifying" /\ ~Statement(i) /\ UNCHANGED live
    BY <1>1, <1>7, AskerVerifies DEF RunInput, Statement
  <2>2. CASE i.err # "ok" /\ Fail(t, i.err, rest)
    <3>1. i.err \in Errors
      BY <1>3, <1>7, <2>2 DEF RunInput, Outcomes
    <3> HIDE DEF i, rest, t
    <3> QED BY <1>1, <1>2, <2>1, <2>2, <3>1, FailLive
  <2>3. CASE calls' = rest /\ UNCHANGED <<txIndex, queue>>
    BY <1>4, <2>1, <2>3
  <2> QED BY <1>7, <2>2, <2>3 DEF RunInput
<1>8. CASE RunAdded(i, rest)
  BY <1>1, <1>8, AddedLive
<1>9. CASE RunRetry(i, rest)
  <2>1. ~Statement(i) /\ calls' = rest /\ UNCHANGED live /\ i.tx \in Txs
    BY <1>1, <1>9 DEF RunRetry, Statement, Items, CallItems, Statements
  <2>2. CASE txIndex[i.tx] = "absent" /\ StartVerification(i.tx, <<>>)
    <3> DEFINE q == <<>>
    <3>1. (\A k \in DOMAIN q : q[k].kind # "removal") /\ StartVerification(i.tx, q)
      BY <2>2
    <3> HIDE DEF i, rest, q
    <3>2. RemovalsOwn'
      BY <1>1, <2>1, <3>1, StartOwn DEF LiveInv
    <3>3. Added' = Added
      BY <1>1, <2>1, <2>2 DEF StartVerification, Added, AskInv, TypeOK
    <3> QED BY <1>2, <2>1, <3>2, <3>3, SameLive
  <2>3. CASE UNCHANGED <<txIndex, queue, job>>
    BY <1>4, <2>1, <2>3
  <2> QED BY <1>9, <2>2, <2>3 DEF RunRetry
<1>10. CASE RunNotify(i, rest)
  BY <1>1, <1>10, NotifyLive
<1> QED BY <1>5, <1>6, <1>7, <1>8, <1>9, <1>10 DEF RunNext

LEMMA InitLive == Init => LiveInv
<1> SUFFICES ASSUME Init PROVE LiveInv
  OBVIOUS
<1>1. Added = {} /\ live = {}
  BY DEF Init, Added
<1>2. Due(calls) = {} /\ CallsShape(calls)
  BY DEF Init, Due, CallsShape
<1>3. RemovalsOwn
  BY DEF Init, RemovalsOwn
<1> QED BY <1>1, <1>2, <1>3 DEF LiveInv

LEMMA NextLive ==
  ASSUME StoreInv, LiveInv, LiveAccounting = TRUE, [Next]_vars
  PROVE  LiveInv'
<1>1. ASSUME NEW c \in Callers, NEW t \in Txs,
             HandleTx(c, t) \/ SendTx(c, t) \/ Get(c, t)
      PROVE  LiveInv'
  BY <1>1, CallerLive DEF HandleTx, SendTx
<1>2. ASSUME NEW t \in Txs, VerificationStep(t) \/ ChainStep(t)
      PROVE  LiveInv'
  BY <1>2, VerificationLive, ChainLive DEF StoreInv
<1>3. CASE RunNext
  BY <1>3, RunLive
<1>4. CASE UNCHANGED vars
  BY <1>4 DEF vars, poolVars, LiveInv, RemovalsOwn, Added
<1> QED BY <1>1, <1>2, <1>3, <1>4 DEF Next

(* Under live accounting the listeners of txNotify and txCancel know exactly *)
(* the pool between two events, for all transactions, both storages and any  *)
(* order of callbacks, although a removal may find a transaction accepted    *)
(* and not yet announced.                                                    *)
THEOREM ListenersAlwaysKnow ==
  ASSUME LiveAccounting = TRUE
  PROVE  Spec => []ListenersKnowPool
<1>1. StoreInv /\ LiveInv /\ [Next]_vars => LiveInv'
  BY NextLive
<1>2. LiveInv => ListenersKnowPool
  BY DEF LiveInv, ListenersKnowPool, AtRest, Due
<1> QED BY <1>1, <1>2, InitLive, InitSafe, NextSafe, PTL DEF Spec
=============================================================================
