----------------------------- MODULE MemoryPool -----------------------------
(* What the memory pool promises: it holds transactions that are valid, that *)
(* spend outputs of pooled or stored transactions, and that no stored one    *)
(* contradicts at the moment they enter; they leave it only by being         *)
(* confirmed.  A block is stored before its transactions are confirmed, and  *)
(* from its storing on, none that contradicts it enters.                     *)
CONSTANTS Txs, Invalid, Parents(_), Conflict(_, _)

VARIABLES
  pool,      \* the transactions in the pool
  stored,    \* those of all blocks stored
  confirmed  \* those of the main chain

Enter(t) ==
  /\ t \notin pool \cup Invalid
  /\ Parents(t) \subseteq pool \cup stored
  /\ \A s \in stored \ {t} : ~Conflict(s, t)
  /\ pool' = pool \cup {t}
  /\ UNCHANGED <<stored, confirmed>>

Store(t) ==
  /\ stored' = stored \cup {t}
  /\ UNCHANGED <<pool, confirmed>>

Confirm(t) ==
  /\ t \in stored \ confirmed
  /\ confirmed' = confirmed \cup {t}
  /\ pool' = pool \ {t}
  /\ UNCHANGED stored

(* A transaction confirmed while it was being verified enters and leaves.    *)
Leave(t) ==
  /\ t \in pool \cap confirmed
  /\ pool' = pool \ {t}
  /\ UNCHANGED <<stored, confirmed>>

PoolInit == pool = {} /\ stored = confirmed

PoolNext == \E t \in Txs : Enter(t) \/ Store(t) \/ Confirm(t) \/ Leave(t)

PoolSpec == PoolInit /\ [][PoolNext]_<<pool, stored, confirmed>>
=============================================================================
