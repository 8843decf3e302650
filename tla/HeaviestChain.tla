--------------------------- MODULE HeaviestChain ---------------------------
(* What a block chain promises: it knows a tree of blocks that grows from    *)
(* the genesis block, and one of them is the best.  A block is learnt after  *)
(* its parent; the best block moves to a child that is learnt on top of it,  *)
(* or over to a known block with more work; a block that turns out to be     *)
(* invalid is dropped, before anything is known on top of it.                *)
EXTENDS BlockTree

VARIABLES
  best,   \* the block the node follows
  known   \* the blocks it has accepted

abstractVars == <<best, known>>

AbstractInit == best = Genesis /\ known = {Genesis}

Learn(b) ==
  /\ b \notin known
  /\ Parent[b] \in known
  /\ known' = known \cup {b}
  /\ best' = IF Parent[b] = best THEN b ELSE best

Adopt(b) ==
  /\ b \in known
  /\ MoreWorkThan(b, best)
  /\ best' = b
  /\ known' = known

Drop(b) ==
  /\ b \in known
  /\ \A c \in Blocks : c \in known => Parent[c] # b
  /\ known' = known \ {b}
  /\ best' = IF best = b THEN Parent[b] ELSE best

AbstractNext == \E b \in Blocks : Learn(b) \/ Adopt(b) \/ Drop(b)

AbstractSpec == AbstractInit /\ [][AbstractNext]_abstractVars

(* A heavier block is not left aside for ever.                               *)
AbstractFairness == \A b \in Blocks : SF_abstractVars(Adopt(b))

FairAbstractSpec == AbstractSpec /\ AbstractFairness
=============================================================================
