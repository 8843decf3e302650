----------------------------- MODULE BlockTree -----------------------------
(* The tree of blocks a node can be told about.  A block is identified by    *)
(* its hash, so its parent, its height and its chain work are functions of   *)
(* the block: lib/schema/block.js computes the last two from the parent in   *)
(* attachTo.  Every block of Blocks passes the static checks of checkBlock   *)
(* (hash, proof of work, time stamp); the others never enter the pipeline.   *)
EXTENDS Integers

CONSTANTS
  Genesis,    \* the first block, known to every node
  Blocks,     \* the other blocks peers and miners may hand to the node
  Parent,     \* Parent[b] is the block named by b.prev_hash
  Height,     \* Height[b] is b.height once b is attached
  ChainWork,  \* ChainWork[b] is b.chainWork once b is attached
  NoBlock     \* stands for null and for an absent record

AllBlocks == Blocks \cup {Genesis}

Heights == {Height[b] : b \in AllBlocks}

(* Block.attachTo: one more than the parent's height, and the parent's work  *)
(* plus the (positive) work of the block's own target.                       *)
AttachedTo(b, p) == Height[b] = Height[p] + 1 /\ ChainWork[b] > ChainWork[p]

ASSUME TreeAssumption ==
  /\ Genesis \notin Blocks
  /\ NoBlock \notin AllBlocks
  /\ Parent \in [Blocks -> AllBlocks]
  /\ Height \in [AllBlocks -> Nat]
  /\ ChainWork \in [AllBlocks -> Nat]
  /\ Height[Genesis] = 0
  /\ \A b \in Blocks : AttachedTo(b, Parent[b])

(* Block.moreWorkThan: a strict comparison, so a tie keeps the first block.  *)
MoreWorkThan(a, b) == ChainWork[a] > ChainWork[b]

(* The chain that ends in b, down to the genesis block.                      *)
Lineage[b \in AllBlocks] ==
  IF b = Genesis THEN {b} ELSE {b} \cup Lineage[Parent[b]]
=============================================================================
