---------------------------- MODULE MCBlockChain ----------------------------
(* Small block trees for BlockChain: A1, A2 is one branch from the genesis   *)
(* block, B1, B2, B3 another.                                                *)
EXTENDS BlockChain

Up == [b \in {"A1", "A2", "B1", "B2", "B3"} |->
         CASE b \in {"A1", "B1"} -> "G"
           [] b = "A2" -> "A1"
           [] b = "B2" -> "B1"
           [] b = "B3" -> "B2"]

MCParent == [b \in Blocks |-> Up[b]]

MCHeight[b \in AllBlocks] == IF b = "G" THEN 0 ELSE MCHeight[Up[b]] + 1

(* The branches take turns: A1, then B2 or B3, then A2 has the most work, so *)
(* that there are two reorganisations when the blocks come in that order.    *)
SwingWork ==
  [b \in AllBlocks |-> CASE b = "G" -> 1
                         [] b \in {"A1", "B1"} -> 2
                         [] b = "B2" -> 3
                         [] b = "B3" -> 4
                         [] b = "A2" -> 5]

(* The first block of each branch spends the same output; B2 spends another. *)
MCTxs == {"ta", "tb", "tc"}
MCTxsOf ==
  [b \in AllBlocks |-> CASE b = "A1" -> {"ta"}
                         [] b = "B1" -> {"tb"}
                         [] b = "B2" -> {"tc"}
                         [] OTHER -> {}]
MCSpends == [t \in MCTxs |-> IF t = "tc" THEN {"o2"} ELSE {"o1"}]
=============================================================================
