------------------------ MODULE MCTransactionStore ------------------------
(* Small sets of transactions for TransactionStore.  G is confirmed and has  *)
(* two outputs; A and its rival R spend the first, B spends an output of A,  *)
(* C one of B, D one of A and one of B, X the second of G.                   *)
EXTENDS TransactionStore, TLC

AllIns == [G |-> <<>>, A |-> <<"g1">>, R |-> <<"g1">>, B |-> <<"a1">>,
           C |-> <<"b1">>, D |-> <<"a2", "b1">>, X |-> <<"g2">>]
MCIns == [t \in Txs |-> AllIns[t]]
MCSource == [o \in Outpoints |-> CASE o \in {"g1", "g2"} -> "G"
                                   [] o \in {"a1", "a2"} -> "A"
                                   [] OTHER -> "B"]
CallerSymmetry == Permutations(Callers)
=============================================================================
