---------------------------- MODULE MCConnection ----------------------------
(* A small instance of Connection: the node that connects sends two messages *)
(* and the one that listened sends one.                                      *)
EXTENDS Connection

TwoAndOne == [e \in Ends |-> IF e = "out" THEN 2 ELSE 1]
=============================================================================
