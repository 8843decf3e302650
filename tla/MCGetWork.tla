------------------------------ MODULE MCGetWork ------------------------------
(* A chain of three blocks, the last of which begins a period, with either   *)
(* storage on either network.                                                *)
EXTENDS GetWork

MCTop ==
  <<Header(PowLimit, 57, TRUE), Header(PowLimit, 58, TRUE), Header(Retarget(PowLimit, 1), 59, TRUE)>>

MCChains ==
  {[top |-> MCTop, backend |-> backend, testnet |-> testnet] :
     backend \in {"leveldb", "mongo"}, testnet \in BOOLEAN}
=============================================================================
