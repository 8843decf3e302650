------------------------------- MODULE LoopProofs ------------------------------
(* Loops, written as recursive functions of the number of rounds: that there *)
(* is a function that runs one, and what it keeps.  A claim about all rounds *)
(* is proved by the least round at which it would be wrong.                  *)
EXTENDS Integers, WellFoundedInduction, TLAPS

(* A set of numbers has a least element.                                     *)
LEMMA NatMin ==
  ASSUME NEW T \in SUBSET Nat, T # {}
  PROVE  \E n \in T : \A m \in T : n <= m
  <1> DEFINE R == OpToRel(<, Nat)
  <1>1. IsWellFoundedOn(R, Nat)
    BY NatLessThanWellFounded
  <1>2. \E n \in T : \A m \in T : ~(<<m, n>> \in R)
    <2> HIDE DEF R
    <2> QED BY <1>1, WFMin
  <1>3. \A m, n \in Nat : m < n => <<m, n>> \in R
    BY DEF OpToRel
  <1> HIDE DEF R
  <1>4. PICK n \in T : \A m \in T : ~(<<m, n>> \in R)
    BY <1>2
  <1>5. ASSUME NEW m \in T
        PROVE  n <= m
    <2>1. m \in Nat /\ n \in Nat /\ ~(<<m, n>> \in R)
      BY <1>4
    <2>2. ~(m < n)
      BY <1>3, <2>1
    <2> QED BY <2>1, <2>2
  <1> QED BY <1>4, <1>5

(* What the start has and every round keeps, the end has.                    *)
LEMMA LoopKeeps ==
  ASSUME NEW n \in Nat, NEW f, NEW T, f[0] \in T,
         \A i \in 1 .. n : f[i - 1] \in T => f[i] \in T
  PROVE  \A i \in 0 .. n : f[i] \in T
  <1> DEFINE Bad == {i \in 0 .. n : f[i] \notin T}
  <1> SUFFICES ASSUME Bad # {} PROVE FALSE
    OBVIOUS
  <1>1. Bad \in SUBSET Nat
    OBVIOUS
  <1>2. PICK i \in Bad : \A j \in Bad : i <= j
    BY <1>1, NatMin
  <1>3. i \in 1 .. n /\ i - 1 \in 0 .. n
    BY <1>2
  <1>4. i - 1 \notin Bad
    BY <1>2, <1>3
  <1> QED BY <1>2, <1>3, <1>4

(* f holds what each of n rounds leaves, from base on.                       *)
Loops(f, n, base, round) ==
  f = [i \in 0 .. n |-> IF i = 0 THEN base ELSE round[i][f[i - 1]]]

LEMMA LoopSteps ==
  ASSUME NEW n \in Nat, NEW f, NEW base, NEW round, Loops(f, n, base, round)
  PROVE  f[0] = base /\ \A i \in 1 .. n : f[i] = round[i][f[i - 1]]
  <1>1. \A i \in 0 .. n : f[i] = IF i = 0 THEN base ELSE round[i][f[i - 1]]
    BY DEF Loops
  <1>2. 0 \in 0 .. n /\ \A i \in 1 .. n : i \in 0 .. n /\ i # 0
    OBVIOUS
  <1> QED BY <1>1, <1>2

(* There is a function that runs the loop.                                   *)
LEMMA LoopRuns ==
  ASSUME NEW n \in Nat, NEW T, NEW base \in T, NEW round \in [1 .. n -> [T -> T]]
  PROVE  \E f \in [0 .. n -> T] : Loops(f, n, base, round)
  <1> DEFINE Runs(f, m) == f[0] = base /\ \A i \in 1 .. m : f[i] = round[i][f[i - 1]]
             Can(m) == \E f \in [0 .. m -> T] : Runs(f, m)
             Bad == {m \in 0 .. n : ~Can(m)}
  <1>1. Can(0)
    <2>1. [i \in 0 .. 0 |-> base] \in [0 .. 0 -> T] /\ Runs([i \in 0 .. 0 |-> base], 0)
      OBVIOUS
    <2> QED BY <2>1
  <1>2. ASSUME NEW m \in 1 .. n, Can(m - 1)
        PROVE  Can(m)
    <2>1. PICK f \in [0 .. m - 1 -> T] : Runs(f, m - 1)
      BY <1>2
    <2> DEFINE g == [i \in 0 .. m |-> IF i = m THEN round[m][f[m - 1]] ELSE f[i]]
    <2>2. f[m - 1] \in T /\ round[m] \in [T -> T]
      BY <1>2, <2>1
    <2>3. round[m][f[m - 1]] \in T
      BY <2>2
    <2>4. g \in [0 .. m -> T]
      BY <1>2, <2>1, <2>3
    <2>5. g[0] = base
      BY <1>2, <2>1
    <2>6. ASSUME NEW i \in 1 .. m
          PROVE  g[i] = round[i][g[i - 1]]
      <3>1. i - 1 \in 0 .. m - 1 /\ i - 1 # m /\ g[i - 1] = f[i - 1]
        BY <1>2, <2>6
      <3>2. CASE i = m
        BY <3>1, <3>2
      <3>3. CASE i # m
        <4>1. i \in 1 .. m - 1 /\ g[i] = f[i]
          BY <1>2, <2>6, <3>3
        <4> QED BY <2>1, <3>1, <4>1
      <3> QED BY <3>2, <3>3
    <2> HIDE DEF g
    <2> QED BY <2>4, <2>5, <2>6
  <1>3. Bad = {}
    <2> SUFFICES ASSUME Bad # {} PROVE FALSE
      OBVIOUS
    <2> HIDE DEF Can
    <2>1. PICK m \in Bad : \A j \in Bad : m <= j
      <3>1. Bad \in SUBSET Nat
        OBVIOUS
      <3> HIDE DEF Bad
      <3> QED BY <3>1, NatMin
    <2>2. m \in 1 .. n /\ ~Can(m)
      BY <1>1, <2>1
    <2>3. m - 1 \in 0 .. n /\ m - 1 \notin Bad
      BY <2>1, <2>2
    <2>4. Can(m - 1)
      BY <2>3
    <2> QED BY <1>2, <2>2, <2>4
  <1>4. PICK f \in [0 .. n -> T] : Runs(f, n)
    <2>1. n \in 0 .. n
      OBVIOUS
    <2> HIDE DEF Runs
    <2> QED BY <1>3, <2>1
  <1>5. Loops(f, n, base, round)
    BY <1>4 DEF Loops
  <1> QED BY <1>5
==============================================================================
