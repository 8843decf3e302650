----------------------- MODULE ScriptInterpreterProofs -----------------------
(* Theorems about ScriptInterpreter, for every set of pairs of scripts:      *)
(*   StacksStayInLimits    the stacks hold data of the lengths allowed, and  *)
(*                         the interpreter's state keeps its type            *)
(*   OpcodesComputeAsPictured  every opcode leaves the stack, and every      *)
(*                         number its bytes, that the list of opcodes says   *)
(*   SignaturesSignOwnScript  signatures are checked against the script that *)
(*                         runs, without the signatures                      *)
(* TypeOK alone is not inductive: the answer of a signature check is pushed  *)
(* in a later step than the one that takes its arguments, so TypeInv says    *)
(* that there is room for the result while the interpreter waits for it.     *)
(* The second rests on two facts about values: the digits of a number are    *)
(* worth it (WorthOfNumber), so that castBigint undoes bigintToBuffer, and   *)
(* fewer bytes are worth less than the number (ShorterIsSmaller).            *)
(* The third rests on SignInv, which counts the open conditionals, and on    *)
(* what the loops of findAndDelete and over the signatures leave, by         *)
(* induction over the script (BuiltByAppend).                                *)
EXTENDS ScriptInterpreter, SequenceTheorems, FiniteSetTheorems, LoopProofs

-----------------------------------------------------------------------------
(* Sequences                                                                 *)

(* A sequence without its last elements.                                     *)
LEMMA PoppedSeq ==
  ASSUME NEW S, NEW s \in Seq(S), NEW n \in 0 .. Len(s)
  PROVE  /\ Popped(s, n) \in Seq(S)
         /\ Len(Popped(s, n)) = Len(s) - n
         /\ \A i \in 1 .. Len(s) - n : Popped(s, n)[i] = s[i]
  <1>1. Len(s) - n \in Int /\ \A i \in 1 .. Len(s) - n : s[i] \in S
    BY ElementOfSeq
  <1>2. Len(s) - n \in Nat
    OBVIOUS
  <1>3. /\ SubSeq(s, 1, Len(s) - n) \in Seq(S)
        /\ Len(SubSeq(s, 1, Len(s) - n)) = IF 1 <= Len(s) - n THEN Len(s) - n - 1 + 1 ELSE 0
        /\ \A i \in 1 .. Len(s) - n - 1 + 1 : SubSeq(s, 1, Len(s) - n)[i] = s[1 + i - 1]
    BY <1>1, SubSeqProperties
  <1> QED BY <1>2, <1>3 DEF Popped

LEMMA FrontSeq ==
  ASSUME NEW S, NEW s \in Seq(S), s # <<>>
  PROVE  /\ Front(s) \in Seq(S)
         /\ Len(Front(s)) = Len(s) - 1
         /\ \A i \in 1 .. Len(s) - 1 : Front(s)[i] = s[i]
         /\ Last(s) \in S /\ Len(s) \in Nat \ {0} /\ Last(s) = s[Len(s)]
  <1>1. Len(s) \in Nat \ {0}
    BY EmptySeq
  <1>2. Front(s) = Popped(s, 1) /\ 1 \in 0 .. Len(s)
    BY <1>1 DEF Front, Popped
  <1>3. Last(s) \in S
    BY <1>1, ElementOfSeq DEF Last
  <1>4. /\ Popped(s, 1) \in Seq(S) /\ Len(Popped(s, 1)) = Len(s) - 1
        /\ \A i \in 1 .. Len(s) - 1 : Popped(s, 1)[i] = s[i]
    BY <1>2, PoppedSeq
  <1>5. Last(s) = s[Len(s)]
    BY DEF Last
  <1> QED BY <1>1, <1>2, <1>3, <1>4, <1>5

LEMMA TopSeq ==
  ASSUME NEW S, NEW s \in Seq(S), NEW n \in 1 .. Len(s)
  PROVE  Top(s, n) \in S
  <1>1. Len(s) - n + 1 \in 1 .. Len(s)
    BY LenProperties
  <1> QED BY <1>1, ElementOfSeq DEF Top

(* The top of what is left when m elements are gone.                         *)
LEMMA TopOfPopped ==
  ASSUME NEW S, NEW s \in Seq(S), NEW m \in 0 .. Len(s), NEW n \in 1 .. Len(s) - m
  PROVE  Top(Popped(s, m), n) = Top(s, m + n)
  <1>1. Len(Popped(s, m)) = Len(s) - m /\ Len(s) \in Nat
    BY PoppedSeq
  <1>2. Len(s) - m - n + 1 \in 1 .. Len(s) - m
    BY <1>1
  <1>3. Popped(s, m)[Len(s) - m - n + 1] = s[Len(s) - m - n + 1]
    BY <1>2, PoppedSeq
  <1> QED BY <1>1, <1>3 DEF Top

LEMMA AppendSeq ==
  ASSUME NEW S, NEW s \in Seq(S), NEW e \in S
  PROVE  /\ Append(s, e) \in Seq(S)
         /\ Len(Append(s, e)) = Len(s) + 1
         /\ \A i \in 1 .. Len(s) : Append(s, e)[i] = s[i]
         /\ Append(s, e)[Len(s) + 1] = e
  BY AppendProperties

(* t is s without its element n, with e before it, with e behind it, and     *)
(* with i and j exchanged.                                                   *)
Removed(S, t, s, n) ==
  /\ t \in Seq(S) /\ Len(t) = Len(s) - 1
  /\ \A i \in 1 .. n - 1 : t[i] = s[i]
  /\ \A i \in n .. Len(s) - 1 : t[i] = s[i + 1]

Inserted(S, t, s, n, e) ==
  /\ t \in Seq(S) /\ Len(t) = Len(s) + 1
  /\ \A i \in 1 .. n - 1 : t[i] = s[i]
  /\ t[n] = e
  /\ \A i \in n .. Len(s) : t[i + 1] = s[i]

Joined(S, t, s, e) ==
  /\ t \in Seq(S) /\ Len(t) = Len(s) + Len(e)
  /\ \A i \in 1 .. Len(s) : t[i] = s[i]
  /\ \A i \in 1 .. Len(e) : t[Len(s) + i] = e[i]

Exchanged(S, t, s, i, j) ==
  /\ t \in Seq(S) /\ Len(t) = Len(s)
  /\ t[i] = s[j] /\ t[j] = s[i]
  /\ \A k \in 1 .. Len(s) : k # i /\ k # j => t[k] = s[k]

LEMMA RemoveAtSeq ==
  ASSUME NEW S, NEW s \in Seq(S), NEW n \in 1 .. Len(s)
  PROVE  Removed(S, RemoveAt(s, n), s, n)
  <1>1. Len(s) \in Nat /\ \A i \in 1 .. Len(s) : s[i] \in S
    BY ElementOfSeq
  <1> DEFINE a == SubSeq(s, 1, n - 1)
             b == SubSeq(s, n + 1, Len(s))
  <1>2. /\ a \in Seq(S) /\ Len(a) = n - 1
        /\ \A i \in 1 .. n - 1 : a[i] = s[i]
    <2>1. \A i \in 1 .. n - 1 : s[i] \in S
      BY <1>1
    <2>2. /\ a \in Seq(S) /\ Len(a) = IF 1 <= n - 1 THEN n - 1 - 1 + 1 ELSE 0
          /\ \A i \in 1 .. n - 1 - 1 + 1 : a[i] = s[1 + i - 1]
      BY <2>1, SubSeqProperties
    <2> QED BY <2>2
  <1>3. /\ b \in Seq(S) /\ Len(b) = Len(s) - n
        /\ \A i \in 1 .. Len(s) - n : b[i] = s[n + i]
    <2>1. \A i \in n + 1 .. Len(s) : s[i] \in S
      BY <1>1
    <2>2. /\ b \in Seq(S) /\ Len(b) = IF n + 1 <= Len(s) THEN Len(s) - (n + 1) + 1 ELSE 0
          /\ \A i \in 1 .. Len(s) - (n + 1) + 1 : b[i] = s[n + 1 + i - 1]
      BY <1>1, <2>1, SubSeqProperties
    <2> QED BY <1>1, <2>2
  <1>4. RemoveAt(s, n) = a \o b
    BY DEF RemoveAt
  <1> HIDE DEF a, b
  <1>5. /\ a \o b \in Seq(S) /\ Len(a \o b) = Len(a) + Len(b)
        /\ \A i \in 1 .. Len(a) + Len(b) : (a \o b)[i] = IF i <= Len(a) THEN a[i] ELSE b[i - Len(a)]
    BY <1>2, <1>3, ConcatProperties
  <1>6. \A i \in n .. Len(s) - 1 : (a \o b)[i] = s[i + 1]
    <2> TAKE i \in n .. Len(s) - 1
    <2>1. i - Len(a) \in 1 .. Len(s) - n /\ i \in 1 .. Len(a) + Len(b) /\ ~(i <= Len(a))
      BY <1>1, <1>2, <1>3
    <2>2. b[i - Len(a)] = s[n + (i - Len(a))]
      BY <1>3, <2>1
    <2> QED BY <1>2, <1>5, <2>1, <2>2
  <1>7. \A i \in 1 .. n - 1 : (a \o b)[i] = s[i]
    BY <1>1, <1>2, <1>3, <1>5
  <1> QED BY <1>1, <1>2, <1>3, <1>4, <1>5, <1>6, <1>7 DEF Removed

LEMMA InsertAtSeq ==
  ASSUME NEW S, NEW s \in Seq(S), NEW n \in 1 .. Len(s), NEW e \in S
  PROVE  Inserted(S, InsertAt(s, n, e), s, n, e)
  <1>1. Len(s) \in Nat /\ \A i \in 1 .. Len(s) : s[i] \in S
    BY ElementOfSeq
  <1> DEFINE a == SubSeq(s, 1, n - 1)
             b == SubSeq(s, n, Len(s))
  <1>2. /\ a \in Seq(S) /\ Len(a) = n - 1
        /\ \A i \in 1 .. n - 1 : a[i] = s[i]
    <2>1. \A i \in 1 .. n - 1 : s[i] \in S
      BY <1>1
    <2>2. /\ a \in Seq(S) /\ Len(a) = IF 1 <= n - 1 THEN n - 1 - 1 + 1 ELSE 0
          /\ \A i \in 1 .. n - 1 - 1 + 1 : a[i] = s[1 + i - 1]
      BY <2>1, SubSeqProperties
    <2> QED BY <2>2
  <1>3. /\ b \in Seq(S) /\ Len(b) = Len(s) - n + 1
        /\ \A i \in 1 .. Len(s) - n + 1 : b[i] = s[n + i - 1]
    <2>1. \A i \in n .. Len(s) : s[i] \in S
      BY <1>1
    <2>2. /\ b \in Seq(S) /\ Len(b) = IF n <= Len(s) THEN Len(s) - n + 1 ELSE 0
          /\ \A i \in 1 .. Len(s) - n + 1 : b[i] = s[n + i - 1]
      BY <1>1, <2>1, SubSeqProperties
    <2> QED BY <1>1, <2>2
  <1>4. InsertAt(s, n, e) = (a \o <<e>>) \o b
    BY DEF InsertAt
  <1> HIDE DEF a, b
  <1>5. a \o <<e>> = Append(a, e)
    BY <1>2, AppendIsConcat
  <1> DEFINE c == Append(a, e)
  <1>6. /\ c \in Seq(S) /\ Len(c) = n
        /\ \A i \in 1 .. n - 1 : c[i] = s[i]
        /\ c[n] = e
    BY <1>2, AppendSeq
  <1> HIDE DEF c
  <1>7. /\ c \o b \in Seq(S) /\ Len(c \o b) = Len(c) + Len(b)
        /\ \A i \in 1 .. Len(c) + Len(b) : (c \o b)[i] = IF i <= Len(c) THEN c[i] ELSE b[i - Len(c)]
    BY <1>3, <1>6, ConcatProperties
  <1>8. InsertAt(s, n, e) = c \o b
    BY <1>4, <1>5 DEF c
  <1>9. \A i \in n .. Len(s) : (c \o b)[i + 1] = s[i]
    <2> TAKE i \in n .. Len(s)
    <2>1. i + 1 - n \in 1 .. Len(s) - n + 1 /\ i + 1 \in 1 .. Len(c) + Len(b) /\ ~(i + 1 <= Len(c))
      BY <1>1, <1>3, <1>6
    <2>2. b[i + 1 - n] = s[n + (i + 1 - n) - 1]
      BY <1>3, <2>1
    <2> QED BY <1>6, <1>7, <2>1, <2>2
  <1>10. (\A i \in 1 .. n - 1 : (c \o b)[i] = s[i]) /\ (c \o b)[n] = e
    BY <1>1, <1>3, <1>6, <1>7
  <1> QED BY <1>1, <1>3, <1>6, <1>7, <1>8, <1>9, <1>10 DEF Inserted

LEMMA ConcatSeq ==
  ASSUME NEW S, NEW s \in Seq(S), NEW e \in Seq(S)
  PROVE  Joined(S, s \o e, s, e)
  <1>1. /\ s \o e \in Seq(S) /\ Len(s \o e) = Len(s) + Len(e)
        /\ \A i \in 1 .. Len(s) + Len(e) : (s \o e)[i] = IF i <= Len(s) THEN s[i] ELSE e[i - Len(s)]
    BY ConcatProperties
  <1>2. Len(s) \in Nat /\ Len(e) \in Nat
    OBVIOUS
  <1>3. ASSUME NEW i \in 1 .. Len(e)
        PROVE  (s \o e)[Len(s) + i] = e[i]
    <2>1. Len(s) + i \in 1 .. Len(s) + Len(e) /\ ~(Len(s) + i <= Len(s)) /\ Len(s) + i - Len(s) = i
      BY <1>2
    <2> QED BY <1>1, <2>1
  <1>4. \A i \in 1 .. Len(s) : (s \o e)[i] = s[i]
    BY <1>1, <1>2
  <1> QED BY <1>1, <1>3, <1>4 DEF Joined

(* The elements at i and j change places.                                    *)
LEMMA SwappedSeq ==
  ASSUME NEW S, NEW s \in Seq(S), NEW a \in 1 .. Len(s), NEW b \in 1 .. Len(s),
         NEW i \in 1 .. Len(s), NEW j \in 1 .. Len(s),
         i + a = Len(s) + 1, j + b = Len(s) + 1, i # j
  PROVE  Exchanged(S, Swapped(s, a, b), s, i, j)
  <1> DEFINE x == s[i]
             y == s[j]
             t == [s EXCEPT ![i] = y]
             u == [t EXCEPT ![j] = x]
  <1>1. Len(s) - a + 1 = i /\ Len(s) - b + 1 = j
    OBVIOUS
  <1>2. Swapped(s, a, b) = u
    BY <1>1 DEF Swapped, Top
  <1> HIDE DEF u, t
  <1>3. x \in S /\ y \in S
    BY ElementOfSeq
  <1> HIDE DEF x, y
  <1>4. /\ t \in Seq(S) /\ Len(t) = Len(s)
        /\ \A k \in 1 .. Len(s) : t[k] = IF k = i THEN y ELSE s[k]
    BY <1>3, ExceptSeq DEF t
  <1>5. /\ u \in Seq(S) /\ Len(u) = Len(s)
        /\ \A k \in 1 .. Len(s) : u[k] = IF k = j THEN x ELSE t[k]
    BY <1>3, <1>4, ExceptSeq DEF u
  <1>6. u[i] = s[j] /\ u[j] = s[i] /\ \A k \in 1 .. Len(s) : k # i /\ k # j => u[k] = s[k]
    BY <1>4, <1>5 DEF x, y
  <1> QED BY <1>2, <1>5, <1>6 DEF Exchanged

-----------------------------------------------------------------------------
(* The opcodes that rearrange the stack                                      *)

(* t is the first m elements of s, and those behind them that after names.   *)
Moves(t, s, m, after) ==
  /\ Len(t) = m + Len(after)
  /\ \A i \in 1 .. m : t[i] = s[i]
  /\ \A i \in 1 .. Len(after) : t[m + i] = s[m + after[i]]

LEMMA MovesMeaning ==
  ASSUME NEW S, NEW s \in Seq(S), NEW t \in Seq(S), NEW m \in Nat, NEW size \in Nat,
         Len(s) = m + size, NEW after \in Seq(1 .. size), Moves(t, s, m, after)
  PROVE  t = Popped(s, size) \o [i \in DOMAIN after |-> Top(s, size - after[i] + 1)]
  <1> DEFINE p == Popped(s, size)
             q == [i \in DOMAIN after |-> Top(s, size - after[i] + 1)]
  <1>1. Len(after) \in Nat /\ DOMAIN after = 1 .. Len(after)
    OBVIOUS
  <1>2. p \in Seq(S) /\ Len(p) = m /\ \A i \in 1 .. m : p[i] = s[i]
    <2>1. size \in 0 .. Len(s) /\ Len(s) - size = m
      OBVIOUS
    <2> QED BY <2>1, PoppedSeq
  <1>3. ASSUME NEW i \in 1 .. Len(after)
        PROVE  Top(s, size - after[i] + 1) \in S /\ Top(s, size - after[i] + 1) = s[m + after[i]]
    <2>1. after[i] \in 1 .. size
      BY ElementOfSeq
    <2>2. size - after[i] + 1 \in 1 .. Len(s)
          /\ Len(s) - (size - after[i] + 1) + 1 = m + after[i]
      BY <1>1, <2>1
    <2>3. Top(s, size - after[i] + 1) \in S
      BY <2>2, TopSeq
    <2> QED BY <2>2, <2>3 DEF Top
  <1>4. q \in Seq(S) /\ Len(q) = Len(after) /\ \A i \in 1 .. Len(after) : q[i] = s[m + after[i]]
    BY <1>1, <1>3
  <1> HIDE DEF p, q
  <1>5. /\ p \o q \in Seq(S) /\ Len(p \o q) = m + Len(after)
        /\ \A i \in 1 .. m : (p \o q)[i] = p[i]
        /\ \A i \in 1 .. Len(after) : (p \o q)[m + i] = q[i]
    <2>1. p \in Seq(S) /\ q \in Seq(S)
      BY <1>2, <1>4
    <2>2. Joined(S, p \o q, p, q)
      BY <2>1, ConcatSeq
    <2> QED BY <1>2, <1>4, <2>2 DEF Joined
  <1> DEFINE r == p \o q
  <1> HIDE DEF r
  <1>6. r \in Seq(S) /\ Len(t) = Len(r)
    BY <1>5 DEF Moves, r
  <1>7. ASSUME NEW i \in 1 .. Len(t)
        PROVE  t[i] = r[i]
    <2>1. i \in Nat /\ Len(t) = m + Len(after)
      BY DEF Moves
    <2>2. CASE i <= m
      <3>1. i \in 1 .. m
        BY <2>1, <2>2
      <3>2. t[i] = s[i] /\ r[i] = p[i] /\ p[i] = s[i]
        BY <1>2, <1>5, <3>1 DEF Moves, r
      <3> QED BY <3>2
    <2>3. CASE ~(i <= m)
      <3>1. i - m \in 1 .. Len(after) /\ m + (i - m) = i
        BY <1>1, <2>1, <2>3
      <3>2. t[m + (i - m)] = s[m + after[i - m]]
        BY <3>1 DEF Moves
      <3>3. r[m + (i - m)] = q[i - m] /\ q[i - m] = s[m + after[i - m]]
        BY <1>4, <1>5, <3>1 DEF r
      <3> QED BY <3>1, <3>2, <3>3
    <2> QED BY <2>2, <2>3
  <1>8. t = r
    BY <1>6, <1>7, SeqEqual
  <1> QED BY <1>8 DEF p, q, r

Rearranging == {"OP_2DROP", "OP_2DUP", "OP_3DUP", "OP_2OVER", "OP_2ROT", "OP_2SWAP", "OP_DROP",
  "OP_DUP", "OP_NIP", "OP_OVER", "OP_ROT", "OP_SWAP", "OP_TUCK"}

LEMMA PicturesFit ==
  ASSUME NEW op \in Rearranging
  PROVE  /\ DOMAIN Needs = Rearranging /\ DOMAIN Picture = Rearranging
         /\ Picture[op][1] = Needs[op] /\ Needs[op] \in 1 .. 6
         /\ Picture[op][2] \in Seq(1 .. Needs[op])
  <1>1. DOMAIN Needs = Rearranging /\ DOMAIN Picture = Rearranging
    BY DEF Needs, Picture, Rearranging
  <1>2. Picture[op][1] = Needs[op] /\ Needs[op] \in 1 .. 6
    BY DEF Needs, Picture, Rearranging
  <1>3. Picture[op][2] \in Seq(1 .. Needs[op])
    <2>1. CASE op = "OP_2DROP"
      BY <2>1 DEF Needs, Picture
    <2>2. CASE op = "OP_2DUP"
      BY <2>2 DEF Needs, Picture
    <2>3. CASE op = "OP_3DUP"
      BY <2>3 DEF Needs, Picture
    <2>4. CASE op = "OP_2OVER"
      BY <2>4 DEF Needs, Picture
    <2>5. CASE op = "OP_2ROT"
      BY <2>5 DEF Needs, Picture
    <2>6. CASE op = "OP_2SWAP"
      BY <2>6 DEF Needs, Picture
    <2>7. CASE op = "OP_DROP"
      BY <2>7 DEF Needs, Picture
    <2>8. CASE op = "OP_DUP"
      BY <2>8 DEF Needs, Picture
    <2>9. CASE op = "OP_NIP"
      BY <2>9 DEF Needs, Picture
    <2>10. CASE op = "OP_OVER"
      BY <2>10 DEF Needs, Picture
    <2>11. CASE op = "OP_ROT"
      BY <2>11 DEF Needs, Picture
    <2>12. CASE op = "OP_SWAP"
      BY <2>12 DEF Needs, Picture
    <2>13. CASE op = "OP_TUCK"
      BY <2>13 DEF Needs, Picture
    <2> QED BY <2>1, <2>2, <2>3, <2>4, <2>5, <2>6, <2>7, <2>8, <2>9, <2>10, <2>11, <2>12, <2>13 DEF Rearranging
  <1> QED BY <1>1, <1>2, <1>3

(* Two and three elements more.                                              *)
LEMMA PushTwo ==
  ASSUME NEW S, NEW s \in Seq(S), NEW a \in S, NEW b \in S, NEW n \in Nat, Len(s) = n
  PROVE  /\ s \o <<a, b>> \in Seq(S) /\ Len(s \o <<a, b>>) = n + 2
         /\ \A i \in 1 .. n : (s \o <<a, b>>)[i] = s[i]
         /\ (s \o <<a, b>>)[n + 1] = a /\ (s \o <<a, b>>)[n + 2] = b
  <1> DEFINE e == <<a, b>>
  <1>1. e \in Seq(S) /\ Len(e) = 2 /\ e[1] = a /\ e[2] = b
    OBVIOUS
  <1> HIDE DEF e
  <1>2. e \in Seq(S)
    BY <1>1
  <1>3. Joined(S, s \o e, s, e)
    BY <1>2, ConcatSeq
  <1> DEFINE t == s \o e
  <1> HIDE DEF t
  <1>4. /\ t \in Seq(S) /\ Len(t) = n + 2 /\ \A i \in 1 .. n : t[i] = s[i]
        /\ t[n + 1] = a /\ t[n + 2] = b
    BY <1>1, <1>3 DEF t, Joined
  <1> QED BY <1>4 DEF t, e

LEMMA PushThree ==
  ASSUME NEW S, NEW s \in Seq(S), NEW a \in S, NEW b \in S, NEW c \in S, NEW n \in Nat, Len(s) = n
  PROVE  /\ s \o <<a, b, c>> \in Seq(S) /\ Len(s \o <<a, b, c>>) = n + 3
         /\ \A i \in 1 .. n : (s \o <<a, b, c>>)[i] = s[i]
         /\ (s \o <<a, b, c>>)[n + 1] = a /\ (s \o <<a, b, c>>)[n + 2] = b
         /\ (s \o <<a, b, c>>)[n + 3] = c
  <1> DEFINE e == <<a, b, c>>
  <1>1. e \in Seq(S) /\ Len(e) = 3 /\ e[1] = a /\ e[2] = b /\ e[3] = c
    OBVIOUS
  <1> HIDE DEF e
  <1>2. e \in Seq(S)
    BY <1>1
  <1>3. Joined(S, s \o e, s, e)
    BY <1>2, ConcatSeq
  <1> DEFINE t == s \o e
  <1> HIDE DEF t
  <1>4. /\ t \in Seq(S) /\ Len(t) = n + 3 /\ \A i \in 1 .. n : t[i] = s[i]
        /\ t[n + 1] = a /\ t[n + 2] = b /\ t[n + 3] = c
    <2>1. n \in Nat /\ Len(s) = n /\ Len(e) = 3 /\ \A i \in 1 .. 3 : i \in 1 .. Len(e)
      BY <1>1
    <2>2. t[n + 1] = e[1] /\ t[n + 2] = e[2] /\ t[n + 3] = e[3]
      BY <1>3, <2>1 DEF t, Joined
    <2> QED BY <1>1, <1>3, <2>1, <2>2 DEF t, Joined
  <1> QED BY <1>4 DEF t, e

(* Moves from its elements, at most six of them new.                         *)
At(t, s, n, i, j) == t[n + i] = s[n + j]

FourAt(t, s, m, a, b, c, d) ==
  /\ Len(t) = m + 4 /\ \A i \in 1 .. m : t[i] = s[i]
  /\ At(t, s, m, 1, a) /\ At(t, s, m, 2, b) /\ At(t, s, m, 3, c) /\ At(t, s, m, 4, d)

LEMMA MovesFour ==
  ASSUME NEW t, NEW s, NEW m \in Nat, NEW a, NEW b, NEW c, NEW d, FourAt(t, s, m, a, b, c, d)
  PROVE  Moves(t, s, m, <<a, b, c, d>>)
  <1> DEFINE after == <<a, b, c, d>>
  <1>1. Len(after) = 4 /\ after[1] = a /\ after[2] = b /\ after[3] = c /\ after[4] = d
    OBVIOUS
  <1> HIDE DEF after
  <1>2. ASSUME NEW i \in 1 .. Len(after)
        PROVE  At(t, s, m, i, after[i])
    BY <1>1 DEF FourAt
  <1>3. Moves(t, s, m, after)
    BY <1>1, <1>2 DEF Moves, At, FourAt
  <1> QED BY <1>3 DEF after

SixAt(t, s, m, a, b, c, d, e, f) ==
  /\ Len(t) = m + 6 /\ \A i \in 1 .. m : t[i] = s[i]
  /\ At(t, s, m, 1, a) /\ At(t, s, m, 2, b) /\ At(t, s, m, 3, c) /\ At(t, s, m, 4, d)
  /\ At(t, s, m, 5, e) /\ At(t, s, m, 6, f)

LEMMA MovesSix ==
  ASSUME NEW t, NEW s, NEW m \in Nat, NEW a, NEW b, NEW c, NEW d, NEW e, NEW f,
         SixAt(t, s, m, a, b, c, d, e, f)
  PROVE  Moves(t, s, m, <<a, b, c, d, e, f>>)
  <1> DEFINE after == <<a, b, c, d, e, f>>
  <1>1. /\ Len(after) = 6 /\ after[1] = a /\ after[2] = b /\ after[3] = c /\ after[4] = d
        /\ after[5] = e /\ after[6] = f
    OBVIOUS
  <1> HIDE DEF after
  <1>2. ASSUME NEW i \in 1 .. Len(after)
        PROVE  At(t, s, m, i, after[i])
    BY <1>1 DEF SixAt
  <1>3. Moves(t, s, m, after)
    BY <1>1, <1>2 DEF Moves, At, SixAt
  <1> QED BY <1>3 DEF after

LEMMA DropMoves ==
  ASSUME NEW S, NEW s \in Seq(S), NEW m \in Nat, Len(s) = m + 1
  PROVE  Popped(s, 1) \in Seq(S) /\ Moves(Popped(s, 1), s, m, <<>>)
  <1> DEFINE t == Popped(s, 1)
  <1>1. 1 \in 0 .. Len(s) /\ Len(s) - 1 = m
    OBVIOUS
  <1>2. t \in Seq(S) /\ Len(t) = m /\ \A i \in 1 .. m : t[i] = s[i]
    BY <1>1, PoppedSeq
  <1> HIDE DEF t
  <1>3. Moves(t, s, m, <<>>)
    BY <1>2 DEF Moves
  <1> QED BY <1>2, <1>3 DEF t

LEMMA TwoDropMoves ==
  ASSUME NEW S, NEW s \in Seq(S), NEW m \in Nat, Len(s) = m + 2
  PROVE  Popped(s, 2) \in Seq(S) /\ Moves(Popped(s, 2), s, m, <<>>)
  <1> DEFINE t == Popped(s, 2)
  <1>1. 2 \in 0 .. Len(s) /\ Len(s) - 2 = m
    OBVIOUS
  <1>2. t \in Seq(S) /\ Len(t) = m /\ \A i \in 1 .. m : t[i] = s[i]
    BY <1>1, PoppedSeq
  <1> HIDE DEF t
  <1>3. Moves(t, s, m, <<>>)
    BY <1>2 DEF Moves
  <1> QED BY <1>2, <1>3 DEF t

LEMMA DupMoves ==
  ASSUME NEW S, NEW s \in Seq(S), NEW m \in Nat, Len(s) = m + 1
  PROVE  Append(s, Top(s, 1)) \in Seq(S) /\ Moves(Append(s, Top(s, 1)), s, m, <<1, 1>>)
  <1>1. Top(s, 1) \in S /\ Top(s, 1) = s[m + 1]
    BY TopSeq DEF Top
  <1> DEFINE t == Append(s, Top(s, 1))
  <1>2. t \in Seq(S) /\ Len(t) = m + 2 /\ (\A i \in 1 .. m + 1 : t[i] = s[i]) /\ t[m + 2] = s[m + 1]
    BY <1>1, AppendSeq
  <1> HIDE DEF t
  <1>3. Moves(t, s, m, <<1, 1>>)
    BY <1>2 DEF Moves
  <1> QED BY <1>2, <1>3 DEF t

LEMMA OverMoves ==
  ASSUME NEW S, NEW s \in Seq(S), NEW m \in Nat, Len(s) = m + 2
  PROVE  Append(s, Top(s, 2)) \in Seq(S) /\ Moves(Append(s, Top(s, 2)), s, m, <<1, 2, 1>>)
  <1>1. Top(s, 2) \in S /\ Top(s, 2) = s[m + 1]
    BY TopSeq DEF Top
  <1> DEFINE t == Append(s, Top(s, 2))
  <1>2. t \in Seq(S) /\ Len(t) = m + 3 /\ (\A i \in 1 .. m + 2 : t[i] = s[i]) /\ t[m + 3] = s[m + 1]
    BY <1>1, AppendSeq
  <1> HIDE DEF t
  <1>3. Moves(t, s, m, <<1, 2, 1>>)
    BY <1>2 DEF Moves
  <1> QED BY <1>2, <1>3 DEF t

LEMMA TwoDupMoves ==
  ASSUME NEW S, NEW s \in Seq(S), NEW m \in Nat, Len(s) = m + 2
  PROVE  (s \o <<Top(s, 2), Top(s, 1)>>) \in Seq(S) /\ Moves((s \o <<Top(s, 2), Top(s, 1)>>), s, m, <<1, 2, 1, 2>>)
  <1>1. Top(s, 2) \in S /\ Top(s, 1) \in S
    BY TopSeq
  <1>2. Top(s, 2) = s[m + 1] /\ Top(s, 1) = s[m + 2]
    BY DEF Top
  <1> DEFINE t == s \o <<Top(s, 2), Top(s, 1)>>
  <1>3. /\ t \in Seq(S) /\ Len(t) = m + 4 /\ \A i \in 1 .. m + 2 : t[i] = s[i]
        /\ t[m + 2 + 1] = Top(s, 2) /\ t[m + 2 + 2] = Top(s, 1)
    BY <1>1, PushTwo
  <1> HIDE DEF t
  <1>4. FourAt(t, s, m, 1, 2, 1, 2)
    BY <1>2, <1>3 DEF FourAt, At
  <1>5. Moves(t, s, m, <<1, 2, 1, 2>>)
    BY <1>4, MovesFour
  <1> QED BY <1>3, <1>5 DEF t

LEMMA ThreeDupMoves ==
  ASSUME NEW S, NEW s \in Seq(S), NEW m \in Nat, Len(s) = m + 3
  PROVE  (s \o <<Top(s, 3), Top(s, 2), Top(s, 1)>>) \in Seq(S) /\ Moves((s \o <<Top(s, 3), Top(s, 2), Top(s, 1)>>), s, m, <<1, 2, 3, 1, 2, 3>>)
  <1>1. Top(s, 3) \in S /\ Top(s, 2) \in S /\ Top(s, 1) \in S
    BY TopSeq
  <1>2. Top(s, 3) = s[m + 1] /\ Top(s, 2) = s[m + 2] /\ Top(s, 1) = s[m + 3]
    BY DEF Top
  <1> DEFINE t == s \o <<Top(s, 3), Top(s, 2), Top(s, 1)>>
  <1>3. /\ t \in Seq(S) /\ Len(t) = m + 6 /\ \A i \in 1 .. m + 3 : t[i] = s[i]
        /\ t[m + 3 + 1] = Top(s, 3) /\ t[m + 3 + 2] = Top(s, 2) /\ t[m + 3 + 3] = Top(s, 1)
    BY <1>1, PushThree
  <1> HIDE DEF t
  <1>4. SixAt(t, s, m, 1, 2, 3, 1, 2, 3)
    BY <1>2, <1>3 DEF SixAt, At
  <1>5. Moves(t, s, m, <<1, 2, 3, 1, 2, 3>>)
    BY <1>4, MovesSix
  <1> QED BY <1>3, <1>5 DEF t

LEMMA TwoOverMoves ==
  ASSUME NEW S, NEW s \in Seq(S), NEW m \in Nat, Len(s) = m + 4
  PROVE  (s \o <<Top(s, 4), Top(s, 3)>>) \in Seq(S) /\ Moves((s \o <<Top(s, 4), Top(s, 3)>>), s, m, <<1, 2, 3, 4, 1, 2>>)
  <1>1. Top(s, 4) \in S /\ Top(s, 3) \in S
    BY TopSeq
  <1>2. Top(s, 4) = s[m + 1] /\ Top(s, 3) = s[m + 2]
    BY DEF Top
  <1> DEFINE t == s \o <<Top(s, 4), Top(s, 3)>>
  <1>3. /\ t \in Seq(S) /\ Len(t) = m + 6 /\ \A i \in 1 .. m + 4 : t[i] = s[i]
        /\ t[m + 4 + 1] = Top(s, 4) /\ t[m + 4 + 2] = Top(s, 3)
    BY <1>1, PushTwo
  <1> HIDE DEF t
  <1>4. SixAt(t, s, m, 1, 2, 3, 4, 1, 2)
    BY <1>2, <1>3 DEF SixAt, At
  <1>5. Moves(t, s, m, <<1, 2, 3, 4, 1, 2>>)
    BY <1>4, MovesSix
  <1> QED BY <1>3, <1>5 DEF t

LEMMA SwapMoves ==
  ASSUME NEW S, NEW s \in Seq(S), NEW m \in Nat, Len(s) = m + 2
  PROVE  Swapped(s, 2, 1) \in Seq(S) /\ Moves(Swapped(s, 2, 1), s, m, <<2, 1>>)
  <1> DEFINE t == Swapped(s, 2, 1)
  <1>1. /\ t \in Seq(S) /\ Len(t) = m + 2 /\ \A i \in 1 .. m : t[i] = s[i]
        /\ t[m + 1] = s[m + 2] /\ t[m + 2] = s[m + 1]
    <2>1. \A i \in 1 .. 2 : i \in 1 .. Len(s) /\ m + i \in 1 .. Len(s)
      OBVIOUS
    <2>2. Exchanged(S, t, s, m + 1, m + 2)
      <3>1. 2 \in 1 .. Len(s) /\ 1 \in 1 .. Len(s) /\ m + 1 \in 1 .. Len(s) /\ m + 2 \in 1 .. Len(s)
        BY <2>1
      <3>2. m + 1 + 2 = Len(s) + 1 /\ m + 2 + 1 = Len(s) + 1 /\ m + 1 # m + 2
        OBVIOUS
      <3> QED BY <3>1, <3>2, SwappedSeq
    <2> HIDE DEF t
    <2> QED BY <2>1, <2>2 DEF Exchanged
  <1> HIDE DEF t
  <1>2. Moves(t, s, m, <<2, 1>>)
    BY <1>1 DEF Moves
  <1> QED BY <1>1, <1>2 DEF t

LEMMA RotMoves ==
  ASSUME NEW S, NEW s \in Seq(S), NEW m \in Nat, Len(s) = m + 3
  PROVE  Swapped(Swapped(s, 3, 2), 2, 1) \in Seq(S) /\ Moves(Swapped(Swapped(s, 3, 2), 2, 1), s, m, <<2, 3, 1>>)
  <1> DEFINE t == Swapped(s, 3, 2)
             u == Swapped(t, 2, 1)
  <1>1. /\ t \in Seq(S) /\ Len(t) = m + 3 /\ \A i \in 1 .. m : t[i] = s[i]
        /\ t[m + 1] = s[m + 2] /\ t[m + 2] = s[m + 1] /\ t[m + 3] = s[m + 3]
    <2>1. \A i \in 1 .. 3 : i \in 1 .. Len(s) /\ m + i \in 1 .. Len(s)
      OBVIOUS
    <2>2. Exchanged(S, t, s, m + 1, m + 2)
      <3>1. 3 \in 1 .. Len(s) /\ 2 \in 1 .. Len(s) /\ m + 1 \in 1 .. Len(s) /\ m + 2 \in 1 .. Len(s)
        BY <2>1
      <3>2. m + 1 + 3 = Len(s) + 1 /\ m + 2 + 2 = Len(s) + 1 /\ m + 1 # m + 2
        OBVIOUS
      <3> QED BY <3>1, <3>2, SwappedSeq
    <2> HIDE DEF t
    <2> QED BY <2>1, <2>2 DEF Exchanged
  <1> HIDE DEF t
  <1>2. /\ u \in Seq(S) /\ Len(u) = m + 3 /\ \A i \in 1 .. m + 1 : u[i] = t[i]
        /\ u[m + 2] = t[m + 3] /\ u[m + 3] = t[m + 2]
    <2>1. \A i \in 1 .. 3 : i \in 1 .. Len(t) /\ m + i \in 1 .. Len(t)
      BY <1>1
    <2>2. Exchanged(S, u, t, m + 2, m + 3)
      <3>1. 2 \in 1 .. Len(t) /\ 1 \in 1 .. Len(t) /\ m + 2 \in 1 .. Len(t) /\ m + 3 \in 1 .. Len(t)
        BY <1>1, <2>1
      <3>2. m + 2 + 2 = Len(t) + 1 /\ m + 3 + 1 = Len(t) + 1 /\ m + 2 # m + 3
        BY <1>1
      <3> QED BY <1>1, <3>1, <3>2, SwappedSeq
    <2> HIDE DEF u
    <2> QED BY <1>1, <2>1, <2>2 DEF Exchanged
  <1> HIDE DEF u
  <1>3. Moves(u, s, m, <<2, 3, 1>>)
    BY <1>1, <1>2 DEF Moves
  <1> QED BY <1>2, <1>3 DEF t, u

LEMMA TwoSwapMoves ==
  ASSUME NEW S, NEW s \in Seq(S), NEW m \in Nat, Len(s) = m + 4
  PROVE  Swapped(Swapped(s, 4, 2), 3, 1) \in Seq(S) /\ Moves(Swapped(Swapped(s, 4, 2), 3, 1), s, m, <<3, 4, 1, 2>>)
  <1> DEFINE t == Swapped(s, 4, 2)
             u == Swapped(t, 3, 1)
  <1>1. /\ t \in Seq(S) /\ Len(t) = m + 4 /\ \A i \in 1 .. m : t[i] = s[i]
        /\ t[m + 1] = s[m + 3] /\ t[m + 3] = s[m + 1]
        /\ t[m + 2] = s[m + 2] /\ t[m + 4] = s[m + 4]
    <2>1. \A i \in 1 .. 4 : i \in 1 .. Len(s) /\ m + i \in 1 .. Len(s)
      OBVIOUS
    <2>2. Exchanged(S, t, s, m + 1, m + 3)
      <3>1. 4 \in 1 .. Len(s) /\ 2 \in 1 .. Len(s) /\ m + 1 \in 1 .. Len(s) /\ m + 3 \in 1 .. Len(s)
        BY <2>1
      <3>2. m + 1 + 4 = Len(s) + 1 /\ m + 3 + 2 = Len(s) + 1 /\ m + 1 # m + 3
        OBVIOUS
      <3> QED BY <3>1, <3>2, SwappedSeq
    <2> HIDE DEF t
    <2>3. t \in Seq(S) /\ Len(t) = Len(s)
      BY <2>2 DEF Exchanged
    <2>4. t[m + 1] = s[m + 3] /\ t[m + 3] = s[m + 1]
      BY <2>2 DEF Exchanged
    <2>5. \A i \in 1 .. Len(s) : i # m + 1 /\ i # m + 3 => t[i] = s[i]
      BY <2>2 DEF Exchanged
    <2>6. \A i \in 1 .. m : i \in 1 .. Len(s) /\ i # m + 1 /\ i # m + 3
      OBVIOUS
    <2>7. /\ m + 2 \in 1 .. Len(s) /\ m + 2 # m + 1 /\ m + 2 # m + 3
          /\ m + 4 \in 1 .. Len(s) /\ m + 4 # m + 1 /\ m + 4 # m + 3
      BY <2>1
    <2>8. \A i \in 1 .. m : t[i] = s[i]
      BY <2>5, <2>6
    <2>9. t[m + 2] = s[m + 2] /\ t[m + 4] = s[m + 4]
      BY <2>5, <2>7
    <2> QED BY <2>3, <2>4, <2>8, <2>9
  <1> HIDE DEF t
  <1>2. /\ u \in Seq(S) /\ Len(u) = m + 4 /\ \A i \in 1 .. m + 1 : u[i] = t[i]
        /\ u[m + 2] = t[m + 4] /\ u[m + 4] = t[m + 2] /\ u[m + 3] = t[m + 3]
    <2>1. \A i \in 1 .. 4 : i \in 1 .. Len(t) /\ m + i \in 1 .. Len(t)
      BY <1>1
    <2>2. Exchanged(S, u, t, m + 2, m + 4)
      <3>1. 3 \in 1 .. Len(t) /\ 1 \in 1 .. Len(t) /\ m + 2 \in 1 .. Len(t) /\ m + 4 \in 1 .. Len(t)
        BY <1>1, <2>1
      <3>2. m + 2 + 3 = Len(t) + 1 /\ m + 4 + 1 = Len(t) + 1 /\ m + 2 # m + 4
        BY <1>1
      <3> QED BY <1>1, <3>1, <3>2, SwappedSeq
    <2> HIDE DEF u
    <2> QED BY <1>1, <2>1, <2>2 DEF Exchanged
  <1> HIDE DEF u
  <1>3. FourAt(u, s, m, 3, 4, 1, 2)
    BY <1>1, <1>2 DEF FourAt, At
  <1>4. Moves(u, s, m, <<3, 4, 1, 2>>)
    BY <1>3, MovesFour
  <1> QED BY <1>2, <1>4 DEF t, u

LEMMA NipMoves ==
  ASSUME NEW S, NEW s \in Seq(S), NEW m \in Nat, Len(s) = m + 2
  PROVE  RemoveAt(s, Len(s) - 1) \in Seq(S) /\ Moves(RemoveAt(s, Len(s) - 1), s, m, <<2>>)
  <1> DEFINE t == RemoveAt(s, Len(s) - 1)
  <1>1. /\ t \in Seq(S) /\ Len(t) = m + 1 /\ \A i \in 1 .. m : t[i] = s[i]
        /\ t[m + 1] = s[m + 2]
    <2>1. Len(s) - 1 \in 1 .. Len(s) /\ Len(s) - 1 = m + 1
      OBVIOUS
    <2>2. Removed(S, t, s, Len(s) - 1)
      BY <2>1, RemoveAtSeq
    <2> HIDE DEF t
    <2> QED BY <2>1, <2>2 DEF Removed
  <1> HIDE DEF t
  <1>2. Moves(t, s, m, <<2>>)
    BY <1>1 DEF Moves
  <1> QED BY <1>1, <1>2 DEF t

LEMMA TuckMoves ==
  ASSUME NEW S, NEW s \in Seq(S), NEW m \in Nat, Len(s) = m + 2
  PROVE  InsertAt(s, Len(s) - 1, Top(s, 1)) \in Seq(S) /\ Moves(InsertAt(s, Len(s) - 1, Top(s, 1)), s, m, <<2, 1, 2>>)
  <1> DEFINE t == InsertAt(s, Len(s) - 1, Top(s, 1))
  <1>1. Top(s, 1) \in S /\ Top(s, 1) = s[m + 2]
    BY TopSeq DEF Top
  <1>2. /\ t \in Seq(S) /\ Len(t) = m + 3 /\ \A i \in 1 .. m : t[i] = s[i]
        /\ t[m + 1] = s[m + 2] /\ t[m + 2] = s[m + 1] /\ t[m + 3] = s[m + 2]
    <2>1. Len(s) - 1 \in 1 .. Len(s) /\ Len(s) - 1 = m + 1
      OBVIOUS
    <2>2. Inserted(S, t, s, Len(s) - 1, Top(s, 1))
      BY <1>1, <2>1, InsertAtSeq
    <2> HIDE DEF t
    <2> QED BY <1>1, <2>1, <2>2 DEF Inserted
  <1> HIDE DEF t
  <1>3. Moves(t, s, m, <<2, 1, 2>>)
    BY <1>2 DEF Moves
  <1> QED BY <1>2, <1>3 DEF t

LEMMA TwoRotMoves ==
  ASSUME NEW S, NEW s \in Seq(S), NEW m \in Nat, Len(s) = m + 6
  PROVE  (RemoveAt(RemoveAt(s, Len(s) - 5), Len(s) - 5) \o <<Top(s, 6), Top(s, 5)>>) \in Seq(S) /\ Moves((RemoveAt(RemoveAt(s, Len(s) - 5), Len(s) - 5) \o <<Top(s, 6), Top(s, 5)>>), s, m, <<3, 4, 5, 6, 1, 2>>)
  <1> DEFINE t == RemoveAt(s, Len(s) - 5)
             u == RemoveAt(t, Len(s) - 5)
             v == u \o <<Top(s, 6), Top(s, 5)>>
  <1>1. /\ Top(s, 6) \in S /\ Top(s, 5) \in S
        /\ Top(s, 6) = s[m + 1] /\ Top(s, 5) = s[m + 2]
    BY TopSeq DEF Top
  <1>2. /\ t \in Seq(S) /\ Len(t) = m + 5 /\ \A i \in 1 .. m : t[i] = s[i]
        /\ \A i \in m + 1 .. m + 5 : t[i] = s[i + 1]
    <2>1. Len(s) - 5 \in 1 .. Len(s) /\ Len(s) - 5 = m + 1
      OBVIOUS
    <2>2. Removed(S, t, s, Len(s) - 5)
      BY <2>1, RemoveAtSeq
    <2> HIDE DEF t
    <2> QED BY <2>1, <2>2 DEF Removed
  <1> HIDE DEF t
  <1>3. /\ u \in Seq(S) /\ Len(u) = m + 4 /\ \A i \in 1 .. m : u[i] = t[i]
        /\ \A i \in m + 1 .. m + 4 : u[i] = t[i + 1]
    <2>1. Len(s) - 5 \in 1 .. Len(t) /\ Len(s) - 5 = m + 1
      BY <1>2
    <2>2. Removed(S, u, t, Len(s) - 5)
      BY <1>2, <2>1, RemoveAtSeq
    <2> HIDE DEF u
    <2> QED BY <1>2, <2>1, <2>2 DEF Removed
  <1> HIDE DEF u
  <1>4. /\ u[m + 1] = s[m + 3] /\ u[m + 2] = s[m + 4] /\ u[m + 3] = s[m + 5] /\ u[m + 4] = s[m + 6]
        /\ \A i \in 1 .. m : u[i] = s[i]
    BY <1>2, <1>3
  <1>5. /\ v \in Seq(S) /\ Len(v) = m + 6 /\ \A i \in 1 .. m + 4 : v[i] = u[i]
        /\ v[m + 5] = s[m + 1] /\ v[m + 6] = s[m + 2]
    <2>1. u \in Seq(S) /\ Len(u) = m + 4 /\ m + 4 \in Nat
      BY <1>3
    <2>2. /\ v \in Seq(S) /\ Len(v) = m + 4 + 2 /\ \A i \in 1 .. m + 4 : v[i] = u[i]
          /\ v[m + 4 + 1] = Top(s, 6) /\ v[m + 4 + 2] = Top(s, 5)
      BY <1>1, <2>1, PushTwo
    <2> HIDE DEF v
    <2> QED BY <1>1, <2>2
  <1> HIDE DEF v
  <1>6. SixAt(v, s, m, 3, 4, 5, 6, 1, 2)
    BY <1>4, <1>5 DEF SixAt, At
  <1>7. Moves(v, s, m, <<3, 4, 5, 6, 1, 2>>)
    BY <1>6, MovesSix
  <1> QED BY <1>5, <1>7 DEF t, u, v

(* The opcodes that rearrange the stack do what Picture says of them.        *)
LEMMA RearrangedMoves ==
  ASSUME NEW S, NEW s \in Seq(S), NEW op \in DOMAIN Needs, Len(s) >= Needs[op]
  PROVE  /\ Rearranged(op, s) \in Seq(S)
         /\ Rearranged(op, s) =
              Popped(s, Picture[op][1])
              \o [i \in DOMAIN Picture[op][2] |-> Top(s, Picture[op][1] - Picture[op][2][i] + 1)]
  <1>1. op \in Rearranging
    BY DEF Rearranging, Needs
  <1>2. PICK m \in Nat : Len(s) = m + Needs[op]
    <2>1. Needs[op] \in Nat /\ Len(s) \in Nat
      BY <1>1, PicturesFit
    <2>2. Len(s) - Needs[op] \in Nat /\ Len(s) = (Len(s) - Needs[op]) + Needs[op]
      BY <2>1
    <2> QED BY <2>2
  <1>3. Rearranged(op, s) \in Seq(S) /\ Moves(Rearranged(op, s), s, m, Picture[op][2])
    <2>1. CASE op = "OP_2DROP"
      <3>1. Rearranged(op, s) = Popped(s, 2) /\ Picture[op][2] = <<>>
        BY <2>1 DEF Rearranged, Picture
      <3>2. Len(s) = m + 2
        BY <1>2, <2>1 DEF Needs
      <3> QED BY <3>1, <3>2, TwoDropMoves
    <2>2. CASE op = "OP_2DUP"
      <3>1. Rearranged(op, s) = (s \o <<Top(s, 2), Top(s, 1)>>) /\ Picture[op][2] = <<1, 2, 1, 2>>
        BY <2>2 DEF Rearranged, Picture
      <3>2. Len(s) = m + 2
        BY <1>2, <2>2 DEF Needs
      <3> QED BY <3>1, <3>2, TwoDupMoves
    <2>3. CASE op = "OP_3DUP"
      <3>1. Rearranged(op, s) = (s \o <<Top(s, 3), Top(s, 2), Top(s, 1)>>) /\ Picture[op][2] = <<1, 2, 3, 1, 2, 3>>
        BY <2>3 DEF Rearranged, Picture
      <3>2. Len(s) = m + 3
        BY <1>2, <2>3 DEF Needs
      <3> QED BY <3>1, <3>2, ThreeDupMoves
    <2>4. CASE op = "OP_2OVER"
      <3>1. Rearranged(op, s) = (s \o <<Top(s, 4), Top(s, 3)>>) /\ Picture[op][2] = <<1, 2, 3, 4, 1, 2>>
        BY <2>4 DEF Rearranged, Picture
      <3>2. Len(s) = m + 4
        BY <1>2, <2>4 DEF Needs
      <3> QED BY <3>1, <3>2, TwoOverMoves
    <2>5. CASE op = "OP_2ROT"
      <3>1. Rearranged(op, s) = (RemoveAt(RemoveAt(s, Len(s) - 5), Len(s) - 5) \o <<Top(s, 6), Top(s, 5)>>) /\ Picture[op][2] = <<3, 4, 5, 6, 1, 2>>
        BY <2>5 DEF Rearranged, Picture
      <3>2. Len(s) = m + 6
        BY <1>2, <2>5 DEF Needs
      <3> QED BY <3>1, <3>2, TwoRotMoves
    <2>6. CASE op = "OP_2SWAP"
      <3>1. Rearranged(op, s) = Swapped(Swapped(s, 4, 2), 3, 1) /\ Picture[op][2] = <<3, 4, 1, 2>>
        BY <2>6 DEF Rearranged, Picture
      <3>2. Len(s) = m + 4
        BY <1>2, <2>6 DEF Needs
      <3> QED BY <3>1, <3>2, TwoSwapMoves
    <2>7. CASE op = "OP_DROP"
      <3>1. Rearranged(op, s) = Popped(s, 1) /\ Picture[op][2] = <<>>
        BY <2>7 DEF Rearranged, Picture
      <3>2. Len(s) = m + 1
        BY <1>2, <2>7 DEF Needs
      <3> QED BY <3>1, <3>2, DropMoves
    <2>8. CASE op = "OP_DUP"
      <3>1. Rearranged(op, s) = Append(s, Top(s, 1)) /\ Picture[op][2] = <<1, 1>>
        BY <2>8 DEF Rearranged, Picture
      <3>2. Len(s) = m + 1
        BY <1>2, <2>8 DEF Needs
      <3> QED BY <3>1, <3>2, DupMoves
    <2>9. CASE op = "OP_NIP"
      <3>1. Rearranged(op, s) = RemoveAt(s, Len(s) - 1) /\ Picture[op][2] = <<2>>
        BY <2>9 DEF Rearranged, Picture
      <3>2. Len(s) = m + 2
        BY <1>2, <2>9 DEF Needs
      <3> QED BY <3>1, <3>2, NipMoves
    <2>10. CASE op = "OP_OVER"
      <3>1. Rearranged(op, s) = Append(s, Top(s, 2)) /\ Picture[op][2] = <<1, 2, 1>>
        BY <2>10 DEF Rearranged, Picture
      <3>2. Len(s) = m + 2
        BY <1>2, <2>10 DEF Needs
      <3> QED BY <3>1, <3>2, OverMoves
    <2>11. CASE op = "OP_ROT"
      <3>1. Rearranged(op, s) = Swapped(Swapped(s, 3, 2), 2, 1) /\ Picture[op][2] = <<2, 3, 1>>
        BY <2>11 DEF Rearranged, Picture
      <3>2. Len(s) = m + 3
        BY <1>2, <2>11 DEF Needs
      <3> QED BY <3>1, <3>2, RotMoves
    <2>12. CASE op = "OP_SWAP"
      <3>1. Rearranged(op, s) = Swapped(s, 2, 1) /\ Picture[op][2] = <<2, 1>>
        BY <2>12 DEF Rearranged, Picture
      <3>2. Len(s) = m + 2
        BY <1>2, <2>12 DEF Needs
      <3> QED BY <3>1, <3>2, SwapMoves
    <2>13. CASE op = "OP_TUCK"
      <3>1. Rearranged(op, s) = InsertAt(s, Len(s) - 1, Top(s, 1)) /\ Picture[op][2] = <<2, 1, 2>>
        BY <2>13 DEF Rearranged, Picture
      <3>2. Len(s) = m + 2
        BY <1>2, <2>13 DEF Needs
      <3> QED BY <3>1, <3>2, TuckMoves
    <2> QED BY <1>1, <2>1, <2>2, <2>3, <2>4, <2>5, <2>6, <2>7, <2>8, <2>9, <2>10, <2>11, <2>12, <2>13 DEF Rearranging
  <1>4. Picture[op][1] \in Nat /\ Len(s) = m + Picture[op][1] /\ Picture[op][2] \in Seq(1 .. Picture[op][1])
    BY <1>1, <1>2, PicturesFit
  <1> DEFINE t == Rearranged(op, s)
             size == Picture[op][1]
             after == Picture[op][2]
  <1> HIDE DEF t, size, after
  <1>5. /\ t \in Seq(S) /\ Moves(t, s, m, after)
        /\ size \in Nat /\ Len(s) = m + size /\ after \in Seq(1 .. size)
    BY <1>3, <1>4 DEF t, size, after
  <1>6. t = Popped(s, size) \o [i \in DOMAIN after |-> Top(s, size - after[i] + 1)]
    BY <1>5, MovesMeaning, ZenonT(30)
  <1>7. t \in Seq(S)
    BY <1>5
  <1>8. Rearranged(op, s) = t /\ Picture[op][1] = size /\ Picture[op][2] = after
    BY Zenon DEF t, size, after
  <1> QED BY <1>6, <1>7, <1>8, Zenon

-----------------------------------------------------------------------------
(* Data as numbers                                                           *)

LEMMA Bytes ==
  \A x \in Byte :
    /\ x \in Nat /\ x < 256 /\ x + 0 \in Byte
    /\ x >= 128 => x - 128 \in Byte
    /\ x < 128 => x + 128 \in Byte
  BY DEF Byte

(* f holds what reading the bytes of d from the last on leaves.              *)
Reading(f, d) ==
  f = [n \in 0 .. Len(d) |->
         IF n = 0 THEN 0 ELSE 256 * f[n - 1] + d[Len(d) - n + 1]]

Reads(f, d) ==
  /\ f[0] = 0
  /\ \A n \in 1 .. Len(d) : f[n - 1] \in Nat /\ f[n] = 256 * f[n - 1] + d[Len(d) - n + 1]
  /\ f[Len(d)] \in Nat /\ Magnitude(d) = f[Len(d)]

LEMMA MagnitudeReads ==
  ASSUME NEW d \in Data
  PROVE  \E f : Reads(f, d)
  <1> DEFINE N == Len(d)
             byte(n) == d[N - n + 1]
             round == [n \in 1 .. N |-> [x \in Nat |-> 256 * x + byte(n)]]
             read == CHOOSE f : Reading(f, d)
  <1>1. N \in Nat
    BY DEF Data
  <1>2. \A n \in 1 .. N : byte(n) \in Nat
    <2> TAKE n \in 1 .. N
    <2>1. N - n + 1 \in 1 .. N
      BY <1>1
    <2>2. d[N - n + 1] \in Byte
      BY <2>1, ElementOfSeq DEF Data
    <2> QED BY <2>2, Bytes
  <1>3. Magnitude(d) = read[N]
    BY DEF Magnitude, Reading
  <1> HIDE DEF read, byte, N
  <1>4. round \in [1 .. N -> [Nat -> Nat]]
    BY <1>2
  <1>5. \A n \in 1 .. N : \A x \in Nat : round[n][x] = 256 * x + byte(n)
    OBVIOUS
  <1> HIDE DEF round
  <1>6. PICK f \in [0 .. N -> Nat] : Loops(f, N, 0, round)
    BY <1>1, <1>4, LoopRuns
  <1>7. f[0] = 0 /\ \A n \in 1 .. N : f[n] = round[n][f[n - 1]]
    BY <1>1, <1>6, LoopSteps
  <1>8. \A n \in 1 .. N : f[n - 1] \in Nat
    <2>1. \A n \in 1 .. N : n - 1 \in 0 .. N
      BY <1>1
    <2> QED BY <1>6, <2>1
  <1>9. \A n \in 0 .. N : f[n] = IF n = 0 THEN 0 ELSE 256 * f[n - 1] + byte(n)
    <2> SUFFICES ASSUME NEW n \in 0 .. N PROVE f[n] = IF n = 0 THEN 0 ELSE 256 * f[n - 1] + byte(n)
      OBVIOUS
    <2>1. CASE n = 0
      BY <1>7, <2>1
    <2>2. CASE n # 0
      <3>1. n \in 1 .. N
        BY <1>1, <2>2
      <3>2. f[n] = round[n][f[n - 1]] /\ f[n - 1] \in Nat
        BY <1>7, <1>8, <3>1
      <3>3. round[n][f[n - 1]] = 256 * f[n - 1] + byte(n)
        BY <1>5, <3>1, <3>2
      <3> QED BY <2>2, <3>2, <3>3
    <2> QED BY <2>1, <2>2
  <1>10. Reading(f, d)
    <2>1. f = [n \in 0 .. N |-> f[n]]
      BY <1>6
    <2> QED BY <1>9, <2>1 DEF Reading, N, byte
  <1>11. Reading(read, d)
    BY <1>10 DEF read
  <1>12. \A n \in 0 .. N : read[n] = IF n = 0 THEN 0 ELSE 256 * read[n - 1] + byte(n)
    BY <1>11 DEF Reading, N, byte
  <1>13. read[0] \in Nat
    BY <1>1, <1>12
  <1>14. ASSUME NEW n \in 1 .. N, read[n - 1] \in Nat
         PROVE  read[n] \in Nat
    <2>1. n \in 0 .. N /\ n # 0 /\ byte(n) \in Nat
      BY <1>1, <1>2
    <2>2. read[n] = 256 * read[n - 1] + byte(n)
      BY <1>12, <2>1
    <2> QED BY <1>14, <2>1, <2>2
  <1>15. \A n \in 0 .. N : read[n] \in Nat
    BY <1>1, <1>13, <1>14, LoopKeeps
  <1>16. Reads(read, d)
    <2>1. read[0] = 0
      BY <1>1, <1>12
    <2>2. \A n \in 1 .. N : n - 1 \in 0 .. N /\ n \in 0 .. N /\ n # 0
      BY <1>1
    <2>3. \A n \in 1 .. N : read[n - 1] \in Nat /\ read[n] = 256 * read[n - 1] + byte(n)
      BY <1>12, <1>15, <2>2
    <2>4. read[N] \in Nat
      BY <1>1, <1>15
    <2> QED BY <1>3, <2>1, <2>3, <2>4 DEF Reads, N, byte
  <1> QED BY <1>16

LEMMA castBigintType ==
  ASSUME NEW d \in Data
  PROVE  castBigint(d) \in Int
  <1>1. \A e \in Data : Magnitude(e) \in Nat
    BY MagnitudeReads DEF Reads
  <1>2. CASE d # <<>> /\ Last(d) >= 128
    <2>1. Front(d) \in Data /\ Last(d) \in Byte
      BY <1>2, FrontSeq DEF Data
    <2>2. Last(d) - 128 \in Byte
      BY <1>2, <2>1, Bytes
    <2>3. Append(Front(d), Last(d) - 128) \in Data
      BY <2>1, <2>2, AppendSeq DEF Data
    <2>4. Magnitude(Append(Front(d), Last(d) - 128)) \in Nat
      BY <1>1, <2>3
    <2> QED BY <1>2, <2>4 DEF castBigint
  <1>3. CASE ~(d # <<>> /\ Last(d) >= 128)
    BY <1>1, <1>3 DEF castBigint
  <1> QED BY <1>2, <1>3

(* A number has as many bytes as it needs.                                   *)
LEMMA DigitsType ==
  ASSUME NEW n \in Nat
  PROVE  \E k \in 0 .. 4 :
           /\ Digits(n) = [i \in 1 .. k |-> (n \div Powers[i]) % 256]
           /\ \A i \in 1 .. 4 : i <= k <=> n >= Powers[i]
           /\ Digits(n) \in Data /\ Len(Digits(n)) = k
  <1> DEFINE P(k) == \A i \in 1 .. 4 : i <= k <=> n >= Powers[i]
             length == CHOOSE k \in 0 .. 4 : P(k)
  <1>1. Powers[1] = 1 /\ Powers[2] = 256 /\ Powers[3] = 65536 /\ Powers[4] = 16777216
    BY SMT DEF Powers
  <1>2. \E k \in 0 .. 4 : P(k)
    <2>1. CASE n < 1
      <3>1. P(0)
        BY <1>1, <2>1, SMT
      <3> QED BY <3>1
    <2>2. CASE n >= 1 /\ n < 256
      <3>1. P(1)
        BY <1>1, <2>2, SMT
      <3> QED BY <3>1
    <2>3. CASE n >= 256 /\ n < 65536
      <3>1. P(2)
        BY <1>1, <2>3, SMT
      <3> QED BY <3>1
    <2>4. CASE n >= 65536 /\ n < 16777216
      <3>1. P(3)
        BY <1>1, <2>4, SMT
      <3> QED BY <3>1
    <2>5. CASE n >= 16777216
      <3>1. P(4)
        BY <1>1, <2>5, SMT
      <3> QED BY <3>1
    <2> QED BY <2>1, <2>2, <2>3, <2>4, <2>5, SMT
  <1>3. length \in 0 .. 4 /\ P(length)
    BY <1>2
  <1>4. Digits(n) = [i \in 1 .. length |-> (n \div Powers[i]) % 256]
    BY DEF Digits
  <1> HIDE DEF length
  <1>5. \A i \in 1 .. length : (n \div Powers[i]) % 256 \in Byte
    <2> TAKE i \in 1 .. length
    <2>1. Powers[i] \in Nat \ {0}
      BY <1>1, <1>3, SMT
    <2>2. n \div Powers[i] \in Nat
      BY <2>1
    <2> QED BY <2>2 DEF Byte
  <1>6. [i \in 1 .. length |-> (n \div Powers[i]) % 256] \in Data
        /\ Len([i \in 1 .. length |-> (n \div Powers[i]) % 256]) = length
    BY <1>3, <1>5 DEF Data
  <1> QED BY <1>3, <1>4, <1>6

LEMMA bigintToBufferType ==
  ASSUME NEW n \in Int
  PROVE  bigintToBuffer(n) \in Data
  <1> DEFINE digits == Digits(Abs(n))
             full == digits # <<>> /\ Last(digits) >= 128
             sign == IF n < 0 THEN 128 ELSE 0
  <1>1. Abs(n) \in Nat
    BY DEF Abs
  <1>2. digits \in Data
    BY <1>1, DigitsType
  <1>3. digits # <<>> \/ n = 0
    <2> SUFFICES ASSUME n # 0 PROVE digits # <<>>
      OBVIOUS
    <2>1. Abs(n) >= 1 /\ Powers[1] = 1
      BY SMT DEF Abs, Powers
    <2>2. PICK k \in 0 .. 4 : (\A i \in 1 .. 4 : i <= k <=> Abs(n) >= Powers[i]) /\ Len(digits) = k
      BY <1>1, DigitsType
    <2>3. k >= 1
      BY <2>1, <2>2
    <2> QED BY <2>2, <2>3, EmptySeq
  <1>4. sign \in Byte
    BY DEF Byte
  <1>5. bigintToBuffer(n) = IF n = 0 THEN <<>>
                            ELSE IF full THEN Append(digits, sign)
                            ELSE Front(digits) \o <<Last(digits) + sign>>
    BY DEF bigintToBuffer
  <1> HIDE DEF digits
  <1>6. CASE n = 0
    BY <1>5, <1>6 DEF Data
  <1>7. CASE n # 0 /\ full
    <2>1. Append(digits, sign) \in Data
      BY <1>2, <1>4, AppendSeq DEF Data
    <2> QED BY <1>5, <1>7, <2>1
  <1>8. CASE n # 0 /\ ~full
    <2>1. Front(digits) \in Data /\ Last(digits) \in Byte
      BY <1>2, <1>3, <1>8, FrontSeq DEF Data
    <2>2. ~(Last(digits) >= 128)
      BY <1>3, <1>8
    <2> HIDE DEF full
    <2>3. Last(digits) + sign \in Byte
      BY <2>1, <2>2, Bytes
    <2>4. Front(digits) \o <<Last(digits) + sign>> = Append(Front(digits), Last(digits) + sign)
      BY <2>1, <2>3, AppendIsConcat DEF Data
    <2>5. Append(Front(digits), Last(digits) + sign) \in Data
      BY <2>1, <2>3, AppendSeq DEF Data
    <2> QED BY <1>5, <1>8, <2>4, <2>5
  <1> QED BY <1>6, <1>7, <1>8

-----------------------------------------------------------------------------
(* The opcodes that only change the stacks                                   *)

(* What an opcode leaves: a success or not, and two stacks of data.          *)
Outcome(r) == r.ok \in BOOLEAN /\ r.stack \in Seq(Data) /\ r.alt \in Seq(Data)

LEMMA Outcomes ==
  /\ Outcome(Failure) /\ ~Failure.ok
  /\ \A s, alt \in Seq(Data) : /\ Outcome(Done(s, alt)) /\ Done(s, alt).ok
                              /\ Done(s, alt).stack = s /\ Done(s, alt).alt = alt
  BY DEF Outcome, Failure, Done

LEMMA DataStack ==
  ASSUME NEW s \in Seq(Data)
  PROVE  /\ \A d \in Data : Append(s, d) \in Seq(Data)
         /\ s # <<>> => Front(s) \in Seq(Data) /\ Last(s) \in Data
         /\ \A n \in 0 .. Len(s) : Popped(s, n) \in Seq(Data)
         /\ \A n \in 1 .. Len(s) : Top(s, n) \in Data
  BY AppendSeq, FrontSeq, PoppedSeq, TopSeq

LEMMA PickOrRollType ==
  ASSUME NEW op, NEW s \in Seq(Data), NEW alt \in Seq(Data)
  PROVE  Outcome(PickOrRoll(op, s, alt))
  <1> DEFINE n == castBigint(Last(s))
             rest == Front(s)
  <1>1. CASE s = <<>> \/ ~IsNumber(Last(s)) \/ n \notin 0 .. Len(rest) - 1
    BY <1>1, Outcomes DEF PickOrRoll
  <1>2. CASE ~(s = <<>> \/ ~IsNumber(Last(s)) \/ n \notin 0 .. Len(rest) - 1)
    <2>1. rest \in Seq(Data) /\ n \in 0 .. Len(rest) - 1
      BY <1>2, DataStack
    <2> DEFINE left == IF op = "OP_ROLL" THEN RemoveAt(rest, Len(rest) - n) ELSE rest
    <2>2. PickOrRoll(op, s, alt) = Done(Append(left, Top(rest, n + 1)), alt)
      BY <1>2 DEF PickOrRoll
    <2> HIDE DEF n, rest
    <2>3. n + 1 \in 1 .. Len(rest) /\ Len(rest) - n \in 1 .. Len(rest)
      BY <2>1
    <2>4. left \in Seq(Data)
      BY <2>1, <2>3, RemoveAtSeq DEF Removed
    <2>5. Top(rest, n + 1) \in Data
      BY <2>1, <2>3, TopSeq
    <2> HIDE DEF left
    <2>6. Append(left, Top(rest, n + 1)) \in Seq(Data)
      BY <2>4, <2>5, AppendSeq
    <2> QED BY <2>2, <2>6, Outcomes
  <1> QED BY <1>1, <1>2

LEMMA ResultTypes ==
  ASSUME NEW a \in Int, NEW b \in Int
  PROVE  /\ \A op \in Unary : UnaryResult(op, a) \in Int
         /\ \A op \in Binary : BinaryResult(op, a, b) \in Int
         /\ \A c : Bit(c) \in 0 .. 1
  <1>1. \A c : Bit(c) \in 0 .. 1
    BY DEF Bit
  <1>2. \A op \in Unary : UnaryResult(op, a) \in Int
    BY DEF Unary, UnaryResult, Abs, Bit
  <1>3. \A op \in Binary : BinaryResult(op, a, b) \in Int
    BY DEF Binary, BinaryResult, Bit
  <1> QED BY <1>1, <1>2, <1>3

LEMMA ArithmeticType ==
  ASSUME NEW op \in Unary \cup Binary \cup {"OP_WITHIN"},
         NEW s \in Seq(Data), NEW alt \in Seq(Data)
  PROVE  Outcome(Arithmetic(op, s, alt))
  <1> DEFINE arity == IF op \in Unary THEN 1 ELSE IF op = "OP_WITHIN" THEN 3 ELSE 2
             x(i) == castBigint(Top(s, i))
             result == CASE op \in Unary -> UnaryResult(op, x(1))
                         [] op \in Binary -> BinaryResult(op, x(2), x(1))
                         [] op = "OP_WITHIN" -> Bit(x(2) <= x(3) /\ x(3) < x(1))
             rest == Popped(s, arity)
  <1>1. Arithmetic(op, s, alt) =
          IF ~NumbersOnTop(s, arity) THEN Failure
          ELSE IF op # "OP_NUMEQUALVERIFY" THEN Done(Append(rest, bigintToBuffer(result)), alt)
          ELSE IF result = 1 THEN Done(rest, alt) ELSE Failure
    BY DEF Arithmetic
  <1>2. CASE ~NumbersOnTop(s, arity)
    BY <1>1, <1>2, Outcomes
  <1>3. CASE NumbersOnTop(s, arity)
    <2>1. arity \in 1 .. 3 /\ arity <= Len(s) /\ arity \in 0 .. Len(s)
      BY <1>3 DEF NumbersOnTop
    <2>2. rest \in Seq(Data)
      BY <2>1, DataStack
    <2>3. \A i \in 1 .. arity : x(i) \in Int
      <3>1. \A i \in 1 .. arity : i \in 1 .. Len(s)
        BY <2>1
      <3>2. \A i \in 1 .. arity : Top(s, i) \in Data
        BY <3>1, DataStack
      <3> QED BY <3>2, castBigintType
    <2>4. result \in Int
      <3>1. /\ "OP_WITHIN" \notin Unary /\ "OP_WITHIN" \notin Binary
            /\ \A o \in Binary : o \notin Unary
        BY DEF Unary, Binary
      <3>2. CASE op \in Unary
        <4>1. x(1) \in Int
          BY <2>1, <2>3
        <4>2. result = UnaryResult(op, x(1))
          BY <3>1, <3>2
        <4> QED BY <3>2, <4>1, <4>2, ResultTypes
      <3>3. CASE op \in Binary
        <4>1. arity = 2 /\ x(1) \in Int /\ x(2) \in Int
          BY <2>1, <2>3, <3>1, <3>3
        <4>2. result = BinaryResult(op, x(2), x(1))
          BY <3>1, <3>3
        <4> QED BY <3>3, <4>1, <4>2, ResultTypes
      <3>4. CASE op = "OP_WITHIN"
        <4>1. result = Bit(x(2) <= x(3) /\ x(3) < x(1))
          BY <3>1, <3>4
        <4> HIDE DEF x
        <4> QED BY <4>1 DEF Bit
      <3> QED BY <3>2, <3>3, <3>4
    <2> HIDE DEF result, rest
    <2>5. Append(rest, bigintToBuffer(result)) \in Seq(Data)
      BY <2>2, <2>4, bigintToBufferType, DataStack
    <2>6. Outcome(Done(Append(rest, bigintToBuffer(result)), alt)) /\ Outcome(Done(rest, alt))
      BY <2>2, <2>5, Outcomes
    <2> HIDE DEF arity
    <2> QED BY <1>1, <1>3, <2>6, Outcomes
  <1> QED BY <1>2, <1>3

LEMMA TruthType == ASSUME NEW c PROVE Truth(c) \in Data
  <1>1. Bit(c) \in Byte
    BY DEF Bit, Byte
  <1> QED BY <1>1 DEF Truth, Data

LEMMA EqualType ==
  ASSUME NEW op, NEW s \in Seq(Data), NEW alt \in Seq(Data)
  PROVE  Outcome(Equal(op, s, alt))
  <1>1. CASE Len(s) < 2
    BY <1>1, Outcomes DEF Equal
  <1>2. CASE ~(Len(s) < 2)
    <2>1. 2 \in 0 .. Len(s)
      BY <1>2
    <2>2. Popped(s, 2) \in Seq(Data)
      BY <2>1, DataStack
    <2>3. \A c : Append(Popped(s, 2), Truth(c)) \in Seq(Data)
      BY <2>2, TruthType, AppendSeq
    <2> QED BY <1>2, <2>2, <2>3, Outcomes DEF Equal
  <1> QED BY <1>1, <1>2

LEMMA HashOfType == ASSUME NEW op, NEW d \in Data PROVE HashOf(op, d) \in Data
  <1> DEFINE a == [i \in 1 .. Limits.number |-> 255]
             b == <<IF op \in {"OP_SHA256", "OP_HASH256"} THEN 32 ELSE 20>>
  <1>1. Limits.number \in Nat
    BY ScriptAssumption
  <1>2. a \in Seq(Byte)
    <2>1. 255 \in Byte
      BY DEF Byte
    <2> QED BY <1>1, <2>1
  <1>3. b \in Seq(Byte)
    <2>1. 32 \in Byte /\ 20 \in Byte
      BY DEF Byte
    <2> QED BY <2>1
  <1>4. HashOf(op, d) = (a \o b) \o d
    BY DEF HashOf
  <1> HIDE DEF a, b
  <1>5. a \o b \in Seq(Byte)
    BY <1>2, <1>3, ConcatProperties
  <1> DEFINE c == a \o b
  <1> HIDE DEF c
  <1>6. c \in Seq(Byte) /\ d \in Seq(Byte)
    BY <1>5 DEF c, Data
  <1>7. c \o d \in Seq(Byte)
    BY <1>6, ConcatProperties
  <1> QED BY <1>4, <1>7 DEF c, Data

LEMMA ComputeType ==
  ASSUME NEW op, NEW s \in Seq(Data), NEW alt \in Seq(Data)
  PROVE  Outcome(Compute(op, s, alt))
  <1> DEFINE number(n) == Done(Append(s, bigintToBuffer(n)), alt)
             chosen == CHOOSE i \in 1 .. 16 : SmallNumbers[i] = op
  <1>1. Outcome(Failure) /\ Outcome(Done(s, alt)) /\ Outcome(Done(Append(s, <<>>), alt))
    <2>1. <<>> \in Data
      BY DEF Data
    <2>2. Append(s, <<>>) \in Seq(Data)
      BY <2>1, DataStack
    <2> QED BY <2>2, Outcomes
  <1>2. \A n \in Int : Outcome(number(n))
    <2>1. \A n \in Int : Append(s, bigintToBuffer(n)) \in Seq(Data)
      BY bigintToBufferType, DataStack
    <2> QED BY <2>1, Outcomes
  <1>3. op \in ToSet(SmallNumbers) => Outcome(number(chosen))
    <2>1. op \in ToSet(SmallNumbers) => \E i \in 1 .. 16 : SmallNumbers[i] = op
      BY DEF ToSet, SmallNumbers
    <2>2. op \in ToSet(SmallNumbers) => chosen \in Int
      BY <2>1
    <2> HIDE DEF chosen, number
    <2> QED BY <1>2, <2>2
  <1>4. op \in DOMAIN Needs =>
          Outcome(IF Len(s) < Needs[op] THEN Failure ELSE Done(Rearranged(op, s), alt))
    <2> SUFFICES ASSUME op \in DOMAIN Needs
                 PROVE  Len(s) < Needs[op] \/ Outcome(Done(Rearranged(op, s), alt))
      BY <1>1
    <2>1. Len(s) \in Nat /\ Needs[op] \in Nat
      <3>1. DOMAIN Needs = Rearranging
        BY DEF Needs, Rearranging
      <3> QED BY <3>1, PicturesFit
    <2>2. Len(s) < Needs[op] \/ Len(s) >= Needs[op]
      BY <2>1
    <2> QED BY <2>2, RearrangedMoves, Outcomes
  <1>5. s # <<>> => /\ Outcome(Done(Front(s), alt)) /\ Outcome(Done(Front(s), Append(alt, Last(s))))
                    /\ Outcome(Done(Append(s, Last(s)), alt)) /\ Outcome(number(Len(Last(s))))
                    /\ Outcome(Done(Append(Front(s), HashOf(op, Last(s))), alt))
    <2> SUFFICES ASSUME s # <<>>
                 PROVE  /\ Outcome(Done(Front(s), alt)) /\ Outcome(Done(Front(s), Append(alt, Last(s))))
                        /\ Outcome(Done(Append(s, Last(s)), alt)) /\ Outcome(number(Len(Last(s))))
                        /\ Outcome(Done(Append(Front(s), HashOf(op, Last(s))), alt))
      OBVIOUS
    <2>1. Front(s) \in Seq(Data) /\ Last(s) \in Data
      BY DataStack
    <2>2. Append(alt, Last(s)) \in Seq(Data) /\ Append(s, Last(s)) \in Seq(Data)
      BY <2>1, DataStack
    <2>3. Append(Front(s), HashOf(op, Last(s))) \in Seq(Data)
      <3>1. HashOf(op, Last(s)) \in Data
        BY <2>1, HashOfType
      <3> QED BY <2>1, <3>1, AppendSeq
    <2>4. Len(Last(s)) \in Int
      BY <2>1 DEF Data
    <2>5. Outcome(number(Len(Last(s))))
      <3> HIDE DEF number
      <3> QED BY <1>2, <2>4
    <2> HIDE DEF number
    <2> QED BY <2>1, <2>2, <2>3, <2>5, Outcomes
  <1>6. alt # <<>> => Outcome(Done(Append(s, Last(alt)), Front(alt)))
    BY DataStack, Outcomes
  <1>7. Outcome(number(-1)) /\ Outcome(number(Len(s)))
    <2>1. -1 \in Int /\ Len(s) \in Int
      OBVIOUS
    <2> HIDE DEF number
    <2> QED BY <1>2, <2>1
  <1>8. Outcome(PickOrRoll(op, s, alt)) /\ Outcome(Equal(op, s, alt))
    BY PickOrRollType, EqualType
  <1>9. op \in Unary \cup Binary \cup {"OP_WITHIN"} => Outcome(Arithmetic(op, s, alt))
    BY ArithmeticType
  <1> QED BY <1>1, <1>3, <1>4, <1>5, <1>6, <1>7, <1>8, <1>9, ZenonT(30) DEF Compute

-----------------------------------------------------------------------------
(* The stacks keep their types and their limit                               *)

(* A check is of signatures against keys; while it is waited for there is    *)
(* room for its result.                                                      *)
TypeInv ==
  /\ TypeOK
  /\ checking \in [op : {"none"} \cup SigOps, sigs : Seq(Data), keys : Seq(Data), code : {checking.code}]
  /\ checking # NoCheck => Len(stack) + Len(altStack) < Limits.stack

LEMMA LimitsType ==
  /\ Limits.stack \in Nat /\ Limits.ops \in Nat /\ Limits.keys \in Nat
  /\ Limits.number \in 0 .. 4
  BY ScriptAssumption

LEMMA ScriptType ==
  ASSUME TypeOK
  PROVE  Script \in Seq(Chunks) /\ Len(Script) \in Nat
  <1>1. scripts \in Seq(Chunks) \X Seq(Chunks) /\ run \in 1 .. 2
    BY ScriptAssumption DEF TypeOK
  <1>2. scripts[1] \in Seq(Chunks) /\ scripts[2] \in Seq(Chunks)
    BY <1>1
  <1>3. run = 1 \/ run = 2
    BY <1>1
  <1>4. Script \in Seq(Chunks)
    BY <1>2, <1>3 DEF Script
  <1> QED BY <1>4

LEMMA ChunkType ==
  ASSUME TypeOK, Fetching
  PROVE  /\ pc + 1 \in 1 .. Len(Script) /\ Script[pc + 1] = Chunk
         /\ Chunk.data \in Data
  <1>1. Script \in Seq(Chunks) /\ Len(Script) \in Nat
    BY ScriptType
  <1>2. pc + 1 \in 1 .. Len(Script)
    BY <1>1 DEF TypeOK, Fetching
  <1>3. Chunk \in Chunks
    BY <1>1, <1>2, ElementOfSeq DEF Chunk
  <1> QED BY <1>2, <1>3 DEF Chunks, Chunk

LEMMA CountType ==
  ASSUME TypeOK, ~Refused
  PROVE  CountedOps \in 0 .. Limits.ops /\ opCount <= CountedOps
  <1>1. opCount \in 0 .. Limits.ops /\ Limits.ops \in Nat
    BY LimitsType DEF TypeOK
  <1>2. CASE Counted(Chunk)
    BY <1>1, <1>2 DEF CountedOps, Refused, TooMany, Bit
  <1>3. CASE ~Counted(Chunk)
    BY <1>1, <1>3 DEF CountedOps, Bit
  <1> QED BY <1>2, <1>3

LEMMA FailKeepsTypes ==
  ASSUME TypeInv, Fail
  PROVE  TypeInv'
  <1>1. Script' = Script
    BY DEF Fail, Script
  <1>2. TypeOK'
    BY <1>1 DEF TypeInv, TypeOK, Fail, NoCheck
  <1>3. checking' = NoCheck
    BY DEF Fail
  <1>4. NoCheck \in [op : {"none"} \cup SigOps, sigs : Seq(Data), keys : Seq(Data), code : {NoCheck.code}]
    BY DEF NoCheck
  <1> QED BY <1>2, <1>3, <1>4 DEF TypeInv

(* A chunk is done: the stacks it leaves are of data, and within the limit.  *)
LEMMA ProceedKeepsTypes ==
  ASSUME TypeInv, Fetching, ~Refused,
         NEW s \in Seq(Data), NEW alt \in Seq(Data), NEW conditions \in Seq(BOOLEAN),
         Proceed(s, alt, conditions)
  PROVE  TypeInv'
  <1>1. CASE Len(s) + Len(alt) > Limits.stack
    BY <1>1, FailKeepsTypes DEF Proceed
  <1>2. CASE ~(Len(s) + Len(alt) > Limits.stack)
    <2>1. /\ pc' = pc + 1 /\ opCount' = CountedOps
          /\ stack' = s /\ altStack' = alt /\ execStack' = conditions
          /\ scripts' = scripts /\ run' = run /\ hashStart' = hashStart
          /\ checking' = checking /\ answer' = answer
      BY <1>2 DEF Proceed
    <2>2. Script' = Script
      BY <2>1 DEF Script
    <2>3. TypeOK
      BY DEF TypeInv
    <2>4. Len(s) + Len(alt) <= Limits.stack
      BY <1>2, LimitsType
    <2>5. pc + 1 \in 1 .. Len(Script) /\ Len(Script) \in Nat /\ hashStart \in 0 .. pc /\ pc \in Nat
      BY <2>3, ChunkType, ScriptType DEF TypeOK
    <2>6. pc + 1 \in 0 .. Len(Script) /\ hashStart \in 0 .. pc + 1
      BY <2>5
    <2>7. CountedOps \in 0 .. Limits.ops
      BY <2>3, CountType
    <2>8. TypeOK'
      BY <2>1, <2>2, <2>3, <2>4, <2>6, <2>7 DEF TypeOK
    <2>9. checking = NoCheck
      BY DEF Fetching, Ready
    <2> QED BY <2>1, <2>8, <2>9 DEF TypeInv
  <1> QED BY <1>1, <1>2

LEMMA StackTypes ==
  ASSUME TypeInv
  PROVE  stack \in Seq(Data) /\ altStack \in Seq(Data) /\ execStack \in Seq(BOOLEAN)
         /\ Len(stack) \in Nat /\ Len(altStack) \in Nat /\ TypeOK
  BY DEF TypeInv, TypeOK

LEMMA PushDataKeepsTypes == ASSUME TypeInv, PushData PROVE TypeInv'
  <1>1. Append(stack, Chunk.data) \in Seq(Data)
    BY StackTypes, ChunkType, DataStack DEF PushData
  <1>2. \/ Proceed(Append(stack, Chunk.data), altStack, execStack)
        \/ Proceed(stack, altStack, execStack)
        \/ Fail
    BY DEF PushData
  <1> QED BY <1>1, <1>2, StackTypes, ProceedKeepsTypes, FailKeepsTypes DEF PushData

LEMMA IfKeepsTypes == ASSUME TypeInv, If PROVE TypeInv'
  <1> DEFINE condition == castBool(Last(stack)) <=> (Chunk.op = "OP_IF")
  <1>1. Append(execStack, FALSE) \in Seq(BOOLEAN) /\ Append(execStack, condition) \in Seq(BOOLEAN)
    BY StackTypes, AppendSeq
  <1> HIDE DEF condition
  <1>2. \/ Proceed(stack, altStack, Append(execStack, FALSE))
        \/ stack # <<>> /\ Proceed(Front(stack), altStack, Append(execStack, condition))
        \/ Fail
    BY DEF If, condition
  <1>3. stack # <<>> => Front(stack) \in Seq(Data)
    BY StackTypes, DataStack
  <1> QED BY <1>1, <1>2, <1>3, StackTypes, ProceedKeepsTypes, FailKeepsTypes DEF If

LEMMA ElseKeepsTypes == ASSUME TypeInv, Else PROVE TypeInv'
  <1> DEFINE conditions == Append(Front(execStack), ~Last(execStack))
  <1>1. execStack # <<>> => conditions \in Seq(BOOLEAN)
    <2> SUFFICES ASSUME execStack # <<>> PROVE conditions \in Seq(BOOLEAN)
      OBVIOUS
    <2>1. Front(execStack) \in Seq(BOOLEAN) /\ (~Last(execStack)) \in BOOLEAN
      BY StackTypes, FrontSeq
    <2> QED BY <2>1, AppendSeq
  <1>2. Fail \/ (execStack # <<>> /\ Proceed(stack, altStack, conditions))
    BY DEF Else
  <1> HIDE DEF conditions
  <1> QED BY <1>1, <1>2, StackTypes, ProceedKeepsTypes, FailKeepsTypes DEF Else

LEMMA EndIfKeepsTypes == ASSUME TypeInv, EndIf PROVE TypeInv'
  <1>1. execStack # <<>> => Front(execStack) \in Seq(BOOLEAN)
    BY StackTypes, FrontSeq
  <1>2. Fail \/ (execStack # <<>> /\ Proceed(stack, altStack, Front(execStack)))
    BY DEF EndIf
  <1> QED BY <1>1, <1>2, StackTypes, ProceedKeepsTypes, FailKeepsTypes DEF EndIf

LEMMA SkipKeepsTypes == ASSUME TypeInv, Skip PROVE TypeInv'
  BY StackTypes, ProceedKeepsTypes DEF Skip

LEMMA ExecuteKeepsTypes == ASSUME TypeInv, Execute PROVE TypeInv'
  <1> DEFINE result == Compute(Chunk.op, stack, altStack)
  <1>1. Outcome(result)
    BY StackTypes, ComputeType
  <1>2. Fail \/ Proceed(result.stack, result.alt, execStack)
    BY DEF Execute
  <1> HIDE DEF result
  <1>3. result.stack \in Seq(Data) /\ result.alt \in Seq(Data)
    BY <1>1 DEF Outcome
  <1> QED BY <1>2, <1>3, StackTypes, ProceedKeepsTypes, FailKeepsTypes DEF Execute

LEMMA CodeSeparatorKeepsTypes == ASSUME TypeInv, CodeSeparator PROVE TypeInv'
  <1>1. Fetching /\ ~Refused /\ TypeOK
    BY DEF CodeSeparator, TypeInv
  <1>2. Script' = Script /\ checking = NoCheck /\ checking' = NoCheck
    BY DEF CodeSeparator, Script, Fetching, Ready
  <1>3. pc + 1 \in 1 .. Len(Script) /\ Len(Script) \in Nat
    BY <1>1, ChunkType, ScriptType
  <1>4. pc + 1 \in 0 .. Len(Script) /\ pc + 1 \in 0 .. pc + 1 /\ CountedOps \in 0 .. Limits.ops
    BY <1>1, <1>3, CountType
  <1>5. TypeOK'
    BY <1>1, <1>2, <1>4 DEF TypeOK, CodeSeparator
  <1> QED BY <1>2, <1>5 DEF TypeInv

-----------------------------------------------------------------------------
(* The checks of signatures                                                  *)

(* The lists of a check: as many elements as the number says.                *)
LEMMA TakeListType ==
  ASSUME NEW s \in Seq(Data), NEW max \in Nat, TakeList(s, max).ok
  PROVE  /\ TakeList(s, max).stack \in Seq(Data) /\ TakeList(s, max).alt \in Seq(Data)
         /\ Len(TakeList(s, max).stack) < Len(s)
         /\ Len(TakeList(s, max).alt) <= max
  <1> DEFINE n == castBigint(Last(s))
             taken == [i \in 1 .. n |-> Top(s, i + 1)]
  <1>1. s # <<>> /\ n \in 0 .. max /\ ~(Len(s) < n + 1)
        /\ TakeList(s, max) = Done(Popped(s, n + 1), taken)
    BY DEF TakeList, Failure
  <1>2. TakeList(s, max).stack = Popped(s, n + 1) /\ TakeList(s, max).alt = taken
    BY <1>1 DEF Done
  <1> HIDE DEF n
  <1>3. n \in Nat /\ n <= max /\ Len(s) \in Nat
    BY <1>1
  <1>4. n + 1 \in 1 .. Len(s)
    BY <1>1, <1>3
  <1>5. Popped(s, n + 1) \in Seq(Data) /\ Len(Popped(s, n + 1)) = Len(s) - (n + 1)
    BY <1>4, PoppedSeq
  <1>6. \A i \in 1 .. n : Top(s, i + 1) \in Data
    <2> TAKE i \in 1 .. n
    <2>1. i + 1 \in 1 .. Len(s)
      BY <1>3, <1>4
    <2> QED BY <2>1, DataStack
  <1>7. taken \in Seq(Data) /\ Len(taken) = n
    BY <1>3, <1>6
  <1> HIDE DEF taken
  <1> QED BY <1>2, <1>3, <1>5, <1>7

(* Waiting for a check leaves room for its result.                           *)
LEMMA WaitForKeepsTypes ==
  ASSUME TypeInv, Fetching, NEW op \in SigOps, NEW s \in Seq(Data), Len(s) < Len(stack),
         NEW sigs \in Seq(Data), NEW keys \in Seq(Data), NEW count \in 0 .. Limits.ops,
         WaitFor(op, s, sigs, keys, count)
  PROVE  TypeInv'
  <1>1. TypeOK /\ Script' = Script
    BY DEF TypeInv, WaitFor, Script
  <1>2. pc + 1 \in 1 .. Len(Script) /\ Len(Script) \in Nat /\ pc \in Nat /\ hashStart \in 0 .. pc
    BY <1>1, ChunkType, ScriptType DEF TypeOK
  <1>3. pc + 1 \in 0 .. Len(Script) /\ hashStart \in 0 .. pc + 1
    BY <1>2
  <1>4. Len(s) + Len(altStack) < Limits.stack
    BY <1>1, LimitsType DEF TypeOK
  <1>5. Len(s) + Len(altStack) <= Limits.stack
    BY <1>1, <1>4, LimitsType DEF TypeOK
  <1>6. checking' = [op |-> op, sigs |-> sigs, keys |-> keys, code |-> ScriptCode(sigs)]
    BY DEF WaitFor, Check
  <1>7. checking'.op \in {"none"} \cup SigOps
    BY <1>6
  <1>8. TypeOK'
    BY <1>1, <1>3, <1>5, <1>7 DEF TypeOK, WaitFor
  <1>9. checking' \in [op : {"none"} \cup SigOps, sigs : Seq(Data), keys : Seq(Data), code : {checking'.code}]
    BY <1>6
  <1>10. stack' = s /\ altStack' = altStack
    BY DEF WaitFor
  <1> QED BY <1>4, <1>8, <1>9, <1>10 DEF TypeInv

LEMMA CheckSigKeepsTypes == ASSUME TypeInv, CheckSig PROVE TypeInv'
  <1>1. CASE Len(stack) < 2
    BY <1>1, FailKeepsTypes DEF CheckSig
  <1>2. CASE ~(Len(stack) < 2)
    <2>1. WaitFor(Chunk.op, Popped(stack, 2), <<Top(stack, 2)>>, <<Top(stack, 1)>>, CountedOps)
          /\ Fetching /\ ~Refused /\ Chunk.op \in SigOps
      BY <1>2 DEF CheckSig, SigOps
    <2>2. 1 \in 1 .. Len(stack) /\ 2 \in 1 .. Len(stack)
      BY <1>2, StackTypes
    <2>3. Popped(stack, 2) \in Seq(Data) /\ Len(Popped(stack, 2)) < Len(stack)
      BY <2>2, StackTypes, PoppedSeq
    <2>4. Top(stack, 1) \in Data /\ Top(stack, 2) \in Data
      BY <2>2, StackTypes, DataStack
    <2>5. <<Top(stack, 2)>> \in Seq(Data) /\ <<Top(stack, 1)>> \in Seq(Data)
      BY <2>4
    <2>6. CountedOps \in 0 .. Limits.ops
      BY <2>1, StackTypes, CountType
    <2> QED BY <2>1, <2>3, <2>5, <2>6, WaitForKeepsTypes
  <1> QED BY <1>1, <1>2

LEMMA CheckMultiSigKeepsTypes == ASSUME TypeInv, CheckMultiSig PROVE TypeInv'
  <1> DEFINE keys == TakeList(stack, Limits.keys)
             sigs == TakeList(keys.stack, Len(keys.alt))
             count == CountedOps + Len(keys.alt)
  <1>1. CASE ~keys.ok \/ TooMany(count) \/ ~sigs.ok \/ sigs.stack = <<>>
    BY <1>1, FailKeepsTypes DEF CheckMultiSig
  <1>2. CASE ~(~keys.ok \/ TooMany(count) \/ ~sigs.ok \/ sigs.stack = <<>>)
    <2>1. Fetching /\ ~Refused /\ Chunk.op \in SigOps
          /\ WaitFor(Chunk.op, Front(sigs.stack), sigs.alt, keys.alt, count)
      BY <1>2 DEF CheckMultiSig, SigOps
    <2>2. keys.stack \in Seq(Data) /\ keys.alt \in Seq(Data) /\ Len(keys.stack) < Len(stack)
      BY <1>2, StackTypes, LimitsType, TakeListType
    <2> HIDE DEF keys
    <2>3. sigs.stack \in Seq(Data) /\ sigs.alt \in Seq(Data) /\ Len(sigs.stack) < Len(keys.stack)
      <3>1. Len(keys.alt) \in Nat
        BY <2>2
      <3> QED BY <1>2, <2>2, <3>1, TakeListType
    <2> HIDE DEF sigs
    <2>4. Front(sigs.stack) \in Seq(Data) /\ Len(Front(sigs.stack)) = Len(sigs.stack) - 1
      BY <1>2, <2>3, FrontSeq
    <2>5. Len(Front(sigs.stack)) < Len(stack)
      BY <2>2, <2>3, <2>4, StackTypes
    <2>6. count \in 0 .. Limits.ops
      <3>1. CountedOps \in 0 .. Limits.ops
        BY <2>1, StackTypes, CountType
      <3>2. count <= Limits.ops /\ Len(keys.alt) \in Nat
        BY <1>2, <2>2, <3>1, LimitsType DEF TooMany
      <3> QED BY <3>1, <3>2, LimitsType
    <2> HIDE DEF count
    <2> QED BY <2>1, <2>2, <2>3, <2>4, <2>5, <2>6, WaitForKeepsTypes
  <1> QED BY <1>1, <1>2

LEMMA SigCheckedKeepsTypes == ASSUME TypeInv, SigChecked PROVE TypeInv'
  <1>1. checking.sigs \in Seq(Data) /\ checking.keys \in Seq(Data) /\ checking.sigs # <<>>
        /\ checking.op \in {"none"} \cup SigOps
    BY DEF TypeInv, SigChecked
  <1>2. checking.keys # <<>>
    BY <1>1, EmptySeq DEF SigChecked, TooFewKeys
  <1>3. Tail(checking.sigs) \in Seq(Data) /\ Tail(checking.keys) \in Seq(Data)
    BY <1>1, <1>2
  <1>4. \/ checking' = [checking EXCEPT !.sigs = Tail(@)]
        \/ checking' = [checking EXCEPT !.keys = Tail(@)]
    BY DEF SigChecked
  <1>5. checking' \in [op : {"none"} \cup SigOps, sigs : Seq(Data), keys : Seq(Data), code : {checking.code}]
        /\ checking'.code = checking.code
    BY <1>3, <1>4 DEF TypeInv
  <1>6. checking'.op \in {"none"} \cup SigOps /\ Script' = Script
    BY <1>5 DEF SigChecked, Script
  <1>7. TypeOK'
    BY <1>6 DEF TypeInv, TypeOK, SigChecked
  <1>8. Len(stack) + Len(altStack) < Limits.stack /\ stack' = stack /\ altStack' = altStack
    BY DEF TypeInv, SigChecked
  <1> QED BY <1>5, <1>7, <1>8 DEF TypeInv

LEMMA SigsCheckedKeepsTypes == ASSUME TypeInv, SigsChecked PROVE TypeInv'
  <1>1. CASE checking.op \in {"OP_CHECKSIG", "OP_CHECKMULTISIG"} \/ ~TooFewKeys
    <2>1. Append(stack, Truth(~TooFewKeys)) \in Seq(Data)
          /\ Len(Append(stack, Truth(~TooFewKeys))) = Len(stack) + 1
      BY StackTypes, TruthType, AppendSeq
    <2>2. \/ stack' = Append(stack, Truth(~TooFewKeys))
          \/ stack' = stack
      BY <1>1 DEF SigsChecked
    <2>3. altStack' = altStack /\ checking' = NoCheck /\ Script' = Script
      BY <1>1 DEF SigsChecked, Script
    <2>4. Len(stack) + Len(altStack) < Limits.stack
      BY DEF TypeInv, SigsChecked
    <2>5. stack' \in Seq(Data) /\ Len(stack') + Len(altStack') <= Limits.stack
      <3>1. Len(stack) \in Nat /\ Len(altStack) \in Nat /\ Limits.stack \in Nat /\ stack \in Seq(Data)
        BY StackTypes, LimitsType
      <3>2. stack' \in Seq(Data) /\ Len(stack') <= Len(stack) + 1 /\ Len(stack') \in Nat
        <4>1. CASE stack' = stack
          BY <3>1, <4>1
        <4>2. CASE stack' = Append(stack, Truth(~TooFewKeys))
          <5>1. Len(stack') = Len(stack) + 1
            BY <2>1, <4>2
          <5> QED BY <2>1, <3>1, <4>2, <5>1
        <4> QED BY <2>2, <4>1, <4>2
      <3>3. Len(altStack') = Len(altStack)
        BY <2>3
      <3> QED BY <2>4, <3>1, <3>2, <3>3
    <2>6. NoCheck \in [op : {"none"} \cup SigOps, sigs : Seq(Data), keys : Seq(Data), code : {NoCheck.code}]
      BY DEF NoCheck
    <2>7. TypeOK'
      BY <1>1, <2>3, <2>5, <2>6 DEF TypeInv, TypeOK, SigsChecked
    <2> QED BY <2>3, <2>6, <2>7 DEF TypeInv
  <1>2. CASE ~(checking.op \in {"OP_CHECKSIG", "OP_CHECKMULTISIG"} \/ ~TooFewKeys)
    BY <1>2, FailKeepsTypes DEF SigsChecked
  <1> QED BY <1>1, <1>2

LEMMA EndOfScriptKeepsTypes == ASSUME TypeInv, EndOfScript PROVE TypeInv'
  <1>1. CASE SecondScript
    <2>1. scripts \in Seq(Chunks) \X Seq(Chunks) /\ scripts' = scripts
          /\ run' = 2 /\ pc' = 0 /\ hashStart' = 0 /\ opCount' = 0 /\ altStack' = <<>>
          /\ stack' = stack /\ checking' = checking /\ checking = NoCheck
          /\ execStack' = execStack /\ answer' = answer
      BY <1>1, ScriptAssumption DEF TypeInv, TypeOK, SecondScript, EndOfScript, Ready
    <2>2. Script' \in Seq(Chunks)
      BY <2>1 DEF Script
    <2>3. pc' \in 0 .. Len(Script') /\ hashStart' \in 0 .. pc' /\ opCount' \in 0 .. Limits.ops
      BY <2>1, <2>2, LimitsType
    <2>4. altStack' \in Seq(Data) /\ Len(altStack') = 0
      BY <2>1
    <2>5. Len(stack') + Len(altStack') <= Limits.stack
      BY <2>1, <2>4, LimitsType DEF TypeInv, TypeOK
    <2>6. TypeOK'
      BY <2>1, <2>3, <2>4, <2>5 DEF TypeInv, TypeOK
    <2> QED BY <2>1, <2>6 DEF TypeInv
  <1>2. CASE Result
    <2>1. answer' \in {"none", "error", "true", "false"} /\ Script' = Script
      BY <1>2 DEF Result, Script
    <2>2. TypeOK'
      BY <1>2, <2>1 DEF Result, TypeInv, TypeOK
    <2> QED BY <1>2, <2>2 DEF TypeInv, Result
  <1>3. CASE Fail
    BY <1>3, FailKeepsTypes
  <1> QED BY <1>1, <1>2, <1>3 DEF EndOfScript

LEMMA NextKeepsTypes == ASSUME TypeInv, [Next]_vars PROVE TypeInv'
  <1>1. CASE UNCHANGED vars
    <2>1. Script' = Script
      BY <1>1 DEF vars, Script
    <2> QED BY <1>1, <2>1 DEF vars, TypeInv, TypeOK
  <1>2. CASE Oversized \/ RefuseChunk
    BY <1>2, FailKeepsTypes DEF Oversized, RefuseChunk
  <1>3. CASE Answered
    BY <1>1, <1>3 DEF Answered
  <1> QED BY <1>1, <1>2, <1>3, PushDataKeepsTypes, IfKeepsTypes, ElseKeepsTypes, EndIfKeepsTypes,
           SkipKeepsTypes, CodeSeparatorKeepsTypes, ExecuteKeepsTypes, CheckSigKeepsTypes,
           CheckMultiSigKeepsTypes, SigCheckedKeepsTypes, SigsCheckedKeepsTypes,
           EndOfScriptKeepsTypes DEF Next

LEMMA InitTypes == ASSUME Init PROVE TypeInv
  <1>1. scripts \in Seq(Chunks) \X Seq(Chunks) /\ run = 1
    BY ScriptAssumption DEF Init
  <1>2. Script \in Seq(Chunks) /\ Len(Script) \in Nat
    BY <1>1 DEF Script
  <1>3. NoCheck \in [op : {"none"} \cup SigOps, sigs : Seq(Data), keys : Seq(Data), code : {NoCheck.code}]
        /\ NoCheck.op = "none"
    BY DEF NoCheck
  <1>4. TypeOK
    BY <1>2, <1>3, LimitsType DEF Init, TypeOK
  <1> QED BY <1>3, <1>4 DEF Init, TypeInv

LEMMA AlwaysTypeInv == Spec => []TypeInv
  <1>1. Init => TypeInv
    BY InitTypes
  <1>2. TypeInv /\ [Next]_vars => TypeInv'
    BY NextKeepsTypes
  <1> QED BY <1>1, <1>2, PTL DEF Spec

(* The two stacks hold data and together never more than the limit of        *)
(* elements, although the results of the checks of signatures are put onto   *)
(* them without a look at it: a check takes more than it leaves.             *)
THEOREM StacksStayInLimits == Spec => []TypeOK
  <1>1. TypeInv => TypeOK
    BY DEF TypeInv
  <1> QED BY <1>1, AlwaysTypeInv, PTL

-----------------------------------------------------------------------------
(* Results are read as they were written                                     *)

(* What five bytes at most are worth.                                        *)
ByteAt(d, i) == IF i <= Len(d) THEN d[i] ELSE 0
Worth(d) ==
  ByteAt(d, 1) + 256 * ByteAt(d, 2) + 65536 * ByteAt(d, 3) + 16777216 * ByteAt(d, 4)
    + 4294967296 * ByteAt(d, 5)

LEMMA BytesAt ==
  ASSUME NEW d \in Data, NEW N \in Nat, Len(d) = N
  PROVE  /\ \A i \in 1 .. N : d[i] \in Byte /\ ByteAt(d, i) = d[i]
         /\ \A i \in 1 .. 5 : ByteAt(d, i) \in Byte
         /\ \A i \in 1 .. 5 : i > N => ByteAt(d, i) = 0
  <1>1. \A i \in 1 .. N : d[i] \in Byte
    BY ElementOfSeq DEF Data
  <1>2. \A i \in 1 .. N : ByteAt(d, i) = d[i]
    BY DEF ByteAt
  <1>3. \A i \in 1 .. 5 : i > N => ByteAt(d, i) = 0
    BY DEF ByteAt
  <1>4. \A i \in 1 .. 5 : ByteAt(d, i) \in Byte
    <2> TAKE i \in 1 .. 5
    <2>1. CASE i > N
      <3>1. ByteAt(d, i) = 0 /\ 0 \in Byte
        BY <1>3, <2>1 DEF Byte
      <3> QED BY <3>1
    <2>2. CASE ~(i > N)
      <3>1. i \in 1 .. N
        BY <2>2
      <3>2. d[i] \in Byte
        BY <1>1, <3>1
      <3> QED BY <1>2, <3>1, <3>2
    <2> QED BY <2>1, <2>2
  <1> QED BY <1>1, <1>2, <1>3, <1>4

LEMMA DataLength == ASSUME NEW d \in Data PROVE Len(d) \in Nat
  BY DEF Data

LEMMA MagnitudeIsWorth ==
  ASSUME NEW d \in Data, NEW N \in 0 .. 5, Len(d) = N
  PROVE  Magnitude(d) = Worth(d)
  <1> DEFINE b(i) == ByteAt(d, i)
  <1>1. PICK f : Reads(f, d)
    BY MagnitudeReads
  <1>2. N \in Nat
    OBVIOUS
  <1>3. /\ \A i \in 1 .. 5 : b(i) \in Byte
        /\ \A i \in 1 .. 5 : i > N => b(i) = 0
    BY <1>2, BytesAt
  <1>4. /\ f[0] = 0 /\ Magnitude(d) = f[N]
        /\ \A n \in 1 .. N : f[n - 1] \in Nat /\ f[n] = 256 * f[n - 1] + b(N - n + 1)
    <2>1. \A n \in 1 .. N : N - n + 1 \in 1 .. N
      OBVIOUS
    <2>2. \A n \in 1 .. N : b(N - n + 1) = d[N - n + 1]
      BY <1>2, <2>1, BytesAt
    <2> HIDE DEF b
    <2> QED BY <1>1, <2>2 DEF Reads
  <1> DEFINE F(n) == f[n]
  <1>5. /\ F(0) = 0 /\ Magnitude(d) = F(N)
        /\ \A n \in 1 .. N : F(n) = 256 * F(n - 1) + b(N - n + 1)
    BY <1>4
  <1>6. Worth(d) = b(1) + 256 * b(2) + 65536 * b(3) + 16777216 * b(4) + 4294967296 * b(5)
    BY SMT DEF Worth
  <1> HIDE DEF b, F
  <1>7. b(1) \in Int /\ b(2) \in Int /\ b(3) \in Int /\ b(4) \in Int /\ b(5) \in Int
    <2>1. b(1) \in Byte /\ b(2) \in Byte /\ b(3) \in Byte /\ b(4) \in Byte /\ b(5) \in Byte
      BY <1>3
    <2> QED BY <2>1, Bytes
  <1>8. PICK x1 \in Int, x2 \in Int, x3 \in Int, x4 \in Int, x5 \in Int :
          x1 = b(1) /\ x2 = b(2) /\ x3 = b(3) /\ x4 = b(4) /\ x5 = b(5)
    BY <1>7
  <1>9. Worth(d) = x1 + 256 * x2 + 65536 * x3 + 16777216 * x4 + 4294967296 * x5
    BY <1>6, <1>8, SMT
  <1>10. CASE N = 0
    <2>1. x1 = 0 /\ x2 = 0 /\ x3 = 0 /\ x4 = 0 /\ x5 = 0
      BY <1>3, <1>8, <1>10
    <2>2. Magnitude(d) = F(0)
      BY <1>5, <1>10
    <2> QED BY <1>9, <2>1, <2>2, <1>5, SMT
  <1>11. CASE N = 1
    <2>1. x2 = 0 /\ x3 = 0 /\ x4 = 0 /\ x5 = 0
      BY <1>3, <1>8, <1>11
    <2>2. F(1) = 256 * F(0) + x1
      <3>1. 1 \in 1 .. N /\ N - 1 + 1 = 1 /\ 1 - 1 = 0
        BY <1>11
      <3> QED BY <1>5, <1>8, <3>1
    <2>3. F(1) = x1
      BY <1>5, <2>2
    <2>4. Magnitude(d) = F(1)
      BY <1>5, <1>11
    <2> QED BY <1>9, <2>1, <2>3, <2>4, SMT
  <1>12. CASE N = 2
    <2>1. x3 = 0 /\ x4 = 0 /\ x5 = 0
      BY <1>3, <1>8, <1>12
    <2>2. F(1) = 256 * F(0) + x2
      <3>1. 1 \in 1 .. N /\ N - 1 + 1 = 2 /\ 1 - 1 = 0
        BY <1>12
      <3> QED BY <1>5, <1>8, <3>1
    <2>3. F(1) = x2
      BY <1>5, <2>2
    <2>4. F(2) = 256 * F(1) + x1
      <3>1. 2 \in 1 .. N /\ N - 2 + 1 = 1 /\ 2 - 1 = 1
        BY <1>12
      <3> QED BY <1>5, <1>8, <3>1
    <2>5. F(2) = x1 + 256 * x2
      BY <2>3, <2>4
    <2>6. Magnitude(d) = F(2)
      BY <1>5, <1>12
    <2> QED BY <1>9, <2>1, <2>5, <2>6, SMT
  <1>13. CASE N = 3
    <2>1. x4 = 0 /\ x5 = 0
      BY <1>3, <1>8, <1>13
    <2>2. F(1) = 256 * F(0) + x3
      <3>1. 1 \in 1 .. N /\ N - 1 + 1 = 3 /\ 1 - 1 = 0
        BY <1>13
      <3> QED BY <1>5, <1>8, <3>1
    <2>3. F(1) = x3
      BY <1>5, <2>2
    <2>4. F(2) = 256 * F(1) + x2
      <3>1. 2 \in 1 .. N /\ N - 2 + 1 = 2 /\ 2 - 1 = 1
        BY <1>13
      <3> QED BY <1>5, <1>8, <3>1
    <2>5. F(2) = x2 + 256 * x3
      BY <2>3, <2>4
    <2>6. F(3) = 256 * F(2) + x1
      <3>1. 3 \in 1 .. N /\ N - 3 + 1 = 1 /\ 3 - 1 = 2
        BY <1>13
      <3> QED BY <1>5, <1>8, <3>1
    <2>7. F(3) = x1 + 256 * x2 + 65536 * x3
      BY <2>5, <2>6, SMT
    <2>8. Magnitude(d) = F(3)
      BY <1>5, <1>13
    <2> QED BY <1>9, <2>1, <2>7, <2>8, SMT
  <1>14. CASE N = 4
    <2>1. x5 = 0
      BY <1>3, <1>8, <1>14
    <2>2. F(1) = 256 * F(0) + x4
      <3>1. 1 \in 1 .. N /\ N - 1 + 1 = 4 /\ 1 - 1 = 0
        BY <1>14
      <3> QED BY <1>5, <1>8, <3>1
    <2>3. F(1) = x4
      BY <1>5, <2>2
    <2>4. F(2) = 256 * F(1) + x3
      <3>1. 2 \in 1 .. N /\ N - 2 + 1 = 3 /\ 2 - 1 = 1
        BY <1>14
      <3> QED BY <1>5, <1>8, <3>1
    <2>5. F(2) = x3 + 256 * x4
      BY <2>3, <2>4
    <2>6. F(3) = 256 * F(2) + x2
      <3>1. 3 \in 1 .. N /\ N - 3 + 1 = 2 /\ 3 - 1 = 2
        BY <1>14
      <3> QED BY <1>5, <1>8, <3>1
    <2>7. F(3) = x2 + 256 * x3 + 65536 * x4
      BY <2>5, <2>6, SMT
    <2>8. F(4) = 256 * F(3) + x1
      <3>1. 4 \in 1 .. N /\ N - 4 + 1 = 1 /\ 4 - 1 = 3
        BY <1>14
      <3> QED BY <1>5, <1>8, <3>1
    <2>9. F(4) = x1 + 256 * x2 + 65536 * x3 + 16777216 * x4
      BY <2>7, <2>8, SMT
    <2>10. Magnitude(d) = F(4)
      BY <1>5, <1>14
    <2> QED BY <1>9, <2>1, <2>9, <2>10, SMT
  <1>15. CASE N = 5
    <2>1. F(1) = 256 * F(0) + x5
      <3>1. 1 \in 1 .. N /\ N - 1 + 1 = 5 /\ 1 - 1 = 0
        BY <1>15
      <3> QED BY <1>5, <1>8, <3>1
    <2>2. F(1) = x5
      BY <1>5, <2>1
    <2>3. F(2) = 256 * F(1) + x4
      <3>1. 2 \in 1 .. N /\ N - 2 + 1 = 4 /\ 2 - 1 = 1
        BY <1>15
      <3> QED BY <1>5, <1>8, <3>1
    <2>4. F(2) = x4 + 256 * x5
      BY <2>2, <2>3
    <2>5. F(3) = 256 * F(2) + x3
      <3>1. 3 \in 1 .. N /\ N - 3 + 1 = 3 /\ 3 - 1 = 2
        BY <1>15
      <3> QED BY <1>5, <1>8, <3>1
    <2>6. F(3) = x3 + 256 * x4 + 65536 * x5
      BY <2>4, <2>5, SMT
    <2>7. F(4) = 256 * F(3) + x2
      <3>1. 4 \in 1 .. N /\ N - 4 + 1 = 2 /\ 4 - 1 = 3
        BY <1>15
      <3> QED BY <1>5, <1>8, <3>1
    <2>8. F(4) = x2 + 256 * x3 + 65536 * x4 + 16777216 * x5
      BY <2>6, <2>7, SMT
    <2>9. F(5) = 256 * F(4) + x1
      <3>1. 5 \in 1 .. N /\ N - 5 + 1 = 1 /\ 5 - 1 = 4
        BY <1>15
      <3> QED BY <1>5, <1>8, <3>1
    <2>10. F(5) = x1 + 256 * x2 + 65536 * x3 + 16777216 * x4 + 4294967296 * x5
      BY <2>8, <2>9, SMT
    <2>11. Magnitude(d) = F(5)
      BY <1>5, <1>15
    <2> QED BY <1>9, <2>10, <2>11, SMT
  <1> QED BY <1>10, <1>11, <1>12, <1>13, <1>14, <1>15

(* Sums of bytes by their weight.                                            *)
LEMMA SumBounds ==
  ASSUME NEW x1 \in Nat, NEW x2 \in Nat, NEW x3 \in Nat, NEW x4 \in Nat,
         x1 < 256, x2 < 256, x3 < 256, x4 < 256
  PROVE  /\ x1 \in Nat
         /\ x1 < 256
         /\ x1 < 128 => x1 < 128
         /\ x1 >= 128 => x1 >= 128
         /\ x1 + 256 * x2 \in Nat
         /\ x1 + 256 * x2 < 65536
         /\ x2 < 128 => x1 + 256 * x2 < 32768
         /\ x2 >= 128 => x1 + 256 * x2 >= 32768
         /\ x1 + 256 * x2 + 65536 * x3 \in Nat
         /\ x1 + 256 * x2 + 65536 * x3 < 16777216
         /\ x3 < 128 => x1 + 256 * x2 + 65536 * x3 < 8388608
         /\ x3 >= 128 => x1 + 256 * x2 + 65536 * x3 >= 8388608
         /\ x1 + 256 * x2 + 65536 * x3 + 16777216 * x4 \in Nat
         /\ x1 + 256 * x2 + 65536 * x3 + 16777216 * x4 < 4294967296
         /\ x4 < 128 => x1 + 256 * x2 + 65536 * x3 + 16777216 * x4 < 2147483648
         /\ x4 >= 128 => x1 + 256 * x2 + 65536 * x3 + 16777216 * x4 >= 2147483648
  <1>1. x1 \in Nat
    OBVIOUS
  <1>2. x1 < 256
    OBVIOUS
  <1>3. x1 < 128 => x1 < 128
    OBVIOUS
  <1>4. x1 >= 128 => x1 >= 128
    OBVIOUS
  <1>5. x1 + 256 * x2 \in Nat
    OBVIOUS
  <1>6. x1 + 256 * x2 < 65536
    BY SMT
  <1>7. x2 < 128 => x1 + 256 * x2 < 32768
    BY SMT
  <1>8. x2 >= 128 => x1 + 256 * x2 >= 32768
    BY SMT
  <1>9. x1 + 256 * x2 + 65536 * x3 \in Nat
    BY SMT
  <1>10. x1 + 256 * x2 + 65536 * x3 < 16777216
    BY SMT
  <1>11. x3 < 128 => x1 + 256 * x2 + 65536 * x3 < 8388608
    BY SMT
  <1>12. x3 >= 128 => x1 + 256 * x2 + 65536 * x3 >= 8388608
    BY SMT
  <1>13. x1 + 256 * x2 + 65536 * x3 + 16777216 * x4 \in Nat
    BY SMT
  <1>14. x1 + 256 * x2 + 65536 * x3 + 16777216 * x4 < 4294967296
    BY SMT
  <1>15. x4 < 128 => x1 + 256 * x2 + 65536 * x3 + 16777216 * x4 < 2147483648
    BY SMT
  <1>16. x4 >= 128 => x1 + 256 * x2 + 65536 * x3 + 16777216 * x4 >= 2147483648
    BY SMT
  <1> QED BY <1>1, <1>2, <1>3, <1>4, <1>5, <1>6, <1>7, <1>8, <1>9, <1>10, <1>11, <1>12, <1>13, <1>14, <1>15, <1>16, SMT

(* A number is less than half of what its bytes could be worth.              *)
Half == <<128, 32768, 8388608, 2147483648>>

LEMMA WorthOfDigits ==
  ASSUME NEW d \in Data, NEW N \in 1 .. 4, Len(d) = N
  PROVE  /\ Worth(d) \in Nat /\ Worth(d) < 2 * Half[N]
         /\ Last(d) < 128 => Worth(d) < Half[N]
         /\ Last(d) >= 128 => Worth(d) >= Half[N]
  <1> DEFINE b(i) == ByteAt(d, i)
  <1>1. /\ \A i \in 1 .. 5 : b(i) \in Byte
        /\ \A i \in 1 .. 5 : i > N => b(i) = 0
    BY BytesAt
  <1>2. Last(d) = b(N)
    <2>1. ByteAt(d, N) = d[N]
      BY BytesAt
    <2> QED BY <2>1 DEF Last
  <1>3. Worth(d) = b(1) + 256 * b(2) + 65536 * b(3) + 16777216 * b(4) + 4294967296 * b(5)
    BY SMT DEF Worth
  <1> HIDE DEF b
  <1>4. /\ b(1) \in Nat /\ b(2) \in Nat /\ b(3) \in Nat /\ b(4) \in Nat /\ b(5) = 0
        /\ b(1) < 256 /\ b(2) < 256 /\ b(3) < 256 /\ b(4) < 256
    <2>1. b(1) \in Byte /\ b(2) \in Byte /\ b(3) \in Byte /\ b(4) \in Byte /\ b(5) = 0
      BY <1>1
    <2> QED BY <2>1, Bytes
  <1>5. PICK x1 \in Nat, x2 \in Nat, x3 \in Nat, x4 \in Nat, x5 \in Nat :
          /\ x1 = b(1) /\ x2 = b(2) /\ x3 = b(3) /\ x4 = b(4) /\ x5 = b(5) /\ x5 = 0
          /\ x1 < 256 /\ x2 < 256 /\ x3 < 256 /\ x4 < 256
    BY <1>4
  <1>6. Worth(d) = x1 + 256 * x2 + 65536 * x3 + 16777216 * x4
    <2>1. x1 = b(1) /\ x2 = b(2) /\ x3 = b(3) /\ x4 = b(4) /\ x5 = b(5)
      BY <1>5
    <2>2. Worth(d) = x1 + 256 * x2 + 65536 * x3 + 16777216 * x4 + 4294967296 * x5
      BY <1>3, <2>1, SMT
    <2>3. x5 = 0
      BY <1>5
    <2> QED BY <2>2, <2>3, SMT
  <1>7. CASE N = 1
    <2>1. Half[N] = 128
      BY <1>7, SMT DEF Half
    <2>2. Last(d) = x1 /\ x2 = 0 /\ x3 = 0 /\ x4 = 0
      BY <1>1, <1>2, <1>5, <1>7
    <2>3. Worth(d) = x1
      BY <1>6, <2>2, SMT
    <2>4. /\ x1 \in Nat
          /\ x1 < 256
          /\ x1 < 128 => x1 < 128
          /\ x1 >= 128 => x1 >= 128
      <3>1. x1 < 256 /\ x2 < 256 /\ x3 < 256 /\ x4 < 256
        BY <1>5
      <3> QED BY <3>1, SumBounds, SMT
    <2>5. 2 * Half[N] = 256
      BY <2>1
    <2> QED BY <2>1, <2>2, <2>3, <2>4, <2>5
  <1>8. CASE N = 2
    <2>1. Half[N] = 32768
      BY <1>8, SMT DEF Half
    <2>2. Last(d) = x2 /\ x3 = 0 /\ x4 = 0
      BY <1>1, <1>2, <1>5, <1>8
    <2>3. Worth(d) = x1 + 256 * x2
      BY <1>6, <2>2, SMT
    <2>4. /\ x1 + 256 * x2 \in Nat
          /\ x1 + 256 * x2 < 65536
          /\ x2 < 128 => x1 + 256 * x2 < 32768
          /\ x2 >= 128 => x1 + 256 * x2 >= 32768
      <3>1. x1 < 256 /\ x2 < 256 /\ x3 < 256 /\ x4 < 256
        BY <1>5
      <3> QED BY <3>1, SumBounds, SMT
    <2>5. 2 * Half[N] = 65536
      BY <2>1, SMT
    <2> QED BY <2>1, <2>2, <2>3, <2>4, <2>5, SMT
  <1>9. CASE N = 3
    <2>1. Half[N] = 8388608
      BY <1>9, SMT DEF Half
    <2>2. Last(d) = x3 /\ x4 = 0
      BY <1>1, <1>2, <1>5, <1>9
    <2>3. Worth(d) = x1 + 256 * x2 + 65536 * x3
      BY <1>6, <2>2, SMT
    <2>4. /\ x1 + 256 * x2 + 65536 * x3 \in Nat
          /\ x1 + 256 * x2 + 65536 * x3 < 16777216
          /\ x3 < 128 => x1 + 256 * x2 + 65536 * x3 < 8388608
          /\ x3 >= 128 => x1 + 256 * x2 + 65536 * x3 >= 8388608
      <3>1. x1 < 256 /\ x2 < 256 /\ x3 < 256 /\ x4 < 256
        BY <1>5
      <3> QED BY <3>1, SumBounds, SMT
    <2>5. 2 * Half[N] = 16777216
      BY <2>1, SMT
    <2> QED BY <2>1, <2>2, <2>3, <2>4, <2>5, SMT
  <1>10. CASE N = 4
    <2>1. Half[N] = 2147483648
      BY <1>10, SMT DEF Half
    <2>2. Last(d) = x4
      BY <1>1, <1>2, <1>5, <1>10
    <2>3. Worth(d) = x1 + 256 * x2 + 65536 * x3 + 16777216 * x4
      BY <1>6, <2>2, SMT
    <2>4. /\ x1 + 256 * x2 + 65536 * x3 + 16777216 * x4 \in Nat
          /\ x1 + 256 * x2 + 65536 * x3 + 16777216 * x4 < 4294967296
          /\ x4 < 128 => x1 + 256 * x2 + 65536 * x3 + 16777216 * x4 < 2147483648
          /\ x4 >= 128 => x1 + 256 * x2 + 65536 * x3 + 16777216 * x4 >= 2147483648
      <3>1. x1 < 256 /\ x2 < 256 /\ x3 < 256 /\ x4 < 256
        BY <1>5
      <3> QED BY <3>1, SumBounds, SMT
    <2>5. 2 * Half[N] = 4294967296
      BY <2>1, SMT
    <2> QED BY <2>1, <2>2, <2>3, <2>4, <2>5, SMT
  <1> QED BY <1>7, <1>8, <1>9, <1>10

(* The bytes of d with another one, or nothing, behind or as the last.       *)
LEMMA WorthOfLast ==
  ASSUME NEW d \in Data, NEW N \in 1 .. 4, Len(d) = N, NEW x \in Byte
  PROVE  /\ Append(Front(d), x) \in Data /\ Len(Append(Front(d), x)) = N
         /\ Last(Append(Front(d), x)) = x /\ Front(Append(Front(d), x)) = Front(d)
         /\ Last(d) \in Byte
         /\ Worth(Append(Front(d), x)) = Worth(d) + Powers[N] * (x - Last(d))
  <1> DEFINE e == Append(Front(d), x)
  <1>1. d \in Seq(Byte) /\ d # <<>>
    BY EmptySeq DEF Data
  <1>2. Front(d) \in Seq(Byte) /\ Last(d) \in Byte /\ Len(Front(d)) = N - 1
        /\ Last(d) = d[N] /\ \A i \in 1 .. N - 1 : Front(d)[i] = d[i]
    BY <1>1, FrontSeq
  <1>3. e \in Seq(Byte) /\ Len(e) = N /\ e[N] = x
        /\ \A i \in 1 .. N - 1 : e[i] = d[i]
    <2>1. e \in Seq(Byte) /\ Len(e) = Len(Front(d)) + 1 /\ e[Len(Front(d)) + 1] = x
          /\ \A i \in 1 .. Len(Front(d)) : e[i] = Front(d)[i]
      BY <1>2, AppendSeq
    <2>2. Len(Front(d)) + 1 = N
      BY <1>2
    <2> HIDE DEF e
    <2> QED BY <1>2, <2>1, <2>2
  <1>4. Last(e) = x /\ Front(e) = Front(d)
    <2>1. e # <<>>
      BY <1>3, EmptySeq
    <2> HIDE DEF e
    <2>2. Last(e) = e[N]
      BY <1>3, <2>1 DEF Last
    <2>3. Front(e) \in Seq(Byte) /\ Len(Front(e)) = N - 1
          /\ \A i \in 1 .. N - 1 : Front(e)[i] = e[i]
      BY <1>3, <2>1, FrontSeq
    <2>4. \A i \in 1 .. N - 1 : Front(e)[i] = Front(d)[i]
      BY <1>2, <1>3, <2>3
    <2>5. Front(e) = Front(d)
      BY <1>2, <2>3, <2>4, SeqEqual
    <2> QED BY <1>3, <2>2, <2>5
  <1>5. Worth(e) = Worth(d) + Powers[N] * (x - Last(d))
    <2>1. e \in Data
      BY <1>3 DEF Data
    <2> DEFINE a(i) == ByteAt(e, i)
               b(i) == ByteAt(d, i)
    <2> HIDE DEF e
    <2>2. /\ \A i \in 1 .. 5 : a(i) \in Byte
          /\ \A i \in 1 .. 5 : i > N => a(i) = 0
          /\ \A i \in 1 .. 5 : b(i) \in Byte
          /\ \A i \in 1 .. 5 : i > N => b(i) = 0
          /\ a(N) = x /\ b(N) = Last(d)
          /\ \A i \in 1 .. N - 1 : a(i) = b(i)
      BY <1>2, <1>3, <2>1, BytesAt
    <2>3. /\ Worth(e) = a(1) + 256 * a(2) + 65536 * a(3) + 16777216 * a(4) + 4294967296 * a(5)
          /\ Worth(d) = b(1) + 256 * b(2) + 65536 * b(3) + 16777216 * b(4) + 4294967296 * b(5)
      BY SMT DEF Worth
    <2>4. Powers[1] = 1 /\ Powers[2] = 256 /\ Powers[3] = 65536 /\ Powers[4] = 16777216
      BY SMT DEF Powers
    <2>5. PICK y \in Int, l \in Int : y = x /\ l = Last(d)
      <3>1. x \in Int /\ Last(d) \in Int
        BY <1>2, Bytes
      <3> QED BY <3>1
    <2> HIDE DEF a, b
    <2>6. /\ a(1) \in Int /\ a(2) \in Int /\ a(3) \in Int /\ a(4) \in Int /\ a(5) = 0
          /\ b(1) \in Int /\ b(2) \in Int /\ b(3) \in Int /\ b(4) \in Int /\ b(5) = 0
      <3>1. /\ a(1) \in Byte /\ a(2) \in Byte /\ a(3) \in Byte /\ a(4) \in Byte
            /\ b(1) \in Byte /\ b(2) \in Byte /\ b(3) \in Byte /\ b(4) \in Byte
            /\ a(5) = 0 /\ b(5) = 0
        BY <2>2
      <3> QED BY <3>1, Bytes
    <2>7. /\ \E x1, x2, x3, x4, x5 \in Int :
                x1 = a(1) /\ x2 = a(2) /\ x3 = a(3) /\ x4 = a(4) /\ x5 = a(5) /\ x5 = 0
          /\ \E z1, z2, z3, z4, z5 \in Int :
                z1 = b(1) /\ z2 = b(2) /\ z3 = b(3) /\ z4 = b(4) /\ z5 = b(5) /\ z5 = 0
      BY <2>6
    <2>13. PICK x1 \in Int, x2 \in Int, x3 \in Int, x4 \in Int, x5 \in Int :
             x1 = a(1) /\ x2 = a(2) /\ x3 = a(3) /\ x4 = a(4) /\ x5 = a(5) /\ x5 = 0
      BY <2>7
    <2>14. PICK z1 \in Int, z2 \in Int, z3 \in Int, z4 \in Int, z5 \in Int :
             z1 = b(1) /\ z2 = b(2) /\ z3 = b(3) /\ z4 = b(4) /\ z5 = b(5) /\ z5 = 0
      BY <2>7
    <2>8. /\ Worth(e) = x1 + 256 * x2 + 65536 * x3 + 16777216 * x4
          /\ Worth(d) = z1 + 256 * z2 + 65536 * z3 + 16777216 * z4
      <3>1. Worth(e) = x1 + 256 * x2 + 65536 * x3 + 16777216 * x4 + 4294967296 * x5
        BY <2>3, <2>13, SMT
      <3>2. z1 = b(1) /\ z2 = b(2) /\ z3 = b(3) /\ z4 = b(4) /\ z5 = b(5)
        BY <2>14
      <3>3. Worth(d) = b(1) + 256 * b(2) + 65536 * b(3) + 16777216 * b(4) + 4294967296 * b(5)
        BY <2>3, SMT
      <3>4. Worth(d) = z1 + 256 * z2 + 65536 * z3 + 16777216 * z4 + 4294967296 * z5
        BY <3>2, <3>3, SMT
      <3>5. x5 = 0 /\ z5 = 0
        BY <2>13, <2>14
      <3> QED BY <3>1, <3>4, <3>5, SMT
    <2>9. CASE N = 1
      <3>1. x1 = y /\ z1 = l /\ x2 = z2 /\ x3 = z3 /\ x4 = z4
        BY <2>2, <2>5, <2>13, <2>14, <2>9
      <3>2. Powers[N] = 1
        BY <2>4, <2>9, SMT
      <3>3. x1 + 256 * x2 + 65536 * x3 + 16777216 * x4 = (z1 + 256 * z2 + 65536 * z3 + 16777216 * z4) + 1 * (y - l)
        BY <3>1, SMT
      <3>4. Worth(e) = Worth(d) + 1 * (y - l)
        BY <2>8, <3>3, SMT
      <3> QED BY <2>5, <3>2, <3>4
    <2>10. CASE N = 2
      <3>1. x2 = y /\ z2 = l /\ x1 = z1 /\ x3 = z3 /\ x4 = z4
        BY <2>2, <2>5, <2>13, <2>14, <2>10
      <3>2. Powers[N] = 256
        BY <2>4, <2>10, SMT
      <3>3. x1 + 256 * x2 + 65536 * x3 + 16777216 * x4 = (z1 + 256 * z2 + 65536 * z3 + 16777216 * z4) + 256 * (y - l)
        BY <3>1, SMT
      <3>4. Worth(e) = Worth(d) + 256 * (y - l)
        BY <2>8, <3>3, SMT
      <3> QED BY <2>5, <3>2, <3>4
    <2>11. CASE N = 3
      <3>1. x3 = y /\ z3 = l /\ x1 = z1 /\ x2 = z2 /\ x4 = z4
        BY <2>2, <2>5, <2>13, <2>14, <2>11
      <3>2. Powers[N] = 65536
        BY <2>4, <2>11, SMT
      <3>3. x1 + 256 * x2 + 65536 * x3 + 16777216 * x4 = (z1 + 256 * z2 + 65536 * z3 + 16777216 * z4) + 65536 * (y - l)
        BY <3>1, SMT
      <3>4. Worth(e) = Worth(d) + 65536 * (y - l)
        BY <2>8, <3>3, SMT
      <3> QED BY <2>5, <3>2, <3>4, SMT
    <2>12. CASE N = 4
      <3>1. x4 = y /\ z4 = l /\ x1 = z1 /\ x2 = z2 /\ x3 = z3
        BY <2>2, <2>5, <2>13, <2>14, <2>12
      <3>2. Powers[N] = 16777216
        BY <2>4, <2>12, SMT
      <3>3. x1 + 256 * x2 + 65536 * x3 + 16777216 * x4 = (z1 + 256 * z2 + 65536 * z3 + 16777216 * z4) + 16777216 * (y - l)
        BY <3>1, SMT
      <3>4. Worth(e) = Worth(d) + 16777216 * (y - l)
        BY <2>8, <3>3, SMT
      <3> QED BY <2>5, <3>2, <3>4, SMT
    <2> QED BY <2>9, <2>10, <2>11, <2>12
  <1> QED BY <1>2, <1>3, <1>4, <1>5 DEF Data

LEMMA WorthOfMore ==
  ASSUME NEW d \in Data, NEW N \in 1 .. 4, Len(d) = N
  PROVE  /\ Append(d, 0) \in Data /\ Len(Append(d, 0)) = N + 1
         /\ Worth(Append(d, 0)) = Worth(d)
  <1> DEFINE e == Append(d, 0)
  <1>1. e \in Data /\ Len(e) = N + 1 /\ e[N + 1] = 0
        /\ \A i \in 1 .. N : e[i] = d[i]
    <2>1. 0 \in Byte
      BY DEF Byte
    <2> QED BY <2>1, AppendSeq DEF Data
  <1> HIDE DEF e
  <1>2. /\ \A i \in 1 .. N + 1 : ByteAt(e, i) = e[i]
        /\ \A i \in 1 .. 5 : i > N + 1 => ByteAt(e, i) = 0
        /\ \A i \in 1 .. N : ByteAt(d, i) = d[i]
        /\ \A i \in 1 .. 5 : i > N => ByteAt(d, i) = 0
    <2>1. N + 1 \in Nat /\ N \in Nat
      OBVIOUS
    <2> QED BY <1>1, <2>1, BytesAt
  <1>3. \A i \in 1 .. 5 : ByteAt(e, i) = ByteAt(d, i)
    <2> TAKE i \in 1 .. 5
    <2>1. CASE i <= N
      <3>1. i \in 1 .. N /\ i \in 1 .. N + 1
        BY <2>1
      <3> QED BY <1>1, <1>2, <3>1
    <2>2. CASE i = N + 1
      <3>1. i \in 1 .. N + 1 /\ i > N
        BY <2>2
      <3> QED BY <1>1, <1>2, <2>2, <3>1
    <2>3. CASE i > N + 1
      <3>1. i > N
        BY <2>3
      <3> QED BY <1>2, <2>3, <3>1
    <2> QED BY <2>1, <2>2, <2>3
  <1>4. Worth(e) = Worth(d)
    BY <1>3, SMT DEF Worth
  <1> QED BY <1>1, <1>4 DEF e

(* What four bytes cannot hold.                                              *)
Beyond == 4294967296

(* The digits of a number are worth it, and the highest is not zero.         *)
LEMMA WorthOfNumber ==
  ASSUME NEW n \in Nat, n >= 1, n < Beyond
  PROVE  \E k \in 1 .. 4 :
           /\ Digits(n) \in Data /\ Len(Digits(n)) = k /\ Worth(Digits(n)) = n
           /\ n >= Powers[k] /\ Last(Digits(n)) >= 1
  <1> DEFINE d == Digits(n)
  <1>1. n \in Nat
    OBVIOUS
  <1>2. PICK k \in 0 .. 4 :
          /\ d = [i \in 1 .. k |-> (n \div Powers[i]) % 256]
          /\ \A i \in 1 .. 4 : i <= k <=> n >= Powers[i]
          /\ d \in Data /\ Len(d) = k
    BY <1>1, DigitsType
  <1>3. Powers[1] = 1 /\ Powers[2] = 256 /\ Powers[3] = 65536 /\ Powers[4] = 16777216
    BY SMT DEF Powers
  <1>4. k \in 1 .. 4
    BY <1>2, <1>3, SMT
  <1>5. n >= Powers[k]
    BY <1>2, <1>4
  <1> HIDE DEF d
  <1> DEFINE b(i) == ByteAt(d, i)
  <1>6. \A i \in 1 .. k : b(i) = (n \div Powers[i]) % 256
    <2>1. \A i \in 1 .. k : b(i) = d[i]
      BY <1>2, <1>4, BytesAt
    <2> HIDE DEF b
    <2> QED BY <1>2, <2>1
  <1>7. \A i \in 1 .. 5 : i > k => b(i) = 0
    BY <1>2, <1>4, BytesAt
  <1>8. Last(d) = b(k)
    <2>1. b(k) = d[k]
      BY <1>2, <1>4, BytesAt
    <2> QED BY <1>2, <2>1 DEF Last
  <1>9. Worth(d) = b(1) + 256 * b(2) + 65536 * b(3) + 16777216 * b(4) + 4294967296 * b(5)
    BY SMT DEF Worth
  <1> HIDE DEF b
  <1>10. \A i \in 1 .. 4 : i > k => n < Powers[i]
    BY <1>2, <1>3, SMT
  <1> DEFINE q2 == n \div 256
             q3 == n \div 65536
             q4 == n \div 16777216
  <1>11. /\ q2 \in Nat /\ 256 * q2 <= n /\ n < 256 * q2 + 256 /\ n % 256 = n - 256 * q2
         /\ q3 \in Nat /\ 65536 * q3 <= n /\ n < 65536 * q3 + 65536
         /\ q4 \in Nat /\ 16777216 * q4 <= n /\ n < 16777216 * q4 + 16777216
    BY SMT
  <1> HIDE DEF q2, q3, q4
  <1>12. \A q \in Nat : /\ q < 256 => q % 256 = q
                        /\ \A r \in Nat : 256 * r <= q /\ q < 256 * r + 256 => q % 256 = q - 256 * r
    OBVIOUS
  <1>13. 256 * q3 <= q2 /\ q2 < 256 * q3 + 256 /\ 256 * q4 <= q3 /\ q3 < 256 * q4 + 256
    BY <1>11, SMT
  <1>14. q2 % 256 = q2 - 256 * q3 /\ q3 % 256 = q3 - 256 * q4 /\ n % 256 = n - 256 * q2
    BY <1>11, <1>12, <1>13, SMT
  <1>15. q4 % 256 = q4
    <2>1. q4 < 256
      BY <1>11, SMT DEF Beyond
    <2> QED BY <1>11, <1>12, <2>1, SMT
  <1>16. n \div 1 = n
    OBVIOUS
  <1>17. b(1) = n - 256 * q2
    <2>1. 1 \in 1 .. k
      BY <1>4
    <2> QED BY <1>3, <1>6, <1>14, <1>16, <2>1, SMT
  <1>18. k >= 2 => b(2) = q2 - 256 * q3
    <2>1. k >= 2 => 2 \in 1 .. k
      BY <1>4
    <2> QED BY <1>3, <1>6, <1>14, <2>1, SMT DEF q2
  <1>19. k >= 3 => b(3) = q3 - 256 * q4
    <2>1. k >= 3 => 3 \in 1 .. k
      BY <1>4
    <2> QED BY <1>3, <1>6, <1>14, <2>1, SMT DEF q3
  <1>20. k = 4 => b(4) = q4
    <2>1. k = 4 => 4 \in 1 .. k
      BY <1>4
    <2> QED BY <1>3, <1>6, <1>15, <2>1, SMT DEF q4
  <1>21. b(5) = 0
    BY <1>4, <1>7
  <1>22. Worth(d) = n /\ b(k) >= 1
    <2>1. CASE k = 1
      <3>1. b(2) = 0 /\ b(3) = 0 /\ b(4) = 0 /\ n < 256
        BY <1>3, <1>7, <1>10, <2>1, SMT
      <3>2. q2 = 0
        BY <1>11, <3>1, SMT
      <3> QED BY <1>9, <1>17, <1>21, <2>1, <3>1, <3>2, SMT
    <2>2. CASE k = 2
      <3>1. b(3) = 0 /\ b(4) = 0 /\ n < 65536 /\ n >= 256
        BY <1>3, <1>5, <1>7, <1>10, <2>2, SMT
      <3>2. q3 = 0 /\ q2 >= 1 /\ b(2) = q2 - 256 * q3
        BY <1>11, <1>18, <2>2, <3>1, SMT
      <3> QED BY <1>9, <1>11, <1>17, <1>21, <2>2, <3>1, <3>2, SMT
    <2>3. CASE k = 3
      <3>1. b(4) = 0 /\ n < 16777216 /\ n >= 65536
        BY <1>3, <1>5, <1>7, <1>10, <2>3, SMT
      <3>2. q4 = 0 /\ q3 >= 1 /\ b(2) = q2 - 256 * q3 /\ b(3) = q3 - 256 * q4
        BY <1>11, <1>18, <1>19, <2>3, <3>1, SMT
      <3> QED BY <1>9, <1>11, <1>17, <1>21, <2>3, <3>1, <3>2, SMT
    <2>4. CASE k = 4
      <3>1. n >= 16777216
        BY <1>3, <1>5, <2>4, SMT
      <3>2. q4 >= 1 /\ b(2) = q2 - 256 * q3 /\ b(3) = q3 - 256 * q4 /\ b(4) = q4
        BY <1>11, <1>18, <1>19, <1>20, <2>4, <3>1, SMT
      <3> QED BY <1>9, <1>11, <1>17, <1>21, <2>4, <3>1, <3>2, SMT
    <2> QED BY <1>4, <2>1, <2>2, <2>3, <2>4
  <1> QED BY <1>2, <1>4, <1>5, <1>8, <1>22 DEF d

(* What data read as is less than half of what as many bytes can be worth.   *)
LEMMA castBigintBound ==
  ASSUME NEW d \in Data, NEW N \in 1 .. 4, Len(d) = N
  PROVE  castBigint(d) \in Int /\ -Half[N] < castBigint(d) /\ castBigint(d) < Half[N]
  <1>1. d # <<>> /\ Last(d) \in Byte
    BY EmptySeq, FrontSeq DEF Data
  <1>2. N \in 0 .. 5 /\ Half[N] \in Nat
    <2>1. Half[1] = 128 /\ Half[2] = 32768 /\ Half[3] = 8388608 /\ Half[4] = 2147483648
      BY SMT DEF Half
    <2> QED BY <2>1, SMT
  <1>3. CASE Last(d) >= 128
    <2> DEFINE e == Append(Front(d), Last(d) - 128)
    <2>1. Last(d) - 128 \in Byte /\ Last(d) - 128 < 128
      BY <1>1, <1>3, Bytes
    <2>2. e \in Data /\ Len(e) = N /\ Last(e) < 128
      <3> DEFINE x == Last(d) - 128
      <3>1. x \in Byte
        BY <2>1
      <3> HIDE DEF x
      <3>2. Append(Front(d), x) \in Data /\ Len(Append(Front(d), x)) = N /\ Last(Append(Front(d), x)) = x
        BY <3>1, WorthOfLast
      <3>3. e \in Data /\ Len(e) = N /\ Last(e) = Last(d) - 128
        BY <3>2 DEF x
      <3> QED BY <2>1, <3>3
    <2>3. castBigint(d) = -Magnitude(e)
      BY <1>1, <1>3 DEF castBigint
    <2> HIDE DEF e
    <2>4. Magnitude(e) \in Nat /\ Magnitude(e) < Half[N]
      BY <1>2, <2>2, MagnitudeIsWorth, WorthOfDigits
    <2> QED BY <1>2, <2>3, <2>4
  <1>4. CASE ~(Last(d) >= 128)
    <2>1. Last(d) < 128
      BY <1>1, <1>4, Bytes
    <2>2. castBigint(d) = Magnitude(d)
      BY <1>4 DEF castBigint
    <2>3. Magnitude(d) \in Nat /\ Magnitude(d) < Half[N]
      BY <1>2, <2>1, MagnitudeIsWorth, WorthOfDigits
    <2> QED BY <1>2, <2>2, <2>3
  <1> QED BY <1>3, <1>4

LEMMA castBigintEmpty == castBigint(<<>>) = 0
  <1>1. <<>> \in Data /\ Len(<<>>) = 0
    BY DEF Data
  <1>2. PICK f : Reads(f, <<>>)
    BY <1>1, MagnitudeReads
  <1>3. Magnitude(<<>>) = 0
    BY <1>1, <1>2 DEF Reads
  <1> QED BY <1>3 DEF castBigint

LEMMA EndsOfAppend ==
  ASSUME NEW S, NEW s \in Seq(S), NEW x \in S
  PROVE  Append(s, x) # <<>> /\ Last(Append(s, x)) = x /\ Front(Append(s, x)) = s
  <1> DEFINE e == Append(s, x)
  <1>1. e \in Seq(S) /\ Len(e) = Len(s) + 1 /\ e[Len(s) + 1] = x
        /\ \A i \in 1 .. Len(s) : e[i] = s[i]
    BY AppendSeq
  <1> HIDE DEF e
  <1>2. Len(s) \in Nat
    OBVIOUS
  <1>3. e # <<>>
    BY <1>1, <1>2, EmptySeq
  <1>4. Last(e) = x
    BY <1>1, <1>3 DEF Last
  <1>5. Front(e) \in Seq(S) /\ Len(Front(e)) = Len(e) - 1
        /\ \A i \in 1 .. Len(e) - 1 : Front(e)[i] = e[i]
    BY <1>1, <1>3, FrontSeq
  <1>6. Len(e) - 1 = Len(s)
    BY <1>1, <1>2
  <1>7. \A i \in 1 .. Len(s) : Front(e)[i] = s[i]
    BY <1>1, <1>5, <1>6
  <1>8. Front(e) = s
    BY <1>5, <1>6, <1>7, SeqEqual
  <1> QED BY <1>3, <1>4, <1>8 DEF e

(* data are the number n, in no more bytes than it takes, and true unless it *)
(* is zero.                                                                  *)
Exactly(data, n) ==
  /\ castBigint(data) = n
  /\ \A j \in 0 .. Len(data) - 1 : castBigint(SubSeq(data, 1, j)) # n
  /\ castBool(data) <=> n # 0

(* Shorter data are too small.                                               *)
LEMMA ShorterIsSmaller ==
  ASSUME NEW data \in Data, NEW n \in Int, NEW m \in Nat, n = m \/ n = -m, m # 0,
         NEW K \in 1 .. 5, Len(data) = K,
         \A j \in 1 .. K - 1 : Half[j] <= m
  PROVE  \A j \in 0 .. Len(data) - 1 : castBigint(SubSeq(data, 1, j)) # n
  <1> TAKE j \in 0 .. Len(data) - 1
  <1>1. j \in Nat /\ j <= K - 1 /\ j <= 4
    OBVIOUS
  <1> DEFINE p == SubSeq(data, 1, j)
  <1>2. p \in Data /\ Len(p) = j
    <2>1. K - j \in 0 .. Len(data) /\ Len(data) - (K - j) = j
      BY <1>1
    <2>2. Popped(data, K - j) \in Seq(Byte) /\ Len(Popped(data, K - j)) = Len(data) - (K - j)
      BY <2>1, PoppedSeq DEF Data
    <2>3. Popped(data, K - j) = p
      BY <2>1 DEF Popped
    <2> HIDE DEF p
    <2> QED BY <2>1, <2>2, <2>3 DEF Data
  <1> HIDE DEF p
  <1>3. CASE j = 0
    <2>1. p \in Seq(Byte) /\ Len(p) = 0
      BY <1>2, <1>3 DEF Data
    <2>2. p = <<>>
      BY <2>1, EmptySeq
    <2>3. castBigint(p) # n
      BY <2>2, castBigintEmpty
    <2> QED BY <2>3 DEF p
  <1>4. CASE j # 0
    <2>1. j \in 1 .. 4 /\ j \in 1 .. K - 1
      BY <1>1, <1>4
    <2>2. castBigint(p) \in Int /\ -Half[j] < castBigint(p) /\ castBigint(p) < Half[j]
      BY <1>2, <2>1, castBigintBound
    <2>3. Half[j] <= m /\ Half[j] \in Nat
      <3>1. Half[1] \in Nat /\ Half[2] \in Nat /\ Half[3] \in Nat /\ Half[4] \in Nat
        BY SMT DEF Half
      <3> QED BY <2>1, <3>1
    <2>4. castBigint(p) # n
      BY <2>2, <2>3
    <2> QED BY <2>4 DEF p
  <1> QED BY <1>3, <1>4

LEMMA ZeroIsExact == Exactly(bigintToBuffer(0), 0)
  <1>1. bigintToBuffer(0) = <<>>
    BY DEF bigintToBuffer
  <1>2. ~castBool(<<>>)
    <2>1. DOMAIN <<>> = {}
      OBVIOUS
    <2> QED BY <2>1, Zenon DEF castBool
  <1>3. \A j \in 0 .. Len(<<>>) - 1 : FALSE
    OBVIOUS
  <1>4. Exactly(<<>>, 0)
    BY <1>2, <1>3, castBigintEmpty DEF Exactly
  <1> QED BY <1>1, <1>4

(* The highest bit of the digits is taken: a byte is added for the sign.     *)
LEMMA SignByteIsExact ==
  ASSUME NEW n \in Int, NEW m \in Nat, n = m \/ n = -m, m # 0, NEW sign \in Byte,
         sign = IF n < 0 THEN 128 ELSE 0,
         NEW d \in Data, NEW k \in 1 .. 4, Len(d) = k, Worth(d) = m, Last(d) >= 128
  PROVE  Exactly(Append(d, sign), n)
  <1> DEFINE data == Append(d, sign)
  <1>1. data \in Data /\ Len(data) = k + 1 /\ \A i \in 1 .. k : data[i] = d[i]
    BY AppendSeq DEF Data
  <1>2. data # <<>> /\ Last(data) = sign /\ Front(data) = d
    BY EndsOfAppend DEF Data
  <1>3. Magnitude(Append(d, 0)) = m
    <2>1. Append(d, 0) \in Data /\ Len(Append(d, 0)) = k + 1 /\ Worth(Append(d, 0)) = m
      BY WorthOfMore
    <2>2. k + 1 \in 0 .. 5
      OBVIOUS
    <2> QED BY <2>1, <2>2, MagnitudeIsWorth
  <1>4. castBigint(data) = n
    <2>1. CASE n < 0
      <3>1. sign = 128 /\ sign - 128 = 0 /\ n = -m
        BY <2>1
      <3>2. castBigint(data) = -Magnitude(Append(d, 0))
        <4> HIDE DEF data
        <4> QED BY <1>2, <3>1 DEF castBigint
      <3> QED BY <1>3, <3>1, <3>2
    <2>2. CASE ~(n < 0)
      <3>1. sign = 0 /\ n = m
        BY <2>2
      <3>2. castBigint(data) = Magnitude(data)
        <4> HIDE DEF data
        <4>1. ~(Last(data) >= 128)
          BY <1>2, <3>1
        <4> QED BY <4>1 DEF castBigint
      <3> QED BY <1>3, <3>1, <3>2
    <2> QED BY <2>1, <2>2
  <1>5. \A j \in 1 .. k : Half[j] <= m
    <2>1. Half[k] <= m
      BY WorthOfDigits
    <2>2. Half[1] = 128 /\ Half[2] = 32768 /\ Half[3] = 8388608 /\ Half[4] = 2147483648
      BY SMT DEF Half
    <2>3. \A j \in 1 .. k : Half[j] <= Half[k] /\ Half[j] \in Nat /\ Half[k] \in Nat
      BY <2>2, SMT
    <2> QED BY <2>1, <2>3
  <1> HIDE DEF data
  <1>6. \A j \in 0 .. Len(data) - 1 : castBigint(SubSeq(data, 1, j)) # n
    <2>1. k + 1 \in 1 .. 5 /\ \A j \in 1 .. (k + 1) - 1 : Half[j] <= m
      BY <1>5
    <2> QED BY <1>1, <2>1, ShorterIsSmaller
  <1>7. castBool(data)
    <2>1. d # <<>> /\ Last(d) = d[k] /\ Last(d) \in Byte
      <3>1. d \in Seq(Byte) /\ d # <<>>
        BY EmptySeq DEF Data
      <3> QED BY <3>1, FrontSeq
    <2>2. k \in DOMAIN data /\ k # Len(data)
      BY <1>1 DEF Data
    <2>3. data[k] # 0
      BY <1>1, <2>1, Bytes
    <2> QED BY <2>2, <2>3, Zenon DEF castBool
  <1>8. n # 0
    OBVIOUS
  <1>9. Exactly(data, n)
    BY <1>4, <1>6, <1>7, <1>8, Zenon DEF Exactly
  <1> QED BY <1>9 DEF data

(* The sign goes into the highest bit of the digits.                         *)
LEMMA SignBitIsExact ==
  ASSUME NEW n \in Int, NEW m \in Nat, n = m \/ n = -m, m # 0, NEW sign,
         sign = IF n < 0 THEN 128 ELSE 0,
         NEW d \in Data, NEW k \in 1 .. 4, Len(d) = k, Worth(d) = m,
         m >= Powers[k], Last(d) >= 1, Last(d) < 128
  PROVE  Exactly(Front(d) \o <<Last(d) + sign>>, n)
  <1> DEFINE x == Last(d) + sign
             data == Append(Front(d), x)
  <1>1. d # <<>> /\ Last(d) \in Byte /\ Front(d) \in Data
    BY EmptySeq, FrontSeq DEF Data
  <1>2. x \in Byte /\ x # 128 /\ x # 0
    <2>1. CASE n < 0
      BY <1>1, <2>1, Bytes
    <2>2. CASE ~(n < 0)
      BY <1>1, <2>2, Bytes
    <2> QED BY <2>1, <2>2
  <1> HIDE DEF x
  <1>3. Front(d) \o <<x>> = data
    BY <1>1, <1>2, AppendIsConcat DEF Data
  <1>4. data \in Data /\ Len(data) = k /\ Last(data) = x /\ Front(data) = Front(d)
    BY <1>2, WorthOfLast
  <1>5. Magnitude(Append(Front(d), Last(d))) = m
    <2>1. /\ Append(Front(d), Last(d)) \in Data /\ Len(Append(Front(d), Last(d))) = k
          /\ Worth(Append(Front(d), Last(d))) = Worth(d) + Powers[k] * (Last(d) - Last(d))
      BY <1>1, WorthOfLast
    <2>2. Powers[k] \in Int
      BY SMT DEF Powers
    <2>3. Last(d) - Last(d) = 0
      BY <1>1, Bytes
    <2>4. Worth(Append(Front(d), Last(d))) = m
      BY <2>1, <2>2, <2>3
    <2>5. k \in 0 .. 5
      OBVIOUS
    <2> QED BY <2>1, <2>4, <2>5, MagnitudeIsWorth
  <1> HIDE DEF data
  <1>6. data # <<>>
    BY <1>4, EmptySeq DEF Data
  <1>7. castBigint(data) = n
    <2>1. CASE n < 0
      <3>1. x >= 128 /\ x - 128 = Last(d) /\ n = -m
        BY <1>1, <2>1, Bytes DEF x
      <3>2. castBigint(data) = -Magnitude(Append(Front(d), Last(d)))
        BY <1>4, <1>6, <3>1 DEF castBigint
      <3> QED BY <1>5, <3>1, <3>2
    <2>2. CASE ~(n < 0)
      <3>1. x = Last(d) /\ ~(x >= 128) /\ n = m
        BY <1>1, <2>2, Bytes DEF x
      <3>2. castBigint(data) = Magnitude(data)
        <4>1. ~(Last(data) >= 128)
          BY <1>4, <3>1
        <4> QED BY <4>1 DEF castBigint
      <3>3. data = Append(Front(d), Last(d))
        BY <3>1 DEF data
      <3> QED BY <1>5, <3>1, <3>2, <3>3
    <2> QED BY <2>1, <2>2
  <1>8. \A j \in 1 .. k - 1 : Half[j] <= m
    <2>1. Half[1] = 128 /\ Half[2] = 32768 /\ Half[3] = 8388608 /\ Half[4] = 2147483648
      BY SMT DEF Half
    <2>2. Powers[1] = 1 /\ Powers[2] = 256 /\ Powers[3] = 65536 /\ Powers[4] = 16777216
      BY SMT DEF Powers
    <2>3. \A j \in 1 .. k - 1 : Half[j] <= Powers[k] /\ Half[j] \in Nat /\ Powers[k] \in Nat
      BY <2>1, <2>2, SMT
    <2> QED BY <2>3
  <1>9. \A j \in 0 .. Len(data) - 1 : castBigint(SubSeq(data, 1, j)) # n
    <2>1. k \in 1 .. 5
      OBVIOUS
    <2> QED BY <1>4, <1>8, <2>1, ShorterIsSmaller
  <1>10. castBool(data)
    <2>1. k \in DOMAIN data /\ data[k] = x
      BY <1>4 DEF Data, Last
    <2> QED BY <1>2, <2>1, Zenon DEF castBool
  <1>11. n # 0
    OBVIOUS
  <1>12. Exactly(data, n)
    BY <1>7, <1>9, <1>10, <1>11, Zenon DEF Exactly
  <1> QED BY <1>3, <1>12 DEF x

(* A number of four bytes at most is written as what reads as it.            *)
LEMMA bigintToBufferIsExact ==
  ASSUME NEW n \in Int, -Beyond < n, n < Beyond
  PROVE  Exactly(bigintToBuffer(n), n)
  <1>1. CASE n = 0
    BY <1>1, ZeroIsExact
  <1>2. CASE n # 0
    <2> DEFINE m == Abs(n)
               d == Digits(m)
               sign == IF n < 0 THEN 128 ELSE 0
    <2>1. m \in Nat /\ (n = m \/ n = -m) /\ m # 0 /\ m >= 1 /\ m < Beyond
      BY <1>2, SMT DEF Abs, Beyond
    <2>2. sign \in Byte
      BY DEF Byte
    <2> HIDE DEF m
    <2>3. PICK k \in 1 .. 4 :
            /\ d \in Data /\ Len(d) = k /\ Worth(d) = m
            /\ m >= Powers[k] /\ Last(d) >= 1
      BY <2>1, WorthOfNumber
    <2>4. d # <<>> /\ Last(d) \in Byte
      <3> HIDE DEF d
      <3> QED BY <2>3, EmptySeq, FrontSeq DEF Data
    <2>5. bigintToBuffer(n) = IF Last(d) >= 128 THEN Append(d, sign)
                              ELSE Front(d) \o <<Last(d) + sign>>
      BY <1>2, <2>4 DEF bigintToBuffer, m
    <2>6. sign = IF n < 0 THEN 128 ELSE 0
      OBVIOUS
    <2> HIDE DEF d, sign
    <2>7. CASE Last(d) >= 128
      <3>1. /\ m \in Nat /\ (n = m \/ n = -m) /\ m # 0 /\ sign \in Byte
            /\ sign = IF n < 0 THEN 128 ELSE 0
            /\ d \in Data /\ Len(d) = k /\ Worth(d) = m
        BY <2>1, <2>2, <2>3, <2>6
      <3>2. Exactly(Append(d, sign), n)
        BY <2>7, <3>1, SignByteIsExact
      <3> QED BY <2>5, <2>7, <3>2
    <2>8. CASE ~(Last(d) >= 128)
      <3>1. Last(d) < 128
        BY <2>4, <2>8, Bytes
      <3>2. /\ m \in Nat /\ (n = m \/ n = -m) /\ m # 0
            /\ sign = IF n < 0 THEN 128 ELSE 0
            /\ d \in Data /\ Len(d) = k /\ Worth(d) = m
            /\ m >= Powers[k] /\ Last(d) >= 1
        BY <2>1, <2>3, <2>6
      <3>3. Exactly(Front(d) \o <<Last(d) + sign>>, n)
        BY <3>1, <3>2, SignBitIsExact, ZenonT(30)
      <3> QED BY <2>5, <2>8, <3>3
    <2> QED BY <2>7, <2>8
  <1> QED BY <1>1, <1>2

-----------------------------------------------------------------------------
(* What a step of an opcode computes                                         *)

(* A step over a chunk of an active branch, of an opcode that rearranges the *)
(* stack or calculates, is that opcode's.                                    *)
LEMMA StepIsExecute ==
  ASSUME TypeInv, Next, pc' = pc + 1, Exec,
         Chunk.op \in Rearranging \cup Unary \cup Binary
  PROVE  /\ Compute(Chunk.op, stack, altStack).ok
         /\ stack' = Compute(Chunk.op, stack, altStack).stack
  <1> DEFINE result == Compute(Chunk.op, stack, altStack)
  <1>1. pc \in Nat
    <2>1. TypeOK
      BY DEF TypeInv
    <2>2. Len(Script) \in Nat
      BY <2>1, ScriptType
    <2> QED BY <2>1, <2>2 DEF TypeOK
  <1>2. ~Fail /\ pc' # pc /\ ~SecondScript
    BY <1>1 DEF Fail, SecondScript
  <1>3. Chunk.op \notin {"data", "OP_CODESEPARATOR"} \cup Conditionals \cup SigOps
    BY DEF Rearranging, Unary, Binary, Conditionals, SigOps
  <1>4. ~Oversized /\ ~RefuseChunk
    BY <1>2 DEF Oversized, RefuseChunk
  <1>5. ~PushData /\ ~CodeSeparator /\ ~Skip
    BY <1>3 DEF PushData, CodeSeparator, Skip
  <1>6. ~If /\ ~Else /\ ~EndIf
    BY <1>3 DEF If, Else, EndIf, Conditionals
  <1>7. ~CheckSig /\ ~CheckMultiSig
    BY <1>3 DEF CheckSig, CheckMultiSig, SigOps
  <1>8. ~SigChecked /\ ~SigsChecked /\ ~EndOfScript
    BY <1>2 DEF SigChecked, SigsChecked, EndOfScript, Result
  <1>9. ~Answered
    BY <1>2 DEF Answered, vars
  <1>10. Execute
    BY <1>4, <1>5, <1>6, <1>7, <1>8, <1>9 DEF Next
  <1>11. result.ok /\ Proceed(result.stack, result.alt, execStack)
    BY <1>2, <1>10 DEF Execute
  <1> HIDE DEF result
  <1>12. stack' = result.stack
    BY <1>2, <1>11 DEF Proceed
  <1> QED BY <1>11, <1>12 DEF result

(* The kinds of opcodes exclude each other.                                  *)
LEMMA OpcodesDiffer ==
  ASSUME NEW op \in Rearranging \cup Unary \cup Binary
  PROVE  /\ op \notin Nops /\ op # "OP_0" /\ op # "OP_1NEGATE" /\ op \notin ToSet(SmallNumbers)
         /\ op # "OP_VERIFY" /\ op # "OP_TOALTSTACK" /\ op # "OP_FROMALTSTACK" /\ op # "OP_IFDUP"
         /\ op # "OP_DEPTH" /\ op # "OP_SIZE" /\ op \notin {"OP_PICK", "OP_ROLL"}
         /\ op \notin {"OP_EQUAL", "OP_EQUALVERIFY"} /\ op \notin HashOps /\ op # "OP_WITHIN"
         /\ op \in Unary => op \notin Binary /\ op \notin Rearranging
         /\ op \in Binary => op \notin Unary /\ op \notin Rearranging
  <1>1. ToSet(SmallNumbers) = {"OP_1", "OP_2", "OP_3", "OP_4", "OP_5", "OP_6", "OP_7", "OP_8",
          "OP_9", "OP_10", "OP_11", "OP_12", "OP_13", "OP_14", "OP_15", "OP_16"}
    BY DEF ToSet, SmallNumbers
  <1>2. CASE op \in Rearranging
    BY <1>1, <1>2 DEF Rearranging, Unary, Binary, Nops, HashOps
  <1>3. CASE op \in Unary
    BY <1>1, <1>3 DEF Rearranging, Unary, Binary, Nops, HashOps
  <1>4. CASE op \in Binary
    BY <1>1, <1>4 DEF Rearranging, Unary, Binary, Nops, HashOps
  <1> QED BY <1>2, <1>3, <1>4

LEMMA ComputeRearranges ==
  ASSUME NEW op \in Rearranging, NEW s, NEW alt, Compute(op, s, alt).ok
  PROVE  ~(Len(s) < Needs[op]) /\ Compute(op, s, alt).stack = Rearranged(op, s)
  <1>1. op \in DOMAIN Needs
    BY PicturesFit
  <1>2. Compute(op, s, alt) = IF Len(s) < Needs[op] THEN Failure ELSE Done(Rearranged(op, s), alt)
    BY <1>1, OpcodesDiffer, Zenon DEF Compute
  <1>3. ~Failure.ok /\ Done(Rearranged(op, s), alt).stack = Rearranged(op, s)
    BY DEF Failure, Done
  <1> QED BY <1>2, <1>3

LEMMA ComputeCalculates ==
  ASSUME NEW op \in Unary \cup Binary, op # "OP_NUMEQUALVERIFY", NEW s, NEW alt, Compute(op, s, alt).ok
  PROVE  /\ NumbersOnTop(s, IF op \in Unary THEN 1 ELSE 2)
         /\ Compute(op, s, alt).stack =
              Append(Popped(s, IF op \in Unary THEN 1 ELSE 2),
                     bigintToBuffer(IF op \in Unary THEN UnaryResult(op, castBigint(Top(s, 1)))
                                    ELSE BinaryResult(op, castBigint(Top(s, 2)), castBigint(Top(s, 1)))))
  <1> DEFINE arity == IF op \in Unary THEN 1 ELSE IF op = "OP_WITHIN" THEN 3 ELSE 2
             x(i) == castBigint(Top(s, i))
             result == CASE op \in Unary -> UnaryResult(op, x(1))
                         [] op \in Binary -> BinaryResult(op, x(2), x(1))
                         [] op = "OP_WITHIN" -> Bit(x(2) <= x(3) /\ x(3) < x(1))
             rest == Popped(s, arity)
             out == Done(Append(rest, bigintToBuffer(result)), alt)
  <1>1. op # "OP_WITHIN" /\ op \notin Rearranging /\ (op \in Unary => op \notin Binary)
        /\ (op \notin Unary => op \in Binary)
    BY OpcodesDiffer
  <1>2. op \notin DOMAIN Needs
    <2>1. DOMAIN Needs = Rearranging
      BY DEF Needs, Rearranging
    <2> QED BY <1>1, <2>1
  <1>3. Compute(op, s, alt) = Arithmetic(op, s, alt)
    BY <1>2, OpcodesDiffer, Zenon DEF Compute
  <1>4. Arithmetic(op, s, alt) = IF ~NumbersOnTop(s, arity) THEN Failure ELSE out
    BY DEF Arithmetic
  <1>5. arity = (IF op \in Unary THEN 1 ELSE 2)
    BY <1>1
  <1>6. result = (IF op \in Unary THEN UnaryResult(op, x(1)) ELSE BinaryResult(op, x(2), x(1)))
    BY <1>1
  <1>7. ~Failure.ok /\ out.stack = Append(rest, bigintToBuffer(result))
    BY DEF Failure, Done
  <1> HIDE DEF out
  <1>8. NumbersOnTop(s, arity) /\ Compute(op, s, alt).stack = Append(rest, bigintToBuffer(result))
    BY <1>3, <1>4, <1>7
  <1> HIDE DEF arity, result, x
  <1> QED BY <1>5, <1>6, <1>8 DEF x

(* Results of numbers of four bytes have four bytes, without their sign.     *)
LEMMA ResultsAreBounded ==
  ASSUME NEW a \in Int, NEW b \in Int,
         -Half[4] < a, a < Half[4], -Half[4] < b, b < Half[4]
  PROVE  /\ \A op \in Unary : LET n == UnaryResult(op, a) IN n \in Int /\ -Beyond < n /\ n < Beyond
         /\ \A op \in Binary : LET n == BinaryResult(op, a, b) IN n \in Int /\ -Beyond < n /\ n < Beyond
  <1>1. Half[4] = 2147483648 /\ Beyond = 4294967296
    BY SMT DEF Half, Beyond
  <1>2. /\ -2147483648 < a /\ a < 2147483648 /\ -2147483648 < b /\ b < 2147483648
        /\ Beyond = 4294967296
    BY <1>1, SMT
  <1>3. /\ a + b \in Int /\ -Beyond < a + b /\ a + b < Beyond
        /\ a - b \in Int /\ -Beyond < a - b /\ a - b < Beyond
        /\ a + 1 \in Int /\ -Beyond < a + 1 /\ a + 1 < Beyond
        /\ a - 1 \in Int /\ -Beyond < a - 1 /\ a - 1 < Beyond
        /\ -a \in Int /\ -Beyond < -a /\ -a < Beyond
        /\ -Beyond < a /\ a < Beyond /\ -Beyond < b /\ b < Beyond
        /\ -Beyond < 0 /\ 0 < Beyond /\ -Beyond < 1 /\ 1 < Beyond
    BY <1>2, SMT
  <1>4. /\ \A c : Bit(c) = 0 \/ Bit(c) = 1
        /\ Abs(a) = a \/ Abs(a) = -a
    BY DEF Bit, Abs
  <1>5. ASSUME NEW op \in Unary
        PROVE  \/ UnaryResult(op, a) = a + 1 \/ UnaryResult(op, a) = a - 1 \/ UnaryResult(op, a) = -a
               \/ UnaryResult(op, a) = a \/ UnaryResult(op, a) = 0 \/ UnaryResult(op, a) = 1
    BY <1>4, Zenon DEF Unary, UnaryResult
  <1>6. ASSUME NEW op \in Binary
        PROVE  \/ BinaryResult(op, a, b) = a + b \/ BinaryResult(op, a, b) = a - b
               \/ BinaryResult(op, a, b) = a \/ BinaryResult(op, a, b) = b
               \/ BinaryResult(op, a, b) = 0 \/ BinaryResult(op, a, b) = 1
    <2>1. CASE op \in {"OP_ADD", "OP_SUB"}
      <3>1. BinaryResult("OP_ADD", a, b) = a + b /\ BinaryResult("OP_SUB", a, b) = a - b
        BY DEF BinaryResult
      <3> QED BY <2>1, <3>1
    <2>2. CASE op \in {"OP_MIN", "OP_MAX"}
      <3>1. /\ BinaryResult("OP_MIN", a, b) = IF a < b THEN a ELSE b
            /\ BinaryResult("OP_MAX", a, b) = IF a > b THEN a ELSE b
        BY DEF BinaryResult
      <3> QED BY <2>2, <3>1
    <2>3. CASE op \in Binary \ {"OP_ADD", "OP_SUB", "OP_MIN", "OP_MAX"}
      <3>1. \E c : BinaryResult(op, a, b) = Bit(c)
        BY <2>3, Zenon DEF Binary, BinaryResult
      <3> QED BY <1>4, <3>1
    <2> QED BY <2>1, <2>2, <2>3
  <1>7. \A op \in Unary : LET n == UnaryResult(op, a) IN n \in Int /\ -Beyond < n /\ n < Beyond
    BY <1>3, <1>5
  <1>8. \A op \in Binary : LET n == BinaryResult(op, a, b) IN n \in Int /\ -Beyond < n /\ n < Beyond
    BY <1>3, <1>6
  <1> QED BY <1>7, <1>8

(* The numbers on top are of four bytes.                                     *)
LEMMA NumbersAreBounded ==
  ASSUME NEW d \in Data, IsNumber(d)
  PROVE  castBigint(d) \in Int /\ -Half[4] < castBigint(d) /\ castBigint(d) < Half[4]
  <1> DEFINE N == Len(d)
  <1>1. N \in Nat /\ N <= Limits.number /\ Len(d) = N
    BY DataLength DEF IsNumber
  <1> HIDE DEF N
  <1>2. N \in 0 .. 4 /\ Len(d) = N
    <2>1. Limits.number \in Nat /\ Limits.number <= 4
      BY LimitsType
    <2> QED BY <1>1, <2>1
  <1>3. Half[1] = 128 /\ Half[2] = 32768 /\ Half[3] = 8388608 /\ Half[4] = 2147483648
    BY SMT DEF Half
  <1>4. CASE N = 0
    <2>1. d \in Seq(Byte) /\ Len(d) = N
      BY <1>2 DEF Data
    <2>2. d = <<>>
      BY <1>4, <2>1, EmptySeq
    <2> QED BY <1>3, <2>2, castBigintEmpty, SMT
  <1>5. CASE N # 0
    <2>1. N \in 1 .. 4
      BY <1>2, <1>5
    <2>2. castBigint(d) \in Int /\ -Half[N] < castBigint(d) /\ castBigint(d) < Half[N]
      BY <1>2, <2>1, castBigintBound
    <2>3. Half[N] \in Int /\ Half[4] \in Int /\ Half[N] <= Half[4]
      BY <1>3, <2>1, SMT
    <2> QED BY <2>2, <2>3
  <1> QED BY <1>4, <1>5

(* The same of a step of the interpreter.                                    *)
LEMMA PicturedStep ==
  ASSUME TypeInv, Next, pc' = pc + 1, Exec, Chunk.op \in DOMAIN Picture
  PROVE  AsPictured(Chunk.op)
  <1> DEFINE op == Chunk.op
  <1>1. op \in Rearranging
    <2>1. DOMAIN Picture = Rearranging
      BY DEF Picture, Rearranging
    <2> QED BY <2>1
  <1>2. ~(Len(stack) < Needs[op]) /\ stack' = Rearranged(op, stack)
    BY <1>1, StepIsExecute, ComputeRearranges
  <1>3. stack \in Seq(Data) /\ Len(stack) \in Nat
    BY StackTypes
  <1> HIDE DEF op
  <1>4. Len(stack) >= Needs[op]
    <2>1. Needs[op] \in 1 .. 6
      BY <1>1, PicturesFit
    <2>2. Needs[op] \in Nat
      BY <2>1
    <2> QED BY <1>2, <1>3, <2>2
  <1>5. op \in DOMAIN Needs
    BY <1>1, PicturesFit
  <1>6. stack' = Popped(stack, Picture[op][1])
                 \o [i \in DOMAIN Picture[op][2] |-> Top(stack, Picture[op][1] - Picture[op][2][i] + 1)]
    BY <1>2, <1>3, <1>4, <1>5, RearrangedMoves
  <1> QED BY <1>6 DEF AsPictured, op

(* A result of arithmetic is encoded as the data that read as it.            *)
LEMMA ExactStep ==
  ASSUME TypeInv, Next, pc' = pc + 1, Exec,
         Chunk.op \in (Unary \cup Binary) \ {"OP_NUMEQUALVERIFY"}
  PROVE  ExactNumber(Chunk.op)
  <1> DEFINE op == Chunk.op
             arity == IF op \in Unary THEN 1 ELSE 2
             a == castBigint(Top(stack, 1))
             b == castBigint(Top(stack, 2))
             result == IF op \in Unary THEN UnaryResult(op, a) ELSE BinaryResult(op, b, a)
             rest == Popped(stack, arity)
  <1>1. op \in Unary \cup Binary /\ op # "OP_NUMEQUALVERIFY"
    OBVIOUS
  <1>2. NumbersOnTop(stack, arity) /\ stack' = Append(rest, bigintToBuffer(result))
    BY <1>1, StepIsExecute, ComputeCalculates
  <1>3. stack \in Seq(Data) /\ Len(stack) \in Nat
    BY StackTypes
  <1>4. arity \in 1 .. 2 /\ Len(stack) >= arity /\ \A i \in 1 .. arity : IsNumber(Top(stack, i))
    BY <1>2 DEF NumbersOnTop
  <1> HIDE DEF op, arity
  <1>5. \A i \in 1 .. arity : castBigint(Top(stack, i)) \in Int
          /\ -Half[4] < castBigint(Top(stack, i)) /\ castBigint(Top(stack, i)) < Half[4]
    <2> TAKE i \in 1 .. arity
    <2>1. i \in 1 .. Len(stack)
      BY <1>3, <1>4
    <2>2. Top(stack, i) \in Data
      BY <1>3, <2>1, TopSeq
    <2> QED BY <1>4, <2>2, NumbersAreBounded
  <1>6. a \in Int /\ -Half[4] < a /\ a < Half[4]
    <2>1. 1 \in 1 .. arity
      BY <1>4
    <2> QED BY <1>5, <2>1
  <1>7. op \in Unary \/ (b \in Int /\ -Half[4] < b /\ b < Half[4])
    <2>1. op \in Unary \/ 2 \in 1 .. arity
      BY DEF arity
    <2> QED BY <1>5, <2>1
  <1> HIDE DEF a, b
  <1>8. result \in Int /\ -Beyond < result /\ result < Beyond
    <2>1. CASE op \in Unary
      <3>1. UnaryResult(op, a) \in Int /\ -Beyond < UnaryResult(op, a) /\ UnaryResult(op, a) < Beyond
        BY <1>6, <2>1, ResultsAreBounded
      <3> QED BY <2>1, <3>1
    <2>2. CASE op \notin Unary
      <3>1. /\ BinaryResult(op, b, a) \in Int
            /\ -Beyond < BinaryResult(op, b, a) /\ BinaryResult(op, b, a) < Beyond
        BY <1>1, <1>6, <1>7, <2>2, ResultsAreBounded
      <3> QED BY <2>2, <3>1
    <2> QED BY <2>1, <2>2
  <1>9. rest \in Seq(Data)
    <2>1. arity \in 0 .. Len(stack)
      BY <1>3, <1>4
    <2> QED BY <1>3, <2>1, PoppedSeq
  <1> HIDE DEF result, rest
  <1>10. bigintToBuffer(result) \in Data /\ Exactly(bigintToBuffer(result), result)
    BY <1>8, bigintToBufferType, bigintToBufferIsExact
  <1>11. Last(stack') = bigintToBuffer(result)
    BY <1>2, <1>9, <1>10, EndsOfAppend
  <1>12. Exactly(Last(stack'), result)
    BY <1>10, <1>11
  <1>13. result = IF op \in Unary THEN UnaryResult(op, castBigint(Top(stack, 1)))
                  ELSE BinaryResult(op, castBigint(Top(stack, 2)), castBigint(Top(stack, 1)))
    BY DEF result, a, b
  <1> DEFINE data == Last(stack')
  <1>14. /\ castBigint(data) = result
         /\ \A n \in 0 .. Len(data) - 1 : castBigint(SubSeq(data, 1, n)) # result
         /\ castBool(data) <=> result # 0
    BY <1>12 DEF Exactly
  <1>15. castBool(data) = (result # 0)
    <2>1. castBool(data) \in BOOLEAN
      BY Zenon DEF castBool
    <2> HIDE DEF data
    <2> QED BY <1>14, <2>1
  <1> HIDE DEF data
  <1> QED BY <1>13, <1>14, <1>15, Zenon DEF ExactNumber, op, data

(* The opcodes that rearrange the stack do so as the comments of the code    *)
(* picture it, OP_3DUP as its name says (its comment is another opcode's),   *)
(* and a result of arithmetic is encoded as the data that read as it, in as  *)
(* few bytes as can be: whatever the numbers, of up to four bytes, are.      *)
THEOREM OpcodesComputeAsPictured == Spec => ComputesAsPictured
  <1> DEFINE Good == pc' = pc + 1 /\ Exec =>
                       /\ Chunk.op \in DOMAIN Picture => AsPictured(Chunk.op)
                       /\ Chunk.op \in (Unary \cup Binary) \ {"OP_NUMEQUALVERIFY"} => ExactNumber(Chunk.op)
  <1>1. TypeInv /\ [Next]_vars => [Good]_vars
    <2> SUFFICES ASSUME TypeInv, Next PROVE Good
      OBVIOUS
    <2> QED BY PicturedStep, ExactStep
  <1> HIDE DEF Good
  <1>2. Spec => [][Good]_vars
    BY <1>1, AlwaysTypeInv, PTL DEF Spec
  <1> QED BY <1>2 DEF ComputesAsPictured, Good
-----------------------------------------------------------------------------
(* What is signed: the script without the signatures                         *)

(* What the empty sequence has, and Append keeps, every sequence has.        *)
LEMMA BuiltByAppend ==
  ASSUME NEW S, NEW T, <<>> \in T, \A t \in Seq(S), c \in S : t \in T => Append(t, c) \in T
  PROVE  \A s \in Seq(S) : s \in T
  <1> SUFFICES ASSUME NEW s \in Seq(S) PROVE s \in T
    OBVIOUS
  <1> DEFINE N == Len(s)
             prefix == [n \in 0 .. N |-> SubSeq(s, 1, n)]
  <1>1. N \in Nat
    OBVIOUS
  <1>2. ASSUME NEW n \in 0 .. N
        PROVE  /\ SubSeq(s, 1, n) \in Seq(S) /\ Len(SubSeq(s, 1, n)) = n
               /\ \A i \in 1 .. n : SubSeq(s, 1, n)[i] = s[i]
    <2>1. \A i \in 1 .. n : s[i] \in S
      BY <1>1, ElementOfSeq
    <2> QED BY <1>1, <2>1, SubSeqProperties
  <1>3. ASSUME NEW n \in 1 .. N, prefix[n - 1] \in T
        PROVE  prefix[n] \in T
    <2>1. n \in 0 .. N /\ n - 1 \in 0 .. N /\ s[n] \in S
      BY <1>1, ElementOfSeq
    <2> DEFINE t == SubSeq(s, 1, n - 1)
               u == SubSeq(s, 1, n)
    <2>2. /\ t \in Seq(S) /\ Len(t) = n - 1
          /\ \A i \in 1 .. n - 1 : t[i] = s[i]
      BY <1>2, <2>1
    <2>3. /\ u \in Seq(S) /\ Len(u) = n
          /\ \A i \in 1 .. n : u[i] = s[i]
      BY <1>2, <2>1
    <2>4. prefix[n - 1] = t /\ prefix[n] = u
      BY <2>1
    <2> HIDE DEF t, u, prefix
    <2>5. Append(t, s[n]) = u
      <3>1. /\ Append(t, s[n]) \in Seq(S) /\ Len(Append(t, s[n])) = n
            /\ \A i \in 1 .. n - 1 : Append(t, s[n])[i] = t[i]
            /\ Append(t, s[n])[n] = s[n]
        BY <2>1, <2>2, AppendProperties
      <3>2. \A i \in 1 .. n : Append(t, s[n])[i] = u[i]
        BY <2>2, <2>3, <3>1
      <3> QED BY <2>3, <3>1, <3>2, SeqEqual
    <2> QED BY <1>3, <2>1, <2>2, <2>4, <2>5
  <1>4. prefix[0] \in T
    <2>1. prefix[0] = <<>>
      BY <1>1
    <2> QED BY <2>1
  <1>5. prefix[N] = s
    <2>1. N \in 0 .. N
      BY <1>1
    <2>2. SubSeq(s, 1, N) \in Seq(S) /\ Len(SubSeq(s, 1, N)) = N /\ \A i \in 1 .. N : SubSeq(s, 1, N)[i] = s[i]
      BY <1>2, <2>1
    <2>3. prefix[N] = SubSeq(s, 1, N)
      BY <2>1
    <2> QED BY <2>2, <2>3, SeqEqual
  <1> HIDE DEF prefix, N
  <1>6. \A n \in 0 .. N : prefix[n] \in T
    BY <1>1, <1>3, <1>4, LoopKeeps
  <1>7. N \in 0 .. N
    BY <1>1
  <1> QED BY <1>5, <1>6, <1>7

(* rest[n] are the chunks of the first n that remain.                        *)
Rests(rest, chunks, gone) ==
  rest = [n \in 0..Len(chunks) |->
            IF n = 0 THEN <<>> ELSE IF chunks[n] \in gone THEN rest[n - 1]
            ELSE Append(rest[n - 1], chunks[n])]

RestsBy(rest, chunks, gone) ==
  /\ rest[0] = <<>>
  /\ \A n \in 1 .. Len(chunks) :
       rest[n] = IF chunks[n] \in gone THEN rest[n - 1] ELSE Append(rest[n - 1], chunks[n])
  /\ Remaining(chunks, gone) = rest[Len(chunks)]

LEMMA RemainingRuns ==
  ASSUME NEW S, NEW chunks \in Seq(S), NEW gone
  PROVE  \E rest \in [0 .. Len(chunks) -> Seq(S)] : RestsBy(rest, chunks, gone)
  <1> DEFINE N == Len(chunks)
             round == [n \in 1 .. N |->
                         [x \in Seq(S) |-> IF chunks[n] \in gone THEN x ELSE Append(x, chunks[n])]]
             rests == CHOOSE f : Rests(f, chunks, gone)
             empty == <<>>
  <1>1. N \in Nat /\ \A n \in 1 .. N : chunks[n] \in S
    BY ElementOfSeq
  <1>2. Remaining(chunks, gone) = rests[N]
    BY DEF Remaining, Rests
  <1>3. round \in [1 .. N -> [Seq(S) -> Seq(S)]]
    BY <1>1, AppendProperties
  <1>4. \A n \in 1 .. N : \A x \in Seq(S) :
          round[n][x] = IF chunks[n] \in gone THEN x ELSE Append(x, chunks[n])
    OBVIOUS
  <1>5. empty \in Seq(S)
    BY EmptySeq
  <1> HIDE DEF round, rests, empty
  <1>6. PICK f \in [0 .. N -> Seq(S)] : Loops(f, N, empty, round)
    <2> HIDE DEF N
    <2> QED BY <1>1, <1>3, <1>5, LoopRuns
  <1>7. f[0] = empty /\ \A n \in 1 .. N : f[n] = round[n][f[n - 1]]
    <2> HIDE DEF N
    <2>1. ASSUME NEW g, Loops(g, N, empty, round)
          PROVE  g[0] = empty /\ \A n \in 1 .. N : g[n] = round[n][g[n - 1]]
      BY <1>1, <2>1, LoopSteps
    <2> QED BY <1>6, <2>1
  <1>8. ASSUME NEW n \in 1 .. N
        PROVE  f[n] = IF chunks[n] \in gone THEN f[n - 1] ELSE Append(f[n - 1], chunks[n])
    <2>1. n - 1 \in 0 .. N
      BY <1>1
    <2>2. f[n - 1] \in Seq(S)
      BY <1>6, <2>1
    <2>3. round[n][f[n - 1]] = IF chunks[n] \in gone THEN f[n - 1] ELSE Append(f[n - 1], chunks[n])
      BY <1>4, <2>2
    <2> QED BY <1>7, <2>3
  <1>9. Rests(f, chunks, gone)
    <2>1. f = [n \in 0 .. N |-> f[n]]
      BY <1>6
    <2>2. ASSUME NEW n \in 0 .. N
          PROVE  f[n] = IF n = 0 THEN <<>> ELSE IF chunks[n] \in gone THEN f[n - 1]
                        ELSE Append(f[n - 1], chunks[n])
      <3>1. n = 0 \/ n \in 1 .. N
        BY <1>1
      <3>2. n \in 1 .. N => n # 0
        BY <1>1
      <3> QED BY <1>7, <1>8, <3>1, <3>2 DEF empty
    <2> QED BY <2>1, <2>2, Zenon DEF Rests
  <1>10. Rests(rests, chunks, gone)
    BY <1>9, Zenon DEF rests
  <1>11. \A n \in 0 .. N : rests[n] = IF n = 0 THEN <<>> ELSE IF chunks[n] \in gone THEN rests[n - 1]
                                     ELSE Append(rests[n - 1], chunks[n])
    BY <1>10 DEF Rests
  <1>12. /\ rests[0] = <<>>
         /\ \A n \in 1 .. N :
              rests[n] = IF chunks[n] \in gone THEN rests[n - 1] ELSE Append(rests[n - 1], chunks[n])
    <2>1. 0 \in 0 .. N /\ \A n \in 1 .. N : n \in 0 .. N /\ n # 0
      BY <1>1
    <2> QED BY <1>11, <2>1
  <1>13. \A n \in 1 .. N : rests[n - 1] \in Seq(S) => rests[n] \in Seq(S)
    <2> SUFFICES ASSUME NEW n \in 1 .. N, rests[n - 1] \in Seq(S) PROVE rests[n] \in Seq(S)
      OBVIOUS
    <2>1. Append(rests[n - 1], chunks[n]) \in Seq(S)
      BY <1>1, AppendProperties
    <2> QED BY <1>12, <2>1
  <1>14. \A n \in 0 .. N : rests[n] \in Seq(S)
    <2>1. rests[0] \in Seq(S)
      BY <1>5, <1>12 DEF empty
    <2> HIDE DEF N
    <2> QED BY <1>1, <2>1, <1>13, LoopKeeps
  <1>15. rests \in [0 .. N -> Seq(S)]
    <2>1. rests = [n \in 0 .. N |-> rests[n]]
      BY <1>10 DEF Rests
    <2> QED BY <1>14, <2>1
  <1>16. RestsBy(rests, chunks, gone)
    BY <1>2, <1>12 DEF RestsBy
  <1> QED BY <1>15, <1>16

(* Chunks remain, and of none none.                                          *)
LEMMA RemainingType ==
  ASSUME NEW S, NEW gone
  PROVE  /\ Remaining(<<>>, gone) = <<>>
         /\ \A s \in Seq(S) : Remaining(s, gone) \in Seq(S)
  <1>1. Remaining(<<>>, gone) = <<>>
    <2>1. <<>> \in Seq(S) /\ Len(<<>>) = 0
      BY EmptySeq
    <2>2. PICK rest : RestsBy(rest, <<>>, gone)
      BY <2>1, RemainingRuns
    <2> QED BY <2>1, <2>2 DEF RestsBy
  <1>2. ASSUME NEW s \in Seq(S)
        PROVE  Remaining(s, gone) \in Seq(S)
    <2>1. PICK rest \in [0 .. Len(s) -> Seq(S)] : RestsBy(rest, s, gone)
      BY RemainingRuns
    <2>2. Len(s) \in 0 .. Len(s)
      OBVIOUS
    <2> QED BY <2>1, <2>2 DEF RestsBy
  <1> QED BY <1>1, <1>2

(* Remaining by the last chunk.                                              *)
LEMMA RemainingOfAppend ==
  ASSUME NEW S, NEW gone, NEW s \in Seq(S), NEW c \in S
  PROVE  Remaining(Append(s, c), gone)
           = IF c \in gone THEN Remaining(s, gone) ELSE Append(Remaining(s, gone), c)
  <1> DEFINE u == Append(s, c)
             N == Len(s)
  <1>1. /\ u \in Seq(S) /\ Len(u) = N + 1 /\ N \in Nat
        /\ (\A i \in 1 .. N : u[i] = s[i]) /\ u[N + 1] = c
    BY AppendProperties
  <1> HIDE DEF u, N
  <1>2. PICK f : RestsBy(f, s, gone)
    BY RemainingRuns
  <1>3. PICK g : RestsBy(g, u, gone)
    BY <1>1, RemainingRuns
  <1>4. /\ f[0] = <<>> /\ Remaining(s, gone) = f[N]
        /\ \A n \in 1 .. N : f[n] = IF s[n] \in gone THEN f[n - 1] ELSE Append(f[n - 1], s[n])
    BY <1>2 DEF RestsBy, N
  <1>5. /\ g[0] = <<>> /\ Remaining(u, gone) = g[N + 1]
        /\ \A n \in 1 .. N + 1 : g[n] = IF u[n] \in gone THEN g[n - 1] ELSE Append(g[n - 1], u[n])
    BY <1>1, <1>3 DEF RestsBy
  <1> DEFINE same == [n \in 0 .. N |-> IF g[n] = f[n] THEN 1 ELSE 0]
  <1>6. same[0] \in {1}
    BY <1>1, <1>4, <1>5
  <1>7. \A n \in 1 .. N : same[n - 1] \in {1} => same[n] \in {1}
    <2> SUFFICES ASSUME NEW n \in 1 .. N, same[n - 1] \in {1} PROVE same[n] \in {1}
      OBVIOUS
    <2>1. n \in 0 .. N /\ n - 1 \in 0 .. N /\ n \in 1 .. N + 1
      BY <1>1
    <2>2. g[n - 1] = f[n - 1] /\ u[n] = s[n]
      BY <1>1, <2>1
    <2>3. g[n] = f[n]
      BY <1>4, <1>5, <2>1, <2>2
    <2> QED BY <2>1, <2>3
  <1>8. \A n \in 0 .. N : same[n] \in {1}
    <2> HIDE DEF same
    <2> QED BY <1>1, <1>6, <1>7, LoopKeeps
  <1>9. N \in 0 .. N /\ N + 1 \in 1 .. N + 1 /\ N + 1 - 1 = N
    BY <1>1
  <1>10. g[N] = f[N]
    BY <1>8, <1>9
  <1>11. g[N + 1] = IF c \in gone THEN g[N] ELSE Append(g[N], c)
    <2>1. g[N + 1] = IF u[N + 1] \in gone THEN g[N + 1 - 1] ELSE Append(g[N + 1 - 1], u[N + 1])
      BY <1>5, <1>9
    <2> QED BY <1>1, <1>9, <2>1
  <1> QED BY <1>4, <1>5, <1>10, <1>11 DEF u

Joins(C, A, B) == C = A \cup B

(* What remains of what remains.                                             *)
LEMMA RemainingTwice ==
  ASSUME NEW S, NEW s \in Seq(S), NEW A, NEW B, NEW C, Joins(C, A, B)
  PROVE  Remaining(Remaining(s, A), B) = Remaining(s, C)
  <1> DEFINE T == {t \in Seq(S) : Remaining(Remaining(t, A), B) = Remaining(t, C)}
  <1>1. <<>> \in T
    BY EmptySeq, RemainingType
  <1>2. ASSUME NEW t \in Seq(S), NEW c \in S, t \in T
        PROVE  Append(t, c) \in T
    <2>1. Remaining(Remaining(t, A), B) = Remaining(t, C)
      BY <1>2
    <2>2. Append(t, c) \in Seq(S) /\ Remaining(t, A) \in Seq(S)
      BY AppendProperties, RemainingType
    <2>3. Remaining(Append(t, c), C)
            = IF c \in C THEN Remaining(t, C) ELSE Append(Remaining(t, C), c)
      BY RemainingOfAppend
    <2>4. Remaining(Append(t, c), A) = IF c \in A THEN Remaining(t, A) ELSE Append(Remaining(t, A), c)
      BY RemainingOfAppend
    <2>5. Remaining(Append(Remaining(t, A), c), B)
            = IF c \in B THEN Remaining(Remaining(t, A), B) ELSE Append(Remaining(Remaining(t, A), B), c)
      BY <2>2, RemainingOfAppend
    <2>6. Remaining(Remaining(Append(t, c), A), B) = Remaining(Append(t, c), C)
      <3>1. c \in C <=> (c \in A \/ c \in B)
        BY DEF Joins
      <3>2. CASE c \in A
        BY <2>1, <2>3, <2>4, <3>1, <3>2
      <3>3. CASE c \notin A
        BY <2>1, <2>3, <2>4, <2>5, <3>1, <3>3
      <3> QED BY <3>2, <3>3
    <2> QED BY <2>2, <2>6
  <1> HIDE DEF T
  <1>3. s \in T
    BY <1>1, <1>2, BuiltByAppend
  <1> QED BY <1>3 DEF T

(* Everything remains when nothing has gone.                                 *)
LEMMA RemainingOfAll ==
  ASSUME NEW S, NEW s \in Seq(S)
  PROVE  Remaining(s, {}) = s
  <1> DEFINE T == {t \in Seq(S) : Remaining(t, {}) = t}
  <1>1. <<>> \in T
    BY EmptySeq, RemainingType
  <1>2. ASSUME NEW t \in Seq(S), NEW c \in S, t \in T
        PROVE  Append(t, c) \in T
    <2>1. Remaining(t, {}) = t /\ Append(t, c) \in Seq(S)
      BY <1>2, AppendProperties
    <2>2. Remaining(Append(t, c), {}) = IF c \in {} THEN Remaining(t, {}) ELSE Append(Remaining(t, {}), c)
      BY RemainingOfAppend
    <2> QED BY <2>1, <2>2
  <1> HIDE DEF T
  <1>3. s \in T
    BY <1>1, <1>2, BuiltByAppend
  <1> QED BY <1>3 DEF T

Once(s, x) == \A i, j \in 1 .. Len(s) : s[i] = x /\ s[j] = x => i = j
Has(s, x) == \E i \in 1 .. Len(s) : s[i] = x

LEMMA OnceOfAppend ==
  ASSUME NEW S, NEW s \in Seq(S), NEW c \in S, NEW x
  PROVE  /\ Has(Append(s, c), x) <=> (Has(s, x) \/ c = x)
         /\ Once(Append(s, c), x) <=> (Once(s, x) /\ ~(c = x /\ Has(s, x)))
  <1> DEFINE u == Append(s, c)
             N == Len(s)
  <1>1. /\ u \in Seq(S) /\ Len(u) = N + 1 /\ N \in Nat
        /\ (\A i \in 1 .. N : u[i] = s[i]) /\ u[N + 1] = c
    BY AppendProperties
  <1> HIDE DEF u, N
  <1>2. N + 1 \in 1 .. N + 1 /\ \A i \in 1 .. N : i \in 1 .. N + 1 /\ i # N + 1
    BY <1>1
  <1>3. \A i \in 1 .. N + 1 : i \in 1 .. N \/ i = N + 1
    BY <1>1
  <1>4. Has(u, x) <=> (Has(s, x) \/ c = x)
    BY <1>1, <1>2, <1>3 DEF Has, N
  <1>5. Once(u, x) => Once(s, x) /\ ~(c = x /\ Has(s, x))
    BY <1>1, <1>2 DEF Once, Has, N
  <1>6. Once(s, x) /\ ~(c = x /\ Has(s, x)) => Once(u, x)
    BY <1>1, <1>2, <1>3 DEF Once, Has, N
  <1> QED BY <1>4, <1>5, <1>6 DEF u

(* What remains holds nothing else, and nothing more often.                  *)
LEMMA RemainingOnce ==
  ASSUME NEW S, NEW s \in Seq(S), NEW gone, NEW x, Once(s, x)
  PROVE  Once(Remaining(s, gone), x)
  <1> DEFINE R(t) == Remaining(t, gone)
             T == {t \in Seq(S) : /\ Has(R(t), x) => Has(t, x)
                                  /\ Once(t, x) => Once(R(t), x)}
  <1>1. <<>> \in T
    <2>1. Len(<<>>) = 0 /\ <<>> \in Seq(S)
      BY EmptySeq
    <2>2. R(<<>>) = <<>>
      BY RemainingType
    <2> HIDE DEF R
    <2>3. ~Has(<<>>, x) /\ Once(<<>>, x)
      BY <2>1 DEF Has, Once
    <2> QED BY <2>1, <2>2, <2>3
  <1>2. ASSUME NEW t \in Seq(S), NEW c \in S, t \in T
        PROVE  Append(t, c) \in T
    <2>1. R(t) \in Seq(S) /\ R(Append(t, c)) = IF c \in gone THEN R(t) ELSE Append(R(t), c)
      <3>1. R(t) \in Seq(S)
        BY RemainingType
      <3>2. R(Append(t, c)) = IF c \in gone THEN R(t) ELSE Append(R(t), c)
        BY RemainingOfAppend
      <3> QED BY <3>1, <3>2
    <2>2. (Has(R(t), x) => Has(t, x)) /\ (Once(t, x) => Once(R(t), x))
      BY <1>2
    <2>3. Append(t, c) \in Seq(S)
      BY AppendProperties
    <2> HIDE DEF R
    <2>4. /\ Has(Append(t, c), x) <=> (Has(t, x) \/ c = x)
          /\ Once(Append(t, c), x) <=> (Once(t, x) /\ ~(c = x /\ Has(t, x)))
      BY OnceOfAppend
    <2>5. /\ Has(Append(R(t), c), x) <=> (Has(R(t), x) \/ c = x)
          /\ Once(Append(R(t), c), x) <=> (Once(R(t), x) /\ ~(c = x /\ Has(R(t), x)))
      BY <2>1, OnceOfAppend
    <2>6. /\ Has(R(Append(t, c)), x) => Has(Append(t, c), x)
          /\ Once(Append(t, c), x) => Once(R(Append(t, c)), x)
      <3>1. CASE c \in gone
        BY <2>1, <2>2, <2>4, <3>1
      <3>2. CASE c \notin gone
        BY <2>1, <2>2, <2>4, <2>5, <3>2
      <3> QED BY <3>1, <3>2
    <2> QED BY <2>3, <2>6
  <1> HIDE DEF T
  <1>3. s \in T
    BY <1>1, <1>2, BuiltByAppend
  <1> QED BY <1>3 DEF T

(* The loop of findAndDelete: deleted[n] says whether chunk n is, kept[n]    *)
(* are those of the first n that are not.                                    *)
Deletes(deleted, chunks, data) ==
  deleted = [n \in 0..Len(chunks) |-> n > 0 /\ chunks[n] = Push(data) /\ ~deleted[n - 1]]

Keeps(kept, chunks, deleted) ==
  kept = [n \in 0..Len(chunks) |->
            IF n = 0 THEN <<>> ELSE IF deleted[n] THEN kept[n - 1] ELSE Append(kept[n - 1], chunks[n])]

LEMMA DeletesRuns ==
  ASSUME NEW chunks, Len(chunks) \in Nat, NEW data
  PROVE  \E deleted : Deletes(deleted, chunks, data)
  <1> DEFINE N == Len(chunks)
             round == [n \in 1 .. N |-> [x \in {0, 1} |-> IF chunks[n] = Push(data) /\ x = 0 THEN 1 ELSE 0]]
  <1>1. round \in [1 .. N -> [{0, 1} -> {0, 1}]]
    OBVIOUS
  <1>2. \A n \in 1 .. N : \A x \in {0, 1} :
          round[n][x] = IF chunks[n] = Push(data) /\ x = 0 THEN 1 ELSE 0
    OBVIOUS
  <1> HIDE DEF round, N
  <1>3. N \in Nat /\ 0 \in {0, 1}
    BY DEF N
  <1>4. PICK f \in [0 .. N -> {0, 1}] : Loops(f, N, 0, round)
    BY <1>1, <1>3, LoopRuns
  <1>5. f[0] = 0 /\ \A n \in 1 .. N : f[n] = round[n][f[n - 1]]
    <2>1. ASSUME NEW g, Loops(g, N, 0, round)
          PROVE  g[0] = 0 /\ \A n \in 1 .. N : g[n] = round[n][g[n - 1]]
      BY <1>3, <2>1, LoopSteps
    <2> QED BY <1>4, <2>1
  <1> DEFINE deleted == [n \in 0 .. N |-> f[n] = 1]
  <1>6. ASSUME NEW n \in 0 .. N
        PROVE  deleted[n] <=> (n > 0 /\ chunks[n] = Push(data) /\ ~deleted[n - 1])
    <2>1. CASE n = 0
      <3>1. deleted[n] <=> f[n] = 1
        OBVIOUS
      <3>2. ~(f[n] = 1) /\ ~(n > 0)
        BY <1>5, <2>1
      <3> HIDE DEF deleted
      <3> QED BY <3>1, <3>2
    <2>2. CASE n # 0
      <3>1. n \in 1 .. N /\ n - 1 \in 0 .. N /\ n > 0
        BY <1>3, <2>2
      <3>2. f[n] = round[n][f[n - 1]] /\ f[n - 1] \in {0, 1}
        BY <1>4, <1>5, <3>1
      <3>3. f[n] = IF chunks[n] = Push(data) /\ f[n - 1] = 0 THEN 1 ELSE 0
        BY <1>2, <3>1, <3>2
      <3>4. (f[n] = 1) <=> (chunks[n] = Push(data) /\ ~(f[n - 1] = 1))
        BY <3>2, <3>3
      <3>5. (deleted[n] <=> f[n] = 1) /\ (deleted[n - 1] <=> f[n - 1] = 1)
        BY <3>1
      <3> QED BY <3>1, <3>4, <3>5
    <2> QED BY <2>1, <2>2
  <1>7. \A n \in 0 .. N : deleted[n] = (n > 0 /\ chunks[n] = Push(data) /\ ~deleted[n - 1])
    <2> SUFFICES ASSUME NEW n \in 0 .. N
                 PROVE  deleted[n] = (n > 0 /\ chunks[n] = Push(data) /\ ~deleted[n - 1])
      OBVIOUS
    <2>1. deleted[n] \in BOOLEAN
      OBVIOUS
    <2>2. deleted[n] <=> (n > 0 /\ chunks[n] = Push(data) /\ ~deleted[n - 1])
      BY <1>6
    <2> HIDE DEF deleted
    <2> QED BY <2>1, <2>2, Zenon
  <1>8. deleted = [n \in 0 .. N |-> deleted[n]]
    BY Zenon
  <1> HIDE DEF deleted
  <1>9. Deletes(deleted, chunks, data)
    BY <1>7, <1>8, Zenon DEF Deletes, N
  <1> QED BY <1>9

LEMMA KeepsRuns ==
  ASSUME NEW S, NEW chunks \in Seq(S), NEW deleted
  PROVE  \E kept \in [0 .. Len(chunks) -> Seq(S)] : Keeps(kept, chunks, deleted)
  <1> DEFINE N == Len(chunks)
             round == [n \in 1 .. N |-> [x \in Seq(S) |-> IF deleted[n] THEN x ELSE Append(x, chunks[n])]]
             empty == <<>>
  <1>1. N \in Nat /\ \A n \in 1 .. N : chunks[n] \in S
    BY ElementOfSeq
  <1>2. round \in [1 .. N -> [Seq(S) -> Seq(S)]]
    BY <1>1, AppendProperties
  <1>3. \A n \in 1 .. N : \A x \in Seq(S) :
          round[n][x] = IF deleted[n] THEN x ELSE Append(x, chunks[n])
    OBVIOUS
  <1>4. empty \in Seq(S)
    BY EmptySeq
  <1> HIDE DEF round, empty, N
  <1>5. PICK f \in [0 .. N -> Seq(S)] : Loops(f, N, empty, round)
    BY <1>1, <1>2, <1>4, LoopRuns
  <1>6. f[0] = empty /\ \A n \in 1 .. N : f[n] = round[n][f[n - 1]]
    <2>1. ASSUME NEW g, Loops(g, N, empty, round)
          PROVE  g[0] = empty /\ \A n \in 1 .. N : g[n] = round[n][g[n - 1]]
      BY <1>1, <2>1, LoopSteps
    <2> QED BY <1>5, <2>1
  <1>7. ASSUME NEW n \in 0 .. N
        PROVE  f[n] = IF n = 0 THEN <<>> ELSE IF deleted[n] THEN f[n - 1] ELSE Append(f[n - 1], chunks[n])
    <2>1. CASE n = 0
      BY <1>6, <2>1 DEF empty
    <2>2. CASE n # 0
      <3>1. n \in 1 .. N /\ n - 1 \in 0 .. N
        BY <1>1, <2>2
      <3>2. f[n] = round[n][f[n - 1]] /\ f[n - 1] \in Seq(S)
        BY <1>5, <1>6, <3>1
      <3>3. f[n] = IF deleted[n] THEN f[n - 1] ELSE Append(f[n - 1], chunks[n])
        BY <1>3, <3>1, <3>2
      <3> QED BY <2>2, <3>3
    <2> QED BY <2>1, <2>2
  <1>8. f = [n \in 0 .. N |-> f[n]]
    BY <1>5
  <1>9. Keeps(f, chunks, deleted)
    BY <1>7, <1>8, Zenon DEF Keeps, N
  <1> QED BY <1>5, <1>9 DEF N

(* What the code deletes is a chunk of its own and, if it is there at most   *)
(* once, all of it: the chunk behind one that is deleted is not looked at.   *)
LEMMA findAndDeleteLeaves ==
  ASSUME NEW S, NEW chunks \in Seq(S), NEW data
  PROVE  /\ findAndDelete(chunks, data) \in Seq(S)
         /\ Once(chunks, Push(data)) => findAndDelete(chunks, data) = Remaining(chunks, {Push(data)})
  <1> DEFINE N == Len(chunks)
             deleted == CHOOSE f : Deletes(f, chunks, data)
             kept == CHOOSE f : Keeps(f, chunks, deleted)
  <1>1. findAndDelete(chunks, data) = kept[N]
    BY DEF findAndDelete, Deletes, Keeps
  <1>2. N \in Nat /\ \A n \in 1 .. N : chunks[n] \in S
    BY ElementOfSeq
  <1>3. Deletes(deleted, chunks, data)
    <2>1. \E f : Deletes(f, chunks, data)
      BY <1>2, DeletesRuns
    <2> QED BY <2>1, Zenon
  <1> HIDE DEF deleted
  <1>4. Keeps(kept, chunks, deleted)
    <2>1. \E f : Keeps(f, chunks, deleted)
      BY KeepsRuns
    <2> QED BY <2>1, Zenon
  <1> HIDE DEF kept, N
  <1>5. \A n \in 1 .. N : deleted[n] <=> (chunks[n] = Push(data) /\ ~deleted[n - 1])
    <2> SUFFICES ASSUME NEW n \in 1 .. N PROVE deleted[n] <=> (chunks[n] = Push(data) /\ ~deleted[n - 1])
      OBVIOUS
    <2>1. n \in 0 .. N /\ n > 0
      BY <1>2
    <2>2. deleted[n] = (n > 0 /\ chunks[n] = Push(data) /\ ~deleted[n - 1])
      BY <1>3, <2>1 DEF Deletes, N
    <2> QED BY <2>1, <2>2
  <1>6. ~deleted[0]
    <2>1. 0 \in 0 .. N /\ ~(0 > 0)
      BY <1>2
    <2>2. deleted[0] = (0 > 0 /\ chunks[0] = Push(data) /\ ~deleted[0 - 1])
      BY <1>3, <2>1 DEF Deletes, N
    <2> QED BY <2>1, <2>2
  <1>7. /\ kept[0] = <<>>
        /\ \A n \in 1 .. N : kept[n] = IF deleted[n] THEN kept[n - 1] ELSE Append(kept[n - 1], chunks[n])
    <2>1. \A n \in 0 .. N : kept[n] = IF n = 0 THEN <<>> ELSE IF deleted[n] THEN kept[n - 1]
                                      ELSE Append(kept[n - 1], chunks[n])
      BY <1>4 DEF Keeps, N
    <2>2. 0 \in 0 .. N /\ \A n \in 1 .. N : n \in 0 .. N /\ n # 0
      BY <1>2
    <2> QED BY <2>1, <2>2
  <1>8. N \in 0 .. N
    BY <1>2
  <1>9. findAndDelete(chunks, data) \in Seq(S)
    <2>1. kept[0] \in Seq(S)
      BY <1>7, EmptySeq
    <2>2. \A n \in 1 .. N : kept[n - 1] \in Seq(S) => kept[n] \in Seq(S)
      <3> SUFFICES ASSUME NEW n \in 1 .. N, kept[n - 1] \in Seq(S) PROVE kept[n] \in Seq(S)
        OBVIOUS
      <3>1. Append(kept[n - 1], chunks[n]) \in Seq(S)
        BY <1>2, AppendProperties
      <3> QED BY <1>7, <3>1
    <2>3. \A n \in 0 .. N : kept[n] \in Seq(S)
      BY <1>2, <2>1, <2>2, LoopKeeps
    <2> QED BY <1>1, <1>8, <2>3
  <1>10. ASSUME Once(chunks, Push(data))
         PROVE  findAndDelete(chunks, data) = Remaining(chunks, {Push(data)})
    <2>1. \A n \in 1 .. N : deleted[n] <=> chunks[n] = Push(data)
      <3> SUFFICES ASSUME NEW n \in 1 .. N, chunks[n] = Push(data), deleted[n - 1] PROVE FALSE
        BY <1>5
      <3>1. n = 1 \/ n - 1 \in 1 .. N
        BY <1>2
      <3>2. n - 1 \in 1 .. N
        BY <1>6, <3>1
      <3>3. chunks[n - 1] = Push(data) /\ n - 1 # n
        BY <1>2, <1>5, <3>2
      <3> QED BY <1>10, <3>2, <3>3 DEF Once, N
    <2>2. PICK rest : RestsBy(rest, chunks, {Push(data)})
      BY RemainingRuns
    <2>3. /\ rest[0] = <<>> /\ Remaining(chunks, {Push(data)}) = rest[N]
          /\ \A n \in 1 .. N :
               rest[n] = IF chunks[n] \in {Push(data)} THEN rest[n - 1] ELSE Append(rest[n - 1], chunks[n])
      BY <2>2 DEF RestsBy, N
    <2> DEFINE same == [n \in 0 .. N |-> IF kept[n] = rest[n] THEN 1 ELSE 0]
    <2>4. same[0] \in {1}
      BY <1>2, <1>7, <2>3
    <2>5. \A n \in 1 .. N : same[n - 1] \in {1} => same[n] \in {1}
      <3> SUFFICES ASSUME NEW n \in 1 .. N, same[n - 1] \in {1} PROVE same[n] \in {1}
        OBVIOUS
      <3>1. n \in 0 .. N /\ n - 1 \in 0 .. N
        BY <1>2
      <3>2. kept[n - 1] = rest[n - 1]
        BY <3>1
      <3>3. kept[n] = rest[n]
        BY <1>7, <2>1, <2>3, <3>2
      <3> QED BY <3>1, <3>3
    <2>6. \A n \in 0 .. N : same[n] \in {1}
      <3> HIDE DEF same
      <3> QED BY <1>2, <2>4, <2>5, LoopKeeps
    <2>7. kept[N] = rest[N]
      BY <1>8, <2>6
    <2> QED BY <1>1, <2>3, <2>7
  <1> QED BY <1>9, <1>10

(* The loop over the signatures.                                             *)
Strips(code, chunks, sigs) ==
  code = [i \in 0..Len(sigs) |->
            IF i = 0 THEN chunks ELSE findAndDelete(code[i - 1], sigs[i])]

LEMMA StripsRuns ==
  ASSUME NEW S, NEW chunks \in Seq(S), NEW sigs, Len(sigs) \in Nat
  PROVE  \E code : Strips(code, chunks, sigs)
  <1> DEFINE N == Len(sigs)
             round == [i \in 1 .. N |-> [x \in Seq(S) |-> findAndDelete(x, sigs[i])]]
  <1>1. N \in Nat
    OBVIOUS
  <1>2. round \in [1 .. N -> [Seq(S) -> Seq(S)]]
    BY findAndDeleteLeaves
  <1>3. \A i \in 1 .. N : \A x \in Seq(S) : round[i][x] = findAndDelete(x, sigs[i])
    OBVIOUS
  <1> HIDE DEF round, N
  <1>4. PICK f \in [0 .. N -> Seq(S)] : Loops(f, N, chunks, round)
    BY <1>1, <1>2, LoopRuns
  <1>5. f[0] = chunks /\ \A i \in 1 .. N : f[i] = round[i][f[i - 1]]
    <2>1. ASSUME NEW g, Loops(g, N, chunks, round)
          PROVE  g[0] = chunks /\ \A i \in 1 .. N : g[i] = round[i][g[i - 1]]
      BY <1>1, <2>1, LoopSteps
    <2> QED BY <1>4, <2>1
  <1>6. ASSUME NEW i \in 0 .. N
        PROVE  f[i] = IF i = 0 THEN chunks ELSE findAndDelete(f[i - 1], sigs[i])
    <2>1. CASE i = 0
      BY <1>5, <2>1
    <2>2. CASE i # 0
      <3>1. i \in 1 .. N /\ i - 1 \in 0 .. N
        BY <1>1, <2>2
      <3>2. f[i] = round[i][f[i - 1]] /\ f[i - 1] \in Seq(S)
        BY <1>4, <1>5, <3>1
      <3>3. f[i] = findAndDelete(f[i - 1], sigs[i])
        BY <1>3, <3>1, <3>2
      <3> QED BY <2>2, <3>3
    <2> QED BY <2>1, <2>2
  <1>7. f = [i \in 0 .. N |-> f[i]]
    BY <1>4
  <1>8. Strips(f, chunks, sigs)
    BY <1>6, <1>7, Zenon DEF Strips, N
  <1> QED BY <1>8

(* The signatures go, each once, unless the script repeats one of them.      *)
LEMMA StripsLeave ==
  ASSUME NEW S, NEW signed \in Seq(S), NEW sigs, Len(sigs) \in Nat, NEW without, Strips(without, signed, sigs),
         \A sig \in ToSet(sigs) : Once(signed, Push(sig))
  PROVE  without[Len(sigs)] = Remaining(signed, {Push(sig) : sig \in ToSet(sigs)})
  <1> DEFINE N == Len(sigs)
             gone == [i \in 0 .. N |-> {Push(sigs[k]) : k \in 1 .. i}]
  <1>1. N \in Nat
    OBVIOUS
  <1> HIDE DEF N
  <1>5. /\ without[0] = signed
        /\ \A i \in 1 .. N : without[i] = findAndDelete(without[i - 1], sigs[i])
    <2>1. \A i \in 0 .. N : without[i] = IF i = 0 THEN signed ELSE findAndDelete(without[i - 1], sigs[i])
      BY DEF Strips, N
    <2>2. 0 \in 0 .. N /\ \A i \in 1 .. N : i \in 0 .. N /\ i # 0
      BY <1>1
    <2> QED BY <2>1, <2>2
  <1> DEFINE same == [i \in 0 .. N |-> IF without[i] = Remaining(signed, gone[i]) THEN 1 ELSE 0]
  <1>6. same[0] \in {1}
    <2>1. 0 \in 0 .. N /\ gone[0] = {}
      BY <1>1
    <2> HIDE DEF gone
    <2>2. without[0] = Remaining(signed, gone[0])
      BY <1>5, <2>1, RemainingOfAll
    <2> QED BY <2>1, <2>2
  <1>7. ASSUME NEW i \in 1 .. N, same[i - 1] \in {1}
        PROVE  same[i] \in {1}
    <2>1. i \in 0 .. N /\ i - 1 \in 0 .. N
      BY <1>1
    <2> DEFINE chunk == Push(sigs[i])
    <2>2. gone[i] = gone[i - 1] \cup {chunk}
      <3>1. gone[i] = {Push(sigs[k]) : k \in 1 .. i} /\ gone[i - 1] = {Push(sigs[k]) : k \in 1 .. i - 1}
        BY <2>1
      <3>2. \A k : k \in 1 .. i <=> (k \in 1 .. i - 1 \/ k = i)
        BY <1>1
      <3> HIDE DEF gone
      <3> QED BY <3>1, <3>2, Zenon
    <2>3. without[i - 1] = Remaining(signed, gone[i - 1])
      <3> HIDE DEF gone
      <3> QED BY <1>7, <2>1
    <2> HIDE DEF gone
    <2>4. sigs[i] \in ToSet(sigs)
      BY DEF ToSet, N
    <2>5. Once(signed, chunk)
      BY <2>4
    <2> HIDE DEF chunk
    <2>6. Once(Remaining(signed, gone[i - 1]), chunk)
      BY <2>5, RemainingOnce
    <2>7. Remaining(signed, gone[i - 1]) \in Seq(S)
      BY RemainingType
    <2>8. findAndDelete(without[i - 1], sigs[i]) = Remaining(Remaining(signed, gone[i - 1]), {chunk})
      BY <2>3, <2>6, <2>7, findAndDeleteLeaves DEF chunk
    <2>9. Remaining(Remaining(signed, gone[i - 1]), {chunk}) = Remaining(signed, gone[i])
      <3> DEFINE B == {chunk}
      <3>1. Joins(gone[i], gone[i - 1], B)
        BY <2>2 DEF Joins
      <3> HIDE DEF B, same
      <3>2. Remaining(Remaining(signed, gone[i - 1]), B) = Remaining(signed, gone[i])
        BY <3>1, RemainingTwice
      <3> QED BY <3>2 DEF B
    <2>10. without[i] = Remaining(signed, gone[i])
      BY <1>5, <2>8, <2>9
    <2> QED BY <2>1, <2>10
  <1>8. \A i \in 0 .. N : same[i] \in {1}
    <2> HIDE DEF same
    <2> QED BY <1>1, <1>6, <1>7, LoopKeeps
  <1>9. N \in 0 .. N
    BY <1>1
  <1>10. gone[N] = {Push(sig) : sig \in ToSet(sigs)}
    <2>1. gone[N] = {Push(sigs[k]) : k \in 1 .. N}
      BY <1>9
    <2>2. ToSet(sigs) = {sigs[k] : k \in 1 .. N}
      BY DEF ToSet, N
    <2> QED BY <2>1, <2>2
  <1> HIDE DEF gone
  <1>11. without[N] = Remaining(signed, gone[N])
    BY <1>8, <1>9
  <1> QED BY <1>10, <1>11 DEF N

(* The code a signature is checked against is the script from behind the     *)
(* separator on, without the signatures, unless it repeats one of them.      *)
LEMMA ScriptCodeLeaves ==
  ASSUME TypeOK, NEW sigs \in Seq(Data), NEW signed,
         signed = SubSeq(Script, hashStart + 1, Len(Script)),
         \A sig \in ToSet(sigs) : Once(signed, Push(sig))
  PROVE  ScriptCode(sigs) = Remaining(signed, {Push(sig) : sig \in ToSet(sigs)})
  <1> DEFINE without == CHOOSE f : Strips(f, signed, sigs)
  <1>1. Len(sigs) \in Nat
    OBVIOUS
  <1>2. signed \in Seq(Chunks)
    <2>1. Script \in Seq(Chunks) /\ Len(Script) \in Nat /\ hashStart + 1 \in Int
          /\ hashStart + 1 >= 1
      BY ScriptType DEF TypeOK
    <2>2. \A i \in hashStart + 1 .. Len(Script) : Script[i] \in Chunks
      BY <2>1, ElementOfSeq
    <2> QED BY <2>1, <2>2, SubSeqProperties
  <1>3. ScriptCode(sigs) = without[Len(sigs)]
    BY DEF ScriptCode, Strips, Script
  <1>4. Strips(without, signed, sigs)
    <2>1. \E f : Strips(f, signed, sigs)
      BY <1>1, <1>2, StripsRuns
    <2> QED BY <2>1, Zenon
  <1> HIDE DEF without
  <1>5. without[Len(sigs)] = Remaining(signed, {Push(sig) : sig \in ToSet(sigs)})
    BY <1>1, <1>2, <1>4, StripsLeave
  <1> QED BY <1>3, <1>5

-----------------------------------------------------------------------------
(* Where what is signed begins                                               *)

Ifs == {"OP_IF", "OP_NOTIF"}
EndIfs == {"OP_ENDIF"}
Before(ops, n) == Cardinality({j \in 1 .. n : Script[j].op \in ops})

(* As many conditionals are open as the chunks so far opened and did not     *)
(* close; and the part that is signed begins behind the last separator that  *)
(* was run, the others being in conditionals.                                *)
Separators ==
  \A i \in hashStart + 1 .. pc : Script[i].op = "OP_CODESEPARATOR" => ~Outside(i)

SignInv ==
  /\ hashStart = 0 \/ Script[hashStart].op = "OP_CODESEPARATOR"
  /\ Separators
  /\ Before(Ifs, pc) = Before(EndIfs, pc) + Len(execStack)

LEMMA OutsideMeaning ==
  ASSUME NEW i
  PROVE  Outside(i) <=> Before(Ifs, i) = Before(EndIfs, i)
  BY DEF Outside, Before, Ifs, EndIfs

LEMMA BeforeStep ==
  ASSUME NEW ops, NEW n \in Nat
  PROVE  /\ Before(ops, 0) = 0 /\ Before(ops, n) \in Nat
         /\ Before(ops, n + 1) = Before(ops, n) + (IF Script[n + 1].op \in ops THEN 1 ELSE 0)
  <1> DEFINE In(m) == {j \in 1 .. m : Script[j].op \in ops}
  <1>1. \A m \in Nat : IsFiniteSet(In(m)) /\ Cardinality(In(m)) \in Nat
    <2> SUFFICES ASSUME NEW m \in Nat PROVE IsFiniteSet(In(m)) /\ Cardinality(In(m)) \in Nat
      OBVIOUS
    <2>1. IsFiniteSet(1 .. m) /\ In(m) \in SUBSET (1 .. m)
      BY FS_Interval
    <2> HIDE DEF In
    <2>2. IsFiniteSet(In(m))
      BY <2>1, FS_Subset
    <2> QED BY <2>2, FS_CardinalityType
  <1>2. Cardinality(In(0)) = 0
    <2>1. In(0) = {}
      OBVIOUS
    <2> QED BY <2>1, FS_EmptySet
  <1>3. Cardinality(In(n + 1)) = Cardinality(In(n)) + (IF Script[n + 1].op \in ops THEN 1 ELSE 0)
    <2>1. CASE Script[n + 1].op \in ops
      <3>1. In(n + 1) = In(n) \cup {n + 1} /\ n + 1 \notin In(n)
        BY <2>1
      <3> HIDE DEF In
      <3>2. Cardinality(In(n) \cup {n + 1}) = Cardinality(In(n)) + 1
        BY <1>1, <3>1, FS_AddElement
      <3> QED BY <2>1, <3>1, <3>2
    <2>2. CASE Script[n + 1].op \notin ops
      <3>1. In(n + 1) = In(n)
        BY <2>2
      <3> HIDE DEF In
      <3> QED BY <1>1, <2>2, <3>1
    <2> QED BY <2>1, <2>2
  <1>4. \A m : Before(ops, m) = Cardinality(In(m))
    BY DEF Before
  <1> HIDE DEF In
  <1> QED BY <1>1, <1>2, <1>3, <1>4

(* A chunk was run or skipped.                                               *)
LEMMA ChunkKeepsSigns ==
  ASSUME TypeInv, SignInv, Fetching, Chunk.op # "OP_CODESEPARATOR" \/ ~Exec,
         pc' = pc + 1, Script' = Script, hashStart' = hashStart,
         \/ Chunk.op \in Ifs /\ Len(execStack') = Len(execStack) + 1
         \/ Chunk.op \in EndIfs /\ Len(execStack') = Len(execStack) - 1
         \/ Chunk.op \notin Ifs \cup EndIfs /\ Len(execStack') = Len(execStack)
  PROVE  SignInv'
  <1> DEFINE open == Len(execStack)
             open2 == Len(execStack')
  <1>1. TypeOK /\ pc \in Nat /\ hashStart \in 0 .. pc /\ Chunk = Script[pc + 1] /\ open \in Nat
    <2>1. TypeOK
      BY DEF TypeInv
    <2>2. Len(Script) \in Nat
      BY <2>1, ScriptType
    <2> QED BY <2>1, <2>2 DEF TypeOK, Chunk
  <1>2. \A n, ops : Before(ops, n)' = Before(ops, n)
    BY DEF Before
  <1>3. \A i : Outside(i)' <=> Outside(i)
    BY DEF Outside
  <1>4. ~("OP_CODESEPARATOR" \in Ifs \cup EndIfs) /\ Ifs \cap EndIfs = {}
    BY DEF Ifs, EndIfs
  <1>5. Before(Ifs, pc) = Before(EndIfs, pc) + open /\ Before(Ifs, pc) \in Nat /\ Before(EndIfs, pc) \in Nat
    BY <1>1, BeforeStep DEF SignInv
  <1>6. /\ Before(Ifs, pc + 1) = Before(Ifs, pc) + (IF Chunk.op \in Ifs THEN 1 ELSE 0)
        /\ Before(EndIfs, pc + 1) = Before(EndIfs, pc) + (IF Chunk.op \in EndIfs THEN 1 ELSE 0)
    BY <1>1, BeforeStep
  <1>7. \/ Chunk.op \in Ifs /\ open2 = open + 1
        \/ Chunk.op \in EndIfs /\ open2 = open - 1
        \/ Chunk.op \notin Ifs \cup EndIfs /\ open2 = open
    OBVIOUS
  <1> HIDE DEF open, open2
  <1>8. Before(Ifs, pc + 1) = Before(EndIfs, pc + 1) + open2
    <2>1. CASE Chunk.op \in Ifs
      <3>1. open2 = open + 1 /\ Chunk.op \notin EndIfs
        BY <1>4, <1>7, <2>1
      <3> QED BY <1>1, <1>5, <1>6, <2>1, <3>1
    <2>2. CASE Chunk.op \in EndIfs
      <3>1. open2 = open - 1 /\ Chunk.op \notin Ifs
        BY <1>4, <1>7, <2>2
      <3> QED BY <1>1, <1>5, <1>6, <2>2, <3>1
    <2>3. CASE Chunk.op \notin Ifs \cup EndIfs
      <3>1. open2 = open /\ Chunk.op \notin Ifs /\ Chunk.op \notin EndIfs
        BY <1>7, <2>3
      <3> QED BY <1>1, <1>5, <1>6, <3>1
    <2> QED BY <2>1, <2>2, <2>3
  <1>9. Script[pc + 1].op = "OP_CODESEPARATOR" => ~Outside(pc + 1)
    <2> SUFFICES ASSUME Chunk.op = "OP_CODESEPARATOR" PROVE ~Outside(pc + 1)
      BY <1>1
    <2>1. open # 0
      <3>1. \E j \in DOMAIN execStack : ~execStack[j]
        BY DEF Exec
      <3>2. execStack \in Seq(BOOLEAN)
        BY <1>1 DEF TypeOK
      <3> QED BY <3>1, <3>2 DEF open
    <2>2. Chunk.op \notin Ifs /\ Chunk.op \notin EndIfs
      BY <1>4
    <2>3. Before(Ifs, pc + 1) # Before(EndIfs, pc + 1)
      BY <1>1, <1>5, <1>6, <2>1, <2>2
    <2> QED BY <2>3, OutsideMeaning
  <1>10. Separators'
    <2>1. \A i \in hashStart + 1 .. pc + 1 : Script[i].op = "OP_CODESEPARATOR" => ~Outside(i)
      <3>1. \A i \in hashStart + 1 .. pc + 1 : i \in hashStart + 1 .. pc \/ i = pc + 1
        BY <1>1
      <3>2. \A i \in hashStart + 1 .. pc : Script[i].op = "OP_CODESEPARATOR" => ~Outside(i)
        BY DEF SignInv, Separators
      <3> QED BY <1>9, <3>1, <3>2
    <2>2. \A i \in hashStart' + 1 .. pc' : Script'[i].op = "OP_CODESEPARATOR" => ~Outside(i)'
      BY <1>3, <2>1
    <2> QED BY <2>2 DEF Separators
  <1>11. (hashStart = 0 \/ Script[hashStart].op = "OP_CODESEPARATOR")'
    BY DEF SignInv
  <1>12. (Before(Ifs, pc) = Before(EndIfs, pc) + Len(execStack))'
    <2>1. Before(Ifs, pc)' = Before(Ifs, pc + 1) /\ Before(EndIfs, pc)' = Before(EndIfs, pc + 1)
      BY DEF Before
    <2> QED BY <1>8, <2>1 DEF open2
  <1> QED BY <1>10, <1>11, <1>12 DEF SignInv

LEMMA SameKeepsSigns ==
  ASSUME SignInv, pc' = pc, Script' = Script, hashStart' = hashStart, execStack' = execStack
  PROVE  SignInv'
  <1>1. \A i : Outside(i)' <=> Outside(i)
    BY DEF Outside
  <1>2. Separators'
    BY <1>1 DEF SignInv, Separators
  <1>3. Before(Ifs, pc)' = Before(Ifs, pc) /\ Before(EndIfs, pc)' = Before(EndIfs, pc)
    BY DEF Before
  <1> QED BY <1>2, <1>3 DEF SignInv

LEMMA FailKeepsSigns == ASSUME SignInv, Fail PROVE SignInv'
  <1>1. Script' = Script
    BY DEF Fail, Script
  <1> QED BY <1>1, SameKeepsSigns DEF Fail

LEMMA ProceedKeepsSigns ==
  ASSUME TypeInv, SignInv, Fetching, Chunk.op # "OP_CODESEPARATOR" \/ ~Exec,
         NEW s, NEW alt, NEW conditions,
         Proceed(s, alt, conditions) \/ Fail,
         \/ Chunk.op \in Ifs /\ Len(conditions) = Len(execStack) + 1
         \/ Chunk.op \in EndIfs /\ Len(conditions) = Len(execStack) - 1
         \/ Chunk.op \notin Ifs \cup EndIfs /\ Len(conditions) = Len(execStack)
  PROVE  SignInv'
  <1>1. CASE Fail
    BY <1>1, FailKeepsSigns
  <1>2. CASE ~Fail
    <2>1. /\ pc' = pc + 1 /\ execStack' = conditions
          /\ scripts' = scripts /\ run' = run /\ hashStart' = hashStart
      BY <1>2 DEF Proceed
    <2>2. Script' = Script
      BY <2>1 DEF Script
    <2> QED BY <2>1, <2>2, ChunkKeepsSigns
  <1> QED BY <1>1, <1>2

(* A check is waited for: nothing else changes but that a chunk was run.     *)
LEMMA WaitForKeepsSigns ==
  ASSUME TypeInv, SignInv, Fetching, Chunk.op \in SigOps,
         NEW op, NEW s, NEW sigs, NEW keys, NEW count,
         WaitFor(op, s, sigs, keys, count)
  PROVE  SignInv'
  <1>1. /\ pc' = pc + 1 /\ execStack' = execStack
        /\ scripts' = scripts /\ run' = run /\ hashStart' = hashStart
    BY DEF WaitFor
  <1>2. Script' = Script
    BY <1>1 DEF Script
  <1>3. Chunk.op # "OP_CODESEPARATOR" /\ Chunk.op \notin Ifs \cup EndIfs
    BY DEF SigOps, Ifs, EndIfs
  <1> QED BY <1>1, <1>2, <1>3, ChunkKeepsSigns

LEMMA CodeSeparatorKeepsSigns == ASSUME TypeInv, SignInv, CodeSeparator PROVE SignInv'
  <1>1. /\ Fetching /\ Chunk.op = "OP_CODESEPARATOR" /\ Chunk = Script[pc + 1]
        /\ pc' = pc + 1 /\ hashStart' = pc + 1 /\ execStack' = execStack
        /\ scripts' = scripts /\ run' = run
    BY DEF CodeSeparator, Chunk
  <1>2. Script' = Script
    BY <1>1 DEF Script
  <1>3. pc \in Nat /\ Len(execStack) \in Nat
    <2>1. TypeOK
      BY DEF TypeInv
    <2>2. Len(Script) \in Nat
      BY <2>1, ScriptType
    <2> QED BY <2>1, <2>2 DEF TypeOK
  <1>4. Separators'
    <2>1. \A i \in pc + 1 + 1 .. pc + 1 : FALSE
      BY <1>3
    <2>2. \A i \in hashStart' + 1 .. pc' : FALSE
      BY <1>1, <2>1
    <2> QED BY <2>2 DEF Separators
  <1>5. Script'[hashStart'].op = "OP_CODESEPARATOR"
    BY <1>1, <1>2
  <1>6. /\ Before(Ifs, pc + 1) = Before(Ifs, pc)
        /\ Before(EndIfs, pc + 1) = Before(EndIfs, pc)
    <2>1. Chunk.op \notin Ifs /\ Chunk.op \notin EndIfs
      BY <1>1 DEF Ifs, EndIfs
    <2>2. /\ Before(Ifs, pc + 1) = Before(Ifs, pc) + (IF Chunk.op \in Ifs THEN 1 ELSE 0)
          /\ Before(EndIfs, pc + 1) = Before(EndIfs, pc) + (IF Chunk.op \in EndIfs THEN 1 ELSE 0)
          /\ Before(Ifs, pc) \in Nat /\ Before(EndIfs, pc) \in Nat
      BY <1>1, <1>3, BeforeStep
    <2> QED BY <2>1, <2>2
  <1>7. (Before(Ifs, pc) = Before(EndIfs, pc) + Len(execStack))'
    <2>1. Before(Ifs, pc)' = Before(Ifs, pc + 1) /\ Before(EndIfs, pc)' = Before(EndIfs, pc + 1)
      BY <1>1, <1>2 DEF Before
    <2> QED BY <1>1, <1>6, <2>1 DEF SignInv
  <1> QED BY <1>4, <1>5, <1>7 DEF SignInv

LEMMA EndOfScriptKeepsSigns == ASSUME TypeInv, SignInv, EndOfScript PROVE SignInv'
  <1>1. CASE SecondScript
    <2>1. pc' = 0 /\ hashStart' = 0 /\ execStack' = execStack /\ (execStack = <<>> \/ Fail)
      BY <1>1 DEF SecondScript, EndOfScript
    <2>2. CASE Fail
      BY <2>2, FailKeepsSigns
    <2>3. CASE execStack = <<>>
      <3>1. Separators'
        BY <2>1 DEF Separators
      <3>2. Before(Ifs, pc)' = 0 /\ Before(EndIfs, pc)' = 0
        <4>1. \A ops : {j \in 1 .. 0 : Script'[j].op \in ops} = {}
          OBVIOUS
        <4>2. \A ops : Before(ops, pc)' = Cardinality({j \in 1 .. 0 : Script'[j].op \in ops})
          BY <2>1 DEF Before
        <4> QED BY <4>1, <4>2, FS_EmptySet
      <3>3. Len(execStack') = 0
        BY <2>1, <2>3
      <3> QED BY <2>1, <3>1, <3>2, <3>3 DEF SignInv
    <2> QED BY <2>1, <2>2, <2>3
  <1>2. CASE Result
    <2>1. Script' = Script
      BY <1>2 DEF Result, Script
    <2> QED BY <1>2, <2>1, SameKeepsSigns DEF Result
  <1>3. CASE Fail
    BY <1>3, FailKeepsSigns
  <1> QED BY <1>1, <1>2, <1>3 DEF EndOfScript

LEMMA NextKeepsSigns == ASSUME TypeInv, SignInv, [Next]_vars PROVE SignInv'
  <1>1. execStack \in Seq(BOOLEAN) /\ Len(execStack) \in Nat
    BY StackTypes
  <1>2. CASE UNCHANGED vars
    <2>1. Script' = Script
      BY <1>2 DEF vars, Script
    <2> QED BY <1>2, <2>1, SameKeepsSigns DEF vars
  <1>3. CASE Oversized \/ RefuseChunk
    BY <1>3, FailKeepsSigns DEF Oversized, RefuseChunk
  <1>4. CASE PushData
    <2>1. /\ Fetching /\ Chunk.op # "OP_CODESEPARATOR" /\ Chunk.op \notin Ifs \cup EndIfs
          /\ \/ Proceed(Append(stack, Chunk.data), altStack, execStack) \/ Fail
             \/ Proceed(stack, altStack, execStack)
      BY <1>4 DEF PushData, Ifs, EndIfs
    <2> QED BY <2>1, ProceedKeepsSigns
  <1>5. CASE If
    <2> DEFINE condition == castBool(Last(stack)) <=> (Chunk.op = "OP_IF")
    <2>1. Len(Append(execStack, FALSE)) = Len(execStack) + 1
          /\ Len(Append(execStack, condition)) = Len(execStack) + 1
      BY <1>1
    <2> HIDE DEF condition
    <2>2. /\ Fetching /\ Chunk.op # "OP_CODESEPARATOR" /\ Chunk.op \in Ifs
          /\ \/ Proceed(stack, altStack, Append(execStack, FALSE)) \/ Fail
             \/ Proceed(Front(stack), altStack, Append(execStack, condition))
      BY <1>5 DEF If, Ifs, condition
    <2> QED BY <2>1, <2>2, ProceedKeepsSigns
  <1>6. CASE Else
    <2> DEFINE conditions == Append(Front(execStack), ~Last(execStack))
    <2>1. execStack # <<>> => Len(conditions) = Len(execStack)
      <3> SUFFICES ASSUME execStack # <<>> PROVE Len(conditions) = Len(execStack)
        OBVIOUS
      <3>1. Front(execStack) \in Seq(BOOLEAN) /\ Len(Front(execStack)) = Len(execStack) - 1
        BY <1>1, FrontSeq
      <3>2. Len(conditions) = Len(Front(execStack)) + 1
        BY <3>1
      <3> QED BY <1>1, <3>1, <3>2
    <2> HIDE DEF conditions
    <2>2. /\ Fetching /\ Chunk.op # "OP_CODESEPARATOR" /\ Chunk.op \notin Ifs \cup EndIfs
          /\ Fail \/ (execStack # <<>> /\ Proceed(stack, altStack, conditions))
      BY <1>6 DEF Else, Ifs, EndIfs, conditions
    <2> QED BY <2>1, <2>2, ProceedKeepsSigns, FailKeepsSigns
  <1>7. CASE EndIf
    <2>1. execStack # <<>> => Len(Front(execStack)) = Len(execStack) - 1
      BY <1>1, FrontSeq
    <2>2. /\ Fetching /\ Chunk.op # "OP_CODESEPARATOR" /\ Chunk.op \in EndIfs
          /\ Fail \/ (execStack # <<>> /\ Proceed(stack, altStack, Front(execStack)))
      BY <1>7 DEF EndIf, EndIfs
    <2> QED BY <2>1, <2>2, ProceedKeepsSigns, FailKeepsSigns
  <1>8. CASE Skip
    <2>1. /\ Fetching /\ ~Exec /\ Chunk.op \notin Ifs \cup EndIfs
          /\ Proceed(stack, altStack, execStack)
      BY <1>8 DEF Skip, InactiveToo, Conditionals, Ifs, EndIfs
    <2> QED BY <2>1, ProceedKeepsSigns
  <1>9. CASE CodeSeparator
    BY <1>9, CodeSeparatorKeepsSigns
  <1>10. CASE Execute
    <2> DEFINE result == Compute(Chunk.op, stack, altStack)
    <2>1. /\ Fetching /\ Chunk.op # "OP_CODESEPARATOR" /\ Chunk.op \notin Ifs \cup EndIfs
          /\ Proceed(result.stack, result.alt, execStack) \/ Fail
      BY <1>10 DEF Execute, Conditionals, Ifs, EndIfs
    <2> HIDE DEF result
    <2> QED BY <2>1, ProceedKeepsSigns
  <1>11. CASE CheckSig
    <2>1. /\ Fetching /\ Chunk.op \in SigOps
          /\ \/ Fail
             \/ WaitFor(Chunk.op, Popped(stack, 2), <<Top(stack, 2)>>, <<Top(stack, 1)>>, CountedOps)
      BY <1>11 DEF CheckSig, SigOps
    <2> QED BY <2>1, WaitForKeepsSigns, FailKeepsSigns
  <1>12. CASE CheckMultiSig
    <2> DEFINE keys == TakeList(stack, Limits.keys)
               sigs == TakeList(keys.stack, Len(keys.alt))
               count == CountedOps + Len(keys.alt)
    <2>1. /\ Fetching /\ Chunk.op \in SigOps
          /\ Fail \/ WaitFor(Chunk.op, Front(sigs.stack), sigs.alt, keys.alt, count)
      BY <1>12 DEF CheckMultiSig, SigOps
    <2> HIDE DEF keys, sigs, count
    <2> QED BY <2>1, WaitForKeepsSigns, FailKeepsSigns
  <1>13. CASE SigChecked \/ SigsChecked
    <2>1. Fail \/ (/\ scripts' = scripts /\ run' = run /\ pc' = pc
                   /\ hashStart' = hashStart /\ execStack' = execStack)
      BY <1>13 DEF SigChecked, SigsChecked
    <2>2. Fail \/ Script' = Script
      BY <2>1 DEF Script
    <2> QED BY <2>1, <2>2, FailKeepsSigns, SameKeepsSigns
  <1>14. CASE EndOfScript
    BY <1>14, EndOfScriptKeepsSigns
  <1>15. CASE Answered
    BY <1>2, <1>15 DEF Answered
  <1> QED BY <1>2, <1>3, <1>4, <1>5, <1>6, <1>7, <1>8, <1>9, <1>10, <1>11, <1>12, <1>13, <1>14, <1>15
          DEF Next

LEMMA AlwaysSignInv == Spec => [](TypeInv /\ SignInv)
  <1>1. Init => TypeInv /\ SignInv
    <2> SUFFICES ASSUME Init PROVE TypeInv /\ SignInv
      OBVIOUS
    <2>1. TypeInv
      BY InitTypes
    <2>2. pc = 0 /\ hashStart = 0 /\ Len(execStack) = 0
      BY DEF Init
    <2>3. Separators
      BY <2>2 DEF Separators
    <2>4. Before(Ifs, pc) = 0 /\ Before(EndIfs, pc) = 0
      BY <2>2, BeforeStep
    <2> QED BY <2>1, <2>2, <2>3, <2>4 DEF SignInv
  <1>2. TypeInv /\ SignInv /\ [Next]_vars => (TypeInv /\ SignInv)'
    BY NextKeepsTypes, NextKeepsSigns
  <1> QED BY <1>1, <1>2, PTL DEF Spec

(* At most one copy.                                                         *)
LEMMA CopiesOnce ==
  ASSUME NEW S, NEW s \in Seq(S), NEW x, Cardinality({i \in DOMAIN s : s[i] = x}) <= 1
  PROVE  Once(s, x)
  <1> DEFINE C == {i \in DOMAIN s : s[i] = x}
  <1> SUFFICES ASSUME NEW i \in 1 .. Len(s), NEW j \in 1 .. Len(s), s[i] = x, s[j] = x, i # j
               PROVE  FALSE
    BY DEF Once
  <1>1. Len(s) \in Nat /\ DOMAIN s = 1 .. Len(s)
    OBVIOUS
  <1>2. IsFiniteSet(1 .. Len(s)) /\ C \in SUBSET (1 .. Len(s))
    BY <1>1, FS_Interval
  <1>3. {i} \cup {j} \in SUBSET C
    BY <1>1
  <1>4. Cardinality(C) <= 1
    OBVIOUS
  <1> HIDE DEF C
  <1>5. IsFiniteSet(C)
    BY <1>2, FS_Subset
  <1>6. IsFiniteSet({i}) /\ Cardinality({i}) = 1
    BY FS_Singleton
  <1>7. Cardinality({i} \cup {j}) = 1 + 1
    <2>1. j \notin {i}
      OBVIOUS
    <2> DEFINE one == {i}
    <2> HIDE DEF one
    <2>2. IsFiniteSet(one) /\ Cardinality(one) = 1 /\ j \notin one
      BY <1>6, <2>1 DEF one
    <2>3. Cardinality(one \cup {j}) = Cardinality(one) + 1
      BY <2>2, FS_AddElement
    <2> QED BY <2>2, <2>3 DEF one
  <1> DEFINE two == {i} \cup {j}
  <1>8. two \in SUBSET C /\ Cardinality(two) = 2
    BY <1>3, <1>7
  <1> HIDE DEF two
  <1>9. Cardinality(two) <= Cardinality(C) /\ Cardinality(C) \in Nat
    BY <1>5, <1>8, FS_Subset, FS_CardinalityType
  <1> QED BY <1>4, <1>8, <1>9

(* A check begins with an opcode that checks, and its code is that of its    *)
(* signatures.                                                               *)
LEMMA CheckBegins ==
  ASSUME TypeInv, Next, checking = NoCheck, checking' # NoCheck
  PROVE  checking'.sigs \in Seq(Data) /\ checking'.code = ScriptCode(checking'.sigs)
  <1>1. TypeInv'
    BY NextKeepsTypes
  <1>2. checking'.sigs \in Seq(Data)
    BY <1>1 DEF TypeInv
  <1>3. ~Fail
    BY DEF Fail
  <1>4. \A s, alt, conditions : ~Proceed(s, alt, conditions)
    BY <1>3 DEF Proceed
  <1>5. ~Oversized /\ ~RefuseChunk /\ ~PushData /\ ~If /\ ~Else /\ ~EndIf /\ ~Skip /\ ~Execute
    BY <1>3, <1>4 DEF Oversized, RefuseChunk, PushData, If, Else, EndIf, Skip, Execute
  <1>6. ~CodeSeparator /\ ~EndOfScript /\ ~Answered
    BY <1>3 DEF CodeSeparator, EndOfScript, SecondScript, Result, Answered, vars
  <1>7. ~SigChecked /\ ~SigsChecked
    BY DEF SigChecked, SigsChecked
  <1>8. CheckSig \/ CheckMultiSig
    BY <1>5, <1>6, <1>7 DEF Next
  <1>9. \E op, s, sigs, keys, count : WaitFor(op, s, sigs, keys, count)
    BY <1>3, <1>8 DEF CheckSig, CheckMultiSig
  <1>10. PICK op, s, sigs, keys, count : WaitFor(op, s, sigs, keys, count)
    BY <1>9
  <1>11. checking'.sigs = sigs /\ checking'.code = ScriptCode(sigs)
    BY <1>10 DEF WaitFor, Check
  <1> QED BY <1>2, <1>11

(* A signature is checked against the running script, from behind the last   *)
(* OP_CODESEPARATOR that was run on, and no other text: for all scripts, and *)
(* whatever the first script left, the part begins at a separator of the     *)
(* script that runs, or at its start, none outside the conditionals lies in  *)
(* between, and of the chunks only the signatures have gone.                 *)
THEOREM SignaturesSignOwnScript == Spec => SignsOwnScript
  <1> DEFINE Good == checking = NoCheck /\ checking' # NoCheck =>
                       \E start \in 0..pc : SignsFrom(start, ToSet(checking'.sigs), checking'.code)
  <1>1. (TypeInv /\ SignInv) /\ [Next]_vars => [Good]_vars
    <2> SUFFICES ASSUME TypeInv, SignInv, Next, checking = NoCheck, checking' # NoCheck
                 PROVE  \E start \in 0..pc : SignsFrom(start, ToSet(checking'.sigs), checking'.code)
      OBVIOUS
    <2> DEFINE signed == SubSeq(Script, hashStart + 1, Len(Script))
               sigs == checking'.sigs
               code == checking'.code
    <2>1. TypeOK /\ hashStart \in 0 .. pc
      BY DEF TypeInv, TypeOK
    <2>2. sigs \in Seq(Data) /\ code = ScriptCode(sigs)
      BY CheckBegins
    <2>3. signed \in Seq(Chunks)
      <3>1. Script \in Seq(Chunks) /\ Len(Script) \in Nat /\ hashStart + 1 \in Int
            /\ hashStart + 1 >= 1
        BY <2>1, ScriptType DEF TypeOK
      <3>2. \A i \in hashStart + 1 .. Len(Script) : Script[i] \in Chunks
        BY <3>1, ElementOfSeq
      <3> QED BY <3>1, <3>2, SubSeqProperties
    <2>4. signed = SubSeq(Script, hashStart + 1, Len(Script))
      OBVIOUS
    <2> HIDE DEF signed, sigs, code
    <2>5. ASSUME \A sig \in ToSet(sigs) : Cardinality({i \in DOMAIN signed : signed[i] = Push(sig)}) <= 1
          PROVE  code = Remaining(signed, {Push(sig) : sig \in ToSet(sigs)})
      <3>1. \A sig \in ToSet(sigs) : Once(signed, Push(sig))
        BY <2>3, <2>5, CopiesOnce
      <3> QED BY <2>1, <2>2, <2>4, <3>1, ScriptCodeLeaves
    <2>6. hashStart = 0 \/ Script[hashStart].op = "OP_CODESEPARATOR"
      BY DEF SignInv
    <2>7. \A i \in hashStart + 1 .. pc : Script[i].op = "OP_CODESEPARATOR" => ~Outside(i)
      BY DEF SignInv, Separators
    <2>8. SignsFrom(hashStart, ToSet(sigs), code)
      BY <2>4, <2>5, <2>6, <2>7 DEF SignsFrom
    <2> QED BY <2>1, <2>8 DEF sigs, code
  <1> HIDE DEF Good
  <1>2. Spec => [][Good]_vars
    BY <1>1, AlwaysSignInv, PTL DEF Spec
  <1> QED BY <1>2 DEF SignsOwnScript, Good
==============================================================================
