-------------------------- MODULE ConnectionProofs --------------------------
(* Proofs that the messages of a connection arrive in order, whatever the    *)
(* pieces they come in.                                                      *)
(*                                                                           *)
(* The invariant reads what an end has not handled yet, its buffers and the  *)
(* stream behind them, as one sequence of tokens: every beginning of a       *)
(* message in it is that of a whole one (Framed), and without garbage        *)
(* nothing is between messages (Tight).  Flow adds what the messages in it   *)
(* are: at most one version and one verack, in this order, the numbers of    *)
(* the application's from the next one expected, and checksums exactly from  *)
(* where the reader will look for them.  Own says what an end knows of the   *)
(* other.  One half of the proofs is about sequences, what writing a message *)
(* behind them, reading the first or skipping garbage leaves of Flow; the    *)
(* other takes one handler after the other through it, up to processData,    *)
(* whose rounds all keep it.                                                 *)
EXTENDS Connection, SequenceTheorems, LoopProofs

Kinds == {"magic1", "magic2", "command", "length", "sum", "data", "junk"}
Tokens == [kind : Kinds, val : Nat]

-----------------------------------------------------------------------------
(* A message in a stream s, by the position i of its first token.            *)

Begins(s, i) == i \in DOMAIN s /\ s[i].kind = "magic1"
Command(s, i) == s[i + 2].val
Summed(s, i) == i + 4 \in DOMAIN s /\ s[i + 4].kind = "sum"
Body(s, i) == i + (IF Summed(s, i) THEN 5 ELSE 4)
After(s, i) == Body(s, i) + s[i + 3].val
Value(s, i) == s[Body(s, i)].val
NonceIn(s, i) == s[Body(s, i) + 1].val

Size(command) == IF command = Version THEN 2 ELSE IF command = App THEN 1 ELSE 0

Whole(s, i) ==
  /\ i + 3 \in DOMAIN s
  /\ s[i + 1].kind = "magic2" /\ s[i + 2].kind = "command" /\ s[i + 3].kind = "length"
  /\ Command(s, i) \in {Version, Verack, App}
  /\ s[i + 3].val = Size(Command(s, i))
  /\ After(s, i) - 1 <= Len(s)
  /\ \A p \in 0 .. s[i + 3].val - 1 : s[Body(s, i) + p].kind = "data"
  /\ Summed(s, i) => s[i + 4].val = IF Command(s, i) = Verack THEN 7 ELSE 8 + Value(s, i)

Framed(s) == \A i \in DOMAIN s : Begins(s, i) => Whole(s, i)

(* The message at i of s is the one at j of t.                               *)
SameMessage(s, i, t, j) ==
  /\ Begins(s, i) <=> Begins(t, j)
  /\ Begins(s, i) =>
       /\ Whole(t, j)
       /\ Command(t, j) = Command(s, i)
       /\ Summed(t, j) <=> Summed(s, i)
       /\ After(t, j) - j = After(s, i) - i
       /\ Command(s, i) # Verack => Value(t, j) = Value(s, i)
       /\ Command(s, i) = Version => NonceIn(t, j) = NonceIn(s, i)

(* The tokens from i of s are those from j of t, and no checksum follows.    *)
Aligned(s, i, t, j) ==
  /\ \A p \in 0 .. Len(s) - i : j + p \in DOMAIN t /\ t[j + p] = s[i + p]
  /\ j + Len(s) - i + 1 \in DOMAIN t => t[j + Len(s) - i + 1].kind # "sum"

LEMMA SameTokens ==
  ASSUME NEW s \in Seq(Tokens), NEW t \in Seq(Tokens), NEW i \in DOMAIN s, NEW j \in DOMAIN t,
         Begins(s, i) => Whole(s, i),
         Aligned(s, i, t, j)
  PROVE  SameMessage(s, i, t, j)
  <1>0. i \in Nat /\ j \in Nat /\ Len(s) \in Nat /\ Len(t) \in Nat /\ i <= Len(s) /\ j <= Len(t)
    OBVIOUS
  <1>1. s[i] = t[j]
    <2>1. 0 \in 0 .. Len(s) - i /\ i + 0 = i /\ j + 0 = j
      OBVIOUS
    <2> QED BY <2>1 DEF Aligned
  <1>2. Begins(s, i) <=> Begins(t, j)
    BY <1>1 DEF Begins
  <1>3. ASSUME Begins(s, i)
        PROVE  /\ Whole(t, j) /\ Command(t, j) = Command(s, i)
               /\ Summed(t, j) <=> Summed(s, i)
               /\ After(t, j) - j = After(s, i) - i
               /\ Command(s, i) # Verack => Value(t, j) = Value(s, i)
               /\ Command(s, i) = Version => NonceIn(t, j) = NonceIn(s, i)
    <2>1. Whole(s, i)
      BY <1>3
    <2>2. i + 3 \in DOMAIN s /\ 1 \in 0 .. Len(s) - i /\ 2 \in 0 .. Len(s) - i /\ 3 \in 0 .. Len(s) - i
      BY <2>1 DEF Whole
    <2>3. t[j + 1] = s[i + 1] /\ t[j + 2] = s[i + 2] /\ t[j + 3] = s[i + 3] /\ j + 3 \in DOMAIN t
      BY <2>2 DEF Aligned
    <2>4. Summed(t, j) <=> Summed(s, i)
      <3>1. CASE i + 4 \in DOMAIN s
        <4>1. 4 \in 0 .. Len(s) - i
          BY <3>1
        <4>2. t[j + 4] = s[i + 4] /\ j + 4 \in DOMAIN t
          BY <4>1 DEF Aligned
        <4> QED BY <4>2, <3>1 DEF Summed
      <3>2. CASE i + 4 \notin DOMAIN s
        <4>1. Len(s) - i + 1 = 4
          BY <3>2, <2>2
        <4> QED BY <4>1, <3>2 DEF Summed, Aligned
      <3> QED BY <3>1, <3>2
    <2>5. PICK b \in 4 .. 5 : Body(s, i) = i + b /\ Body(t, j) = j + b
      BY <2>4 DEF Body
    <2>6. Command(t, j) = Command(s, i) /\ Command(s, i) \in {Version, Verack, App}
      BY <2>1, <2>3 DEF Command, Whole
    <2>7. s[i + 3].val = Size(Command(s, i)) /\ t[j + 3].val = Size(Command(s, i))
      BY <2>1, <2>3 DEF Whole
    <2>8. PICK n \in 0 .. 2 :
            /\ Size(Command(s, i)) = n
            /\ Command(s, i) # Verack => n >= 1
            /\ Command(s, i) = Version => n = 2
      BY <2>6 DEF Size, Version, Verack, App
    <2>9. After(s, i) = i + b + n /\ After(t, j) = j + b + n
      BY <1>0, <2>5, <2>7, <2>8 DEF After
    <2>10. i + b + n - 1 <= Len(s)
      BY <2>1, <2>9, SMTT(40) DEF Whole
    <2>11. ASSUME NEW p \in 0 .. b + n - 1
           PROVE  t[j + p] = s[i + p] /\ j + p \in DOMAIN t
      <3>1. p \in 0 .. Len(s) - i
        BY <1>0, <2>10
      <3> QED BY <3>1 DEF Aligned
    <2>12. Command(s, i) # Verack => Value(t, j) = Value(s, i)
      <3>1. SUFFICES ASSUME Command(s, i) # Verack PROVE Value(t, j) = Value(s, i)
        OBVIOUS
      <3>2. b \in 0 .. b + n - 1
        BY <3>1, <2>8
      <3> QED BY <3>2, <2>5, <2>11 DEF Value
    <2>13. Command(s, i) = Version => NonceIn(t, j) = NonceIn(s, i)
      <3>1. SUFFICES ASSUME Command(s, i) = Version PROVE NonceIn(t, j) = NonceIn(s, i)
        OBVIOUS
      <3>2. b + 1 \in 0 .. b + n - 1 /\ i + b + 1 = i + (b + 1) /\ j + b + 1 = j + (b + 1)
        BY <1>0, <3>1, <2>8
      <3> QED BY <3>2, <2>5, <2>11 DEF NonceIn
    <2>14. Summed(t, j) => t[j + 4].val = IF Command(t, j) = Verack THEN 7 ELSE 8 + Value(t, j)
      <3>1. SUFFICES ASSUME Summed(t, j)
                     PROVE  t[j + 4].val = IF Command(t, j) = Verack THEN 7 ELSE 8 + Value(t, j)
        OBVIOUS
      <3>2. Summed(s, i) /\ 4 \in 0 .. Len(s) - i
        BY <3>1, <2>4 DEF Summed
      <3>3. t[j + 4] = s[i + 4]
        BY <3>2 DEF Aligned
      <3>4. s[i + 4].val = IF Command(s, i) = Verack THEN 7 ELSE 8 + Value(s, i)
        BY <3>2, <2>1 DEF Whole
      <3> QED BY <3>3, <3>4, <2>6, <2>12
    <2>15. After(t, j) - 1 <= Len(t)
      <3>1. b + n - 1 \in 0 .. b + n - 1 /\ j + b + n - 1 = j + (b + n - 1)
        BY <1>0
      <3>2. j + b + n - 1 \in DOMAIN t
        BY <3>1, <2>11
      <3> QED BY <1>0, <2>9, <3>2, SMTT(40)
    <2>16. \A p \in 0 .. n - 1 : t[Body(t, j) + p].kind = "data"
      <3> TAKE p \in 0 .. n - 1
      <3>1. s[Body(s, i) + p].kind = "data"
        BY <2>1, <2>7, <2>8 DEF Whole
      <3>2. b + p \in 0 .. b + n - 1 /\ j + (b + p) = j + b + p /\ i + (b + p) = i + b + p
        BY <1>0, SMTT(40)
      <3> QED BY <3>1, <3>2, <2>5, <2>11
    <2>17. After(t, j) - j = After(s, i) - i
      BY <1>0, <2>9
    <2>18. Whole(t, j)
      <3>1. t[j + 1].kind = "magic2" /\ t[j + 2].kind = "command" /\ t[j + 3].kind = "length"
        BY <2>1, <2>3 DEF Whole
      <3> QED BY <3>1, <2>3, <2>6, <2>7, <2>8, <2>14, <2>15, <2>16 DEF Whole
    <2> QED BY <2>4, <2>6, <2>12, <2>13, <2>17, <2>18
  <1> QED BY <1>2, <1>3 DEF SameMessage

(* Between a message's first token and its end no other message begins.      *)
LEMMA BeginsApart ==
  ASSUME NEW s \in Seq(Tokens), Framed(s), NEW i \in DOMAIN s, NEW j \in DOMAIN s,
         Begins(s, i), Begins(s, j), i < j
  PROVE  After(s, i) <= j
  <1>1. Whole(s, i)
    BY DEF Framed
  <1>2. PICK b \in 4 .. 5 : Body(s, i) = i + b /\ (b = 5 => Summed(s, i))
    BY DEF Body
  <1>3. PICK n \in 0 .. 2 : s[i + 3].val = n
    BY <1>1 DEF Whole, Size
  <1>4. After(s, i) = i + b + n
    BY <1>2, <1>3 DEF After
  <1>5. j # i + 1 /\ j # i + 2 /\ j # i + 3
    BY <1>1 DEF Whole, Begins
  <1>6. b = 5 => j # i + 4
    BY <1>2 DEF Summed, Begins
  <1>7. \A p \in 0 .. n - 1 : j # i + b + p
    BY <1>1, <1>2, <1>3 DEF Whole, Begins
  <1>8. SUFFICES ASSUME j < i + b + n PROVE FALSE
    BY <1>4
  <1>9. i \in Int /\ j \in Int
    OBVIOUS
  <1>10. j >= i + 4
    BY <1>5, <1>9
  <1>11. j >= i + b
    BY <1>6, <1>9, <1>10
  <1>12. PICK p \in Int : j = i + b + p
    <2>1. j = i + b + (j - i - b)
      BY <1>9
    <2> QED BY <2>1, <1>9, SMTT(40)
  <1>13. p \in 0 .. n - 1
    BY <1>8, <1>9, <1>11, <1>12
  <1> QED BY <1>7, <1>12, <1>13

Moved(s, t, n) ==
  /\ t \in Seq(Tokens) /\ Len(t) = Len(s) - n
  /\ \A j \in DOMAIN t : j + n \in DOMAIN s /\ SameMessage(s, j + n, t, j)

LEMMA DropMoves ==
  ASSUME NEW s \in Seq(Tokens), Framed(s), NEW n \in 0 .. Len(s)
  PROVE  Moved(s, Drop(s, n), n)
  <1> DEFINE t == Drop(s, n)
  <1>1. t \in Seq(Tokens) /\ Len(t) = Len(s) - n /\ \A p \in DOMAIN t : t[p] = s[p + n]
    BY DEF Drop
  <1> HIDE DEF t
  <1>2. ASSUME NEW j \in DOMAIN t
        PROVE  j + n \in DOMAIN s /\ SameMessage(s, j + n, t, j)
    <2>1. j \in Nat /\ j >= 1 /\ j <= Len(t) /\ Len(s) \in Nat /\ Len(t) \in Nat
      BY <1>1
    <2>2. j + n \in DOMAIN s
      BY <2>1, <1>1
    <2>3. ASSUME NEW p \in 0 .. Len(s) - (j + n)
          PROVE  j + p \in DOMAIN t /\ t[j + p] = s[j + n + p]
      <3>1. j + p \in DOMAIN t
        BY <1>1, <2>1
      <3>2. j + p + n = j + n + p
        BY <2>1
      <3> QED BY <1>1, <3>1, <3>2
    <2>4. j + Len(s) - (j + n) + 1 \notin DOMAIN t
      BY <1>1, <2>1, SMTT(40)
    <2>5. Aligned(s, j + n, t, j)
      BY <2>3, <2>4 DEF Aligned
    <2>6. Begins(s, j + n) => Whole(s, j + n)
      BY <2>2 DEF Framed
    <2> QED BY <1>1, <2>2, <2>5, <2>6, SameTokens
  <1>3. Moved(s, t, n)
    BY <1>1, <1>2 DEF Moved
  <1> QED BY <1>3 DEF t

Joined(s, m, t) ==
  /\ t \in Seq(Tokens) /\ Len(t) = Len(s) + Len(m)
  /\ \A i \in DOMAIN s : SameMessage(s, i, t, i)
  /\ \A i \in DOMAIN m : SameMessage(m, i, t, Len(s) + i)

LEMMA JoinKeeps ==
  ASSUME NEW s \in Seq(Tokens), NEW m \in Seq(Tokens), Framed(s), Framed(m),
         m # <<>> => m[1].kind # "sum"
  PROVE  Joined(s, m, s \o m)
  <1> DEFINE t == s \o m
  <1>0. Len(s) \in Nat /\ Len(m) \in Nat
    OBVIOUS
  <1>1. /\ t \in Seq(Tokens) /\ Len(t) = Len(s) + Len(m)
        /\ \A p \in DOMAIN s : t[p] = s[p]
        /\ \A p \in DOMAIN m : t[Len(s) + p] = m[p]
    OBVIOUS
  <1> HIDE DEF t
  <1>2. ASSUME NEW i \in DOMAIN s
        PROVE  SameMessage(s, i, t, i)
    <2>1. ASSUME NEW p \in 0 .. Len(s) - i
          PROVE  i + p \in DOMAIN t /\ t[i + p] = s[i + p]
      <3>1. i + p \in DOMAIN s /\ i + p \in DOMAIN t
        BY <1>0, <1>1, SMTT(40)
      <3> QED BY <1>1, <3>1
    <2>2. i + Len(s) - i + 1 \in DOMAIN t => t[i + Len(s) - i + 1].kind # "sum"
      <3>1. i + Len(s) - i + 1 = Len(s) + 1
        BY <1>0
      <3>2. Len(s) + 1 \in DOMAIN t => m # <<>> /\ 1 \in DOMAIN m
        BY <1>0, <1>1
      <3> QED BY <1>1, <3>1, <3>2
    <2>3. Aligned(s, i, t, i)
      BY <2>1, <2>2 DEF Aligned
    <2>4. i \in DOMAIN t
      BY <1>0, <1>1
    <2>5. Begins(s, i) => Whole(s, i)
      BY DEF Framed
    <2> QED BY <1>1, <2>3, <2>4, <2>5, SameTokens
  <1>3. ASSUME NEW i \in DOMAIN m
        PROVE  SameMessage(m, i, t, Len(s) + i)
    <2>1. ASSUME NEW p \in 0 .. Len(m) - i
          PROVE  Len(s) + i + p \in DOMAIN t /\ t[Len(s) + i + p] = m[i + p]
      <3>1. i + p \in DOMAIN m /\ Len(s) + i + p \in DOMAIN t /\ Len(s) + i + p = Len(s) + (i + p)
        BY <1>0, <1>1
      <3> QED BY <1>1, <3>1
    <2>2. Len(s) + i + Len(m) - i + 1 \notin DOMAIN t
      BY <1>0, <1>1
    <2>3. Aligned(m, i, t, Len(s) + i)
      BY <2>1, <2>2 DEF Aligned
    <2>4. Len(s) + i \in DOMAIN t
      BY <1>0, <1>1
    <2>5. Begins(m, i) => Whole(m, i)
      BY DEF Framed
    <2> QED BY <1>1, <2>3, <2>4, <2>5, SameTokens
  <1>4. Joined(s, m, t)
    BY <1>1, <1>2, <1>3 DEF Joined
  <1> QED BY <1>4 DEF t
-----------------------------------------------------------------------------
(* What a stream holds, by the positions of its messages.                    *)

Is(s, i, command) == Begins(s, i) /\ Command(s, i) = command
Has(s, command) == \E i \in DOMAIN s : Is(s, i, command)
HasBefore(s, i, command) == \E j \in 1 .. i - 1 : Is(s, j, command)

(* Message follows message.                                                  *)
Tight(s) ==
  /\ s # <<>> => Begins(s, 1)
  /\ \A i \in DOMAIN s : Begins(s, i) => After(s, i) = Len(s) + 1 \/ Begins(s, After(s, i))

Once(s, command) == \A i, j \in DOMAIN s : Is(s, i, command) /\ Is(s, j, command) => i = j

Greets(s, ver, nonce) ==
  \A i \in DOMAIN s : Is(s, i, Version) => Value(s, i) = ver /\ NonceIn(s, i) = nonce

VersionFirst(s) == \A i \in DOMAIN s : Is(s, i, Verack) => HasBefore(s, i, Version)

(* Checksums from the start, or after the verack.                            *)
SumsFrom(s, ver) ==
  \A i \in DOMAIN s : Begins(s, i) =>
    (Summed(s, i) <=> HasChecksum(ver) \/ HasBefore(s, i, Verack))

(* The messages of the application number n + 1 to max, in this order.       *)
Numbers(s, n, max) ==
  /\ \A i \in DOMAIN s : Is(s, i, App) => Value(s, i) \in n + 1 .. max
  /\ \A i, j \in DOMAIN s : Is(s, i, App) /\ Is(s, j, App) /\ i < j => Value(s, i) < Value(s, j)
  /\ \A m \in n + 1 .. max : \E i \in DOMAIN s : Is(s, i, App) /\ Value(s, i) = m

(* The tokens dropped hold no message.                                       *)
LEMMA SkipKeeps ==
  ASSUME NEW s \in Seq(Tokens), NEW n \in 0 .. Len(s), NEW t, Moved(s, t, n),
         \A i \in 1 .. n : ~Begins(s, i), Framed(s),
         NEW a, NEW b
  PROVE  /\ Framed(t)
         /\ \A command \in {Version, Verack} : Has(t, command) <=> Has(s, command)
         /\ \A command \in {Version, Verack} : Once(s, command) => Once(t, command)
         /\ Greets(s, a, b) => Greets(t, a, b)
         /\ VersionFirst(s) => VersionFirst(t)
         /\ SumsFrom(s, a) => SumsFrom(t, a)
         /\ Numbers(s, a, b) => Numbers(t, a, b)
  <1>0. Len(s) \in Nat /\ Len(t) \in Nat /\ DOMAIN s = 1 .. Len(s) /\ DOMAIN t = 1 .. Len(t)
    BY DEF Moved
  <1>1. ASSUME NEW j \in DOMAIN t
        PROVE  j + n \in DOMAIN s /\ SameMessage(s, j + n, t, j)
    BY DEF Moved
  <1>2. ASSUME NEW i \in DOMAIN s, Begins(s, i)
        PROVE  i - n \in DOMAIN t /\ (i - n) + n = i
    <2>1. i > n
      BY <1>0, <1>2
    <2> QED BY <1>0, <2>1 DEF Moved
  <1>3. ASSUME NEW j \in DOMAIN t, NEW command
        PROVE  Is(t, j, command) <=> Is(s, j + n, command)
    BY <1>1 DEF Is, SameMessage
  <1>4. ASSUME NEW j \in DOMAIN t, NEW command
        PROVE  HasBefore(t, j, command) <=> HasBefore(s, j + n, command)
    <2>1. ASSUME NEW i \in 1 .. j - 1, Is(t, i, command)
          PROVE  HasBefore(s, j + n, command)
      <3>1. i \in DOMAIN t /\ i + n \in 1 .. j + n - 1
        BY <1>0
      <3> QED BY <1>3, <2>1, <3>1, SMTT(40) DEF HasBefore
    <2>2. ASSUME NEW i \in 1 .. j + n - 1, Is(s, i, command)
          PROVE  HasBefore(t, j, command)
      <3>1. i \in DOMAIN s /\ Begins(s, i)
        BY <2>2 DEF Is, Begins
      <3>2. i - n \in DOMAIN t /\ (i - n) + n = i
        BY <1>2, <3>1
      <3>3. i - n \in 1 .. j - 1
        BY <1>0, <3>2
      <3> QED BY <1>3, <2>2, <3>2, <3>3 DEF HasBefore
    <2>3. HasBefore(t, j, command) => HasBefore(s, j + n, command)
      BY <2>1 DEF HasBefore
    <2>4. HasBefore(s, j + n, command) => HasBefore(t, j, command)
      BY <2>2 DEF HasBefore
    <2> QED BY <2>3, <2>4
  <1>5. Framed(t)
    BY <1>1 DEF Framed, SameMessage
  <1>6. ASSUME NEW command
        PROVE  /\ Has(t, command) <=> Has(s, command)
               /\ Once(s, command) => Once(t, command)
    <2>1. Has(t, command) => Has(s, command)
      BY <1>1, <1>3 DEF Has
    <2>2. Has(s, command) => Has(t, command)
      BY <1>2, <1>3 DEF Has, Is
    <2>3. ASSUME Once(s, command), NEW i \in DOMAIN t, NEW j \in DOMAIN t,
                 Is(t, i, command), Is(t, j, command)
          PROVE  i = j
      <3>1. i + n = j + n
        BY <1>1, <1>3, <2>3 DEF Once
      <3> QED BY <1>0, <3>1
    <2> QED BY <2>1, <2>2, <2>3 DEF Once
  <1>7. Greets(s, a, b) => Greets(t, a, b)
    BY <1>1, <1>3 DEF Greets, SameMessage, Is, Version, Verack
  <1>8. VersionFirst(s) => VersionFirst(t)
    BY <1>1, <1>3, <1>4 DEF VersionFirst
  <1>9. SumsFrom(s, a) => SumsFrom(t, a)
    BY <1>1, <1>4 DEF SumsFrom, SameMessage
  <1>10. ASSUME Numbers(s, a, b)
         PROVE  Numbers(t, a, b)
    <2>1. ASSUME NEW j \in DOMAIN t, Is(t, j, App)
          PROVE  j + n \in DOMAIN s /\ Is(s, j + n, App) /\ Value(t, j) = Value(s, j + n)
      BY <1>1, <1>3, <2>1 DEF SameMessage, Is, App, Verack
    <2>2. \A j \in DOMAIN t : Is(t, j, App) => Value(t, j) \in a + 1 .. b
      BY <1>10, <2>1 DEF Numbers
    <2>3. ASSUME NEW i \in DOMAIN t, NEW j \in DOMAIN t, Is(t, i, App), Is(t, j, App), i < j
          PROVE  Value(t, i) < Value(t, j)
      <3>1. i + n < j + n
        BY <1>0, <2>3
      <3> QED BY <1>10, <2>1, <2>3, <3>1 DEF Numbers
    <2>4. ASSUME NEW m \in a + 1 .. b
          PROVE  \E i \in DOMAIN t : Is(t, i, App) /\ Value(t, i) = m
      <3>1. PICK i \in DOMAIN s : Is(s, i, App) /\ Value(s, i) = m
        BY <1>10 DEF Numbers
      <3>2. i - n \in DOMAIN t /\ (i - n) + n = i
        BY <1>2, <3>1 DEF Is
      <3>3. Is(t, i - n, App)
        BY <1>3, <3>1, <3>2
      <3>4. Value(t, i - n) = m
        BY <2>1, <3>1, <3>2, <3>3
      <3> QED BY <3>2, <3>3, <3>4
    <2> QED BY <2>2, <2>3, <2>4 DEF Numbers
  <1> QED BY <1>5, <1>6, <1>7, <1>8, <1>9, <1>10

LEMMA AfterType ==
  ASSUME NEW s \in Seq(Tokens), NEW i \in DOMAIN s, Whole(s, i)
  PROVE  After(s, i) \in Nat /\ After(s, i) >= i + 4 /\ After(s, i) <= Len(s) + 1
  BY SMTT(40) DEF Whole, After, Body, Size

(* The tokens dropped are the first message.                                 *)
LEMMA TakeKeeps ==
  ASSUME NEW s \in Seq(Tokens), Framed(s), 1 \in DOMAIN s, Begins(s, 1),
         NEW t, Moved(s, t, After(s, 1) - 1), After(s, 1) \in Nat,
         NEW a \in Nat, NEW b \in Nat, NEW ver, NEW nonce
  PROVE  /\ Framed(t)
         /\ Tight(s) => Tight(t)
         /\ \A command \in {Version, Verack} :
              /\ Has(t, command) => Has(s, command)
              /\ Has(s, command) /\ Command(s, 1) # command => Has(t, command)
              /\ Once(s, command) => Once(t, command)
              /\ Once(s, command) /\ Command(s, 1) = command => ~Has(t, command)
         /\ Greets(s, ver, nonce) => Greets(t, ver, nonce)
         /\ VersionFirst(s) => Command(s, 1) # Verack
         /\ VersionFirst(s) /\ Command(s, 1) # Version => VersionFirst(t)
         /\ SumsFrom(s, ver) => (Summed(s, 1) <=> HasChecksum(ver))
         /\ SumsFrom(s, ver) /\ Command(s, 1) # Verack => SumsFrom(t, ver)
         /\ SumsFrom(s, ver) /\ Command(s, 1) = Verack /\ HasChecksum(nonce) => SumsFrom(t, nonce)
         /\ Numbers(s, a, b) /\ Command(s, 1) # App => Numbers(t, a, b)
         /\ Numbers(s, a, b) /\ Command(s, 1) = App =>
              Value(s, 1) = a + 1 /\ a + 1 <= b /\ Numbers(t, a + 1, b)
  <1> DEFINE n == After(s, 1) - 1
  <1>0. /\ Len(s) \in Nat /\ Len(t) \in Nat /\ DOMAIN s = 1 .. Len(s) /\ DOMAIN t = 1 .. Len(t)
        /\ n \in Int /\ Len(t) = Len(s) - n /\ After(s, 1) = n + 1
    BY DEF Moved
  <1>1. ASSUME NEW j \in DOMAIN t
        PROVE  j + n \in DOMAIN s /\ SameMessage(s, j + n, t, j)
    BY DEF Moved
  <1>20. n >= 4
    <2>1. Whole(s, 1)
      BY DEF Framed
    <2>2. After(s, 1) >= 1 + 4
      BY <2>1, AfterType
    <2> QED BY <2>2
  <1> HIDE DEF n
  <1>2. ASSUME NEW i \in DOMAIN s, Begins(s, i), i # 1
        PROVE  i - n \in DOMAIN t /\ (i - n) + n = i
    <2>1. After(s, 1) <= i
      BY <1>0, <1>2, BeginsApart
    <2> QED BY <1>0, <2>1, SMTT(40)
  <1>3. ASSUME NEW j \in DOMAIN t, NEW command
        PROVE  Is(t, j, command) <=> Is(s, j + n, command)
    BY <1>1 DEF Is, SameMessage
  <1>4. ASSUME NEW j \in DOMAIN t, NEW command
        PROVE  /\ HasBefore(t, j, command) => HasBefore(s, j + n, command)
               /\ HasBefore(s, j + n, command) /\ Command(s, 1) # command => HasBefore(t, j, command)
    <2>1. ASSUME NEW i \in 1 .. j - 1, Is(t, i, command)
          PROVE  HasBefore(s, j + n, command)
      <3>1. i \in DOMAIN t /\ i + n \in 1 .. j + n - 1
        BY <1>0, <1>20
      <3>2. Is(s, i + n, command)
        BY <1>3, <2>1, <3>1
      <3> QED BY <1>0, <3>1, <3>2, SMTT(40) DEF HasBefore
    <2>2. ASSUME NEW i \in 1 .. j + n - 1, Is(s, i, command), Command(s, 1) # command
          PROVE  HasBefore(t, j, command)
      <3>1. i \in DOMAIN s /\ Begins(s, i) /\ i # 1
        BY <2>2 DEF Is, Begins
      <3>2. i - n \in DOMAIN t /\ (i - n) + n = i
        BY <1>2, <3>1
      <3>3. i - n \in 1 .. j - 1
        BY <1>0, <3>2
      <3> QED BY <1>3, <2>2, <3>2, <3>3 DEF HasBefore
    <2>3. HasBefore(t, j, command) => HasBefore(s, j + n, command)
      BY <1>0, <2>1 DEF HasBefore
    <2>4. HasBefore(s, j + n, command) /\ Command(s, 1) # command => HasBefore(t, j, command)
      BY <1>0, <2>2 DEF HasBefore
    <2> QED BY <2>3, <2>4
  <1>5. Framed(t)
    BY <1>1 DEF Framed, SameMessage
  <1>6. ASSUME NEW command
        PROVE  /\ Has(t, command) => Has(s, command)
               /\ Has(s, command) /\ Command(s, 1) # command => Has(t, command)
               /\ Once(s, command) => Once(t, command)
               /\ Once(s, command) /\ Command(s, 1) = command => ~Has(t, command)
    <2>1. Has(t, command) => Has(s, command)
      BY <1>1, <1>3 DEF Has
    <2>2. Has(s, command) /\ Command(s, 1) # command => Has(t, command)
      BY <1>2, <1>3 DEF Has, Is
    <2>3. ASSUME Once(s, command), NEW i \in DOMAIN t, NEW j \in DOMAIN t,
                 Is(t, i, command), Is(t, j, command)
          PROVE  i = j
      <3>1. i + n = j + n
        BY <1>1, <1>3, <2>3 DEF Once
      <3> QED BY <1>0, <3>1
    <2>4. ASSUME Once(s, command), Command(s, 1) = command, NEW j \in DOMAIN t, Is(t, j, command)
          PROVE  FALSE
      <3>1. Is(s, 1, command) /\ Is(s, j + n, command) /\ j + n \in DOMAIN s
        BY <1>1, <1>3, <2>4 DEF Is
      <3>2. 1 = j + n
        BY <2>4, <3>1 DEF Once
      <3> QED BY <1>0, <1>20, <3>2
    <2> QED BY <2>1, <2>2, <2>3, <2>4 DEF Once, Has
  <1>7. Greets(s, ver, nonce) => Greets(t, ver, nonce)
    BY <1>1, <1>3 DEF Greets, SameMessage, Is, Version, Verack
  <1>8. VersionFirst(s) => Command(s, 1) # Verack
    BY DEF VersionFirst, HasBefore, Is
  <1>9. VersionFirst(s) /\ Command(s, 1) # Version => VersionFirst(t)
    BY <1>1, <1>3, <1>4 DEF VersionFirst
  <1>10. SumsFrom(s, ver) => (Summed(s, 1) <=> HasChecksum(ver))
    BY DEF SumsFrom, HasBefore
  <1>11. SumsFrom(s, ver) /\ Command(s, 1) # Verack => SumsFrom(t, ver)
    BY <1>1, <1>4 DEF SumsFrom, SameMessage
  <1>12. ASSUME SumsFrom(s, ver), Command(s, 1) = Verack, HasChecksum(nonce)
         PROVE  SumsFrom(t, nonce)
    <2>1. ASSUME NEW j \in DOMAIN t, Begins(t, j)
          PROVE  Summed(t, j)
      <3>1. j + n \in DOMAIN s /\ Begins(s, j + n) /\ (Summed(t, j) <=> Summed(s, j + n))
        BY <1>1, <2>1 DEF SameMessage
      <3>2. Is(s, 1, Verack) /\ 1 \in 1 .. j + n - 1
        BY <1>0, <1>12, <1>20 DEF Is
      <3>3. HasBefore(s, j + n, Verack)
        BY <1>0, <3>2 DEF HasBefore
      <3> QED BY <1>12, <3>1, <3>3 DEF SumsFrom
    <2> QED BY <1>12, <2>1 DEF SumsFrom
  <1>13. ASSUME NEW j \in DOMAIN t, Is(t, j, App)
         PROVE  j + n \in DOMAIN s /\ Is(s, j + n, App) /\ Value(t, j) = Value(s, j + n)
    BY <1>1, <1>3, <1>13 DEF SameMessage, Is, App, Verack
  <1>14. ASSUME Numbers(s, a, b), NEW i \in DOMAIN t, NEW j \in DOMAIN t,
                Is(t, i, App), Is(t, j, App), i < j
         PROVE  Value(t, i) < Value(t, j)
    <2>1. i + n < j + n
      BY <1>0, <1>14
    <2> QED BY <1>14, <1>13, <2>1 DEF Numbers
  <1>15. ASSUME Numbers(s, a, b), NEW m \in a + 1 .. b,
                NEW i \in DOMAIN s, i # 1, Is(s, i, App), Value(s, i) = m
         PROVE  \E j \in DOMAIN t : Is(t, j, App) /\ Value(t, j) = m
    <2>1. i - n \in DOMAIN t /\ (i - n) + n = i
      BY <1>2, <1>15 DEF Is
    <2>2. Is(t, i - n, App)
      BY <1>3, <1>15, <2>1
    <2>3. Value(t, i - n) = m
      BY <1>13, <1>15, <2>1, <2>2
    <2> QED BY <2>1, <2>2, <2>3
  <1>16. ASSUME Numbers(s, a, b), Command(s, 1) # App
         PROVE  Numbers(t, a, b)
    <2>1. \A j \in DOMAIN t : Is(t, j, App) => Value(t, j) \in a + 1 .. b
      BY <1>13, <1>16 DEF Numbers
    <2>2. \A m \in a + 1 .. b : \E j \in DOMAIN t : Is(t, j, App) /\ Value(t, j) = m
      <3> TAKE m \in a + 1 .. b
      <3>1. PICK i \in DOMAIN s : Is(s, i, App) /\ Value(s, i) = m
        BY <1>16 DEF Numbers
      <3>2. i # 1
        BY <1>16, <3>1 DEF Is
      <3> QED BY <1>15, <1>16, <3>1, <3>2
    <2> QED BY <1>14, <1>16, <2>1, <2>2 DEF Numbers
  <1>17. ASSUME Numbers(s, a, b), Command(s, 1) = App
         PROVE  Value(s, 1) = a + 1 /\ a + 1 <= b /\ Numbers(t, a + 1, b)
    <2>1. Is(s, 1, App)
      BY <1>17 DEF Is
    <2>2. Value(s, 1) \in a + 1 .. b
      BY <1>17, <2>1 DEF Numbers
    <2>3. PICK i \in DOMAIN s : Is(s, i, App) /\ Value(s, i) = a + 1
      <3>1. a + 1 \in a + 1 .. b
        BY <2>2
      <3> QED BY <1>17, <3>1 DEF Numbers
    <2>4. i = 1
      <3>1. SUFFICES ASSUME 1 < i PROVE FALSE
        BY <1>0
      <3>2. Value(s, 1) < Value(s, i)
        BY <1>17, <2>1, <2>3, <3>1 DEF Numbers
      <3> QED BY <2>2, <2>3, <3>2
    <2>5. ASSUME NEW j \in DOMAIN t, Is(t, j, App)
          PROVE  Value(t, j) \in a + 1 + 1 .. b
      <3>1. j + n \in DOMAIN s /\ Is(s, j + n, App) /\ Value(t, j) = Value(s, j + n) /\ 1 < j + n
        BY <1>0, <1>13, <1>20, <2>5
      <3>2. Value(s, 1) < Value(s, j + n) /\ Value(s, j + n) \in a + 1 .. b
        BY <1>17, <2>1, <3>1 DEF Numbers
      <3> QED BY <2>3, <2>4, <3>1, <3>2
    <2>6. \A m \in a + 1 + 1 .. b : \E j \in DOMAIN t : Is(t, j, App) /\ Value(t, j) = m
      <3> TAKE m \in a + 1 + 1 .. b
      <3>1. m \in a + 1 .. b /\ m # a + 1
        OBVIOUS
      <3>2. PICK x \in DOMAIN s : Is(s, x, App) /\ Value(s, x) = m
        BY <1>17, <3>1 DEF Numbers
      <3>3. x # 1
        BY <2>3, <2>4, <3>1, <3>2
      <3> QED BY <1>15, <1>17, <3>1, <3>2, <3>3
    <2>7. Numbers(t, a + 1, b)
      BY <1>14, <1>17, <2>5, <2>6 DEF Numbers
    <2> QED BY <2>2, <2>3, <2>4, <2>7
  <1>18. ASSUME Tight(s)
         PROVE  Tight(t)
    <2>1. ASSUME t # <<>>
          PROVE  Begins(t, 1)
      <3>1. 1 \in DOMAIN t
        BY <1>0, <2>1 DEF Moved
      <3>2. After(s, 1) # Len(s) + 1
        BY <1>0, <3>1
      <3>3. Begins(s, 1 + n)
        BY <1>0, <1>18, <3>2 DEF Tight
      <3> QED BY <1>1, <3>1, <3>3 DEF SameMessage
    <2>2. ASSUME NEW j \in DOMAIN t, Begins(t, j)
          PROVE  After(t, j) = Len(t) + 1 \/ Begins(t, After(t, j))
      <3>1. j + n \in DOMAIN s /\ Begins(s, j + n) /\ After(t, j) - j = After(s, j + n) - (j + n)
        BY <1>1, <2>2 DEF SameMessage
      <3>2. Whole(t, j) /\ Whole(s, j + n)
        BY <1>5, <2>2, <3>1 DEF Framed
      <3>3. After(t, j) \in Nat /\ After(s, j + n) \in Nat /\ After(t, j) >= 4
        <4>1. t \in Seq(Tokens)
          BY DEF Moved
        <4>2. After(t, j) \in Nat /\ After(t, j) >= j + 4
          BY <3>2, <4>1, AfterType
        <4>3. After(s, j + n) \in Nat
          BY <3>1, <3>2, AfterType
        <4> QED BY <1>0, <4>2, <4>3
      <3>4. After(t, j) = After(s, j + n) - n /\ After(t, j) + n = After(s, j + n)
        <4>1. \A x, y, z, w \in Int : x - z = y - (z + w) => x = y - w /\ x + w = y
          OBVIOUS
        <4>2. After(t, j) \in Int /\ After(s, j + n) \in Int /\ j \in Int /\ n \in Int
          BY <1>0, <3>3
        <4>3. After(t, j) - j = After(s, j + n) - (j + n)
          BY <3>1
        <4> QED BY <4>1, <4>2, <4>3
      <3>5. CASE After(s, j + n) = Len(s) + 1
        BY <1>0, <3>3, <3>4, <3>5
      <3>6. CASE Begins(s, After(s, j + n))
        <4>1. After(s, j + n) # 1
          BY <1>0, <1>20, <3>3, <3>4
        <4>2. After(s, j + n) \in DOMAIN s
          BY <3>6 DEF Begins
        <4>3. After(t, j) \in DOMAIN t
          BY <1>2, <3>4, <3>6, <4>1, <4>2
        <4> QED BY <1>1, <3>4, <3>6, <4>3 DEF SameMessage
      <3> QED BY <1>18, <3>1, <3>5, <3>6 DEF Tight
    <2> QED BY <2>1, <2>2 DEF Tight
  <1> QED BY <1>5, <1>6, <1>7, <1>8, <1>9, <1>10, <1>11, <1>12, <1>16, <1>17, <1>18

(* At most one message is added, by the tokens m.                            *)
LEMMA AddKeeps ==
  ASSUME NEW s \in Seq(Tokens), Framed(s), NEW m \in Seq(Tokens), m # <<>>,
         \A i \in DOMAIN m : Begins(m, i) => i = 1,
         NEW t, Joined(s, m, t), NEW a \in Nat, NEW b \in Nat, NEW ver, NEW nonce
  PROVE  /\ Framed(t)
         /\ Tight(s) /\ Begins(m, 1) /\ After(m, 1) = Len(m) + 1 => Tight(t)
         /\ \A command \in {Version, Verack} :
              /\ Has(t, command) <=> Has(s, command) \/ Is(m, 1, command)
              /\ Once(s, command) /\ ~(Has(s, command) /\ Is(m, 1, command)) => Once(t, command)
         /\ /\ Greets(s, ver, nonce)
            /\ Is(m, 1, Version) => Value(m, 1) = ver /\ NonceIn(m, 1) = nonce
            => Greets(t, ver, nonce)
         /\ VersionFirst(s) /\ (Is(m, 1, Verack) => Has(s, Version)) => VersionFirst(t)
         /\ /\ SumsFrom(s, ver)
            /\ Begins(m, 1) => (Summed(m, 1) <=> HasChecksum(ver) \/ Has(s, Verack))
            => SumsFrom(t, ver)
         /\ Numbers(s, a, b) /\ ~Is(m, 1, App) => Numbers(t, a, b)
         /\ Numbers(s, a, b) /\ a <= b /\ Is(m, 1, App) /\ Value(m, 1) = b + 1 => Numbers(t, a, b + 1)
  <1> DEFINE L == Len(s) + 1
  <1>0. /\ Len(s) \in Nat /\ Len(t) \in Nat /\ Len(m) \in Nat /\ Len(m) >= 1
        /\ DOMAIN s = 1 .. Len(s) /\ DOMAIN t = 1 .. Len(t) /\ DOMAIN m = 1 .. Len(m)
        /\ Len(t) = Len(s) + Len(m) /\ L \in DOMAIN t /\ L \in Nat /\ L = Len(s) + 1
        /\ t \in Seq(Tokens) /\ 1 \in DOMAIN m
    BY DEF Joined
  <1>1. ASSUME NEW i \in DOMAIN s
        PROVE  i \in DOMAIN t /\ i < L /\ SameMessage(s, i, t, i)
    BY <1>0 DEF Joined
  <1>2. SameMessage(m, 1, t, L)
    BY <1>0 DEF Joined
  <1> HIDE DEF L
  <1>3. ASSUME NEW j \in DOMAIN t, Begins(t, j), j # L
        PROVE  j \in DOMAIN s
    <2>1. SUFFICES ASSUME j > L PROVE FALSE
      BY <1>0, <1>3
    <2>2. j - Len(s) \in DOMAIN m /\ Len(s) + (j - Len(s)) = j /\ j - Len(s) # 1
      BY <1>0, <2>1
    <2>3. SameMessage(m, j - Len(s), t, j)
      BY <2>2 DEF Joined
    <2>4. Begins(m, j - Len(s))
      BY <1>3, <2>3 DEF SameMessage
    <2> QED BY <2>2, <2>4
  <1>4. ASSUME NEW i \in DOMAIN s, NEW command
        PROVE  Is(t, i, command) <=> Is(s, i, command)
    BY <1>1 DEF Is, SameMessage
  <1>5. ASSUME NEW command
        PROVE  Is(t, L, command) <=> Is(m, 1, command)
    BY <1>2 DEF Is, SameMessage
  <1>6. ASSUME NEW j \in DOMAIN t, NEW command, Is(t, j, command)
        PROVE  (j \in DOMAIN s /\ Is(s, j, command)) \/ (j = L /\ Is(m, 1, command))
    BY <1>3, <1>4, <1>5, <1>6 DEF Is
  <1>7. ASSUME NEW i \in DOMAIN s, NEW command
        PROVE  HasBefore(t, i, command) <=> HasBefore(s, i, command)
    <2>1. ASSUME NEW j \in 1 .. i - 1
          PROVE  Is(t, j, command) <=> Is(s, j, command)
      <3>1. j \in DOMAIN s
        BY <1>0
      <3> QED BY <1>4, <3>1
    <2> QED BY <2>1 DEF HasBefore
  <1>8. ASSUME NEW command
        PROVE  HasBefore(t, L, command) <=> Has(s, command)
    <2>1. 1 .. L - 1 = DOMAIN s
      BY <1>0
    <2> QED BY <1>4, <2>1 DEF Has, HasBefore
  <1>9. Framed(t)
    BY <1>1, <1>2, <1>3 DEF Framed, SameMessage
  <1>10. ASSUME NEW command
         PROVE  /\ Has(t, command) <=> Has(s, command) \/ Is(m, 1, command)
                /\ Once(s, command) /\ ~(Has(s, command) /\ Is(m, 1, command)) => Once(t, command)
    <2>1. Has(t, command) => Has(s, command) \/ Is(m, 1, command)
      BY <1>6 DEF Has
    <2>2. Has(s, command) => Has(t, command)
      BY <1>1, <1>4 DEF Has
    <2>3. Is(m, 1, command) => Has(t, command)
      BY <1>0, <1>5 DEF Has
    <2>4. ASSUME Once(s, command), ~(Has(s, command) /\ Is(m, 1, command)),
                 NEW i \in DOMAIN t, NEW j \in DOMAIN t, Is(t, i, command), Is(t, j, command)
          PROVE  i = j
      BY <1>6, <2>4 DEF Once, Has
    <2>5. Once(s, command) /\ ~(Has(s, command) /\ Is(m, 1, command)) => Once(t, command)
      BY <2>4 DEF Once
    <2> QED BY <2>1, <2>2, <2>3, <2>5
  <1>11. ASSUME Greets(s, ver, nonce),
                Is(m, 1, Version) => Value(m, 1) = ver /\ NonceIn(m, 1) = nonce
         PROVE  Greets(t, ver, nonce)
    <2>1. ASSUME NEW j \in DOMAIN t, Is(t, j, Version)
          PROVE  Value(t, j) = ver /\ NonceIn(t, j) = nonce
      <3>1. CASE j \in DOMAIN s /\ Is(s, j, Version)
        BY <1>1, <1>11, <3>1 DEF Greets, SameMessage, Is, Version, Verack
      <3>2. CASE j = L /\ Is(m, 1, Version)
        BY <1>2, <1>11, <3>2 DEF SameMessage, Is, Version, Verack
      <3> QED BY <1>6, <2>1, <3>1, <3>2
    <2> QED BY <2>1 DEF Greets
  <1>12. ASSUME VersionFirst(s), Is(m, 1, Verack) => Has(s, Version)
         PROVE  VersionFirst(t)
    <2>1. ASSUME NEW j \in DOMAIN t, Is(t, j, Verack)
          PROVE  HasBefore(t, j, Version)
      BY <1>6, <1>7, <1>8, <1>12, <2>1 DEF VersionFirst
    <2> QED BY <2>1 DEF VersionFirst
  <1>13. ASSUME SumsFrom(s, ver),
                Begins(m, 1) => (Summed(m, 1) <=> HasChecksum(ver) \/ Has(s, Verack))
         PROVE  SumsFrom(t, ver)
    <2>1. ASSUME NEW j \in DOMAIN t, Begins(t, j)
          PROVE  Summed(t, j) <=> HasChecksum(ver) \/ HasBefore(t, j, Verack)
      <3>1. CASE j \in DOMAIN s
        <4>1. Begins(s, j) /\ (Summed(t, j) <=> Summed(s, j))
          BY <1>1, <2>1, <3>1 DEF SameMessage
        <4>2. Summed(s, j) <=> HasChecksum(ver) \/ HasBefore(s, j, Verack)
          BY <1>13, <3>1, <4>1 DEF SumsFrom
        <4> QED BY <1>7, <3>1, <4>1, <4>2
      <3>2. CASE j = L
        <4>1. Begins(m, 1) /\ (Summed(t, j) <=> Summed(m, 1))
          BY <1>2, <2>1, <3>2 DEF SameMessage
        <4> QED BY <1>8, <1>13, <3>2, <4>1
      <3> QED BY <1>3, <2>1, <3>1, <3>2
    <2> QED BY <2>1 DEF SumsFrom
  <1>14. ASSUME NEW i \in DOMAIN s, Is(s, i, App)
         PROVE  Value(t, i) = Value(s, i)
    BY <1>1, <1>14 DEF SameMessage, Is, App, Verack
  <1>15. Is(m, 1, App) => Value(t, L) = Value(m, 1)
    BY <1>2 DEF SameMessage, Is, App, Verack
  <1>16. ASSUME Numbers(s, a, b), ~Is(m, 1, App)
         PROVE  Numbers(t, a, b)
    <2>1. \A j \in DOMAIN t : Is(t, j, App) => j \in DOMAIN s /\ Is(s, j, App)
      BY <1>6, <1>16
    <2>2. \A j \in DOMAIN t : Is(t, j, App) => Value(t, j) \in a + 1 .. b
      BY <1>14, <1>16, <2>1 DEF Numbers
    <2>3. \A i, j \in DOMAIN t : Is(t, i, App) /\ Is(t, j, App) /\ i < j => Value(t, i) < Value(t, j)
      BY <1>14, <1>16, <2>1 DEF Numbers
    <2>4. \A x \in a + 1 .. b : \E i \in DOMAIN t : Is(t, i, App) /\ Value(t, i) = x
      BY <1>1, <1>4, <1>14, <1>16 DEF Numbers
    <2> QED BY <2>2, <2>3, <2>4 DEF Numbers
  <1>17. ASSUME Numbers(s, a, b), a <= b, Is(m, 1, App), Value(m, 1) = b + 1
         PROVE  Numbers(t, a, b + 1)
    <2>1. ASSUME NEW j \in DOMAIN t, Is(t, j, App)
          PROVE  \/ j \in DOMAIN s /\ Is(s, j, App) /\ Value(t, j) = Value(s, j) /\ Value(t, j) \in a + 1 .. b
                 \/ j = L /\ Value(t, j) = b + 1
      BY <1>6, <1>14, <1>15, <1>17, <2>1 DEF Numbers
    <2>2. \A j \in DOMAIN t : Is(t, j, App) => Value(t, j) \in a + 1 .. b + 1
      <3>1. a + 1 .. b \subseteq a + 1 .. b + 1 /\ b + 1 \in a + 1 .. b + 1
        BY <1>17
      <3> QED BY <2>1, <3>1
    <2>3. ASSUME NEW i \in DOMAIN t, NEW j \in DOMAIN t, Is(t, i, App), Is(t, j, App), i < j
          PROVE  Value(t, i) < Value(t, j)
      <3>1. i # L
        BY <1>1, <1>0, <2>1, <2>3
      <3>2. CASE j \in DOMAIN s
        <4>1. j # L
          BY <1>1, <3>2
        <4>2. Is(s, i, App) /\ Is(s, j, App) /\ i \in DOMAIN s
          BY <2>1, <2>3, <3>1, <4>1
        <4>3. Value(s, i) < Value(s, j)
          BY <1>17, <2>3, <3>2, <4>2 DEF Numbers
        <4> QED BY <1>14, <3>2, <4>2, <4>3
      <3>3. CASE j = L
        <4>1. Value(t, i) \in a + 1 .. b
          BY <2>1, <2>3, <3>1
        <4>2. Value(t, j) = b + 1
          BY <1>15, <1>17, <3>3
        <4> QED BY <4>1, <4>2
      <3> QED BY <2>1, <2>3, <3>2, <3>3
    <2>4. ASSUME NEW x \in a + 1 .. b + 1
          PROVE  \E i \in DOMAIN t : Is(t, i, App) /\ Value(t, i) = x
      <3>1. CASE x = b + 1
        BY <1>0, <1>5, <1>15, <1>17, <3>1
      <3>2. CASE x # b + 1
        <4>1. x \in a + 1 .. b
          BY <3>2
        <4>2. PICK i \in DOMAIN s : Is(s, i, App) /\ Value(s, i) = x
          BY <1>17, <4>1 DEF Numbers
        <4> QED BY <1>1, <1>4, <1>14, <4>2
      <3> QED BY <3>1, <3>2
    <2> QED BY <2>2, <2>3, <2>4 DEF Numbers
  <1>18. ASSUME Tight(s), Begins(m, 1), After(m, 1) = Len(m) + 1
         PROVE  Tight(t)
    <2>1. Begins(t, L) /\ After(t, L) = Len(t) + 1
      <3>1. Begins(t, L) /\ After(t, L) - L = After(m, 1) - 1 /\ Whole(t, L)
        BY <1>2, <1>18 DEF SameMessage
      <3>2. After(t, L) \in Nat
        BY <1>0, <3>1, AfterType
      <3> QED BY <1>0, <1>18, <3>1, <3>2, SMTT(40)
    <2>2. Begins(t, 1)
      <3>1. CASE s = <<>>
        BY <1>0, <2>1, <3>1
      <3>2. CASE s # <<>>
        <4>1. 1 \in DOMAIN s
          BY <1>0, <3>2
        <4> QED BY <1>1, <1>18, <3>2, <4>1 DEF Tight, SameMessage
      <3> QED BY <3>1, <3>2
    <2>3. ASSUME NEW j \in DOMAIN t, Begins(t, j)
          PROVE  After(t, j) = Len(t) + 1 \/ Begins(t, After(t, j))
      <3>1. CASE j \in DOMAIN s
        <4>1. Begins(s, j) /\ After(t, j) - j = After(s, j) - j /\ Whole(t, j)
          BY <1>1, <2>3, <3>1 DEF SameMessage
        <4>2. Whole(s, j)
          BY <3>1, <4>1 DEF Framed
        <4>3. After(t, j) \in Nat /\ After(s, j) \in Nat
          BY <1>0, <3>1, <4>1, <4>2, AfterType
        <4>4. After(t, j) = After(s, j)
          BY <1>0, <4>1, <4>3
        <4>5. CASE After(s, j) = Len(s) + 1
          BY <1>0, <2>1, <4>4, <4>5
        <4>6. CASE Begins(s, After(s, j))
          <5>1. After(s, j) \in DOMAIN s
            BY <4>6 DEF Begins
          <5> QED BY <1>1, <4>4, <4>6, <5>1 DEF SameMessage
        <4> QED BY <1>18, <3>1, <4>1, <4>5, <4>6 DEF Tight
      <3>2. CASE j = L
        BY <2>1, <3>2
      <3> QED BY <1>3, <2>3, <3>1, <3>2
    <2> QED BY <2>2, <2>3 DEF Tight
  <1> QED BY <1>9, <1>10, <1>11, <1>12, <1>13, <1>16, <1>17, <1>18
-----------------------------------------------------------------------------
(* What sendMessage writes is one message.                                   *)

Packet(m, command, ver, payload) ==
  /\ m \in Seq(Tokens) /\ m # <<>> /\ \A i \in DOMAIN m : Begins(m, i) => i = 1
  /\ Begins(m, 1) /\ Framed(m) /\ After(m, 1) = Len(m) + 1
  /\ Command(m, 1) = command
  /\ Summed(m, 1) <=> HasChecksum(ver)
  /\ command # Verack => Value(m, 1) = payload[1].val
  /\ command = Version => NonceIn(m, 1) = payload[2].val

Connections ==
  [sendVer : Nat, recvVer : Int, heard : Nat, onVerack : Seq(Nat), active : BOOLEAN,
   ended : BOOLEAN, thrown : BOOLEAN, buffers : Seq(Tokens), got : Seq(Nat), out : Seq(Tokens)]

LEMMA Concat ==
  ASSUME NEW s \in Seq(Tokens), NEW t \in Seq(Tokens)
  PROVE  /\ s \o t \in Seq(Tokens) /\ Len(s \o t) = Len(s) + Len(t)
         /\ Len(s) \in Nat /\ Len(t) \in Nat
         /\ \A p \in 1 .. Len(s) : (s \o t)[p] = s[p]
         /\ \A p \in 1 .. Len(t) : (s \o t)[Len(s) + p] = t[p]
  OBVIOUS

Regroups(a, b, c) == (a \o b) \o c = a \o (b \o c)

LEMMA Regroup ==
  ASSUME NEW a \in Seq(Tokens), NEW b \in Seq(Tokens), NEW c \in Seq(Tokens)
  PROVE  Regroups(a, b, c)
  BY ConcatAssociative DEF Regroups

Parts(h, k, d, m) ==
  /\ m \in Seq(Tokens) /\ Len(m) = 4 + Len(k) + Len(d)
  /\ \A p \in 1 .. 4 : m[p] = h[p]
  /\ Len(k) = 1 => m[5] = k[1]
  /\ \A p \in 1 .. Len(d) : m[4 + Len(k) + p] = d[p]

LEMMA ThreeParts ==
  ASSUME NEW h \in Seq(Tokens), Len(h) = 4, NEW k \in Seq(Tokens), NEW d \in Seq(Tokens)
  PROVE  Parts(h, k, d, h \o k \o d)
  <1>2. /\ h \o k \in Seq(Tokens) /\ Len(h \o k) = Len(h) + Len(k)
        /\ Len(h) \in Nat /\ Len(k) \in Nat
        /\ \A p \in 1 .. Len(h) : (h \o k)[p] = h[p]
        /\ \A p \in 1 .. Len(k) : (h \o k)[Len(h) + p] = k[p]
    BY Concat
  <1>3. PICK g \in Seq(Tokens) : g = h \o k
    BY <1>2
  <1>5. /\ g \o d \in Seq(Tokens) /\ Len(g \o d) = Len(g) + Len(d)
        /\ Len(g) \in Nat /\ Len(d) \in Nat
        /\ \A p \in 1 .. Len(g) : (g \o d)[p] = g[p]
        /\ \A p \in 1 .. Len(d) : (g \o d)[Len(g) + p] = d[p]
    BY Concat
  <1>8. /\ Len(g) = 4 + Len(k)
        /\ \A p \in 1 .. 4 : g[p] = h[p]
        /\ \A p \in 1 .. Len(k) : g[4 + p] = k[p]
    BY <1>2, <1>3
  <1>6. \A p \in 1 .. 4 : p \in 1 .. Len(g)
    BY <1>2, <1>8
  <1>7. Len(k) = 1 => 5 \in 1 .. Len(g) /\ g[4 + 1] = k[1]
    BY <1>2, <1>8
  <1>9. PICK m \in Seq(Tokens) : m = g \o d
    BY <1>5
  <1>10. /\ Len(m) = Len(g) + Len(d)
         /\ \A p \in 1 .. Len(g) : m[p] = g[p]
         /\ \A p \in 1 .. Len(d) : m[Len(g) + p] = d[p]
    BY <1>5, <1>9
  <1>11. Len(m) = 4 + Len(k) + Len(d)
    BY <1>8, <1>10
  <1>12. \A p \in 1 .. 4 : m[p] = h[p]
    BY <1>6, <1>8, <1>10
  <1>13. Len(k) = 1 => m[5] = k[1]
    BY <1>7, <1>10
  <1>14. \A p \in 1 .. Len(d) : m[4 + Len(k) + p] = d[p]
    BY <1>8, <1>10
  <1>15. Parts(h, k, d, m)
    BY <1>11, <1>12, <1>13, <1>14 DEF Parts
  <1> QED BY <1>3, <1>9, <1>15

AllData(payload) == \A p \in DOMAIN payload : payload[p].kind = "data"

WritesPacket(c, command, payload) ==
  \E m \in Seq(Tokens) : /\ Packet(m, command, c.sendVer, payload)
                         /\ SendMessage(c, command, payload) = [c EXCEPT !.out = @ \o m]

LEMMA SendsPacket ==
  ASSUME NEW c \in Connections, ~c.ended, NEW command \in {Version, Verack, App},
         NEW payload \in Seq(Tokens), Len(payload) = Size(command),
         AllData(payload)
  PROVE  WritesPacket(c, command, payload)
  <1>1. command \in Nat /\ Len(payload) \in 0 .. 2
    BY DEF Version, Verack, App, Size
  <1>2. \A p \in DOMAIN payload : payload[p].kind = "data" /\ payload[p].val \in Nat
    <2> TAKE p \in DOMAIN payload
    <2>1. payload[p] \in Tokens
      OBVIOUS
    <2> QED BY <2>1 DEF Tokens, AllData
  <1>3. Hash(payload) \in Nat
    BY <1>1, <1>2 DEF Hash
  <1>4. PICK h \in Seq(Tokens) :
          h = <<Token("magic1", 0), Token("magic2", 0), Token("command", command),
                Token("length", Len(payload))>>
    <2>1. /\ Token("magic1", 0) \in Tokens /\ Token("magic2", 0) \in Tokens
          /\ Token("command", command) \in Tokens /\ Token("length", Len(payload)) \in Tokens
      BY <1>1 DEF Token, Tokens, Kinds
    <2>2. <<Token("magic1", 0), Token("magic2", 0), Token("command", command),
            Token("length", Len(payload))>> \in Seq(Tokens)
      BY <2>1
    <2> QED BY <2>2
  <1>5. /\ Len(h) = 4 /\ h[1].kind = "magic1" /\ h[2].kind = "magic2" /\ h[3].kind = "command"
        /\ h[4].kind = "length" /\ h[3].val = command /\ h[4].val = Len(payload)
    BY <1>4 DEF Token
  <1>6. PICK k \in Seq(Tokens) :
          k = IF HasChecksum(c.sendVer) THEN <<Token("sum", Hash(payload))>> ELSE <<>>
    <2>1. Token("sum", Hash(payload)) \in Tokens
      BY <1>3 DEF Token, Tokens, Kinds
    <2>2. <<Token("sum", Hash(payload))>> \in Seq(Tokens) /\ <<>> \in Seq(Tokens)
      BY <2>1
    <2> QED BY <2>2
  <1>7. HasChecksum(c.sendVer) => k[1].kind = "sum" /\ k[1].val = Hash(payload)
    BY <1>6 DEF Token
  <1>8. PICK n \in 0 .. 1 : Len(k) = n /\ (n = 1 <=> HasChecksum(c.sendVer))
    BY <1>6
  <1> DEFINE m == h \o k \o payload
  <1>9. /\ m \in Seq(Tokens) /\ Len(m) = 4 + n + Len(payload)
        /\ \A p \in 1 .. 4 : m[p] = h[p]
        /\ n = 1 => m[5] = k[1]
        /\ \A p \in 1 .. Len(payload) : m[4 + n + p] = payload[p]
    <2>1. Parts(h, k, payload, m)
      BY <1>5, ThreeParts
    <2> HIDE DEF m
    <2> QED BY <1>8, <2>1 DEF Parts
  <1>10. SendMessage(c, command, payload) = [c EXCEPT !.out = @ \o m]
    <2>1. c.out \o h \o k \o payload = c.out \o m
      <3>1. PICK o \in Seq(Tokens) : o = c.out
        BY DEF Connections
      <3>2. o \o h \o k \o payload = o \o (h \o k \o payload)
        <4>1. Regroups(o, h, k)
          BY Regroup
        <4>2. h \o k \in Seq(Tokens)
          BY Concat
        <4>3. PICK g \in Seq(Tokens) : g = h \o k
          BY <4>2
        <4>4. Regroups(o, g, payload)
          BY Regroup
        <4> QED BY <4>1, <4>3, <4>4 DEF Regroups
      <3> QED BY <3>1, <3>2
    <2> QED BY <2>1, <1>4, <1>6 DEF SendMessage
  <1> HIDE DEF m
  <1>11. /\ m[1].kind = "magic1" /\ m[2].kind = "magic2" /\ m[3].kind = "command"
         /\ m[4].kind = "length" /\ m[3].val = command /\ m[4].val = Len(payload)
    BY <1>5, <1>9
  <1>12. Begins(m, 1) /\ Command(m, 1) = command
    BY <1>1, <1>9, <1>11 DEF Begins, Command
  <1>13. Summed(m, 1) <=> n = 1
    <2>1. n = 1 => m[5].kind = "sum" /\ 5 \in DOMAIN m
      BY <1>1, <1>7, <1>8, <1>9
    <2>2. n = 0 /\ 5 \in DOMAIN m => m[5].kind = "data"
      <3>1. SUFFICES ASSUME n = 0, 5 \in DOMAIN m PROVE m[5].kind = "data"
        OBVIOUS
      <3>2. 1 \in 1 .. Len(payload) /\ 4 + n + 1 = 5
        BY <1>1, <1>9, <3>1
      <3> QED BY <1>2, <1>9, <3>2
    <2> QED BY <2>1, <2>2 DEF Summed
  <1>14. Body(m, 1) = 5 + n
    BY <1>13 DEF Body
  <1>15. After(m, 1) = Len(m) + 1
    BY <1>1, <1>9, <1>11, <1>14, SMTT(40) DEF After
  <1>16. command # Verack => Value(m, 1) = payload[1].val
    <2>1. SUFFICES ASSUME command # Verack PROVE Value(m, 1) = payload[1].val
      OBVIOUS
    <2>2. 1 \in 1 .. Len(payload) /\ 4 + n + 1 = 5 + n
      BY <1>1, <2>1 DEF Size, Version, Verack, App
    <2> QED BY <1>9, <1>14, <2>2, SMTT(40) DEF Value
  <1>17. command = Version => NonceIn(m, 1) = payload[2].val
    <2>1. SUFFICES ASSUME command = Version PROVE NonceIn(m, 1) = payload[2].val
      OBVIOUS
    <2>2. 2 \in 1 .. Len(payload) /\ 4 + n + 2 = 5 + n + 1
      BY <1>1, <2>1 DEF Size, Version
    <2> QED BY <1>9, <1>14, <2>2, ZenonT(40) DEF NonceIn
  <1>18. Whole(m, 1)
    <2>1. \A p \in 0 .. Len(payload) - 1 : m[Body(m, 1) + p].kind = "data"
      <3> TAKE p \in 0 .. Len(payload) - 1
      <3>1. PICK q \in 1 .. Len(payload) : 4 + n + q = 5 + n + p
        <4>1. p + 1 \in 1 .. Len(payload) /\ 4 + n + (p + 1) = 5 + n + p
          BY <1>1
        <4> QED BY <4>1
      <3>2. m[4 + n + q] = payload[q]
        BY <1>9
      <3>3. payload[q].kind = "data"
        BY <1>1 DEF AllData
      <3> QED BY <1>14, <3>1, <3>2, <3>3
    <2>2. Summed(m, 1) => m[5].val = IF command = Verack THEN 7 ELSE 8 + Value(m, 1)
      <3>1. SUFFICES ASSUME n = 1 PROVE m[5].val = IF command = Verack THEN 7 ELSE 8 + Value(m, 1)
        BY <1>13
      <3>2. m[5].val = Hash(payload)
        BY <1>7, <1>8, <1>9, <3>1
      <3>3. payload = <<>> <=> command = Verack
        <4>1. payload = <<>> <=> Len(payload) = 0
          BY <1>1
        <4> QED BY <4>1 DEF Size, Version, Verack, App
      <3> QED BY <1>16, <3>2, <3>3 DEF Hash
    <2>3. 1 + 3 \in DOMAIN m /\ After(m, 1) - 1 <= Len(m)
      BY <1>1, <1>9, <1>15, SMTT(40)
    <2>4. Command(m, 1) \in {Version, Verack, App} /\ m[4].val = Size(Command(m, 1))
      BY <1>11, <1>12
    <2> QED BY <1>11, <1>12, <2>1, <2>2, <2>3, <2>4 DEF Whole
  <1>19. ASSUME NEW i \in DOMAIN m, Begins(m, i)
         PROVE  i = 1
    <2>1. i # 2 /\ i # 3 /\ i # 4
      BY <1>11, <1>19 DEF Begins
    <2>2. i = 5 /\ n = 1 => FALSE
      BY <1>7, <1>8, <1>9, <1>19 DEF Begins
    <2>3. ASSUME i > 4 + n
          PROVE  FALSE
      <3>1. i \in Nat /\ i <= 4 + n + Len(payload) /\ Len(payload) \in Nat
        BY <1>1, <1>9
      <3>2. PICK p \in Int : i = 4 + n + p
        <4>1. i = 4 + n + (i - 4 - n)
          BY <3>1
        <4>2. i - 4 - n \in Int
          BY <3>1
        <4> QED BY <4>1, <4>2
      <3>3. p \in 1 .. Len(payload)
        BY <2>3, <3>1, <3>2
      <3>4. m[4 + n + p] = payload[p]
        BY <1>9, <3>3
      <3>5. payload[p].kind = "data"
        BY <1>2, <3>1, <3>3, SMTT(40)
      <3> QED BY <1>19, <3>2, <3>4, <3>5 DEF Begins
    <2>4. i \in Nat /\ i >= 1
      BY <1>9
    <2> QED BY <2>1, <2>2, <2>3, <2>4
  <1>20. Framed(m)
    BY <1>18, <1>19 DEF Framed
  <1>21. m # <<>>
    BY <1>1, <1>9
  <1>22. Packet(m, command, c.sendVer, payload)
    BY <1>8, <1>9, <1>12, <1>13, <1>15, <1>16, <1>17, <1>19, <1>20, <1>21 DEF Packet
  <1> QED BY <1>9, <1>10, <1>22 DEF WritesPacket
-----------------------------------------------------------------------------
(* The stream s to the end e, whose connection is c and that of the other d, *)
(* in a world k.                                                             *)

Worlds ==
  [sent : [Ends -> Nat], version : [Ends -> Versions], self : BOOLEAN, opened : BOOLEAN,
   clean : BOOLEAN]

NonceOf(e, k) == IF k.self \/ e = "out" THEN 1 ELSE 2

(* The end o, with the connection d, has sent its version.                   *)
Announced(o, d, k) == IF o = "out" THEN k.opened ELSE d.heard # 0

Flow(e, s, c, d, k) ==
  /\ Framed(s)
  /\ k.clean => Tight(s)
  /\ Once(s, Version) /\ Once(s, Verack)
  /\ Has(s, Version) => c.heard = 0 /\ Announced(Other(e), d, k)
  /\ Has(s, Verack) => ~c.active /\ d.heard # 0
  /\ Greets(s, k.version[Other(e)], NonceOf(Other(e), k))
  /\ c.heard = 0 => VersionFirst(s)
  /\ SumsFrom(s, c.recvVer)
  /\ HasChecksum(d.sendVer) <=> HasChecksum(c.recvVer) \/ Has(s, Verack)
  /\ Numbers(s, Len(c.got), k.sent[Other(e)])

LEMMA OtherEnd ==
  ASSUME NEW e \in Ends
  PROVE  Other(e) \in Ends /\ Other(e) # e /\ Other(Other(e)) = e
  BY DEF Other, Ends

LEMMA FlowTypes ==
  ASSUME NEW e \in Ends, NEW c \in Connections, NEW k \in Worlds
  PROVE  /\ Len(c.got) \in Nat /\ k.sent[Other(e)] \in Nat
         /\ k.version[Other(e)] \in Nat /\ k.version[Other(e)] >= 209
  <1>1. c.got \in Seq(Nat)
    BY DEF Connections
  <1>2. k.sent \in [Ends -> Nat] /\ k.version \in [Ends -> Versions]
    BY DEF Worlds
  <1>3. Other(e) \in Ends
    BY OtherEnd
  <1>4. k.version[Other(e)] \in Versions /\ k.sent[Other(e)] \in Nat
    BY <1>2, <1>3
  <1>5. k.version[Other(e)] \in Nat /\ k.version[Other(e)] >= 209
    BY <1>4, ConnectionAssumption
  <1> QED BY <1>1, <1>4, <1>5

(* Only some fields of the connections matter.                               *)
LEMMA FlowDepends ==
  ASSUME NEW e, NEW s, NEW c, NEW d, NEW k, NEW c2, NEW d2, Flow(e, s, c, d, k),
         c2.heard = c.heard, c2.active = c.active, c2.recvVer = c.recvVer, c2.got = c.got,
         d2.heard = d.heard, d2.sendVer = d.sendVer
  PROVE  Flow(e, s, c2, d2, k)
  BY DEF Flow, Announced

LEMMA FlowSkip ==
  ASSUME NEW e \in Ends, NEW c \in Connections, NEW d, NEW k \in Worlds, ~k.clean,
         NEW s \in Seq(Tokens), Flow(e, s, c, d, k),
         NEW n \in 0 .. Len(s), NEW t, Moved(s, t, n), \A i \in 1 .. n : ~Begins(s, i)
  PROVE  Flow(e, t, c, d, k)
  <1>1. Framed(s)
    BY DEF Flow
  <1>2. /\ Framed(t)
        /\ Has(t, Version) <=> Has(s, Version)
        /\ Has(t, Verack) <=> Has(s, Verack)
        /\ Once(s, Version) => Once(t, Version)
        /\ Once(s, Verack) => Once(t, Verack)
        /\ VersionFirst(s) => VersionFirst(t)
    BY <1>1, SkipKeeps
  <1>3. SumsFrom(s, c.recvVer) => SumsFrom(t, c.recvVer)
    BY <1>1, SkipKeeps
  <1>4. Numbers(s, Len(c.got), k.sent[Other(e)]) => Numbers(t, Len(c.got), k.sent[Other(e)])
    BY <1>1, SkipKeeps
  <1>5. Greets(s, k.version[Other(e)], NonceOf(Other(e), k)) =>
          Greets(t, k.version[Other(e)], NonceOf(Other(e), k))
    BY <1>1, SkipKeeps
  <1> QED BY <1>2, <1>3, <1>4, <1>5 DEF Flow

(* The first message, as the connection finds it.                            *)
First(e, s, c, d, k) ==
  /\ Whole(s, 1)
  /\ Summed(s, 1) <=> HasChecksum(c.recvVer)
  /\ Command(s, 1) \in {Version, Verack, App}
  /\ Command(s, 1) = Version =>
       /\ c.heard = 0 /\ Announced(Other(e), d, k)
       /\ Value(s, 1) = k.version[Other(e)] /\ NonceIn(s, 1) = NonceOf(Other(e), k)
  /\ Command(s, 1) = Verack => c.heard # 0 /\ ~c.active /\ d.heard # 0
  /\ Command(s, 1) = App => Value(s, 1) = Len(c.got) + 1 /\ Len(c.got) + 1 <= k.sent[Other(e)]

LEMMA FirstMessage ==
  ASSUME NEW e \in Ends, NEW c \in Connections, NEW d, NEW k \in Worlds,
         NEW s \in Seq(Tokens), Flow(e, s, c, d, k), Begins(s, 1)
  PROVE  First(e, s, c, d, k)
  <1>1. 1 \in DOMAIN s
    BY DEF Begins
  <1>2. Framed(s) /\ Whole(s, 1)
    BY <1>1 DEF Flow, Framed
  <1>3. \A command : Command(s, 1) = command => Has(s, command) /\ Is(s, 1, command)
    BY <1>1 DEF Has, Is
  <1> DEFINE n == After(s, 1) - 1
  <1>4. After(s, 1) \in Nat /\ n \in 0 .. Len(s)
    <2>1. After(s, 1) \in Nat /\ After(s, 1) >= 1 + 4 /\ After(s, 1) <= Len(s) + 1
      BY <1>1, <1>2, AfterType
    <2> QED BY <2>1
  <1>5. Moved(s, Drop(s, n), n)
    BY <1>2, <1>4, DropMoves
  <1>6. SumsFrom(s, c.recvVer) => (Summed(s, 1) <=> HasChecksum(c.recvVer))
    BY <1>1 DEF SumsFrom, HasBefore
  <1>7. VersionFirst(s) => Command(s, 1) # Verack
    BY <1>1 DEF VersionFirst, HasBefore, Is
  <1>8. Command(s, 1) = App => Value(s, 1) = Len(c.got) + 1 /\ Len(c.got) + 1 <= k.sent[Other(e)]
    <2>1. Numbers(s, Len(c.got), k.sent[Other(e)])
      BY DEF Flow
    <2>2. Len(c.got) \in Nat /\ k.sent[Other(e)] \in Nat
      BY FlowTypes
    <2> HIDE DEF n
    <2> QED BY <1>1, <1>2, <1>4, <1>5, <2>1, <2>2, TakeKeeps, SMTT(40) DEF n
  <1>9. Command(s, 1) = Version =>
          /\ c.heard = 0 /\ Announced(Other(e), d, k)
          /\ Value(s, 1) = k.version[Other(e)] /\ NonceIn(s, 1) = NonceOf(Other(e), k)
    BY <1>1, <1>3 DEF Flow, Greets
  <1>10. Command(s, 1) = Verack => c.heard # 0 /\ ~c.active /\ d.heard # 0
    BY <1>3, <1>7 DEF Flow
  <1>11. Summed(s, 1) <=> HasChecksum(c.recvVer)
    BY <1>6 DEF Flow
  <1>12. Command(s, 1) \in {Version, Verack, App}
    BY <1>2 DEF Whole
  <1> QED BY <1>2, <1>8, <1>9, <1>10, <1>11, <1>12 DEF First

(* The first message is taken; c becomes c2.                                 *)
Takes(s, c, d, c2) ==
  \/ /\ Command(s, 1) = Version
     /\ c2.active = c.active /\ c2.recvVer = c.recvVer /\ c2.got = c.got
     /\ c2.heard = 0 => d.heard = 0
  \/ /\ Command(s, 1) = Verack
     /\ c2.heard = c.heard /\ HasChecksum(c2.recvVer) /\ c2.got = c.got
  \/ /\ Command(s, 1) = App
     /\ c2.heard = c.heard /\ c2.active = c.active /\ c2.recvVer = c.recvVer
     /\ Len(c2.got) = Len(c.got) + 1

LEMMA FlowTake ==
  ASSUME NEW e \in Ends, NEW c \in Connections, NEW d, NEW k \in Worlds,
         NEW s \in Seq(Tokens), Flow(e, s, c, d, k), Begins(s, 1),
         NEW t, Moved(s, t, After(s, 1) - 1), NEW c2, Takes(s, c, d, c2)
  PROVE  Flow(e, t, c2, d, k)
  <1>1. 1 \in DOMAIN s /\ Framed(s)
    BY DEF Begins, Flow
  <1>2. After(s, 1) \in Nat
    <2>1. Whole(s, 1)
      BY <1>1 DEF Framed
    <2> QED BY <1>1, <2>1, AfterType
  <1>3. Len(c.got) \in Nat /\ k.sent[Other(e)] \in Nat
    BY FlowTypes
  <1>4. /\ Framed(t)
        /\ Tight(s) => Tight(t)
        /\ \A command \in {Version, Verack} :
             /\ Has(t, command) => Has(s, command)
             /\ Has(s, command) /\ Command(s, 1) # command => Has(t, command)
             /\ Once(s, command) => Once(t, command)
             /\ Once(s, command) /\ Command(s, 1) = command => ~Has(t, command)
        /\ VersionFirst(s) => Command(s, 1) # Verack
        /\ VersionFirst(s) /\ Command(s, 1) # Version => VersionFirst(t)
    BY <1>1, <1>2, <1>3, TakeKeeps
  <1>5. Greets(s, k.version[Other(e)], NonceOf(Other(e), k)) =>
          Greets(t, k.version[Other(e)], NonceOf(Other(e), k))
    BY <1>1, <1>2, <1>3, TakeKeeps
  <1>6. /\ SumsFrom(s, c.recvVer) /\ Command(s, 1) # Verack => SumsFrom(t, c.recvVer)
        /\ SumsFrom(s, c.recvVer) /\ Command(s, 1) = Verack /\ HasChecksum(c2.recvVer) =>
             SumsFrom(t, c2.recvVer)
    BY <1>1, <1>2, <1>3, TakeKeeps
  <1>7. /\ Numbers(s, Len(c.got), k.sent[Other(e)]) /\ Command(s, 1) # App =>
             Numbers(t, Len(c.got), k.sent[Other(e)])
        /\ Numbers(s, Len(c.got), k.sent[Other(e)]) /\ Command(s, 1) = App =>
             Numbers(t, Len(c.got) + 1, k.sent[Other(e)])
    <2>1. PICK a \in Nat, b \in Nat : a = Len(c.got) /\ b = k.sent[Other(e)]
      BY <1>3
    <2>2. /\ Numbers(s, a, b) /\ Command(s, 1) # App => Numbers(t, a, b)
          /\ Numbers(s, a, b) /\ Command(s, 1) = App => Numbers(t, a + 1, b)
      BY <1>1, <1>2, TakeKeeps
    <2> QED BY <2>1, <2>2
  <1>8. Command(s, 1) = Verack => Has(s, Verack)
    BY <1>1 DEF Has, Is
  <1>9. Version # Verack /\ Version # App /\ Verack # App
    BY DEF Version, Verack, App
  <1>10. CASE /\ Command(s, 1) = Version
              /\ c2.active = c.active /\ c2.recvVer = c.recvVer /\ c2.got = c.got
              /\ c2.heard = 0 => d.heard = 0
    <2>1. ~Has(t, Version) /\ (Has(t, Verack) <=> Has(s, Verack))
      BY <1>4, <1>9, <1>10 DEF Flow
    <2>2. c2.heard = 0 => VersionFirst(t)
      <3>1. SUFFICES ASSUME c2.heard = 0 PROVE ~Has(t, Verack)
        BY DEF VersionFirst, Has
      <3> QED BY <1>10, <2>1, <3>1 DEF Flow
    <2> QED BY <1>4, <1>5, <1>6, <1>7, <1>9, <1>10, <2>1, <2>2 DEF Flow
  <1>11. CASE /\ Command(s, 1) = Verack
              /\ c2.heard = c.heard /\ HasChecksum(c2.recvVer) /\ c2.got = c.got
    <2>1. ~Has(t, Verack) /\ (Has(t, Version) <=> Has(s, Version)) /\ Has(s, Verack)
      BY <1>4, <1>8, <1>9, <1>11 DEF Flow
    <2>2. c2.heard = 0 => VersionFirst(t)
      BY <1>4, <1>11 DEF Flow
    <2> QED BY <1>4, <1>5, <1>6, <1>7, <1>9, <1>11, <2>1, <2>2 DEF Flow
  <1>12. CASE /\ Command(s, 1) = App
              /\ c2.heard = c.heard /\ c2.active = c.active /\ c2.recvVer = c.recvVer
              /\ Len(c2.got) = Len(c.got) + 1
    <2>1. (Has(t, Verack) <=> Has(s, Verack)) /\ (Has(t, Version) <=> Has(s, Version))
      BY <1>4, <1>9, <1>12 DEF Flow
    <2> QED BY <1>4, <1>5, <1>6, <1>7, <1>9, <1>12, <2>1 DEF Flow
  <1> QED BY <1>10, <1>11, <1>12 DEF Takes

(* A message is written by the other end, whose connection is then d2, in    *)
(* the world k2.                                                             *)
Adds(e, s, c, d, k, d2, k2, command, payload) ==
  LET o == Other(e)
  IN  \/ /\ command = Version /\ ~Has(s, Version) /\ c.heard = 0
         /\ payload[1].val = k.version[o] /\ payload[2].val = NonceOf(o, k)
         /\ HasChecksum(d2.sendVer) <=> HasChecksum(d.sendVer)
         /\ Announced(o, d2, k2) /\ k2.sent = k.sent
      \/ /\ command = Verack /\ ~Has(s, Verack) /\ ~c.active /\ d2.heard # 0
         /\ c.heard = 0 => Has(s, Version)
         /\ HasChecksum(d2.sendVer) /\ k2.sent = k.sent
      \/ /\ command = App /\ payload[1].val = k.sent[o] + 1
         /\ HasChecksum(d2.sendVer) <=> HasChecksum(d.sendVer)
         /\ Len(c.got) <= k.sent[o] /\ k2.sent[o] = k.sent[o] + 1

LEMMA FlowAdd ==
  ASSUME NEW e \in Ends, NEW c \in Connections, NEW d, NEW k \in Worlds, NEW k2 \in Worlds, NEW d2,
         k2.version = k.version, k2.self = k.self, k2.clean = k.clean,
         k.opened => k2.opened, d.heard # 0 => d2.heard # 0,
         NEW s \in Seq(Tokens), Flow(e, s, c, d, k),
         NEW m \in Seq(Tokens), NEW payload, NEW command, Packet(m, command, d.sendVer, payload),
         Adds(e, s, c, d, k, d2, k2, command, payload)
  PROVE  Flow(e, s \o m, c, d2, k2)
  <1> DEFINE t == s \o m
             o == Other(e)
  <1>1. /\ Framed(s) /\ Framed(m) /\ m # <<>> /\ \A i \in DOMAIN m : Begins(m, i) => i = 1
        /\ Begins(m, 1) /\ After(m, 1) = Len(m) + 1 /\ Command(m, 1) = command
    BY DEF Flow, Packet
  <1>2. Joined(s, m, t)
    <2>1. m[1].kind # "sum"
      BY <1>1 DEF Begins
    <2> QED BY <1>1, <2>1, JoinKeeps
  <1>3. Len(c.got) \in Nat /\ k.sent[o] \in Nat
    BY FlowTypes
  <1>4. \A cmd : Is(m, 1, cmd) <=> cmd = command
    BY <1>1 DEF Is
  <1> SUFFICES Flow(e, t, c, d2, k2)
    OBVIOUS
  <1> HIDE DEF t
  <1>5. /\ Framed(t)
        /\ Tight(s) => Tight(t)
        /\ \A cmd \in {Version, Verack} :
             /\ Has(t, cmd) <=> Has(s, cmd) \/ Is(m, 1, cmd)
             /\ Once(s, cmd) /\ ~(Has(s, cmd) /\ Is(m, 1, cmd)) => Once(t, cmd)
        /\ VersionFirst(s) /\ (Is(m, 1, Verack) => Has(s, Version)) => VersionFirst(t)
    BY <1>1, <1>2, <1>3, AddKeeps
  <1>6. /\ Greets(s, k.version[o], NonceOf(o, k))
        /\ Is(m, 1, Version) => Value(m, 1) = k.version[o] /\ NonceIn(m, 1) = NonceOf(o, k)
        => Greets(t, k.version[o], NonceOf(o, k))
    BY <1>1, <1>2, <1>3, AddKeeps
  <1>7. /\ SumsFrom(s, c.recvVer)
        /\ Begins(m, 1) => (Summed(m, 1) <=> HasChecksum(c.recvVer) \/ Has(s, Verack))
        => SumsFrom(t, c.recvVer)
    BY <1>1, <1>2, <1>3, AddKeeps
  <1>8. /\ Numbers(s, Len(c.got), k.sent[o]) /\ ~Is(m, 1, App) => Numbers(t, Len(c.got), k.sent[o])
        /\ Numbers(s, Len(c.got), k.sent[o]) /\ Len(c.got) <= k.sent[o]
           /\ Is(m, 1, App) /\ Value(m, 1) = k.sent[o] + 1 => Numbers(t, Len(c.got), k.sent[o] + 1)
    <2>1. PICK a \in Nat, b \in Nat : a = Len(c.got) /\ b = k.sent[o]
      BY <1>3
    <2>2. /\ Numbers(s, a, b) /\ ~Is(m, 1, App) => Numbers(t, a, b)
          /\ Numbers(s, a, b) /\ a <= b /\ Is(m, 1, App) /\ Value(m, 1) = b + 1 =>
               Numbers(t, a, b + 1)
      BY <1>1, <1>2, AddKeeps
    <2> QED BY <2>1, <2>2
  <1>9. SumsFrom(t, c.recvVer)
    BY <1>7 DEF Flow, Packet
  <1>10. NonceOf(o, k2) = NonceOf(o, k) /\ (Announced(o, d, k) => Announced(o, d2, k2))
    BY DEF NonceOf, Announced
  <1>11. Version # Verack /\ Version # App /\ Verack # App
    BY DEF Version, Verack, App
  <1>12. CASE /\ command = Version /\ ~Has(s, Version) /\ c.heard = 0
              /\ payload[1].val = k.version[o] /\ payload[2].val = NonceOf(o, k)
              /\ HasChecksum(d2.sendVer) <=> HasChecksum(d.sendVer)
              /\ Announced(o, d2, k2) /\ k2.sent = k.sent
    <2>1. Has(t, Version) /\ (Has(t, Verack) <=> Has(s, Verack))
      BY <1>4, <1>5, <1>11, <1>12
    <2>2. Once(t, Version) /\ Once(t, Verack) /\ VersionFirst(t)
      BY <1>4, <1>5, <1>11, <1>12 DEF Flow
    <2>3. Greets(t, k.version[o], NonceOf(o, k))
      BY <1>6, <1>11, <1>12 DEF Flow, Packet
    <2>4. Numbers(t, Len(c.got), k.sent[o])
      BY <1>4, <1>8, <1>11, <1>12 DEF Flow
    <2> QED BY <1>5, <1>9, <1>10, <1>12, <2>1, <2>2, <2>3, <2>4 DEF Flow
  <1>13. CASE /\ command = Verack /\ ~Has(s, Verack) /\ ~c.active /\ d2.heard # 0
              /\ c.heard = 0 => Has(s, Version)
              /\ HasChecksum(d2.sendVer) /\ k2.sent = k.sent
    <2>1. Has(t, Verack) /\ (Has(t, Version) <=> Has(s, Version))
      BY <1>4, <1>5, <1>11, <1>13
    <2>2. Once(t, Version) /\ Once(t, Verack) /\ (c.heard = 0 => VersionFirst(t))
      BY <1>4, <1>5, <1>11, <1>13 DEF Flow
    <2>3. Greets(t, k.version[o], NonceOf(o, k))
      BY <1>4, <1>6, <1>11, <1>13 DEF Flow
    <2>4. Numbers(t, Len(c.got), k.sent[o])
      BY <1>4, <1>8, <1>11, <1>13 DEF Flow
    <2> QED BY <1>5, <1>9, <1>10, <1>13, <2>1, <2>2, <2>3, <2>4 DEF Flow
  <1>14. CASE /\ command = App /\ payload[1].val = k.sent[o] + 1
              /\ HasChecksum(d2.sendVer) <=> HasChecksum(d.sendVer)
              /\ Len(c.got) <= k.sent[o] /\ k2.sent[o] = k.sent[o] + 1
    <2>1. (Has(t, Verack) <=> Has(s, Verack)) /\ (Has(t, Version) <=> Has(s, Version))
      BY <1>4, <1>5, <1>11, <1>14
    <2>2. Once(t, Version) /\ Once(t, Verack) /\ (c.heard = 0 => VersionFirst(t))
      BY <1>4, <1>5, <1>11, <1>14 DEF Flow
    <2>3. Greets(t, k.version[o], NonceOf(o, k))
      BY <1>4, <1>6, <1>11, <1>14 DEF Flow
    <2>4. Numbers(t, Len(c.got), k.sent[o] + 1)
      BY <1>4, <1>8, <1>11, <1>14 DEF Flow, Packet
    <2> QED BY <1>5, <1>9, <1>10, <1>14, <2>1, <2>2, <2>3, <2>4 DEF Flow
  <1> QED BY <1>12, <1>13, <1>14 DEF Adds

LEMMA HasAdd ==
  ASSUME NEW s \in Seq(Tokens), Framed(s), NEW m \in Seq(Tokens), NEW payload, NEW command, NEW ver,
         Packet(m, command, ver, payload), NEW cmd \in {Version, Verack}
  PROVE  Has(s \o m, cmd) <=> Has(s, cmd) \/ cmd = command
  <1>1. /\ Framed(m) /\ m # <<>> /\ \A i \in DOMAIN m : Begins(m, i) => i = 1
        /\ Begins(m, 1) /\ Command(m, 1) = command
    BY DEF Packet
  <1>2. Joined(s, m, s \o m)
    <2>1. m[1].kind # "sum"
      BY <1>1 DEF Begins
    <2> QED BY <1>1, <2>1, JoinKeeps
  <1>3. Is(m, 1, cmd) <=> cmd = command
    BY <1>1 DEF Is
  <1>4. PICK t : t = s \o m
    OBVIOUS
  <1>5. Joined(s, m, t)
    BY <1>2, <1>4
  <1>6. /\ Framed(t)
        /\ Tight(s) /\ Begins(m, 1) /\ After(m, 1) = Len(m) + 1 => Tight(t)
        /\ \A b \in {Version, Verack} :
             /\ Has(t, b) <=> Has(s, b) \/ Is(m, 1, b)
             /\ Once(s, b) /\ ~(Has(s, b) /\ Is(m, 1, b)) => Once(t, b)
    <2>1. Len(s) \in Nat
      OBVIOUS
    <2> QED BY <1>1, <1>5, <2>1, AddKeeps
  <1> QED BY <1>3, <1>4, <1>6

-----------------------------------------------------------------------------
(* One end and both, for an initial version v.                               *)

Own(e, c, d, k, v) ==
  /\ c.heard \in {0, k.version[Other(e)]}
  /\ c.heard # 0 => ~k.self /\ Announced(Other(e), d, k)
  /\ c.ended => k.self /\ k.opened
  /\ c.thrown => ~k.clean
  /\ c.active => c.heard # 0 /\ d.heard # 0
  /\ c.onVerack = IF c.heard # 0 /\ ~c.active THEN <<c.heard>> ELSE <<>>
  /\ c.sendVer = IF c.heard = 0 THEN v ELSE Smaller(c.heard, k.version[e])
  /\ c.recvVer = IF c.active THEN c.heard ELSE v
  /\ Len(c.got) <= k.sent[Other(e)]
  /\ \A i \in DOMAIN c.got : c.got[i] = i

(* s is on its way to the end e, z to the other; of an end that failed the   *)
(* stream no longer matters.                                                 *)
Both(e, c, s, d, z, k, v) ==
  /\ Own(e, c, d, k, v) /\ Own(Other(e), d, c, k, v)
  /\ ~c.thrown => Flow(e, s, c, d, k)
  /\ ~d.thrown => Flow(Other(e), z, d, c, k)

Reads(e, c, s, d, z, k, v) ==
  /\ Both(e, c, s, d, z, k, v) /\ ~c.thrown /\ Begins(s, 1)
  /\ k.opened /\ k.self = self /\ k.version = version

(* What handling the first message leaves, when w is written.                *)
Handled(e, c, s, d, z, k, v, x, t) ==
  /\ x \in Connections /\ x.buffers = c.buffers /\ x.thrown = c.thrown
  /\ \E w \in Seq(Tokens) : x.out = c.out \o w /\ Both(e, x, t, d, z \o w, k, v)

LEMMA HandledQuietly ==
  ASSUME NEW e, NEW c \in Connections, NEW s, NEW d, NEW z \in Seq(Tokens), NEW k, NEW v,
         NEW x \in Connections, NEW t, x.buffers = c.buffers, x.thrown = c.thrown, x.out = c.out,
         Both(e, x, t, d, z, k, v)
  PROVE  Handled(e, c, s, d, z, k, v, x, t)
  <1>1. c.out \in Seq(Tokens)
    BY DEF Connections
  <1>2. c.out \o <<>> = c.out /\ z \o <<>> = z
    BY <1>1, ConcatEmptySeq
  <1>3. <<>> \in Seq(Tokens)
    OBVIOUS
  <1> QED BY <1>2, <1>3 DEF Handled

LEMMA OwnSends ==
  ASSUME NEW e \in Ends, NEW c \in Connections, NEW d \in Connections, NEW k \in Worlds,
         NEW v \in {0, 209}, Own(e, c, d, k, v)
  PROVE  /\ c.ended => k.self
         /\ c.heard # 0 => HasChecksum(c.sendVer)
  <1>1. k.version[Other(e)] \in Nat /\ k.version[Other(e)] >= 209
    BY FlowTypes
  <1>2. k.version[e] \in Nat /\ k.version[e] >= 209
    <2>1. Other(e) \in Ends /\ Other(Other(e)) = e
      BY OtherEnd
    <2>2. k.version[Other(Other(e))] \in Nat /\ k.version[Other(Other(e))] >= 209
      BY <2>1, FlowTypes
    <2> QED BY <2>1, <2>2
  <1>3. c.heard # 0 => c.heard = k.version[Other(e)] /\ c.sendVer = Smaller(c.heard, k.version[e])
    BY DEF Own
  <1>4. c.heard # 0 => c.sendVer >= 209
    BY <1>1, <1>2, <1>3 DEF Smaller
  <1> QED BY <1>4 DEF Own, HasChecksum

LEMMA HandleVersionOfSelf ==
  ASSUME NEW e \in Ends, NEW c \in Connections, NEW d \in Connections, NEW k \in Worlds,
         NEW v \in {0, 209}, NEW s \in Seq(Tokens), NEW z \in Seq(Tokens),
         Reads(e, c, s, d, z, k, v), Command(s, 1) = Version, k.self,
         NEW t, Moved(s, t, After(s, 1) - 1)
  PROVE  Handled(e, c, s, d, z, k, v, [c EXCEPT !.ended = TRUE], t)
  <1> DEFINE x == [c EXCEPT !.ended = TRUE]
  <1>1. /\ x \in Connections /\ x.buffers = c.buffers /\ x.thrown = c.thrown /\ x.out = c.out
        /\ x.heard = c.heard /\ x.active = c.active /\ x.recvVer = c.recvVer /\ x.got = c.got
        /\ x.sendVer = c.sendVer /\ x.onVerack = c.onVerack /\ x.ended = TRUE
    BY DEF Connections
  <1> HIDE DEF x
  <1>2. Own(e, c, d, k, v) /\ Own(Other(e), d, c, k, v) /\ Flow(e, s, c, d, k) /\ Begins(s, 1)
    BY DEF Reads, Both
  <1>3. d.heard = 0
    BY <1>2 DEF Own
  <1>4. Takes(s, c, d, x)
    BY <1>1, <1>3 DEF Takes
  <1>5. Flow(e, t, x, d, k)
    BY <1>2, <1>4, FlowTake
  <1>6. Own(e, x, d, k, v)
    BY <1>1, <1>2 DEF Own, Reads
  <1>7. Own(Other(e), d, x, k, v)
    BY <1>1, <1>2 DEF Own, Announced
  <1>8. ~d.thrown => Flow(Other(e), z, d, x, k)
    <2>1. ~d.thrown => Flow(Other(e), z, d, c, k)
      BY DEF Reads, Both
    <2> QED BY <1>1, <2>1, FlowDepends
  <1>9. Both(e, x, t, d, z, k, v)
    BY <1>5, <1>6, <1>7, <1>8 DEF Both
  <1>10. Handled(e, c, s, d, z, k, v, x, t)
    BY <1>1, <1>9, HandledQuietly
  <1> QED BY <1>10 DEF x

LEMMA HandleVerackKeeps ==
  ASSUME NEW e \in Ends, NEW c \in Connections, NEW d \in Connections, NEW k \in Worlds,
         NEW v \in {0, 209}, NEW s \in Seq(Tokens), NEW z \in Seq(Tokens),
         Reads(e, c, s, d, z, k, v), Command(s, 1) = Verack,
         NEW t, Moved(s, t, After(s, 1) - 1)
  PROVE  Handled(e, c, s, d, z, k, v, HandleVerack(c), t)
  <1> DEFINE x == HandleVerack(c)
  <1>2. Own(e, c, d, k, v) /\ Own(Other(e), d, c, k, v) /\ Flow(e, s, c, d, k) /\ Begins(s, 1)
    BY DEF Reads, Both
  <1>3. c.heard # 0 /\ ~c.active /\ d.heard # 0
    <2>1. First(e, s, c, d, k)
      BY <1>2, FirstMessage
    <2> QED BY <2>1 DEF First
  <1>4. c.onVerack = <<c.heard>> /\ c.heard = k.version[Other(e)] /\ c.heard \in Nat /\ c.heard >= 209
    BY <1>2, <1>3, FlowTypes DEF Own
  <1>5. Last(c.onVerack) = c.heard /\ c.onVerack # <<>>
    BY <1>4 DEF Last
  <1>1. /\ x \in Connections /\ x.buffers = c.buffers /\ x.thrown = c.thrown /\ x.out = c.out
        /\ x.heard = c.heard /\ x.active = TRUE /\ x.recvVer = c.heard /\ x.got = c.got
        /\ x.sendVer = c.sendVer /\ x.onVerack = <<>> /\ x.ended = c.ended
    <2>1. x = [c EXCEPT !.active = TRUE, !.onVerack = <<>>, !.recvVer = c.heard]
      BY <1>5 DEF HandleVerack
    <2>2. c.heard \in Int /\ <<>> \in Seq(Nat)
      BY <1>4
    <2> HIDE DEF x
    <2>3. x \in Connections
      BY <2>1, <2>2 DEF Connections
    <2> QED BY <2>1, <2>3 DEF Connections
  <1> HIDE DEF x
  <1>6. Takes(s, c, d, x)
    BY <1>1, <1>4 DEF Takes, HasChecksum
  <1>7. Flow(e, t, x, d, k)
    BY <1>2, <1>6, FlowTake
  <1>8. Own(e, x, d, k, v)
    BY <1>1, <1>2, <1>3 DEF Own
  <1>9. Own(Other(e), d, x, k, v)
    BY <1>1, <1>2 DEF Own, Announced
  <1>10. ~d.thrown => Flow(Other(e), z, d, x, k)
    <2>1. ~d.thrown => Flow(Other(e), z, d, c, k)
      BY DEF Reads, Both
    <2> QED BY <1>1, <2>1, FlowDepends
  <1>11. Both(e, x, t, d, z, k, v)
    BY <1>7, <1>8, <1>9, <1>10 DEF Both
  <1>12. Handled(e, c, s, d, z, k, v, x, t)
    BY <1>1, <1>11, HandledQuietly
  <1> QED BY <1>12 DEF x

Delivers(c, val) == [c EXCEPT !.got = Append(@, val)]

LEMMA HandleAppKeeps ==
  ASSUME NEW e \in Ends, NEW c \in Connections, NEW d \in Connections, NEW k \in Worlds,
         NEW v \in {0, 209}, NEW s \in Seq(Tokens), NEW z \in Seq(Tokens),
         Reads(e, c, s, d, z, k, v), Command(s, 1) = App,
         NEW t, Moved(s, t, After(s, 1) - 1)
  PROVE  Handled(e, c, s, d, z, k, v, Delivers(c, Value(s, 1)), t)
  <1> DEFINE x == Delivers(c, Value(s, 1))
  <1>2. Own(e, c, d, k, v) /\ Own(Other(e), d, c, k, v) /\ Flow(e, s, c, d, k) /\ Begins(s, 1)
    BY DEF Reads, Both
  <1>3. Value(s, 1) = Len(c.got) + 1 /\ Len(c.got) + 1 <= k.sent[Other(e)]
    <2>1. First(e, s, c, d, k)
      BY <1>2, FirstMessage
    <2> QED BY <2>1 DEF First
  <1>4. c.got \in Seq(Nat) /\ Len(c.got) \in Nat
    BY DEF Connections
  <1>1. /\ x \in Connections /\ x.buffers = c.buffers /\ x.thrown = c.thrown /\ x.out = c.out
        /\ x.heard = c.heard /\ x.active = c.active /\ x.recvVer = c.recvVer
        /\ x.got = Append(c.got, Value(s, 1))
        /\ x.sendVer = c.sendVer /\ x.onVerack = c.onVerack /\ x.ended = c.ended
    <2>1. PICK g \in Seq(Nat) : g = Append(c.got, Value(s, 1))
      <3>1. Value(s, 1) \in Nat
        BY <1>3, <1>4
      <3>2. Append(c.got, Value(s, 1)) \in Seq(Nat)
        BY <1>4, <3>1
      <3> QED BY <3>2
    <2>2. x = [c EXCEPT !.got = g]
      BY <2>1 DEF Delivers
    <2> HIDE DEF x
    <2>3. x \in Connections
      BY <2>2 DEF Connections
    <2> QED BY <2>1, <2>2, <2>3 DEF Connections
  <1> HIDE DEF x
  <1>5. Len(x.got) = Len(c.got) + 1 /\ \A i \in DOMAIN x.got : x.got[i] = i
    <2>1. \A i \in DOMAIN c.got : c.got[i] = i
      BY <1>2 DEF Own
    <2> QED BY <1>1, <1>3, <1>4, <2>1
  <1>6. Takes(s, c, d, x)
    BY <1>1, <1>5 DEF Takes
  <1>7. Flow(e, t, x, d, k)
    BY <1>2, <1>6, FlowTake
  <1>8. Own(e, x, d, k, v)
    BY <1>1, <1>2, <1>3, <1>5 DEF Own
  <1>9. Own(Other(e), d, x, k, v)
    BY <1>1, <1>2 DEF Own, Announced
  <1>10. ~d.thrown => Flow(Other(e), z, d, x, k)
    <2>1. ~d.thrown => Flow(Other(e), z, d, c, k)
      BY DEF Reads, Both
    <2> QED BY <1>1, <2>1, FlowDepends
  <1>11. Both(e, x, t, d, z, k, v)
    BY <1>7, <1>8, <1>9, <1>10 DEF Both
  <1>12. Handled(e, c, s, d, z, k, v, x, t)
    BY <1>1, <1>11, HandledQuietly
  <1> QED BY <1>12 DEF x

(* The end that listened writes its version, then both write the verack.     *)
LEMMA SendsVersion ==
  ASSUME NEW e \in Ends, NEW c \in Connections, ~c.ended, version[e] \in Nat
  PROVE  \E m \in Seq(Tokens) :
           /\ Packet(m, Version, c.sendVer, Payload(<<version[e], Nonce(e)>>))
           /\ SendVersion(c, e) = [c EXCEPT !.out = @ \o m]
  <1> DEFINE p == Payload(<<version[e], Nonce(e)>>)
  <1>1. Nonce(e) \in Nat
    BY DEF Nonce
  <1>2. p \in Seq(Tokens) /\ Len(p) = 2 /\ AllData(p)
    <2>1. PICK a \in Nat, b \in Nat : a = version[e] /\ b = Nonce(e)
      BY <1>1
    <2>2. Token("data", a) \in Tokens /\ Token("data", b) \in Tokens
      BY DEF Token, Tokens, Kinds
    <2>3. p = <<Token("data", a), Token("data", b)>>
      BY <2>1 DEF Payload
    <2>4. /\ <<Token("data", a), Token("data", b)>> \in Seq(Tokens)
          /\ Len(<<Token("data", a), Token("data", b)>>) = 2
          /\ AllData(<<Token("data", a), Token("data", b)>>)
      BY <2>2 DEF AllData, Token
    <2> HIDE DEF p
    <2> QED BY <2>3, <2>4
  <1>3. Size(Version) = 2 /\ Version \in {Version, Verack, App}
    BY DEF Size
  <1>4. SendVersion(c, e) = SendMessage(c, Version, p)
    BY DEF SendVersion
  <1> HIDE DEF p
  <1>5. WritesPacket(c, Version, p)
    BY <1>2, <1>3, SendsPacket
  <1> QED BY <1>4, <1>5 DEF p, WritesPacket

LEMMA SendsVerack ==
  ASSUME NEW c \in Connections, ~c.ended
  PROVE  WritesPacket(c, Verack, <<>>)
  <1>1. <<>> \in Seq(Tokens) /\ Len(<<>>) = 0 /\ AllData(<<>>)
    BY DEF AllData
  <1>2. Size(Verack) = 0 /\ Verack \in {Version, Verack, App}
    BY DEF Size, Version, Verack, App
  <1> QED BY <1>1, <1>2, SendsPacket

(* What HandleVersion makes of a connection, when it writes m and n.         *)
Answers(e, c, ver, m, n) ==
  /\ IF e = "in" THEN Packet(m, Version, c.sendVer, Payload(<<version[e], Nonce(e)>>))
     ELSE m = <<>>
  /\ Packet(n, Verack, c.sendVer, <<>>)
  /\ HandleVersion(c, e, ver) =
       [c EXCEPT !.out = @ \o (m \o n), !.sendVer = Smaller(ver, version[e]),
                 !.heard = ver, !.onVerack = Append(@, ver)]

LEMMA HandleVersionWrites ==
  ASSUME NEW e \in Ends, NEW c \in Connections, ~c.ended, version[e] \in Nat,
         NEW ver \in Nat, HasChecksum(ver)
  PROVE  \E m \in Seq(Tokens), n \in Seq(Tokens) : Answers(e, c, ver, m, n)
  <1>1. PICK o \in Seq(Tokens) : o = c.out
    BY DEF Connections
  <1>2. PICK m \in Seq(Tokens) :
          /\ IF e = "in" THEN Packet(m, Version, c.sendVer, Payload(<<version[e], Nonce(e)>>))
             ELSE m = <<>>
          /\ (IF e = "in" THEN SendVersion(c, e) ELSE c) = [c EXCEPT !.out = o \o m]
    <2>1. CASE e = "in"
      <3>1. PICK m \in Seq(Tokens) : /\ Packet(m, Version, c.sendVer, Payload(<<version[e], Nonce(e)>>))
                                     /\ SendVersion(c, e) = [c EXCEPT !.out = @ \o m]
        BY SendsVersion
      <3> QED BY <1>1, <2>1, <3>1
    <2>2. CASE e # "in"
      <3>1. o \o <<>> = o /\ <<>> \in Seq(Tokens)
        BY ConcatEmptySeq
      <3>2. c = [c EXCEPT !.out = o \o <<>>]
        BY <1>1, <3>1 DEF Connections
      <3> QED BY <2>2, <3>1, <3>2
    <2> QED BY <2>1, <2>2
  <1> DEFINE a == [c EXCEPT !.out = o \o m]
  <1>3. o \o m \in Seq(Tokens)
    BY Concat
  <1>4. a \in Connections /\ ~a.ended /\ a.sendVer = c.sendVer /\ a.out = o \o m
    BY <1>3 DEF Connections
  <1> HIDE DEF a
  <1>5. PICK n \in Seq(Tokens) : /\ Packet(n, Verack, a.sendVer, <<>>)
                                 /\ SendMessage(a, Verack, <<>>) = [a EXCEPT !.out = @ \o n]
    <2>1. WritesPacket(a, Verack, <<>>)
      BY <1>4, SendsVerack
    <2> QED BY <2>1 DEF WritesPacket
  <1>6. (o \o m) \o n = o \o (m \o n)
    <2>1. Regroups(o, m, n)
      BY Regroup
    <2> QED BY <2>1 DEF Regroups
  <1>7. SendMessage(a, Verack, <<>>) = [c EXCEPT !.out = o \o (m \o n)]
    BY <1>4, <1>5, <1>6 DEF a, Connections
  <1>8. HandleVersion(c, e, ver) =
          [c EXCEPT !.out = o \o (m \o n), !.sendVer = Smaller(ver, version[e]),
                    !.heard = ver, !.onVerack = Append(@, ver)]
    <2>1. (IF e = "in" THEN SendVersion(c, e) ELSE c) = a
      BY <1>2 DEF a
    <2>2. HandleVersion(c, e, ver) =
            ExpectChecksums([SendMessage(a, Verack, <<>>) EXCEPT
                               !.sendVer = Smaller(ver, version[e]), !.heard = ver], ver)
      BY <2>1 DEF HandleVersion
    <2> QED BY <1>7, <2>2 DEF ExpectChecksums, Connections
  <1>9. Answers(e, c, ver, m, n)
    BY <1>1, <1>2, <1>4, <1>5, <1>8 DEF Answers
  <1> QED BY <1>2, <1>5, <1>9

(* The verack, and the version before it, are what the other end waits for.  *)
LEMMA GreetingFlows ==
  ASSUME NEW e \in Ends, NEW c \in Connections, NEW d \in Connections, NEW k \in Worlds,
         NEW v \in {0, 209}, NEW z \in Seq(Tokens),
         Own(e, c, d, k, v), Own(Other(e), d, c, k, v), Flow(Other(e), z, d, c, k),
         c.heard = 0, Announced(Other(e), d, k), k.version = version, k.self = self,
         NEW m \in Seq(Tokens), NEW n \in Seq(Tokens), Packet(n, Verack, c.sendVer, <<>>),
         IF e = "in" THEN Packet(m, Version, c.sendVer, Payload(<<version[e], Nonce(e)>>))
         ELSE m = <<>>,
         NEW x, x.heard # 0, HasChecksum(x.sendVer)
  PROVE  Flow(Other(e), z \o (m \o n), d, x, k)
  <1>1. Other(e) \in Ends /\ Other(Other(e)) = e
    BY OtherEnd
  <1>2. ~Has(z, Verack) /\ ~d.active
    BY DEF Own, Flow
  <1>3. z \o m \in Seq(Tokens)
    BY Concat
  <1>4. PICK y \in Seq(Tokens) : y = z \o m
    BY <1>3
  <1>5. PICK b : /\ Flow(Other(e), y, d, b, k) /\ b.sendVer = c.sendVer
                 /\ ~Has(y, Verack) /\ (d.heard = 0 => Has(y, Version))
    <2>1. CASE e = "in"
      <3> DEFINE b == [c EXCEPT !.heard = 1]
                 p == Payload(<<version[e], Nonce(e)>>)
      <3>1. b.heard # 0 /\ b.sendVer = c.sendVer
        BY DEF Connections
      <3> HIDE DEF b
      <3>2. ~Has(z, Version) /\ d.heard = 0
        BY <1>1, <2>1 DEF Own, Flow, Announced
      <3>3. p[1].val = k.version[e] /\ p[2].val = NonceOf(e, k)
        BY <2>1 DEF Payload, Token, Nonce, NonceOf
      <3> HIDE DEF p
      <3>4. Packet(m, Version, c.sendVer, p)
        BY <2>1 DEF p
      <3>5. Adds(Other(e), z, d, c, k, b, k, Version, p)
        BY <1>1, <2>1, <3>1, <3>2, <3>3 DEF Adds, Announced
      <3>6. Flow(Other(e), z \o m, d, b, k)
        BY <1>1, <3>1, <3>4, <3>5, FlowAdd
      <3>7. Framed(z) /\ Version # Verack
        BY DEF Flow, Version, Verack
      <3>8. Has(z \o m, Version) /\ (Has(z \o m, Verack) <=> Has(z, Verack))
        BY <3>4, <3>7, HasAdd
      <3> QED BY <1>2, <1>4, <3>1, <3>6, <3>8
    <2>2. CASE e = "out"
      <3>1. z \o m = z
        BY <2>2, ConcatEmptySeq
      <3>2. d.heard # 0
        BY <2>2 DEF Announced, Other
      <3> QED BY <1>2, <1>4, <3>1, <3>2
    <2> QED BY <2>1, <2>2 DEF Ends
  <1>6. Adds(Other(e), y, d, b, k, x, k, Verack, <<>>)
    BY <1>2, <1>5 DEF Adds
  <1>7. Flow(Other(e), y \o n, d, x, k)
    BY <1>1, <1>5, <1>6, FlowAdd
  <1>8. (z \o m) \o n = z \o (m \o n)
    <2>1. Regroups(z, m, n)
      BY Regroup
    <2> QED BY <2>1 DEF Regroups
  <1> QED BY <1>4, <1>7, <1>8

LEMMA HandleVersionKeeps ==
  ASSUME NEW e \in Ends, NEW c \in Connections, NEW d \in Connections, NEW k \in Worlds,
         NEW v \in {0, 209}, NEW s \in Seq(Tokens), NEW z \in Seq(Tokens),
         Reads(e, c, s, d, z, k, v), Command(s, 1) = Version, ~k.self,
         NEW t, Moved(s, t, After(s, 1) - 1)
  PROVE  Handled(e, c, s, d, z, k, v, HandleVersion(c, e, Value(s, 1)), t)
  <1>1. Own(e, c, d, k, v) /\ Own(Other(e), d, c, k, v) /\ Flow(e, s, c, d, k) /\ Begins(s, 1)
    BY DEF Reads, Both
  <1>0. First(e, s, c, d, k)
    BY <1>1, FirstMessage
  <1>2. PICK ver \in Nat : ver = Value(s, 1) /\ ver = k.version[Other(e)] /\ ver >= 209
    <2>1. /\ c.heard = 0 /\ Announced(Other(e), d, k)
          /\ Value(s, 1) = k.version[Other(e)] /\ NonceIn(s, 1) = NonceOf(Other(e), k)
      BY <1>0 DEF First
    <2> QED BY <2>1, FlowTypes
  <1>3. c.heard = 0 /\ Announced(Other(e), d, k)
    BY <1>0 DEF First
  <1>4. ~c.active /\ ~c.ended /\ c.onVerack = <<>> /\ c.recvVer = v
    BY <1>1, <1>3 DEF Own, Connections
  <1>5. PICK mine \in Nat : mine = version[e] /\ mine = k.version[e] /\ mine >= 209
    <2>1. Other(e) \in Ends /\ Other(Other(e)) = e
      BY OtherEnd
    <2>2. k.version[Other(Other(e))] \in Nat /\ k.version[Other(Other(e))] >= 209
      BY <2>1, FlowTypes
    <2>3. k.version = version
      BY DEF Reads
    <2> QED BY <2>1, <2>2, <2>3
  <1>6. PICK m \in Seq(Tokens), n \in Seq(Tokens) : Answers(e, c, ver, m, n)
    <2>1. HasChecksum(ver) /\ version[e] \in Nat
      BY <1>2, <1>5 DEF HasChecksum
    <2> QED BY <1>4, <2>1, HandleVersionWrites
  <1> DEFINE x == HandleVersion(c, e, ver)
  <1>7. PICK w \in Seq(Tokens) : w = m \o n
    BY Concat
  <1>8. PICK less \in Nat : less = Smaller(ver, version[e]) /\ less >= 209
    BY <1>2, <1>5 DEF Smaller
  <1>9. /\ x \in Connections /\ x.buffers = c.buffers /\ x.thrown = c.thrown
        /\ x.out = c.out \o w /\ x.sendVer = less /\ x.heard = ver /\ x.onVerack = <<ver>>
        /\ x.active = c.active /\ x.recvVer = c.recvVer /\ x.got = c.got /\ x.ended = c.ended
    <2>1. PICK o \in Seq(Tokens) : o = c.out \o w
      <3>1. c.out \in Seq(Tokens)
        BY DEF Connections
      <3> QED BY <3>1, Concat
    <2>2. x = [c EXCEPT !.out = o, !.sendVer = less, !.heard = ver, !.onVerack = <<ver>>]
      <3>1. Append(c.onVerack, ver) = <<ver>>
        BY <1>4
      <3> QED BY <1>6, <1>7, <1>8, <2>1, <3>1 DEF Answers
    <2>3. <<ver>> \in Seq(Nat)
      OBVIOUS
    <2> HIDE DEF x
    <2>4. x \in Connections
      BY <2>2, <2>3 DEF Connections
    <2> QED BY <2>1, <2>2, <2>4 DEF Connections
  <1> HIDE DEF x
  <1>10. Takes(s, c, d, x)
    BY <1>2, <1>9 DEF Takes
  <1>11. Flow(e, t, x, d, k)
    BY <1>1, <1>10, FlowTake
  <1>12. Own(e, x, d, k, v)
    <2>1. x.heard # 0 /\ x.heard = k.version[Other(e)] /\ ~x.active /\ ~x.ended
      BY <1>2, <1>4, <1>9
    <2>2. x.onVerack = <<x.heard>> /\ x.recvVer = v /\ x.sendVer = Smaller(x.heard, k.version[e])
      BY <1>4, <1>5, <1>8, <1>9
    <2>3. x.thrown = c.thrown /\ x.got = c.got
      BY <1>9
    <2> QED BY <1>1, <1>3, <2>1, <2>2, <2>3 DEF Own
  <1>13. Own(Other(e), d, x, k, v)
    <2>1. k.opened /\ x.heard # 0
      BY <1>2, <1>9 DEF Reads
    <2> QED BY <1>1, <1>9, <2>1 DEF Own, Announced
  <1>14. ~d.thrown => Flow(Other(e), z \o w, d, x, k)
    <2>1. ~d.thrown => Flow(Other(e), z, d, c, k)
      BY DEF Reads, Both
    <2>2. x.heard # 0 /\ HasChecksum(x.sendVer) /\ k.version = version /\ k.self = self
      BY <1>2, <1>8, <1>9 DEF HasChecksum, Reads
    <2>3. ~d.thrown => Flow(Other(e), z \o (m \o n), d, x, k)
      BY <1>1, <1>3, <1>6, <2>1, <2>2, GreetingFlows DEF Answers
    <2> QED BY <1>7, <2>3
  <1>15. Both(e, x, t, d, z \o w, k, v)
    BY <1>11, <1>12, <1>13, <1>14 DEF Both
  <1>16. Handled(e, c, s, d, z, k, v, x, t)
    BY <1>9, <1>15 DEF Handled
  <1> QED BY <1>2, <1>16 DEF x
-----------------------------------------------------------------------------
(* Reading, when s is what is in the buffers and then on the way.            *)

LEMMA DropType ==
  ASSUME NEW b \in Seq(Tokens), NEW n \in 0 .. Len(b)
  PROVE  /\ Drop(b, n) \in Seq(Tokens) /\ Len(Drop(b, n)) = Len(b) - n
         /\ \A p \in 1 .. Len(b) - n : Drop(b, n)[p] = b[n + p]
  BY DEF Drop

LEMMA DropJoin ==
  ASSUME NEW b \in Seq(Tokens), NEW r \in Seq(Tokens), NEW n \in 0 .. Len(b)
  PROVE  Drop(b, n) \o r = Drop(b \o r, n)
  <1>1. PICK a \in Seq(Tokens) : a = Drop(b, n) /\ Len(a) = Len(b) - n
                                 /\ \A p \in 1 .. Len(b) - n : a[p] = b[n + p]
    BY DropType
  <1>2. PICK s \in Seq(Tokens) : /\ s = b \o r /\ Len(s) = Len(b) + Len(r)
                                 /\ \A p \in 1 .. Len(b) : s[p] = b[p]
                                 /\ \A p \in 1 .. Len(r) : s[Len(b) + p] = r[p]
    BY Concat, ZenonT(40)
  <1>3. Len(b) \in Nat /\ Len(r) \in Nat /\ n \in 0 .. Len(s)
    BY <1>2
  <1>4. PICK t \in Seq(Tokens) : t = Drop(s, n) /\ Len(t) = Len(s) - n
                                 /\ \A p \in 1 .. Len(s) - n : t[p] = s[n + p]
    BY <1>3, DropType
  <1>5. PICK u \in Seq(Tokens) : /\ u = a \o r /\ Len(u) = Len(a) + Len(r)
                                 /\ \A p \in 1 .. Len(a) : u[p] = a[p]
                                 /\ \A p \in 1 .. Len(r) : u[Len(a) + p] = r[p]
    <2>1. a \in Seq(Tokens)
      BY <1>1
    <2>2. /\ a \o r \in Seq(Tokens) /\ Len(a \o r) = Len(a) + Len(r)
          /\ Len(a) \in Nat /\ Len(r) \in Nat
          /\ \A p \in 1 .. Len(a) : (a \o r)[p] = a[p]
          /\ \A p \in 1 .. Len(r) : (a \o r)[Len(a) + p] = r[p]
      BY <2>1, Concat
    <2> QED BY <2>2
  <1>6. Len(u) = Len(t)
    BY <1>1, <1>2, <1>3, <1>4, <1>5
  <1>7. ASSUME NEW p \in 1 .. Len(u)
        PROVE  u[p] = t[p]
    <2>1. t[p] = s[n + p]
      BY <1>4, <1>6
    <2>2. CASE p <= Len(b) - n
      <3>1. n + p \in 1 .. Len(b) /\ p \in 1 .. Len(a)
        BY <1>1, <1>3, <2>2
      <3> QED BY <1>1, <1>2, <1>5, <2>1, <3>1
    <2>3. CASE p > Len(b) - n
      <3>1. PICK q \in 1 .. Len(r) : p = Len(a) + q /\ n + p = Len(b) + q
        <4>1. p - Len(a) \in 1 .. Len(r) /\ p = Len(a) + (p - Len(a)) /\ n + p = Len(b) + (p - Len(a))
          BY <1>1, <1>3, <1>5, <2>3
        <4> QED BY <4>1
      <3> QED BY <1>2, <1>5, <2>1, <3>1
    <2> QED BY <1>1, <1>3, <2>2, <2>3
  <1>8. u = t
    BY <1>6, <1>7, SeqEqual
  <1> QED BY <1>1, <1>2, <1>4, <1>5, <1>8

(* A message that begins in the buffers is found there.                      *)
LEMMA BeginIsMagic ==
  ASSUME NEW b \in Seq(Tokens), NEW r \in Seq(Tokens), Framed(b \o r),
         NEW i \in 1 .. Len(b) - 1, Begins(b \o r, i)
  PROVE  MagicAt(b, i)
  <1>1. PICK s \in Seq(Tokens) : /\ s = b \o r /\ Len(s) = Len(b) + Len(r)
                                 /\ \A p \in 1 .. Len(b) : s[p] = b[p]
    BY Concat
  <1>2. i \in DOMAIN s /\ i \in 1 .. Len(b) /\ i + 1 \in 1 .. Len(b) /\ i < Len(b)
    BY <1>1
  <1>3. Whole(s, i) /\ Begins(s, i)
    BY <1>1, <1>2 DEF Framed
  <1>4. s[i].kind = "magic1" /\ s[i + 1].kind = "magic2"
    BY <1>3 DEF Whole, Begins
  <1> QED BY <1>1, <1>2, <1>4 DEF MagicAt

LEMMA MagicBegins ==
  ASSUME NEW b \in Seq(Tokens), NEW r \in Seq(Tokens), NEW i \in DOMAIN b, MagicAt(b, i)
  PROVE  Begins(b \o r, i)
  <1>1. PICK s \in Seq(Tokens) : /\ s = b \o r /\ Len(s) = Len(b) + Len(r)
                                 /\ \A p \in 1 .. Len(b) : s[p] = b[p]
    BY Concat
  <1>2. i \in DOMAIN s /\ s[i] = b[i]
    BY <1>1
  <1> QED BY <1>1, <1>2 DEF MagicAt, Begins

LEMMA FirstMagicFound ==
  ASSUME NEW b \in Seq(Tokens), \E i \in DOMAIN b : MagicAt(b, i)
  PROVE  /\ FirstMagic(b) \in 1 .. Len(b) /\ MagicAt(b, FirstMagic(b))
         /\ \A j \in 1 .. FirstMagic(b) - 1 : ~MagicAt(b, j)
  <1> DEFINE T == {i \in DOMAIN b : MagicAt(b, i)}
  <1>1. T \in SUBSET Nat /\ T # {} /\ \A i \in T : i \in DOMAIN b
    OBVIOUS
  <1>2. PICK i \in T : \A m \in T : i <= m
    <2> HIDE DEF T
    <2> QED BY <1>1, NatMin
  <1>3. \A j \in 1 .. i - 1 : ~MagicAt(b, j)
    <2> SUFFICES ASSUME NEW j \in 1 .. i - 1, MagicAt(b, j) PROVE FALSE
      OBVIOUS
    <2>1. j \in T /\ j < i
      BY <1>1, <1>2
    <2> QED BY <1>1, <1>2, <2>1
  <1>4. \E n \in DOMAIN b : MagicAt(b, n) /\ \A j \in 1 .. n - 1 : ~MagicAt(b, j)
    BY <1>2, <1>3
  <1>5. FirstMagic(b) \in DOMAIN b /\ MagicAt(b, FirstMagic(b))
        /\ \A j \in 1 .. FirstMagic(b) - 1 : ~MagicAt(b, j)
    BY <1>4 DEF FirstMagic
  <1> QED BY <1>5

(* The stream s begins with b.                                               *)
Fronts(s, b) == Len(b) <= Len(s) /\ \A p \in 1 .. Len(b) : s[p] = b[p]

(* The message handed over is the first of the stream.                       *)
Handling(c, e, b, at, end) == HandleMessage(c, e, b[3], SubSeq(b, at + 1, end))

LEMMA HandleMessageKeeps ==
  ASSUME NEW e \in Ends, NEW c \in Connections, NEW d \in Connections, NEW k \in Worlds,
         NEW v \in {0, 209}, NEW b \in Seq(Tokens), NEW s \in Seq(Tokens), NEW z \in Seq(Tokens),
         Reads(e, c, s, d, z, k, v), Fronts(s, b),
         NEW at \in 4 .. 5, Body(s, 1) = at + 1,
         NEW end \in 4 .. Len(b), After(s, 1) = end + 1,
         NEW t, Moved(s, t, After(s, 1) - 1)
  PROVE  Handled(e, c, s, d, z, k, v, Handling(c, e, b, at, end), t)
  <1>2. Flow(e, s, c, d, k) /\ Begins(s, 1)
    BY DEF Reads, Both
  <1>3. First(e, s, c, d, k)
    BY <1>2, FirstMessage
  <1>4. /\ Whole(s, 1)
        /\ Command(s, 1) \in {Version, Verack, App}
        /\ Command(s, 1) = Version =>
             /\ c.heard = 0 /\ Announced(Other(e), d, k)
             /\ Value(s, 1) = k.version[Other(e)] /\ NonceIn(s, 1) = NonceOf(Other(e), k)
    BY <1>3 DEF First
  <1>5. PICK size \in 0 .. 2 : size = Size(Command(s, 1)) /\ end = at + size
    <2>1. PICK n \in 0 .. 2 : n = Size(Command(s, 1))
      BY DEF Size
    <2>2. s[1 + 3].val = n
      BY <1>4, <2>1 DEF Whole
    <2>3. After(s, 1) = at + 1 + n
      BY <2>2 DEF After
    <2>4. end + 1 = at + 1 + n
      BY <2>3
    <2> QED BY <2>1, <2>4
  <1>6. PICK l \in Nat : l = Len(b) /\ at + size <= l
    BY <1>5
  <1> DEFINE payload == SubSeq(b, at + 1, end)
  <1>8. /\ Len(payload) = size
        /\ \A p \in 1 .. size : payload[p] = b[at + p]
    BY <1>5, <1>6, SMTT(40)
  <1> HIDE DEF payload
  <1>9. \A p \in 1 .. size : payload[p] = s[at + p]
    <2> TAKE p \in 1 .. size
    <2>1. at + p \in 1 .. Len(b)
      BY <1>5, <1>6, SMTT(40)
    <2> QED BY <1>8, <2>1, SMTT(40) DEF Fronts
  <1>10. size >= 1 => payload[1].val = Value(s, 1)
    BY <1>5, <1>9, SMTT(40) DEF Value
  <1>11. size >= 2 => payload[2].val = NonceIn(s, 1)
    <2>1. size >= 2 => payload[2].val = s[at + 2].val
      BY <1>5, <1>9, SMTT(40)
    <2>2. at + 2 = Body(s, 1) + 1
      OBVIOUS
    <2> QED BY <2>1, <2>2 DEF NonceIn
  <1>12. b[3].kind = "command" /\ b[3].val = Command(s, 1)
    <2>1. s[3] = b[3]
      BY DEF Fronts
    <2> QED BY <1>4, <2>1 DEF Whole, Command
  <1> DEFINE x == HandleMessage(c, e, b[3], payload)
  <1>14. Handled(e, c, s, d, z, k, v, x, t)
    <2>1. CASE Command(s, 1) = Version
      <3>1. size = 2
        BY <1>5, <2>1 DEF Size
      <3>2. payload[2].val = NonceOf(Other(e), k) /\ payload[1].val = Value(s, 1)
        BY <1>4, <1>10, <1>11, <2>1, <3>1
      <3>3. NonceOf(Other(e), k) = Nonce(e) <=> k.self
        BY DEF NonceOf, Nonce, Other, Ends, Reads
      <3>4. /\ b[3].kind = "command" /\ b[3].val = Version /\ Len(payload) >= 2
            /\ payload[2].val = Nonce(e) <=> k.self
        BY <1>8, <1>12, <2>1, <3>1, <3>2, <3>3
      <3>5. x = IF k.self THEN [c EXCEPT !.ended = TRUE] ELSE HandleVersion(c, e, payload[1].val)
        BY <3>4 DEF HandleMessage, Version, Verack, App
      <3> HIDE DEF x
      <3>6. k.self => Handled(e, c, s, d, z, k, v, [c EXCEPT !.ended = TRUE], t)
        BY <2>1, HandleVersionOfSelf
      <3>7. ~k.self => Handled(e, c, s, d, z, k, v, HandleVersion(c, e, Value(s, 1)), t)
        BY <2>1, HandleVersionKeeps
      <3> QED BY <3>2, <3>5, <3>6, <3>7
    <2>2. CASE Command(s, 1) = Verack
      <3>1. x = HandleVerack(c)
        BY <1>12, <2>2 DEF HandleMessage, Version, Verack, App
      <3>2. Handled(e, c, s, d, z, k, v, HandleVerack(c), t)
        BY <2>2, HandleVerackKeeps
      <3> QED BY <3>1, <3>2
    <2>3. CASE Command(s, 1) = App
      <3>1. size = 1
        BY <1>5, <2>3 DEF Size, App, Version
      <3>2. /\ b[3].kind = "command" /\ b[3].val = App /\ Len(payload) >= 1
            /\ payload[1].val = Value(s, 1)
        BY <1>8, <1>10, <1>12, <2>3, <3>1
      <3>3. x = Delivers(c, Value(s, 1))
        BY <3>2 DEF HandleMessage, Version, Verack, App, Delivers
      <3> HIDE DEF x
      <3>4. Handled(e, c, s, d, z, k, v, Delivers(c, Value(s, 1)), t)
        BY <2>3, HandleAppKeeps
      <3> QED BY <3>3, <3>4
    <2> QED BY <1>4, <2>1, <2>2, <2>3
  <1> QED BY <1>14 DEF payload, Handling

(* Only the buffers change, or the reading fails.                            *)
LEMMA BothDepends ==
  ASSUME NEW e \in Ends, NEW c, NEW d, NEW k, NEW v, NEW x, NEW t, NEW z,
         Own(e, c, d, k, v), Own(Other(e), d, c, k, v), ~d.thrown => Flow(Other(e), z, d, c, k),
         ~x.thrown => Flow(e, t, c, d, k), x.thrown => ~k.clean,
         x.sendVer = c.sendVer, x.recvVer = c.recvVer, x.heard = c.heard, x.active = c.active,
         x.onVerack = c.onVerack, x.ended = c.ended, x.got = c.got
  PROVE  Both(e, x, t, d, z, k, v)
  <1>1. ~d.thrown => Flow(Other(e), z, d, x, k)
    BY FlowDepends
  <1>2. ~x.thrown => Flow(e, t, x, d, k)
    BY FlowDepends
  <1>3. Own(e, x, d, k, v)
    BY DEF Own
  <1>4. Own(Other(e), d, x, k, v)
    BY DEF Own, Announced
  <1> QED BY <1>1, <1>2, <1>3, <1>4 DEF Both

(* x may be what an end that reads becomes, when r is on its way to it and y *)
(* was to the other.                                                         *)
Good(e, x, r, d, y, k, v) ==
  x \in Connections /\ Both(e, x, x.buffers \o r, d, y \o x.out, k, v)

Here(k) == k \in Worlds /\ k.opened /\ k.self = self /\ k.version = version
Holding(c, b) == [c EXCEPT !.buffers = b]

LEMMA HoldingKeeps ==
  ASSUME NEW e \in Ends, NEW c \in Connections, NEW d, NEW k, NEW v, NEW r, NEW y,
         NEW s, NEW z, Both(e, c, s, d, z, k, v), z = y \o c.out,
         NEW b \in Seq(Tokens), ~c.thrown => Flow(e, b \o r, c, d, k)
  PROVE  Good(e, Holding(c, b), r, d, y, k, v)
  <1> DEFINE x == Holding(c, b)
  <1>1. /\ x \in Connections /\ x.buffers = b /\ x.thrown = c.thrown /\ x.out = c.out
        /\ x.sendVer = c.sendVer /\ x.recvVer = c.recvVer /\ x.heard = c.heard
        /\ x.active = c.active /\ x.onVerack = c.onVerack /\ x.ended = c.ended /\ x.got = c.got
    BY DEF Holding, Connections
  <1> HIDE DEF x
  <1>2. /\ Own(e, c, d, k, v) /\ Own(Other(e), d, c, k, v) /\ (c.thrown => ~k.clean)
        /\ ~d.thrown => Flow(Other(e), z, d, c, k)
    BY DEF Both, Own
  <1>3. Both(e, x, b \o r, d, z, k, v)
    BY <1>1, <1>2, BothDepends
  <1>4. Good(e, x, r, d, y, k, v)
    BY <1>1, <1>3 DEF Good
  <1> QED BY <1>4 DEF x

LEMMA ThrowsKeeps ==
  ASSUME NEW e \in Ends, NEW c, NEW d, NEW k, NEW v, NEW r, NEW y,
         Good(e, c, r, d, y, k, v), ~k.clean
  PROVE  Good(e, Throws(c), r, d, y, k, v)
  <1> DEFINE x == Throws(c)
  <1>1. c \in Connections
    BY DEF Good
  <1>2. /\ x \in Connections /\ x.buffers = c.buffers /\ x.thrown = TRUE /\ x.out = c.out
        /\ x.sendVer = c.sendVer /\ x.recvVer = c.recvVer /\ x.heard = c.heard
        /\ x.active = c.active /\ x.onVerack = c.onVerack /\ x.ended = c.ended /\ x.got = c.got
    BY <1>1 DEF Throws, Connections
  <1> HIDE DEF x
  <1>3. PICK s, z : s = c.buffers \o r /\ z = y \o c.out
    OBVIOUS
  <1>4. /\ Own(e, c, d, k, v) /\ Own(Other(e), d, c, k, v)
        /\ ~d.thrown => Flow(Other(e), z, d, c, k)
    BY <1>3 DEF Good, Both
  <1>5. Both(e, x, s, d, z, k, v)
    BY <1>2, <1>4, BothDepends
  <1>6. Good(e, x, r, d, y, k, v)
    BY <1>2, <1>3, <1>5 DEF Good
  <1> QED BY <1>6 DEF x

LEMMA HandledKeeps ==
  ASSUME NEW e \in Ends, NEW c \in Connections, NEW d, NEW k, NEW v, NEW r, NEW y \in Seq(Tokens),
         NEW s, NEW z, z = y \o c.out, ~c.thrown,
         NEW h, NEW t, Handled(e, c, s, d, z, k, v, h, t), NEW b \in Seq(Tokens), t = b \o r
  PROVE  Good(e, Holding(h, b), r, d, y, k, v)
  <1>1. PICK w \in Seq(Tokens) : h.out = c.out \o w /\ Both(e, h, t, d, z \o w, k, v)
    BY DEF Handled
  <1>2. h \in Connections /\ ~h.thrown
    BY DEF Handled
  <1>3. z \o w = y \o h.out
    <2>1. PICK o \in Seq(Tokens) : o = c.out
      BY DEF Connections
    <2>2. Regroups(y, o, w)
      BY <1>1, Regroup
    <2> QED BY <1>1, <2>1, <2>2 DEF Regroups
  <1>4. PICK u : u = z \o w
    OBVIOUS
  <1>5. Both(e, h, t, d, u, k, v) /\ u = y \o h.out
    BY <1>1, <1>3, <1>4
  <1>6. Flow(e, b \o r, h, d, k)
    BY <1>1, <1>2 DEF Both
  <1> QED BY <1>2, <1>5, <1>6, HoldingKeeps

LEMMA FrontsJoin ==
  ASSUME NEW b \in Seq(Tokens), NEW r \in Seq(Tokens)
  PROVE  b \o r \in Seq(Tokens) /\ Fronts(b \o r, b)
  BY Concat DEF Fronts

(* A message in the buffers, and what is read of it.                         *)
LEMMA ReadMessageKeeps ==
  ASSUME NEW e \in Ends, NEW c, NEW d \in Connections, NEW k, Here(k), NEW v \in {0, 209},
         NEW r \in Seq(Tokens), NEW y \in Seq(Tokens), Good(e, c, r, d, y, k, v), ~c.thrown,
         NEW b \in Seq(Tokens), Len(b) >= Header, MagicAt(b, 1), Flow(e, b \o r, c, d, k)
  PROVE  Good(e, ReadMessage(c, e, b), r, d, y, k, v)
  <1>1. c \in Connections /\ k \in Worlds
    BY DEF Good, Here
  <1>2. PICK s \in Seq(Tokens) : s = b \o r /\ Fronts(s, b)
    BY FrontsJoin
  <1>3. PICK z \in Seq(Tokens) : z = y \o c.out
    <2>1. c.out \in Seq(Tokens)
      BY <1>1 DEF Connections
    <2> QED BY <2>1, Concat
  <1>4. Len(b) \in Nat /\ 1 \in DOMAIN b /\ 4 \in 1 .. Len(b)
    BY DEF Header
  <1>5. Begins(s, 1) /\ Flow(e, s, c, d, k)
    BY <1>2, <1>4, MagicBegins
  <1>6. Both(e, c, s, d, z, k, v)
    BY <1>3, <1>5 DEF Good, Both
  <1>7. Reads(e, c, s, d, z, k, v)
    BY <1>5, <1>6 DEF Reads, Here
  <1>8. s \in Seq(Tokens) /\ Whole(s, 1) /\ (Summed(s, 1) <=> HasChecksum(c.recvVer))
    <2>1. First(e, s, c, d, k)
      BY <1>1, <1>5, FirstMessage
    <2> QED BY <2>1 DEF First
  <1>9. PICK at \in 4 .. 5 : at = (IF HasChecksum(c.recvVer) THEN 5 ELSE 4) /\ Body(s, 1) = at + 1
    BY <1>8 DEF Body
  <1>10. PICK size \in 0 .. 2 : size = b[4].val /\ size = s[1 + 3].val
    <2>1. s[4] = b[4]
      BY <1>2, <1>4 DEF Fronts
    <2>2. s[1 + 3].val = Size(Command(s, 1))
      BY <1>8 DEF Whole
    <2> QED BY <2>1, <2>2 DEF Size
  <1>11. PICK end \in 4 .. 7 : end = at + size /\ After(s, 1) = end + 1
    <2>1. After(s, 1) = at + 1 + size
      BY <1>9, <1>10 DEF After
    <2>2. at + size \in 4 .. 7 /\ at + 1 + size = at + size + 1
      BY <1>9, <1>10, SMTT(40)
    <2> QED BY <2>1, <2>2
  <1> DEFINE sum == SubSeq(b, at + 1, end)
             kept == Len(b) < end \/ (HasChecksum(c.recvVer) /\ b[5].val # Hash(sum))
  <1>12. ReadMessage(c, e, b) = IF kept THEN Holding(c, b) ELSE Message(c, e, b, at, end)
    <2>1. at = IF HasChecksum(c.recvVer) THEN Header + 1 ELSE Header
      BY <1>9 DEF Header
    <2>2. end = at + b[4].val
      BY <1>10, <1>11
    <2> QED BY <2>1, <2>2 DEF ReadMessage, Holding
  <1>13. CASE kept
    <2>1. ReadMessage(c, e, b) = Holding(c, b)
      BY <1>12, <1>13
    <2>2. Good(e, Holding(c, b), r, d, y, k, v)
      BY <1>1, <1>3, <1>6, HoldingKeeps
    <2> QED BY <2>1, <2>2
  <1>14. CASE ~kept
    <2> DEFINE h == Handling(c, e, b, at, end)
    <2>1. ReadMessage(c, e, b) = Holding(h, Drop(b, end))
      BY <1>12, <1>14 DEF Message, Holding, Handling
    <2>2. end \in 4 .. Len(b) /\ end \in 0 .. Len(b) /\ end \in 0 .. Len(s)
      BY <1>2, <1>4, <1>14 DEF Fronts
    <2> HIDE DEF kept
    <2>3. PICK t \in Seq(Tokens) : t = Drop(s, end) /\ t = Drop(b, end) \o r
      BY <1>2, <2>2, DropJoin, DropType, ZenonT(40)
    <2>4. Moved(s, t, end)
      <3>1. Framed(s)
        BY <1>5 DEF Flow
      <3> QED BY <1>8, <2>2, <2>3, <3>1, DropMoves
    <2>5. After(s, 1) - 1 = end
      BY <1>11
    <2>6. Handled(e, c, s, d, z, k, v, h, t)
      <3>1. /\ c \in Connections /\ k \in Worlds /\ s \in Seq(Tokens) /\ z \in Seq(Tokens)
            /\ Reads(e, c, s, d, z, k, v) /\ Fronts(s, b)
            /\ at \in 4 .. 5 /\ Body(s, 1) = at + 1
            /\ end \in 4 .. Len(b) /\ After(s, 1) = end + 1
            /\ Moved(s, t, After(s, 1) - 1)
        BY <1>1, <1>2, <1>3, <1>7, <1>8, <1>9, <1>11, <2>2, <2>4, <2>5
      <3> QED BY <3>1, HandleMessageKeeps, SMTT(40)
    <2> HIDE DEF h
    <2>7. PICK g \in Seq(Tokens) : g = Drop(b, end)
      BY <2>2, DropType
    <2>8. c \in Connections /\ z = y \o c.out /\ g \in Seq(Tokens) /\ t = g \o r
      BY <1>1, <1>3, <2>3, <2>7
    <2>9. Good(e, Holding(h, g), r, d, y, k, v)
      BY <2>6, <2>8, HandledKeeps
    <2> QED BY <2>1, <2>7, <2>9
  <1> QED BY <1>13, <1>14

(* What is skipped before the magic number holds no message.                 *)
LEMMA SkipToMagic ==
  ASSUME NEW e \in Ends, NEW c \in Connections, NEW d, NEW k \in Worlds, ~k.clean,
         NEW b \in Seq(Tokens), NEW r \in Seq(Tokens), Flow(e, b \o r, c, d, k),
         NEW n \in 0 .. Len(b) - 1, \A i \in 1 .. n : ~MagicAt(b, i)
  PROVE  Flow(e, Drop(b, n) \o r, c, d, k)
  <1>1. PICK s \in Seq(Tokens) : s = b \o r /\ Len(b) <= Len(s)
    BY FrontsJoin DEF Fronts
  <1>2. Flow(e, s, c, d, k) /\ Framed(s)
    BY <1>1 DEF Flow
  <1>3. n \in 0 .. Len(b) /\ n \in 0 .. Len(s)
    BY <1>1
  <1>4. ASSUME NEW i \in 1 .. n
        PROVE  ~Begins(s, i)
    <2>1. i \in 1 .. Len(b) - 1
      OBVIOUS
    <2>2. Framed(b \o r)
      BY <1>1, <1>2
    <2>3. Begins(b \o r, i) => MagicAt(b, i)
      BY <2>1, <2>2, BeginIsMagic
    <2> QED BY <1>1, <2>3
  <1>5. PICK t : t = Drop(s, n) /\ t = Drop(b, n) \o r
    BY <1>1, <1>3, DropJoin
  <1>6. Moved(s, t, n)
    BY <1>1, <1>2, <1>3, <1>5, DropMoves
  <1>7. Flow(e, t, c, d, k)
    BY <1>1, <1>2, <1>3, <1>4, <1>6, FlowSkip
  <1> QED BY <1>5, <1>7

LEMMA DropNothing ==
  ASSUME NEW b \in Seq(Tokens)
  PROVE  Drop(b, 0) = b
  <1>1. PICK a \in Seq(Tokens) : a = Drop(b, 0) /\ Len(a) = Len(b) /\ \A p \in 1 .. Len(b) : a[p] = b[p]
    BY DropType
  <1>2. a = b
    BY <1>1, SeqEqual
  <1> QED BY <1>1, <1>2

(* Without garbage the buffers begin with a message.                         *)
LEMMA CleanBegins ==
  ASSUME NEW e, NEW c, NEW d, NEW k, k.clean,
         NEW b \in Seq(Tokens), NEW r \in Seq(Tokens), Flow(e, b \o r, c, d, k), Len(b) >= Header
  PROVE  MagicAt(b, 1)
  <1>1. PICK s \in Seq(Tokens) : s = b \o r /\ Len(b) <= Len(s)
    BY FrontsJoin DEF Fronts
  <1>2. Len(b) \in Nat /\ Len(b) >= 4 /\ s # <<>>
    BY <1>1 DEF Header
  <1>3. Begins(s, 1) /\ Framed(s)
    BY <1>1, <1>2 DEF Flow, Tight
  <1>4. 1 \in 1 .. Len(b) - 1 /\ Framed(b \o r) /\ Begins(b \o r, 1)
    BY <1>1, <1>2, <1>3
  <1> QED BY <1>4, BeginIsMagic

(* A round keeps what is known of both ends.                                 *)
LEMMA RoundKeeps ==
  ASSUME NEW e \in Ends, NEW c, NEW d \in Connections, NEW k, Here(k), NEW v \in {0, 209},
         NEW r \in Seq(Tokens), NEW y \in Seq(Tokens), Good(e, c, r, d, y, k, v)
  PROVE  Good(e, Round(c, e), r, d, y, k, v)
  <1>1. c \in Connections /\ k \in Worlds
    BY DEF Good, Here
  <1>2. PICK b \in Seq(Tokens) : b = c.buffers
    BY <1>1 DEF Connections
  <1> DEFINE found == \E i \in DOMAIN b : MagicAt(b, i)
             rest == IF found THEN Drop(b, FirstMagic(b) - 1) ELSE b
  <1>3. Round(c, e) =
          IF c.thrown \/ Len(b) < Header THEN c
          ELSE IF CutMagic(b) THEN Throws(c)
          ELSE IF ~found THEN Holding(c, Drop(b, Len(b) - 1))
          ELSE IF Len(rest) < Header THEN Throws(Holding(c, rest))
          ELSE ReadMessage(c, e, rest)
    BY <1>2 DEF Round, Holding
  <1> HIDE DEF found, rest
  <1>4. CASE c.thrown \/ Len(b) < Header
    BY <1>3, <1>4
  <1>5. CASE ~(c.thrown \/ Len(b) < Header)
    <2>1. ~c.thrown /\ Len(b) \in Nat /\ Len(b) >= Header /\ Len(b) >= 4
      BY <1>5 DEF Header
    <2>2. Flow(e, b \o r, c, d, k)
      BY <1>2, <2>1 DEF Good, Both
    <2>3. k.clean => MagicAt(b, 1)
      BY <2>1, <2>2, CleanBegins
    <2>4. PICK s, z : s = b \o r /\ z = y \o c.out /\ Both(e, c, s, d, z, k, v)
      BY <1>2 DEF Good
    <2>5. ASSUME NEW g \in Seq(Tokens), Flow(e, g \o r, c, d, k)
          PROVE  Good(e, Holding(c, g), r, d, y, k, v)
      BY <1>1, <2>4, <2>5, HoldingKeeps
    <2>6. 1 \in DOMAIN b
      BY <2>1
    <2>7. CASE ~found
      <3>1. ~k.clean /\ \A i \in DOMAIN b : ~MagicAt(b, i)
        BY <2>3, <2>6, <2>7 DEF found
      <3>2. PICK n \in 0 .. Len(b) - 1 : n = Len(b) - 1
        <4>1. Len(b) - 1 \in 0 .. Len(b) - 1
          BY <2>1
        <4> QED BY <4>1
      <3>3. \A i \in 1 .. n : ~MagicAt(b, i)
        BY <2>1, <3>1, <3>2, SMTT(40)
      <3>4. Flow(e, Drop(b, n) \o r, c, d, k)
        BY <1>1, <2>2, <3>1, <3>3, SkipToMagic
      <3>5. Drop(b, n) \in Seq(Tokens)
        BY <2>1, <3>2, DropType
      <3>6. Good(e, Holding(c, Drop(b, n)), r, d, y, k, v)
        BY <2>5, <3>4, <3>5
      <3>7. Good(e, Throws(c), r, d, y, k, v)
        BY <3>1, ThrowsKeeps
      <3> QED BY <1>3, <1>5, <2>7, <3>2, <3>6, <3>7
    <2>8. CASE found
      <3>1. ~CutMagic(b)
        BY <2>8 DEF found, CutMagic
      <3>2. PICK n \in 0 .. Len(b) - 1 : n = FirstMagic(b) - 1 /\ MagicAt(b, n + 1)
                                         /\ \A j \in 1 .. n : ~MagicAt(b, j)
        <4>1. PICK i \in 1 .. Len(b) : /\ i = FirstMagic(b) /\ MagicAt(b, i)
                                       /\ \A j \in 1 .. i - 1 : ~MagicAt(b, j)
          BY <2>8, FirstMagicFound DEF found
        <4>2. i - 1 \in 0 .. Len(b) - 1 /\ (i - 1) + 1 = i
          BY <2>1
        <4> QED BY <4>1, <4>2
      <3>3. PICK g \in Seq(Tokens) : /\ g = Drop(b, n) /\ Len(g) = Len(b) - n
                                     /\ \A p \in 1 .. Len(b) - n : g[p] = b[n + p]
        <4>1. n \in 0 .. Len(b)
          BY <2>1, <3>2
        <4>2. /\ Drop(b, n) \in Seq(Tokens) /\ Len(Drop(b, n)) = Len(b) - n
              /\ \A p \in 1 .. Len(b) - n : Drop(b, n)[p] = b[n + p]
          BY <4>1, DropType
        <4> QED BY <4>2
      <3>4. rest = g
        BY <2>8, <3>2, <3>3 DEF rest
      <3>5. k.clean => n = 0
        <4>1. k.clean /\ n # 0 => 1 \in 1 .. n
          OBVIOUS
        <4> QED BY <2>3, <3>2, <4>1
      <3>6. n = 0 => g = b
        BY <3>3, DropNothing
      <3>7. Flow(e, g \o r, c, d, k)
        <4>1. CASE k.clean
          BY <2>2, <3>5, <3>6, <4>1
        <4>2. CASE ~k.clean
          <5>1. Flow(e, Drop(b, n) \o r, c, d, k)
            BY <1>1, <2>2, <3>2, <4>2, SkipToMagic
          <5> QED BY <3>3, <5>1
        <4> QED BY <4>1, <4>2
      <3>8. MagicAt(g, 1)
        <4>1. n + 1 < Len(b) /\ b[n + 1].kind = "magic1" /\ b[n + 1 + 1].kind = "magic2"
          BY <3>2 DEF MagicAt
        <4>2. 1 \in 1 .. Len(b) - n /\ 2 \in 1 .. Len(b) - n /\ n + 1 + 1 = n + 2
          BY <2>1, <4>1
        <4> QED BY <2>1, <3>3, <4>1, <4>2 DEF MagicAt
      <3>9. CASE Len(g) < Header
        <4>1. ~k.clean
          BY <2>1, <3>5, <3>6, <3>9 DEF Header
        <4>2. Good(e, Holding(c, g), r, d, y, k, v)
          BY <2>5, <3>7
        <4>3. PICK h : h = Holding(c, g)
          OBVIOUS
        <4>4. Good(e, Throws(h), r, d, y, k, v)
          BY <4>1, <4>2, <4>3, ThrowsKeeps
        <4> QED BY <1>3, <1>5, <2>8, <3>1, <3>4, <3>9, <4>3, <4>4
      <3>10. CASE ~(Len(g) < Header)
        <4>1. /\ g \in Seq(Tokens) /\ Len(g) >= Header /\ MagicAt(g, 1) /\ ~c.thrown
              /\ Flow(e, g \o r, c, d, k)
          BY <2>1, <3>2, <3>3, <3>7, <3>8, <3>10 DEF Header
        <4>2. Good(e, ReadMessage(c, e, g), r, d, y, k, v)
          BY <4>1, ReadMessageKeeps
        <4> QED BY <1>3, <1>5, <2>8, <3>1, <3>4, <3>10, <4>2
      <3> QED BY <3>9, <3>10
    <2> QED BY <2>7, <2>8
  <1> QED BY <1>4, <1>5

Rounds(X, e) == {Round(x, e) : x \in X}
IsRounds(f, c, e, n) == f = [i \in 0 .. n |-> IF i = 0 THEN {c} ELSE Rounds(f[i - 1], e)]

LEMMA RoundsFollow ==
  ASSUME NEW n \in Nat, NEW c, NEW e, NEW f, IsRounds(f, c, e, n)
  PROVE  f[0] = {c} /\ \A i \in 1 .. n : f[i] = Rounds(f[i - 1], e)
  <1>1. \A i \in 0 .. n : f[i] = IF i = 0 THEN {c} ELSE Rounds(f[i - 1], e)
    BY DEF IsRounds
  <1>2. 0 \in 0 .. n /\ \A i \in 1 .. n : i \in 0 .. n /\ i # 0
    OBVIOUS
  <1> QED BY <1>1, <1>2

LEMMA RoundsStay ==
  ASSUME NEW n \in Nat, NEW c, NEW e, NEW f, IsRounds(f, c, e, n),
         NEW S, {c} \in S, \A X \in S : Rounds(X, e) \in S
  PROVE  \A i \in 0 .. n : f[i] \in S
  <1>1. f[0] \in S
    BY RoundsFollow
  <1>2. ASSUME NEW i \in 1 .. n, f[i - 1] \in S
        PROVE  f[i] \in S
    <2>1. f[i] = Rounds(f[i - 1], e)
      BY RoundsFollow
    <2> QED BY <1>2, <2>1
  <1> QED BY <1>1, <1>2, LoopKeeps

LEMMA ProcessDataKeeps ==
  ASSUME NEW e \in Ends, NEW c, NEW d \in Connections, NEW k, Here(k), NEW v \in {0, 209},
         NEW r \in Seq(Tokens), NEW y \in Seq(Tokens), Good(e, c, r, d, y, k, v),
         NEW x \in ProcessData(c, e)
  PROVE  Good(e, x, r, d, y, k, v)
  <1> DEFINE T == {u \in Connections : Good(e, u, r, d, y, k, v)}
             S == SUBSET T
             N == Len(c.buffers)
             round == [i \in 1 .. N |-> [X \in S |-> Rounds(X, e)]]
             left == CHOOSE f : IsRounds(f, c, e, N)
  <1>1. N \in Nat
    BY DEF Good, Connections
  <1>2. ASSUME NEW u \in T
        PROVE  Round(u, e) \in T
    <2>1. Good(e, Round(u, e), r, d, y, k, v)
      BY RoundKeeps
    <2> QED BY <2>1 DEF Good
  <1>3. \A X \in S : Rounds(X, e) \in S
    BY <1>2 DEF Rounds
  <1>4. {c} \in S
    BY DEF Good
  <1>13. ProcessData(c, e) = left[N]
    BY DEF ProcessData, left, IsRounds, Rounds
  <1> HIDE DEF S, N, left
  <1>5. round \in [1 .. N -> [S -> S]]
    BY <1>3
  <1>6. \A n \in 1 .. N : \A X \in S : round[n][X] = Rounds(X, e)
    OBVIOUS
  <1> HIDE DEF round
  <1>7. PICK f \in [0 .. N -> S] : Loops(f, N, {c}, round)
    BY <1>1, <1>4, <1>5, LoopRuns
  <1>8. IsRounds(f, c, e, N)
    <2>1. \A n \in 0 .. N : n # 0 => n \in 1 .. N /\ f[n - 1] \in S
      <3>1. \A n \in 0 .. N : n # 0 => n \in 1 .. N /\ n - 1 \in 0 .. N
        BY <1>1
      <3> QED BY <1>7, <3>1
    <2>2. f[0] = {c} /\ \A n \in 1 .. N : f[n] = round[n][f[n - 1]]
      BY <1>1, <1>7, LoopSteps, SMTT(40)
    <2>3. \A n \in 0 .. N : f[n] = IF n = 0 THEN {c} ELSE Rounds(f[n - 1], e)
      BY <1>6, <2>1, <2>2
    <2>4. f = [n \in 0 .. N |-> f[n]]
      BY <1>7
    <2> QED BY <2>3, <2>4 DEF IsRounds
  <1>9. IsRounds(left, c, e, N)
    BY <1>8 DEF left
  <1>11. \A n \in 0 .. N : left[n] \in S
    BY <1>1, <1>3, <1>4, <1>9, RoundsStay
  <1>12. left[N] \in S
    BY <1>1, <1>11
  <1>14. x \in T
    BY <1>12, <1>13 DEF S
  <1> QED BY <1>14
-----------------------------------------------------------------------------
(* The world goes on.                                                        *)

Later(k, k2) ==
  /\ k2.version = k.version /\ k2.self = k.self
  /\ k.opened => k2.opened
  /\ k2.clean => k.clean

LEMMA FlowLater ==
  ASSUME NEW e, NEW s, NEW c, NEW d, NEW k, NEW k2, Flow(e, s, c, d, k), Later(k, k2),
         k2.sent[Other(e)] = k.sent[Other(e)]
  PROVE  Flow(e, s, c, d, k2)
  <1>1. NonceOf(Other(e), k2) = NonceOf(Other(e), k)
    BY DEF NonceOf, Later
  <1>2. Announced(Other(e), d, k) => Announced(Other(e), d, k2)
    BY DEF Announced, Later
  <1> QED BY <1>1, <1>2 DEF Flow, Later

LEMMA OwnLater ==
  ASSUME NEW e \in Ends, NEW c \in Connections, NEW d, NEW k \in Worlds, NEW k2 \in Worlds, NEW v,
         Own(e, c, d, k, v), Later(k, k2), k.sent[Other(e)] <= k2.sent[Other(e)]
  PROVE  Own(e, c, d, k2, v)
  <1>1. Announced(Other(e), d, k) => Announced(Other(e), d, k2)
    BY DEF Announced, Later
  <1>2. Len(c.got) \in Nat /\ k.sent[Other(e)] \in Nat /\ k2.sent[Other(e)] \in Nat
    BY FlowTypes
  <1>3. Len(c.got) <= k.sent[Other(e)]
    BY DEF Own
  <1>4. Len(c.got) <= k2.sent[Other(e)]
    BY <1>2, <1>3
  <1> QED BY <1>1, <1>4 DEF Own, Later

LEMMA BothTurns ==
  ASSUME NEW e \in Ends, NEW c, NEW s, NEW d, NEW z, NEW k, NEW v, Both(e, c, s, d, z, k, v)
  PROVE  Both(Other(e), d, z, c, s, k, v)
  BY OtherEnd DEF Both

(* An end writes m and does nothing else.                                    *)
Sends(e, c, d, z, k, k2, m, command, payload) ==
  /\ Later(k, k2) /\ k2.clean = k.clean /\ k2.sent[Other(e)] = k.sent[Other(e)]
  /\ k.sent[e] <= k2.sent[e]
  /\ Packet(m, command, c.sendVer, payload)
  /\ ~d.thrown => Adds(Other(e), z, d, c, k, c, k2, command, payload)

LEMMA SendKeeps ==
  ASSUME NEW e \in Ends, NEW c \in Connections, NEW d \in Connections, NEW k \in Worlds,
         NEW k2 \in Worlds, NEW v, NEW s, NEW z \in Seq(Tokens), Both(e, c, s, d, z, k, v),
         NEW m \in Seq(Tokens), NEW payload, NEW command,
         Sends(e, c, d, z, k, k2, m, command, payload)
  PROVE  Both(e, c, s, d, z \o m, k2, v)
  <1>1. Other(e) \in Ends /\ Other(Other(e)) = e
    BY OtherEnd
  <1>2. Own(e, c, d, k2, v)
    <2>1. k.sent[Other(e)] \in Nat
      BY FlowTypes
    <2>2. Own(e, c, d, k, v) /\ k.sent[Other(e)] <= k2.sent[Other(e)]
      BY <2>1 DEF Both, Sends
    <2> QED BY <2>2, OwnLater DEF Sends
  <1>3. Own(Other(e), d, c, k2, v)
    <2>1. Own(Other(e), d, c, k, v) /\ k.sent[Other(Other(e))] <= k2.sent[Other(Other(e))]
      BY <1>1 DEF Both, Sends
    <2> QED BY <1>1, <2>1, OwnLater DEF Sends
  <1>4. ~c.thrown => Flow(e, s, c, d, k2)
    <2>1. ~c.thrown => Flow(e, s, c, d, k)
      BY DEF Both
    <2> QED BY <2>1, FlowLater DEF Sends
  <1>5. ~d.thrown => Flow(Other(e), z \o m, d, c, k2)
    <2>1. ~d.thrown => Flow(Other(e), z, d, c, k)
      BY DEF Both
    <2>2. k2.version = k.version /\ k2.self = k.self /\ k2.clean = k.clean /\ (k.opened => k2.opened)
      BY DEF Later, Sends
    <2>3. /\ Packet(m, command, c.sendVer, payload)
          /\ ~d.thrown => Adds(Other(e), z, d, c, k, c, k2, command, payload)
      BY DEF Sends
    <2> QED BY <1>1, <2>1, <2>2, <2>3, FlowAdd
  <1> QED BY <1>2, <1>3, <1>4, <1>5 DEF Both

(* Garbage is no message.                                                    *)
LEMMA FlowGarbage ==
  ASSUME NEW e \in Ends, NEW c \in Connections, NEW d, NEW k \in Worlds, NEW k2 \in Worlds,
         Later(k, k2), k2.sent = k.sent, ~k2.clean, NEW s \in Seq(Tokens), Flow(e, s, c, d, k)
  PROVE  Flow(e, Append(s, Token("junk", 0)), c, d, k2)
  <1>0. PICK junk \in Tokens : junk = Token("junk", 0)
    BY DEF Token, Tokens, Kinds
  <1>1. PICK m \in Seq(Tokens) : m = <<junk>>
    <2>1. <<junk>> \in Seq(Tokens)
      BY <1>0
    <2> QED BY <2>1
  <1>2. m # <<>> /\ m[1].kind = "junk" /\ DOMAIN m = 1 .. 1
    BY <1>0, <1>1 DEF Token
  <1>3. \A i \in DOMAIN m : ~Begins(m, i)
    BY <1>2 DEF Begins
  <1>4. Framed(m) /\ Framed(s)
    BY <1>3 DEF Framed, Flow
  <1>5. PICK t : t = s \o m /\ t = Append(s, Token("junk", 0))
    <2>1. Append(s, junk) = s \o <<junk>>
      BY <1>0, AppendIsConcat
    <2> QED BY <1>0, <1>1, <2>1
  <1>6. Joined(s, m, t)
    BY <1>2, <1>4, <1>5, JoinKeeps
  <1>7. \A cmd : ~Is(m, 1, cmd)
    BY <1>2, <1>3 DEF Is
  <1>8. \A i \in DOMAIN m : Begins(m, i) => i = 1
    BY <1>3
  <1>9. ~Begins(m, 1)
    BY <1>2, <1>3
  <1>10. Flow(e, s, c, d, k2)
    BY FlowLater
  <1>11. PICK a \in Nat, b \in Nat : a = Len(c.got) /\ b = k2.sent[Other(e)]
    BY FlowTypes
  <1>12. PICK ver, nonce : ver = k2.version[Other(e)] /\ nonce = NonceOf(Other(e), k2)
    OBVIOUS
  <1>13. /\ Framed(t)
         /\ \A cmd \in {Version, Verack} :
              /\ Has(t, cmd) <=> Has(s, cmd) \/ Is(m, 1, cmd)
              /\ Once(s, cmd) /\ ~(Has(s, cmd) /\ Is(m, 1, cmd)) => Once(t, cmd)
         /\ VersionFirst(s) /\ (Is(m, 1, Verack) => Has(s, Version)) => VersionFirst(t)
         /\ Numbers(s, a, b) /\ ~Is(m, 1, App) => Numbers(t, a, b)
    BY <1>2, <1>4, <1>6, <1>8, AddKeeps
  <1>14. /\ Greets(s, ver, nonce)
         /\ Is(m, 1, Version) => Value(m, 1) = ver /\ NonceIn(m, 1) = nonce
         => Greets(t, ver, nonce)
    BY <1>2, <1>4, <1>6, <1>8, <1>11, AddKeeps
  <1>15. /\ SumsFrom(s, c.recvVer)
         /\ Begins(m, 1) => (Summed(m, 1) <=> HasChecksum(c.recvVer) \/ Has(s, Verack))
         => SumsFrom(t, c.recvVer)
    BY <1>2, <1>4, <1>6, <1>8, <1>11, AddKeeps
  <1>16. Flow(e, t, c, d, k2)
    BY <1>7, <1>9, <1>10, <1>11, <1>12, <1>13, <1>14, <1>15 DEF Flow
  <1> QED BY <1>5, <1>16
-----------------------------------------------------------------------------
(* The inductive invariant: the two ends, each with what was sent to it and  *)
(* not handled yet, agree, and have started from the same version.           *)

World == [sent |-> sent, version |-> version, self |-> self, opened |-> opened,
          clean |-> garbage = 0]

Pending(e) == conn[e].buffers \o stream[e]

WireTypes ==
  /\ conn \in [Ends -> Connections] /\ \A e \in Ends : conn[e].out = <<>>
  /\ stream \in [Ends -> Seq(Tokens)]
  /\ sent \in [Ends -> Nat] /\ version \in [Ends -> Versions]
  /\ self \in BOOLEAN /\ opened \in BOOLEAN /\ garbage \in 0 .. MaxGarbage

Agree(e, v) == Both(e, conn[e], Pending(e), conn[Other(e)], Pending(Other(e)), World, v)
WireInv == WireTypes /\ \E v \in {0, 209} : \A e \in Ends : Agree(e, v)

LEMMA WorldType ==
  ASSUME WireTypes
  PROVE  /\ World \in Worlds /\ World.sent = sent /\ World.version = version /\ World.self = self
         /\ World.opened = opened /\ (World.clean <=> garbage = 0)
  BY DEF WireTypes, World, Worlds

LEMMA PendingType ==
  ASSUME WireTypes, NEW e \in Ends
  PROVE  /\ Pending(e) \in Seq(Tokens) /\ conn[e] \in Connections
         /\ conn[e].buffers \in Seq(Tokens) /\ stream[e] \in Seq(Tokens) /\ conn[e].out = <<>>
  <1>1. conn[e] \in Connections /\ stream[e] \in Seq(Tokens) /\ conn[e].out = <<>>
    BY DEF WireTypes
  <1>2. conn[e].buffers \in Seq(Tokens)
    BY <1>1 DEF Connections
  <1>3. Pending(e) \in Seq(Tokens)
    BY <1>1, <1>2, Concat DEF Pending
  <1> QED BY <1>1, <1>2, <1>3

LEMMA EmptyFlow ==
  ASSUME NEW e \in Ends, NEW c, NEW d, NEW k, c.heard = 0, c.recvVer = d.sendVer,
         c.got = <<>>, k.sent[Other(e)] = 0
  PROVE  Flow(e, <<>>, c, d, k)
  <1> DEFINE s == <<>>
  <1>1. s = <<>> /\ DOMAIN s = {}
    OBVIOUS
  <1>2. Len(c.got) = 0
    OBVIOUS
  <1> SUFFICES Flow(e, s, c, d, k)
    OBVIOUS
  <1> HIDE DEF s
  <1>3. \A command : ~Has(s, command)
    BY <1>1 DEF Has
  <1>4. Framed(s) /\ Tight(s) /\ VersionFirst(s) /\ SumsFrom(s, c.recvVer)
    BY <1>1 DEF Framed, Tight, VersionFirst, SumsFrom
  <1>5. Once(s, Version) /\ Once(s, Verack)
    BY <1>1 DEF Once
  <1>6. Greets(s, k.version[Other(e)], NonceOf(Other(e), k))
    BY <1>1 DEF Greets
  <1>7. Numbers(s, 0, 0)
    BY <1>1 DEF Numbers
  <1> QED BY <1>2, <1>3, <1>4, <1>5, <1>6, <1>7 DEF Flow

LEMMA InitWire ==
  ASSUME Init
  PROVE  WireInv
  <1>1. PICK v \in {0, 209} : conn = [e \in Ends |-> NewConnection(v)]
    BY DEF Init
  <1>2. NewConnection(v) \in Connections
    BY DEF NewConnection, Connections
  <1>3. sent = [e \in Ends |-> 0] /\ stream = [e \in Ends |-> <<>>] /\ garbage = 0 /\ opened = FALSE
        /\ self \in BOOLEAN /\ version \in [Ends -> Versions]
    BY DEF Init
  <1>4. WireTypes
    <2>1. conn \in [Ends -> Connections] /\ \A e \in Ends : conn[e].out = <<>>
      BY <1>1, <1>2 DEF NewConnection
    <2>2. sent \in [Ends -> Nat] /\ stream \in [Ends -> Seq(Tokens)]
      BY <1>3
    <2>3. garbage \in 0 .. MaxGarbage
      BY <1>3, ConnectionAssumption
    <2>4. opened \in BOOLEAN /\ self \in BOOLEAN /\ version \in [Ends -> Versions]
      BY <1>3
    <2> QED BY <2>1, <2>2, <2>3, <2>4 DEF WireTypes
  <1>5. ASSUME NEW e \in Ends
        PROVE  /\ conn[e] = NewConnection(v) /\ Pending(e) = <<>> /\ World.sent[e] = 0
               /\ conn[e].heard = 0 /\ conn[e].got = <<>> /\ conn[e].recvVer = v
               /\ conn[e].sendVer = v /\ ~conn[e].active /\ ~conn[e].ended /\ ~conn[e].thrown
               /\ conn[e].onVerack = <<>>
    <2>1. conn[e] = NewConnection(v)
      BY <1>1
    <2>2. conn[e].buffers = <<>> /\ stream[e] = <<>>
      BY <1>3, <2>1 DEF NewConnection
    <2>3. Pending(e) = <<>>
      BY <2>2 DEF Pending
    <2>4. World.sent[e] = 0
      BY <1>3, <1>4, WorldType
    <2> QED BY <2>1, <2>3, <2>4 DEF NewConnection
  <1>6. ASSUME NEW e \in Ends
        PROVE  Agree(e, v)
    <2>1. Other(e) \in Ends /\ Other(Other(e)) = e
      BY OtherEnd
    <2>2. Flow(e, <<>>, conn[e], conn[Other(e)], World)
      BY <1>5, <2>1, EmptyFlow
    <2>3. Flow(Other(e), <<>>, conn[Other(e)], conn[e], World)
      BY <1>5, <2>1, EmptyFlow
    <2>4. Own(e, conn[e], conn[Other(e)], World, v)
      BY <1>5, <2>1 DEF Own
    <2>5. Own(Other(e), conn[Other(e)], conn[e], World, v)
      BY <1>5, <2>1 DEF Own
    <2>6. Pending(e) = <<>> /\ Pending(Other(e)) = <<>>
      BY <1>5, <2>1
    <2> QED BY <2>2, <2>3, <2>4, <2>5, <2>6 DEF Agree, Both
  <1> QED BY <1>1, <1>4, <1>6 DEF WireInv

(* What one end writes and the other agrees with.                            *)
LEMMA WriteTypes ==
  ASSUME NEW e \in Ends, WireTypes, NEW c \in Connections, NEW streams \in [Ends -> Seq(Tokens)],
         streams[Other(e)] = stream[Other(e)], Write(e, c, streams)
  PROVE  /\ conn' \in [Ends -> Connections] /\ \A a \in Ends : conn'[a].out = <<>>
         /\ stream' \in [Ends -> Seq(Tokens)]
         /\ conn'[e] = [c EXCEPT !.out = <<>>] /\ conn'[Other(e)] = conn[Other(e)]
         /\ stream'[e] = streams[e] /\ stream'[Other(e)] = stream[Other(e)] \o c.out
  <1> DEFINE x == [c EXCEPT !.out = <<>>]
  <1>0. <<>> \in Seq(Tokens)
    OBVIOUS
  <1>1. x \in Connections /\ x.out = <<>>
    BY <1>0 DEF Connections
  <1>2. Other(e) \in Ends /\ Other(e) # e
    BY OtherEnd
  <1>3. conn \in [Ends -> Connections] /\ \A a \in Ends : conn[a].out = <<>>
    BY DEF WireTypes
  <1>4. conn' = [conn EXCEPT ![e] = x] /\ stream' = [streams EXCEPT ![Other(e)] = @ \o c.out]
    BY DEF Write
  <1>5. PICK w \in Seq(Tokens) : w = streams[Other(e)] \o c.out
    <2>1. c.out \in Seq(Tokens) /\ streams[Other(e)] \in Seq(Tokens)
      BY <1>2 DEF Connections
    <2> QED BY <2>1, Concat
  <1> HIDE DEF x
  <1>6. conn' \in [Ends -> Connections] /\ conn'[e] = x /\ conn'[Other(e)] = conn[Other(e)]
    BY <1>1, <1>2, <1>3, <1>4
  <1>7. \A a \in Ends : conn'[a].out = <<>>
    BY <1>1, <1>3, <1>4
  <1>8. stream' = [streams EXCEPT ![Other(e)] = w]
    BY <1>4, <1>5
  <1>9. stream' \in [Ends -> Seq(Tokens)] /\ stream'[e] = streams[e] /\ stream'[Other(e)] = w
    BY <1>2, <1>5, <1>8
  <1> QED BY <1>5, <1>6, <1>7, <1>9 DEF x

(* The end e becomes c, having read its stream up to what streams leaves.    *)
Becomes(e, c, streams, v) ==
  /\ streams \in [Ends -> Seq(Tokens)] /\ streams[Other(e)] = stream[Other(e)]
  /\ Write(e, c, streams)
  /\ Good(e, c, streams[e], conn[Other(e)], Pending(Other(e)), World', v)

AgreedNext(v) ==
  /\ conn' \in [Ends -> Connections] /\ \A a \in Ends : conn'[a].out = <<>>
  /\ stream' \in [Ends -> Seq(Tokens)]
  /\ \A a \in Ends : Agree(a, v)'

LEMMA WriteKeeps ==
  ASSUME NEW e \in Ends, WireTypes, NEW c, NEW streams, NEW v, Becomes(e, c, streams, v)
  PROVE  AgreedNext(v)
  <1>1. /\ c \in Connections /\ streams \in [Ends -> Seq(Tokens)]
        /\ streams[Other(e)] = stream[Other(e)] /\ Write(e, c, streams)
        /\ Good(e, c, streams[e], conn[Other(e)], Pending(Other(e)), World', v)
    BY DEF Good, Becomes
  <1>2. /\ conn' \in [Ends -> Connections] /\ \A a \in Ends : conn'[a].out = <<>>
        /\ stream' \in [Ends -> Seq(Tokens)]
        /\ conn'[e] = [c EXCEPT !.out = <<>>] /\ conn'[Other(e)] = conn[Other(e)]
        /\ stream'[e] = streams[e] /\ stream'[Other(e)] = stream[Other(e)] \o c.out
    BY <1>1, WriteTypes
  <1>3. PICK x, k, d : x = conn'[e] /\ k = World' /\ d = conn[Other(e)]
    OBVIOUS
  <1>4. /\ x.buffers = c.buffers /\ x.thrown = c.thrown
        /\ x.sendVer = c.sendVer /\ x.recvVer = c.recvVer /\ x.heard = c.heard
        /\ x.active = c.active /\ x.onVerack = c.onVerack /\ x.ended = c.ended /\ x.got = c.got
    BY <1>1, <1>2, <1>3 DEF Connections
  <1>5. PICK s, z : s = Pending(e)' /\ z = Pending(Other(e))'
    OBVIOUS
  <1>6. s = c.buffers \o streams[e]
    BY <1>2, <1>3, <1>4, <1>5 DEF Pending
  <1>7. z = Pending(Other(e)) \o c.out
    <2>1. Other(e) \in Ends
      BY OtherEnd
    <2>2. PICK b \in Seq(Tokens), r \in Seq(Tokens), o \in Seq(Tokens) :
            b = conn[Other(e)].buffers /\ r = stream[Other(e)] /\ o = c.out
      <3>1. c.out \in Seq(Tokens)
        BY <1>1 DEF Connections
      <3> QED BY <2>1, <3>1, PendingType
    <2>3. Regroups(b, r, o)
      BY Regroup
    <2> QED BY <1>2, <1>5, <2>2, <2>3 DEF Pending, Regroups
  <1>8. Both(e, c, s, d, z, k, v)
    BY <1>1, <1>3, <1>6, <1>7 DEF Good
  <1>9. Both(e, x, s, d, z, k, v)
    <2>1. /\ Own(e, c, d, k, v) /\ Own(Other(e), d, c, k, v)
          /\ ~d.thrown => Flow(Other(e), z, d, c, k)
          /\ ~x.thrown => Flow(e, s, c, d, k)
          /\ x.thrown => ~k.clean
      BY <1>4, <1>8 DEF Both, Own
    <2> QED BY <1>4, <2>1, BothDepends
  <1>10. Both(Other(e), d, z, x, s, k, v)
    BY <1>9, BothTurns
  <1>11. Agree(e, v)' /\ Agree(Other(e), v)'
    <2>1. Other(Other(e)) = e
      BY OtherEnd
    <2> QED BY <1>2, <1>3, <1>5, <1>9, <1>10, <2>1 DEF Agree
  <1>12. ASSUME NEW a \in Ends
         PROVE  Agree(a, v)'
    <2>1. a = e \/ a = Other(e)
      BY DEF Ends, Other
    <2> QED BY <1>11, <2>1
  <1> QED BY <1>2, <1>12 DEF AgreedNext

Wrote(c, m) == [c EXCEPT !.out = m]

LEMMA OutReplaced ==
  ASSUME NEW c \in Connections, NEW m \in Seq(Tokens), NEW x, x = Wrote(c, m)
  PROVE  /\ x \in Connections /\ x.out = m /\ x.buffers = c.buffers /\ x.thrown = c.thrown
         /\ x.sendVer = c.sendVer /\ x.recvVer = c.recvVer /\ x.heard = c.heard
         /\ x.active = c.active /\ x.onVerack = c.onVerack /\ x.ended = c.ended /\ x.got = c.got
  BY DEF Connections, Wrote

(* An end that only writes m.                                                *)
LEMMA SendStep ==
  ASSUME NEW e \in Ends, WireTypes, NEW v \in {0, 209}, Agree(e, v),
         World' \in Worlds, NEW m \in Seq(Tokens), NEW payload, NEW command,
         Sends(e, conn[e], conn[Other(e)], Pending(Other(e)), World, World', m, command, payload),
         NEW x, x = Wrote(conn[e], m)
  PROVE  Good(e, x, stream[e], conn[Other(e)], Pending(Other(e)), World', v)
  <1>1. Other(e) \in Ends
    BY OtherEnd
  <1>0. PICK c, d, s, z :
          c = conn[e] /\ d = conn[Other(e)] /\ s = Pending(e) /\ z = Pending(Other(e))
    OBVIOUS
  <1>2. /\ c \in Connections /\ d \in Connections /\ s \in Seq(Tokens) /\ z \in Seq(Tokens)
        /\ c.out = <<>> /\ s = c.buffers \o stream[e]
    <2>1. /\ Pending(e) \in Seq(Tokens) /\ conn[e] \in Connections /\ conn[e].out = <<>>
          /\ Pending(e) = conn[e].buffers \o stream[e]
      BY PendingType DEF Pending
    <2>2. Pending(Other(e)) \in Seq(Tokens) /\ conn[Other(e)] \in Connections
      BY <1>1, PendingType
    <2> QED BY <1>0, <2>1, <2>2
  <1>3. PICK k \in Worlds, k2 \in Worlds : k = World /\ k2 = World'
    <2>1. World \in Worlds
      BY WorldType
    <2> QED BY <2>1
  <1>4. Both(e, c, s, d, z \o m, k2, v)
    <2>1. Both(e, c, s, d, z, k, v)
      BY <1>0, <1>3 DEF Agree
    <2>2. Sends(e, c, d, z, k, k2, m, command, payload)
      BY <1>0, <1>3
    <2> QED BY <1>2, <1>3, <2>1, <2>2, SendKeeps
  <1>5. /\ x \in Connections /\ x.out = m /\ x.buffers = c.buffers /\ x.thrown = c.thrown
        /\ x.sendVer = c.sendVer /\ x.recvVer = c.recvVer /\ x.heard = c.heard
        /\ x.active = c.active /\ x.onVerack = c.onVerack /\ x.ended = c.ended /\ x.got = c.got
    <2>2. x = Wrote(c, m)
      BY <1>0
    <2>3. c \in Connections
      BY <1>2
    <2> QED BY <2>2, <2>3, OutReplaced
  <1>6. Both(e, x, s, d, z \o m, k2, v)
    <2>1. PICK y : y = z \o m
      OBVIOUS
    <2>2. /\ Own(e, c, d, k2, v) /\ Own(Other(e), d, c, k2, v)
          /\ ~d.thrown => Flow(Other(e), y, d, c, k2)
          /\ ~x.thrown => Flow(e, s, c, d, k2)
          /\ x.thrown => ~k2.clean
      BY <1>4, <1>5, <2>1 DEF Both, Own
    <2>3. Both(e, x, s, d, y, k2, v)
      BY <1>5, <2>2, BothDepends
    <2> QED BY <2>1, <2>3
  <1> QED BY <1>0, <1>2, <1>3, <1>5, <1>6 DEF Good

LEMMA WorldNext ==
  ASSUME sent' \in [Ends -> Nat], version' \in [Ends -> Versions],
         self' \in BOOLEAN, opened' \in BOOLEAN
  PROVE  /\ World' \in Worlds /\ World'.sent = sent' /\ World'.version = version'
         /\ World'.self = self' /\ World'.opened = opened' /\ (World'.clean <=> garbage' = 0)
  BY DEF World, Worlds

LEMMA VersionWrote ==
  ASSUME NEW e \in Ends, NEW c \in Connections, ~c.ended, c.out = <<>>, version[e] \in Nat
  PROVE  \E m \in Seq(Tokens) :
           /\ Packet(m, Version, c.sendVer, Payload(<<version[e], Nonce(e)>>))
           /\ SendVersion(c, e) = Wrote(c, m)
  <1>1. PICK m \in Seq(Tokens) :
          /\ Packet(m, Version, c.sendVer, Payload(<<version[e], Nonce(e)>>))
          /\ SendVersion(c, e) = [c EXCEPT !.out = @ \o m]
    BY SendsVersion
  <1>2. <<>> \o m = m
    BY ConcatEmptySeq
  <1>3. SendVersion(c, e) = Wrote(c, m)
    BY <1>1, <1>2 DEF Wrote
  <1> QED BY <1>1, <1>3

LEMMA SendsApp ==
  ASSUME NEW c \in Connections, ~c.ended, NEW n \in Nat
  PROVE  \E m \in Seq(Tokens) :
           /\ Packet(m, App, c.sendVer, Payload(<<n>>))
           /\ SendMessage(c, App, Payload(<<n>>)) = [c EXCEPT !.out = @ \o m]
  <1> DEFINE p == Payload(<<n>>)
  <1>1. p \in Seq(Tokens) /\ Len(p) = 1 /\ AllData(p)
    <2>1. Token("data", n) \in Tokens
      BY DEF Token, Tokens, Kinds
    <2>2. p = <<Token("data", n)>>
      BY DEF Payload
    <2>3. /\ <<Token("data", n)>> \in Seq(Tokens) /\ Len(<<Token("data", n)>>) = 1
          /\ AllData(<<Token("data", n)>>)
      BY <2>1 DEF AllData, Token
    <2> HIDE DEF p
    <2> QED BY <2>2, <2>3
  <1>2. Size(App) = 1 /\ App \in {Version, Verack, App}
    BY DEF Size, App, Version
  <1> HIDE DEF p
  <1>3. WritesPacket(c, App, p)
    BY <1>1, <1>2, SendsPacket
  <1> QED BY <1>3 DEF p, WritesPacket

LEMMA AppWrote ==
  ASSUME NEW c \in Connections, ~c.ended, c.out = <<>>, NEW n \in Nat
  PROVE  \E m \in Seq(Tokens) :
           /\ Packet(m, App, c.sendVer, Payload(<<n>>))
           /\ SendMessage(c, App, Payload(<<n>>)) = Wrote(c, m)
  <1>1. PICK m \in Seq(Tokens) :
          /\ Packet(m, App, c.sendVer, Payload(<<n>>))
          /\ SendMessage(c, App, Payload(<<n>>)) = [c EXCEPT !.out = @ \o m]
    BY SendsApp
  <1>2. <<>> \o m = m
    BY ConcatEmptySeq
  <1>3. SendMessage(c, App, Payload(<<n>>)) = Wrote(c, m)
    BY <1>1, <1>2 DEF Wrote
  <1> QED BY <1>1, <1>3

LEMMA VersionIsNatural ==
  ASSUME NEW e \in Ends, version \in [Ends -> Versions]
  PROVE  version[e] \in Nat
  <1>1. version[e] \in Versions
    OBVIOUS
  <1> QED BY <1>1, ConnectionAssumption

LEMMA ConnectKeeps ==
  ASSUME WireInv, Connect
  PROVE  WireInv'
  <1>1. WireTypes
    BY DEF WireInv
  <1>2. PICK v \in {0, 209} : \A e \in Ends : Agree(e, v)
    BY DEF WireInv
  <1> DEFINE x == SendVersion(conn["out"], "out")
             p == Payload(<<version["out"], Nonce("out")>>)
  <1>3. /\ ~opened /\ opened' /\ Write("out", x, stream)
        /\ sent' = sent /\ version' = version /\ self' = self /\ garbage' = garbage
    BY DEF Connect
  <1>4. /\ "out" \in Ends /\ "in" \in Ends /\ Other("out") = "in" /\ Other("in") = "out"
    BY DEF Other, Ends
  <1>5. /\ sent \in [Ends -> Nat] /\ version \in [Ends -> Versions]
        /\ self \in BOOLEAN /\ garbage \in 0 .. MaxGarbage /\ stream \in [Ends -> Seq(Tokens)]
    BY <1>1 DEF WireTypes
  <1>6. opened' \in BOOLEAN
    BY DEF Connect
  <1>7. /\ World \in Worlds /\ World.sent = sent /\ World.version = version /\ World.self = self
        /\ World.opened = opened /\ (World.clean <=> garbage = 0)
    BY <1>1, WorldType
  <1>8. /\ World' \in Worlds /\ World'.sent = sent /\ World'.version = version /\ World'.self = self
        /\ World'.opened = opened' /\ (World'.clean <=> garbage = 0)
    BY <1>3, <1>5, <1>6, WorldNext
  <1>9. conn["out"] \in Connections /\ conn["out"].out = <<>> /\ conn["in"] \in Connections
    BY <1>1, <1>4, PendingType
  <1>10. /\ Own("out", conn["out"], conn["in"], World, v) /\ Own("in", conn["in"], conn["out"], World, v)
         /\ ~conn["in"].thrown => Flow("in", Pending("in"), conn["in"], conn["out"], World)
    BY <1>2, <1>4 DEF Agree, Both
  <1>11. ~conn["out"].ended /\ conn["in"].heard = 0
    BY <1>3, <1>4, <1>7, <1>10 DEF Own, Announced
  <1>12. version["out"] \in Nat
    BY <1>4, <1>5, VersionIsNatural
  <1>13. PICK m \in Seq(Tokens) :
           Packet(m, Version, conn["out"].sendVer, p) /\ x = Wrote(conn["out"], m)
    BY <1>4, <1>9, <1>11, <1>12, VersionWrote
  <1> HIDE DEF x
  <1>15. p[1].val = version["out"] /\ p[2].val = NonceOf("out", World)
    BY <1>7 DEF Payload, Token, Nonce, NonceOf
  <1> HIDE DEF p
  <1>16. Sends("out", conn["out"], conn["in"], Pending("in"), World, World', m, Version, p)
    <2>1. Later(World, World') /\ World'.clean = World.clean
      <3>1. World'.clean \in BOOLEAN /\ World.clean \in BOOLEAN
        BY <1>7, <1>8 DEF Worlds
      <3> QED BY <1>3, <1>7, <1>8, <3>1 DEF Later
    <2>2. ~conn["in"].thrown =>
            Adds("in", Pending("in"), conn["in"], conn["out"], World, conn["out"], World', Version, p)
      BY <1>3, <1>4, <1>7, <1>8, <1>10, <1>11, <1>15 DEF Adds, Flow, Announced
    <2>3. World.sent["out"] <= World'.sent["out"] /\ World'.sent["in"] = World.sent["in"]
      BY <1>4, <1>5, <1>7, <1>8
    <2> QED BY <1>4, <1>13, <2>1, <2>2, <2>3 DEF Sends
  <1>17. Good("out", x, stream["out"], conn["in"], Pending("in"), World', v)
    BY <1>1, <1>2, <1>4, <1>8, <1>13, <1>16, SendStep
  <1>18. AgreedNext(v)
    <2>1. Becomes("out", x, stream, v)
      BY <1>3, <1>4, <1>5, <1>17 DEF Becomes
    <2> QED BY <1>1, <1>4, <2>1, WriteKeeps
  <1>19. WireTypes'
    BY <1>3, <1>5, <1>6, <1>18 DEF WireTypes, AgreedNext
  <1> QED BY <1>2, <1>18, <1>19 DEF WireInv, AgreedNext

LEMMA SendActionKeeps ==
  ASSUME WireInv, NEW e \in Ends, Send(e)
  PROVE  WireInv'
  <1>1. WireTypes
    BY DEF WireInv
  <1>2. PICK v \in {0, 209} : \A a \in Ends : Agree(a, v)
    BY DEF WireInv
  <1> DEFINE n == sent[e] + 1
             p == Payload(<<n>>)
             x == SendMessage(conn[e], App, p)
  <1>3. /\ Write(e, x, stream) /\ sent' = [sent EXCEPT ![e] = n]
        /\ version' = version /\ self' = self /\ garbage' = garbage /\ opened' = opened
        /\ ~conn[e].thrown /\ ~conn[e].ended
    BY DEF Send
  <1>4. Other(e) \in Ends /\ Other(Other(e)) = e /\ Other(e) # e
    BY OtherEnd
  <1>5. /\ sent \in [Ends -> Nat] /\ version \in [Ends -> Versions]
        /\ self \in BOOLEAN /\ garbage \in 0 .. MaxGarbage /\ opened \in BOOLEAN
    BY <1>1 DEF WireTypes
  <1>6. sent[e] \in Nat /\ n \in Nat
    BY <1>5
  <1> HIDE DEF n
  <1>7. sent' \in [Ends -> Nat] /\ sent'[e] = n /\ sent'[Other(e)] = sent[Other(e)]
    BY <1>3, <1>4, <1>5, <1>6
  <1>8. /\ World \in Worlds /\ World.sent = sent /\ World.version = version /\ World.self = self
        /\ World.opened = opened /\ (World.clean <=> garbage = 0)
    BY <1>1, WorldType
  <1>9. /\ World' \in Worlds /\ World'.sent = sent' /\ World'.version = version'
        /\ World'.self = self' /\ World'.opened = opened' /\ (World'.clean <=> garbage' = 0)
    BY <1>3, <1>5, <1>7, WorldNext
  <1>10. conn[e] \in Connections /\ conn[e].out = <<>> /\ conn[Other(e)] \in Connections
    BY <1>1, <1>4, PendingType
  <1>11. PICK m \in Seq(Tokens) : Packet(m, App, conn[e].sendVer, p) /\ x = Wrote(conn[e], m)
    BY <1>3, <1>6, <1>10, AppWrote
  <1> HIDE DEF x
  <1>12. p[1].val = sent[e] + 1
    BY DEF Payload, Token, n
  <1> HIDE DEF p
  <1>13. Later(World, World') /\ World'.clean = World.clean
    <2>1. World'.clean \in BOOLEAN /\ World.clean \in BOOLEAN
      BY <1>8, <1>9 DEF Worlds
    <2> QED BY <1>3, <1>8, <1>9, <2>1 DEF Later
  <1>14. Len(conn[Other(e)].got) <= World.sent[e]
    BY <1>2, <1>4 DEF Agree, Both, Own
  <1>15. Adds(Other(e), Pending(Other(e)), conn[Other(e)], conn[e], World, conn[e], World', App, p)
    BY <1>4, <1>7, <1>8, <1>9, <1>12, <1>14 DEF Adds, n
  <1>16. World.sent[e] <= World'.sent[e] /\ World'.sent[Other(e)] = World.sent[Other(e)]
    BY <1>6, <1>7, <1>8, <1>9 DEF n
  <1>17. Sends(e, conn[e], conn[Other(e)], Pending(Other(e)), World, World', m, App, p)
    BY <1>11, <1>13, <1>15, <1>16 DEF Sends
  <1>18. Good(e, x, stream[e], conn[Other(e)], Pending(Other(e)), World', v)
    BY <1>1, <1>2, <1>9, <1>11, <1>17, SendStep
  <1>19. AgreedNext(v)
    <2>1. stream \in [Ends -> Seq(Tokens)]
      BY <1>1 DEF WireTypes
    <2>2. Becomes(e, x, stream, v)
      BY <1>3, <1>18, <2>1 DEF Becomes
    <2> QED BY <1>1, <2>2, WriteKeeps
  <1>20. WireTypes'
    BY <1>3, <1>5, <1>7, <1>19 DEF WireTypes, AgreedNext
  <1> QED BY <1>2, <1>19, <1>20 DEF WireInv, AgreedNext

(* The two parts of a stream that is cut are the stream.                     *)
LEMMA CutJoins ==
  ASSUME NEW s \in Seq(Tokens), NEW n \in 1 .. Len(s)
  PROVE  /\ SubSeq(s, 1, n) \in Seq(Tokens) /\ Drop(s, n) \in Seq(Tokens)
         /\ SubSeq(s, 1, n) \o Drop(s, n) = s
  <1>1. Len(s) \in Nat /\ n \in Nat /\ n <= Len(s)
    OBVIOUS
  <1>2. /\ SubSeq(s, 1, n) \in Seq(Tokens) /\ Len(SubSeq(s, 1, n)) = n
        /\ \A p \in 1 .. n : SubSeq(s, 1, n)[p] = s[p]
    OBVIOUS
  <1>3. /\ Drop(s, n) \in Seq(Tokens) /\ Len(Drop(s, n)) = Len(s) - n
        /\ \A p \in 1 .. Len(s) - n : Drop(s, n)[p] = s[n + p]
    BY <1>1 DEF Drop
  <1>4. PICK a \in Seq(Tokens), b \in Seq(Tokens) : a = SubSeq(s, 1, n) /\ b = Drop(s, n)
    BY <1>2, <1>3
  <1>5. /\ a \o b \in Seq(Tokens) /\ Len(a \o b) = Len(a) + Len(b)
        /\ Len(a) \in Nat /\ Len(b) \in Nat
        /\ \A p \in 1 .. Len(a) : (a \o b)[p] = a[p]
        /\ \A p \in 1 .. Len(b) : (a \o b)[Len(a) + p] = b[p]
    BY Concat
  <1>6. PICK t \in Seq(Tokens) : t = a \o b
    BY <1>5
  <1>7. Len(t) = Len(s)
    BY <1>1, <1>2, <1>3, <1>4, <1>5, <1>6
  <1>8. ASSUME NEW p \in 1 .. Len(t)
        PROVE  t[p] = s[p]
    <2>1. CASE p <= n
      <3>1. p \in 1 .. n
        BY <1>1, <1>7, <2>1
      <3>2. t[p] = a[p]
        BY <1>2, <1>4, <1>5, <1>6, <3>1
      <3> QED BY <1>2, <1>4, <3>1, <3>2
    <2>2. CASE p > n
      <3>1. PICK q \in 1 .. Len(s) - n : p = n + q
        <4>1. p - n \in 1 .. Len(s) - n /\ p = n + (p - n)
          BY <1>1, <1>7, <2>2
        <4> QED BY <4>1
      <3>2. t[n + q] = b[q]
        BY <1>2, <1>3, <1>4, <1>5, <1>6
      <3> QED BY <1>3, <1>4, <3>1, <3>2
    <2> QED BY <1>1, <1>7, <2>1, <2>2
  <1>9. t = s
    BY <1>7, <1>8, SeqEqual
  <1> QED BY <1>2, <1>3, <1>4, <1>6, <1>9

Cut(b, s, n, t, r) == t = b \o SubSeq(s, 1, n) /\ r = Drop(s, n) /\ t \o r = b \o s

LEMMA CutStream ==
  ASSUME NEW b \in Seq(Tokens), NEW s \in Seq(Tokens), NEW n \in 1 .. Len(s)
  PROVE  \E t \in Seq(Tokens), r \in Seq(Tokens) : Cut(b, s, n, t, r)
  <1>1. PICK a \in Seq(Tokens), r \in Seq(Tokens) :
          a = SubSeq(s, 1, n) /\ r = Drop(s, n) /\ a \o r = s
    BY CutJoins
  <1>2. PICK t \in Seq(Tokens) : t = b \o a
    BY <1>1, Concat
  <1>3. Regroups(b, a, r)
    BY <1>1, Regroup
  <1> QED BY <1>1, <1>2, <1>3 DEF Cut, Regroups

(* A piece of the stream reaches the buffers.                                *)
LEMMA PieceArrives ==
  ASSUME NEW e \in Ends, WireTypes, NEW n \in 1 .. Len(stream[e]), NEW v \in {0, 209}, Agree(e, v),
         ~conn[e].thrown, NEW c0, c0 = Holding(conn[e], conn[e].buffers \o SubSeq(stream[e], 1, n))
  PROVE  Good(e, c0, Drop(stream[e], n), conn[Other(e)], Pending(Other(e)), World, v)
  <1>0. PICK c, d, z : c = conn[e] /\ d = conn[Other(e)] /\ z = Pending(Other(e))
    OBVIOUS
  <1>1. /\ c \in Connections /\ c.out = <<>> /\ z \in Seq(Tokens)
        /\ c.buffers \in Seq(Tokens) /\ stream[e] \in Seq(Tokens)
    <2>1. Other(e) \in Ends
      BY OtherEnd
    <2>2. Pending(Other(e)) \in Seq(Tokens)
      BY <2>1, PendingType
    <2>3. /\ conn[e] \in Connections /\ conn[e].buffers \in Seq(Tokens)
          /\ stream[e] \in Seq(Tokens) /\ conn[e].out = <<>>
      BY PendingType
    <2> QED BY <1>0, <2>2, <2>3
  <1>2. PICK u : u = Pending(e) /\ u = c.buffers \o stream[e]
    BY <1>0 DEF Pending
  <1>3. PICK t \in Seq(Tokens), r \in Seq(Tokens) : Cut(c.buffers, stream[e], n, t, r)
    <2>1. PICK b \in Seq(Tokens), s \in Seq(Tokens) : b = c.buffers /\ s = stream[e]
      BY <1>1
    <2>2. n \in 1 .. Len(s)
      BY <2>1
    <2>3. PICK t \in Seq(Tokens), r \in Seq(Tokens) : Cut(b, s, n, t, r)
      BY <2>2, CutStream
    <2>4. Cut(c.buffers, stream[e], n, t, r)
      BY <2>1, <2>3
    <2> QED BY <2>4
  <1>4. t = c.buffers \o SubSeq(stream[e], 1, n) /\ r = Drop(stream[e], n) /\ t \o r = u
    BY <1>2, <1>3 DEF Cut
  <1>5. z \o c.out = z
    BY <1>1, ConcatEmptySeq
  <1>6. PICK k : k = World
    OBVIOUS
  <1>7. c0 = Holding(c, t) /\ ~c.thrown
    BY <1>0, <1>4
  <1>8. Both(e, c, u, d, z, k, v) /\ z = z \o c.out
    BY <1>0, <1>2, <1>5, <1>6 DEF Agree
  <1>9. Flow(e, t \o r, c, d, k)
    BY <1>4, <1>7, <1>8 DEF Both
  <1>10. c \in Connections /\ t \in Seq(Tokens)
    BY <1>1, <1>4
  <1>11. Good(e, Holding(c, t), r, d, z, k, v)
    BY <1>8, <1>9, <1>10, HoldingKeeps
  <1> QED BY <1>0, <1>4, <1>6, <1>7, <1>11

LEMMA HandleDataKeeps ==
  ASSUME WireInv, NEW e \in Ends, HandleData(e)
  PROVE  WireInv'
  <1>1. WireTypes
    BY DEF WireInv
  <1>2. PICK v \in {0, 209} : \A a \in Ends : Agree(a, v)
    BY DEF WireInv
  <1>3. /\ opened /\ ~conn[e].thrown
        /\ UNCHANGED <<sent, version, self, opened, garbage>>
    BY DEF HandleData
  <1>4. PICK n \in 1 .. Len(stream[e]) :
          \E c \in ProcessData([conn[e] EXCEPT !.buffers = @ \o SubSeq(stream[e], 1, n)], e) :
            Write(e, c, [stream EXCEPT ![e] = Drop(@, n)])
    BY DEF HandleData
  <1>5. PICK c0, streams :
          /\ c0 = Holding(conn[e], conn[e].buffers \o SubSeq(stream[e], 1, n))
          /\ streams = [stream EXCEPT ![e] = Drop(@, n)]
    OBVIOUS
  <1>6. PICK c \in ProcessData(c0, e) : Write(e, c, streams)
    BY <1>4, <1>5 DEF Holding
  <1>7. Other(e) \in Ends /\ Other(e) # e
    BY OtherEnd
  <1>8. /\ stream \in [Ends -> Seq(Tokens)] /\ sent \in [Ends -> Nat] /\ version \in [Ends -> Versions]
        /\ self \in BOOLEAN /\ opened \in BOOLEAN /\ garbage \in 0 .. MaxGarbage
    BY <1>1 DEF WireTypes
  <1>9. PICK r \in Seq(Tokens) : r = Drop(stream[e], n)
    BY <1>8, CutJoins
  <1>10. /\ streams \in [Ends -> Seq(Tokens)] /\ streams[e] = r
         /\ streams[Other(e)] = stream[Other(e)]
    BY <1>5, <1>7, <1>8, <1>9
  <1>19. PICK k : k = World
    OBVIOUS
  <1>11. PICK d \in Connections, y \in Seq(Tokens) : d = conn[Other(e)] /\ y = Pending(Other(e))
    <2>1. conn[Other(e)] \in Connections /\ Pending(Other(e)) \in Seq(Tokens)
      BY <1>1, <1>7, PendingType
    <2> QED BY <2>1
  <1>12. Here(k)
    BY <1>1, <1>3, <1>19, WorldType DEF Here
  <1>13. Good(e, c0, r, d, y, k, v)
    BY <1>1, <1>2, <1>3, <1>5, <1>9, <1>11, <1>19, PieceArrives
  <1>14. Good(e, c, r, d, y, k, v)
    BY <1>6, <1>9, <1>11, <1>12, <1>13, ProcessDataKeeps
  <1>15. World' = World
    BY <1>3 DEF World
  <1>16. Becomes(e, c, streams, v)
    BY <1>6, <1>10, <1>11, <1>14, <1>15, <1>19 DEF Becomes
  <1>17. AgreedNext(v)
    BY <1>1, <1>16, WriteKeeps
  <1>18. WireTypes'
    BY <1>3, <1>8, <1>17 DEF WireTypes, AgreedNext
  <1> QED BY <1>2, <1>17, <1>18 DEF WireInv, AgreedNext

Appends(b, s, x) ==
  /\ Append(s, x) \in Seq(Tokens) /\ b \o s \in Seq(Tokens)
  /\ b \o Append(s, x) = Append(b \o s, x)

LEMMA PendingAppends ==
  ASSUME NEW b \in Seq(Tokens), NEW s \in Seq(Tokens), NEW x \in Tokens
  PROVE  Appends(b, s, x)
  <1>1. PICK m \in Seq(Tokens) : m = <<x>>
    <2>1. <<x>> \in Seq(Tokens)
      OBVIOUS
    <2> QED BY <2>1
  <1>2. PICK t \in Seq(Tokens) : t = b \o s
    BY Concat
  <1>3. Append(s, x) = s \o m /\ Append(t, x) = t \o m
    BY <1>1, <1>2, AppendIsConcat
  <1>4. (b \o s) \o m = b \o (s \o m)
    <2>1. Regroups(b, s, m)
      BY <1>1, Regroup
    <2> QED BY <2>1 DEF Regroups
  <1>5. Append(s, x) \in Seq(Tokens)
    OBVIOUS
  <1> QED BY <1>2, <1>3, <1>4, <1>5 DEF Appends

LEMMA JunkIsToken == Token("junk", 0) \in Tokens
  BY DEF Token, Tokens, Kinds

LEMMA GarbageFlows ==
  ASSUME NEW e \in Ends, NEW c \in Connections, NEW d \in Connections, NEW k \in Worlds,
         NEW k2 \in Worlds, Later(k, k2), k2.sent = k.sent, ~k2.clean, NEW v,
         NEW s \in Seq(Tokens), NEW z, Both(e, c, s, d, z, k, v)
  PROVE  Both(e, c, Append(s, Token("junk", 0)), d, z, k2, v)
  <1>1. Other(e) \in Ends
    BY OtherEnd
  <1>2. k.sent[e] \in Nat /\ k.sent[Other(e)] \in Nat
    BY <1>1 DEF Worlds
  <1>3. /\ Own(e, c, d, k, v) /\ Own(Other(e), d, c, k, v)
        /\ ~c.thrown => Flow(e, s, c, d, k)
        /\ ~d.thrown => Flow(Other(e), z, d, c, k)
    BY DEF Both
  <1>4. Own(e, c, d, k2, v) /\ Own(Other(e), d, c, k2, v)
    <2>1. k.sent[Other(e)] <= k2.sent[Other(e)] /\ k.sent[Other(Other(e))] <= k2.sent[Other(Other(e))]
      BY <1>1, <1>2, OtherEnd
    <2> QED BY <1>1, <1>3, <2>1, OwnLater
  <1>5. ~c.thrown => Flow(e, Append(s, Token("junk", 0)), c, d, k2)
    BY <1>3, FlowGarbage
  <1>6. ~d.thrown => Flow(Other(e), z, d, c, k2)
    BY <1>3, FlowLater
  <1> QED BY <1>4, <1>5, <1>6 DEF Both

LEMMA GarbageKeeps ==
  ASSUME WireInv, NEW e \in Ends, Garbage(e)
  PROVE  WireInv'
  <1>1. WireTypes
    BY DEF WireInv
  <1>2. PICK v \in {0, 209} : \A a \in Ends : Agree(a, v)
    BY DEF WireInv
  <1>3. /\ garbage < MaxGarbage /\ garbage' = garbage + 1
        /\ stream' = [stream EXCEPT ![e] = Append(@, Token("junk", 0))]
        /\ conn' = conn /\ sent' = sent /\ version' = version /\ self' = self /\ opened' = opened
    BY DEF Garbage
  <1>4. Other(e) \in Ends /\ Other(Other(e)) = e /\ Other(e) # e
    BY OtherEnd
  <1>5. /\ conn \in [Ends -> Connections] /\ \A a \in Ends : conn[a].out = <<>>
        /\ stream \in [Ends -> Seq(Tokens)] /\ sent \in [Ends -> Nat] /\ version \in [Ends -> Versions]
        /\ self \in BOOLEAN /\ opened \in BOOLEAN /\ garbage \in 0 .. MaxGarbage
    BY <1>1 DEF WireTypes
  <1>6. PICK junk \in Tokens : junk = Token("junk", 0)
    BY JunkIsToken
  <1>7. /\ Pending(e) \in Seq(Tokens) /\ Pending(e)' = Append(Pending(e), junk)
        /\ stream'[e] \in Seq(Tokens) /\ Pending(Other(e))' = Pending(Other(e))
    <2>1. PICK b \in Seq(Tokens), s \in Seq(Tokens) : b = conn[e].buffers /\ s = stream[e]
      BY <1>1, PendingType
    <2>2. Appends(b, s, junk)
      BY <1>6, <2>1, PendingAppends
    <2>3. stream'[e] = Append(s, junk) /\ stream'[Other(e)] = stream[Other(e)]
      BY <1>3, <1>4, <1>5, <1>6, <2>1
    <2> QED BY <1>3, <2>1, <2>2, <2>3 DEF Pending, Appends
  <1>8. WireTypes'
    <2>1. garbage' \in 0 .. MaxGarbage
      BY <1>3, <1>5, ConnectionAssumption
    <2>2. stream' \in [Ends -> Seq(Tokens)]
      <3>1. Append(stream[e], junk) \in Seq(Tokens)
        BY <1>5
      <3> QED BY <1>3, <1>5, <1>6, <3>1
    <2> QED BY <1>3, <1>5, <2>1, <2>2 DEF WireTypes
  <1>9. /\ World \in Worlds /\ World.sent = sent /\ World.version = version /\ World.self = self
        /\ World.opened = opened /\ (World.clean <=> garbage = 0)
    BY <1>1, WorldType
  <1>10. /\ World' \in Worlds /\ World'.sent = sent' /\ World'.version = version'
         /\ World'.self = self' /\ World'.opened = opened' /\ (World'.clean <=> garbage' = 0)
    BY <1>3, <1>5, WorldNext
  <1>11. PICK k \in Worlds, k2 \in Worlds : k = World /\ k2 = World'
    BY <1>9, <1>10
  <1>12. Later(k, k2) /\ ~k2.clean /\ k2.sent = k.sent
    <2>1. garbage' # 0
      BY <1>3, <1>5
    <2>2. ~k2.clean
      BY <1>10, <1>11, <2>1
    <2> QED BY <1>3, <1>9, <1>10, <1>11, <2>2 DEF Later
  <1>20. PICK z : z = Pending(Other(e))
    OBVIOUS
  <1>13. PICK c \in Connections, d \in Connections, s \in Seq(Tokens) :
           c = conn[e] /\ d = conn[Other(e)] /\ s = Pending(e)
    BY <1>4, <1>5, <1>7
  <1>14. Both(e, c, s, d, z, k, v)
    BY <1>2, <1>11, <1>13, <1>20 DEF Agree
  <1>15. Both(e, c, Append(s, Token("junk", 0)), d, z, k2, v)
    BY <1>11, <1>12, <1>13, <1>14, GarbageFlows
  <1>16. Agree(e, v)'
    BY <1>3, <1>6, <1>7, <1>11, <1>13, <1>15, <1>20 DEF Agree
  <1>17. Agree(Other(e), v)'
    <2>1. Both(Other(e), d, z, c, Append(s, Token("junk", 0)), k2, v)
      BY <1>15, BothTurns
    <2> QED BY <1>3, <1>4, <1>6, <1>7, <1>11, <1>13, <1>20, <2>1 DEF Agree
  <1>18. \A a \in Ends : Agree(a, v)'
    <2> SUFFICES ASSUME NEW a \in Ends PROVE Agree(a, v)'
      OBVIOUS
    <2>1. a = e \/ a = Other(e)
      BY DEF Ends, Other
    <2> QED BY <1>16, <1>17, <2>1
  <1> QED BY <1>2, <1>8, <1>18 DEF WireInv

-----------------------------------------------------------------------------
LEMMA Stutters ==
  ASSUME WireInv, UNCHANGED vars
  PROVE  WireInv'
  <1>1. /\ conn' = conn /\ stream' = stream /\ sent' = sent /\ version' = version
        /\ self' = self /\ opened' = opened /\ garbage' = garbage
    BY DEF vars
  <1> QED BY <1>1 DEF WireInv, WireTypes, Agree, Pending, World

LEMMA WireHolds ==
  Spec => []WireInv
  <1>1. Init => WireInv
    BY InitWire
  <1>2. WireInv /\ [Next]_vars => WireInv'
    <2> SUFFICES ASSUME WireInv, [Next]_vars PROVE WireInv'
      OBVIOUS
    <2>1. CASE Connect
      BY <2>1, ConnectKeeps
    <2>2. ASSUME NEW e \in Ends, Send(e) PROVE WireInv'
      BY <2>2, SendActionKeeps
    <2>3. ASSUME NEW e \in Ends, HandleData(e) PROVE WireInv'
      BY <2>3, HandleDataKeeps
    <2>4. ASSUME NEW e \in Ends, Garbage(e) PROVE WireInv'
      BY <2>4, GarbageKeeps
    <2>5. CASE UNCHANGED vars
      BY <2>5, Stutters
    <2> QED BY <2>1, <2>2, <2>3, <2>4, <2>5 DEF Next
  <1> QED BY <1>1, <1>2, PTL DEF Spec

(* What the invariant says of an end.                                        *)
LEMMA EndsAgree ==
  ASSUME WireInv, NEW e \in Ends
  PROVE  /\ conn[e] \in Connections /\ conn[e].out = <<>>
         /\ \E v \in {0, 209} :
              /\ Own(e, conn[e], conn[Other(e)], World, v)
              /\ Own(Other(e), conn[Other(e)], conn[e], World, v)
         /\ World.sent = sent /\ World.version = version /\ World.self = self
         /\ (World.clean <=> garbage = 0)
  <1>1. WireTypes /\ \E v \in {0, 209} : Agree(e, v)
    BY DEF WireInv
  <1>2. conn[e] \in Connections /\ conn[e].out = <<>>
    BY <1>1, PendingType
  <1>3. /\ World.sent = sent /\ World.version = version /\ World.self = self
        /\ (World.clean <=> garbage = 0)
    BY <1>1, WorldType
  <1> QED BY <1>1, <1>2, <1>3 DEF Agree, Both

(* The versions, the listeners for the verack and the flags of both ends     *)
(* keep their types, and an end has handed on all it wrote.                  *)
THEOREM WireTypeCorrect ==
  Spec => []TypeOK
  <1>1. WireInv => TypeOK
    <2> SUFFICES ASSUME WireInv PROVE TypeOK
      OBVIOUS
    <2>1. version \in [Ends -> Versions] /\ self \in BOOLEAN /\ opened \in BOOLEAN
          /\ garbage \in 0 .. MaxGarbage
      BY DEF WireInv, WireTypes
    <2>2. ASSUME NEW e \in Ends
          PROVE  /\ conn[e].sendVer \in {0, 209} \cup Versions
                 /\ conn[e].recvVer \in {0, 209} \cup Versions
                 /\ conn[e].heard \in {0} \cup Versions
                 /\ conn[e].onVerack \in Seq(Versions)
                 /\ conn[e].active \in BOOLEAN /\ conn[e].ended \in BOOLEAN
                 /\ conn[e].thrown \in BOOLEAN
                 /\ conn[e].out = <<>>
      <3>1. /\ conn[e] \in Connections /\ conn[e].out = <<>> /\ World.version = version
            /\ \E v \in {0, 209} : Own(e, conn[e], conn[Other(e)], World, v)
        BY EndsAgree
      <3>2. PICK v \in {0, 209} : Own(e, conn[e], conn[Other(e)], World, v)
        BY <3>1
      <3>3. version[e] \in Versions /\ version[Other(e)] \in Versions
        BY <2>1, OtherEnd
      <3>4. conn[e].heard \in {0} \cup Versions
        BY <3>1, <3>2, <3>3 DEF Own
      <3>5. conn[e].heard # 0 => conn[e].heard \in Versions
        BY <3>4
      <3>6. conn[e].sendVer \in {0, 209} \cup Versions
        BY <3>1, <3>2, <3>3, <3>5 DEF Own, Smaller
      <3>7. conn[e].recvVer \in {0, 209} \cup Versions
        BY <3>2, <3>5 DEF Own
      <3>8. conn[e].onVerack \in Seq(Versions)
        <4>1. PICK h : h = conn[e].heard
          OBVIOUS
        <4>2. h # 0 => <<h>> \in Seq(Versions)
          <5>1. h # 0 => h \in Versions
            BY <3>5, <4>1
          <5> QED BY <5>1
        <4>3. <<>> \in Seq(Versions)
          OBVIOUS
        <4> QED BY <3>2, <4>1, <4>2, <4>3 DEF Own
      <3>9. /\ conn[e].active \in BOOLEAN /\ conn[e].ended \in BOOLEAN
            /\ conn[e].thrown \in BOOLEAN
        BY <3>1 DEF Connections
      <3> QED BY <3>1, <3>4, <3>6, <3>7, <3>8, <3>9
    <2> QED BY <2>1, <2>2 DEF TypeOK
  <1> QED BY <1>1, WireHolds, PTL

(* Whatever the pieces the stream comes in, wherever the switch to checksums *)
(* falls, and with any garbage between messages, processData hands on the    *)
(* messages that were sent, in their order, and none twice.                  *)
THEOREM AlwaysDeliversInOrder ==
  Spec => []DeliversInOrder
  <1>1. WireInv => DeliversInOrder
    <2> SUFFICES ASSUME WireInv, NEW e \in Ends
                 PROVE  /\ Len(conn[e].got) <= sent[Other(e)]
                        /\ \A i \in DOMAIN conn[e].got : conn[e].got[i] = i
      BY DEF DeliversInOrder
    <2>1. PICK v \in {0, 209} : Own(e, conn[e], conn[Other(e)], World, v)
      BY EndsAgree
    <2>2. World.sent = sent
      BY EndsAgree
    <2> QED BY <2>1, <2>2 DEF Own
  <1> QED BY <1>1, WireHolds, PTL

(* A connection that handleVerack made active is one whose other end handled *)
(* this end's version, and never one of the node with itself.                *)
THEOREM ActiveAlwaysHeard ==
  Spec => []ActiveWhenHeard
  <1>1. WireInv => ActiveWhenHeard
    <2> SUFFICES ASSUME WireInv, NEW e \in Ends, conn[e].active
                 PROVE  conn[Other(e)].heard = version[e] /\ ~self
      BY DEF ActiveWhenHeard
    <2>1. PICK v \in {0, 209} : /\ Own(e, conn[e], conn[Other(e)], World, v)
                               /\ Own(Other(e), conn[Other(e)], conn[e], World, v)
      BY EndsAgree
    <2>2. World.version = version /\ World.self = self
      BY EndsAgree
    <2> QED BY <2>1, <2>2, OtherEnd DEF Own
  <1> QED BY <1>1, WireHolds, PTL

(* The reads of processData beyond the end of the buffers, which throw, need *)
(* garbage between messages: no cut of a clean stream causes one.            *)
THEOREM ThrowsAlwaysOnGarbage ==
  Spec => []ThrowsOnlyOnGarbage
  <1>1. WireInv => ThrowsOnlyOnGarbage
    <2> SUFFICES ASSUME WireInv, NEW e \in Ends, conn[e].thrown PROVE garbage > 0
      BY DEF ThrowsOnlyOnGarbage
    <2>1. PICK v \in {0, 209} : Own(e, conn[e], conn[Other(e)], World, v)
      BY EndsAgree
    <2>2. ~World.clean /\ (World.clean <=> garbage = 0)
      BY <2>1, EndsAgree DEF Own
    <2>3. garbage \in Nat
      BY ConnectionAssumption DEF WireInv, WireTypes
    <2> QED BY <2>2, <2>3
  <1> QED BY <1>1, WireHolds, PTL
=============================================================================
