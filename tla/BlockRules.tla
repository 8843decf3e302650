----------------------------- MODULE BlockRules ------------------------------
(* The rules a block must obey as the child of another, from                 *)
(* lib/schema/block.js and lib/util.js: compact targets, work, the bits of   *)
(* the next block, the median of timestamps.  Which blocks they see is left  *)
(* to their arguments: the code finds them by their height in a storage,     *)
(* and means the ancestors of the block.                                     *)
(*                                                                           *)
(* The genesis block is never a parent here: behind it, getNextWork calls    *)
(* back twice.  Timestamps are compared as numbers, although the code sorts  *)
(* them as text: all have ten digits.                                        *)
EXTENDS Integers, Sequences, FiniteSets, FiniteSetsExt, Functions

CONSTANTS
  Spacing,     \* seconds a block is to take (600)
  Interval,    \* blocks of a period of the same difficulty (2016)
  MedianSpan,  \* blocks whose median time is taken (11)
  Radix,       \* values of a byte of a target (256), of which the bits keep
  Precision,   \* so many (3)
  GenesisTarget

ASSUME RulesAssumption ==
  /\ {Spacing, Interval, MedianSpan, Precision, GenesisTarget} \subseteq Nat \ {0}
  /\ Radix \in Nat /\ Radix % 4 = 0 /\ Radix > 0 /\ Interval > 1

TargetTimespan == Interval * Spacing

-----------------------------------------------------------------------------
(* Compact targets: the number of bytes and the first of them.  A byte is    *)
(* added in front where the first would have its highest bit.                *)

Bytes(target) ==
  LET length == CHOOSE n \in 0..16 : target < Radix ^ n /\ (n = 0 \/ target >= Radix ^ (n - 1))
  IN  IF length > 0 /\ 2 * (target \div Radix ^ (length - 1)) >= Radix THEN length + 1 ELSE length

encodeDiffBits(target) ==
  LET size == Bytes(target)
  IN  [size |-> size,
       first |-> IF size <= Precision THEN target * Radix ^ (Precision - size)
                 ELSE target \div Radix ^ (size - Precision)]

decodeDiffBits(bits) ==
  IF bits.size >= Precision THEN bits.first * Radix ^ (bits.size - Precision)
  ELSE bits.first \div Radix ^ (Precision - bits.size)

PowLimit == encodeDiffBits(GenesisTarget)

(* The largest hash, about twice the target of the genesis block here.       *)
getWork(bits) == (2 * GenesisTarget) \div (decodeDiffBits(bits) + 1)

-----------------------------------------------------------------------------
(* What a query by height finds: the bits and the timestamp of a block, or   *)
(* no block, of which the code cannot take any bits.                         *)

NoBits == [size |-> 0, first |-> 0]
NoBlock == [bits |-> NoBits, time |-> 0]

Clamp(n, low, high) == IF n < low THEN low ELSE IF n > high THEN high ELSE n

Retarget(old, timespan) ==
  LET actual == Clamp(timespan, TargetTimespan \div 4, TargetTimespan * 4)
      target == (decodeDiffBits(old) * actual) \div TargetTimespan
  IN  encodeDiffBits(Clamp(target, 0, decodeDiffBits(PowLimit)))

(* The bits of the last block back to the start of a period that has a       *)
(* difficulty of its own, or no bits where a block is not found on the way.  *)
LastNonMinDiff(found) ==
  LET stops(h) == h = 0 \/ h % Interval = 0 \/ found[h].bits # PowLimit
  IN  found[Max({h \in DOMAIN found : stops(h)})].bits

(* The bits of a child with the timestamp time, of a parent whose height is  *)
(* the last of found; below it, found is what the queries find.              *)
NextBits(height, found, time, testnet) ==
  LET parent == found[height]
      first == found[height - Interval + 1]
      late == testnet /\ time > parent.time + 2 * Spacing
  IN  IF (height + 1) % Interval = 0
        THEN IF first = NoBlock THEN NoBits ELSE Retarget(parent.bits, parent.time - first.time)
      ELSE IF late THEN PowLimit
      ELSE IF testnet /\ parent.bits = PowLimit THEN LastNonMinDiff(found)
      ELSE parent.bits

(* The timestamp in the middle of a function's values, the later of the two  *)
(* where their number is even.                                               *)
MedianTime(times) ==
  LET earlier(t) == Cardinality({b \in DOMAIN times : times[b] < t})
      notLater(t) == Cardinality({b \in DOMAIN times : times[b] <= t})
      middle == Cardinality(DOMAIN times) \div 2
  IN  CHOOSE t \in Range(times) : earlier(t) <= middle /\ middle < notLater(t)

LastHeights(height) == {h \in height - MedianSpan + 1 .. height : h >= 0}
=============================================================================
