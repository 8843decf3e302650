------------------------- MODULE ScriptInterpreter --------------------------
(* The verification of an input of a transaction, from                       *)
(* lib/scriptinterpreter.js and lib/script.js: the script of the input and   *)
(* that of the output it spends run on one stack, a chunk at a time, and a   *)
(* signature is checked by another thread while the interpreter waits.       *)
(*                                                                           *)
(* Data are sequences of bytes.  The opcodes that disableUnsafeOpcodes       *)
(* refuses (it is always set) have no semantics here.                        *)
(*                                                                           *)
(* A definition whose name extends that of the one below it is a faulty      *)
(* variant, with the mistake a change of the code could make.                *)
EXTENDS Integers, Sequences, FiniteSets, SequencesExt

CONSTANTS
  Inputs,  \* pairs of scripts: that of the input, that of the output
  Valid,   \* pairs of a signature and a public key it is valid for
  Numerals,  \* the data that a comparison of JavaScript converts to a number
             \* above that of OP_16: "97", and "1e2" and "0x64" as well
  BranchNumerals,  \* those whose number is from that of OP_IF to that of OP_ENDIF
  Limits   \* the limits of the code: bytes of a script (10000), bytes of data
           \* (520), bytes of a number (4), counted opcodes (201), elements on
           \* both stacks (1000), keys of a multiple signature (20)

Byte == 0..255
Data == Seq(Byte)
Chunks == [op : STRING, data : Data]

ASSUME ScriptAssumption ==
  /\ Inputs \subseteq Seq(Chunks) \X Seq(Chunks)
  /\ BranchNumerals \subseteq Numerals /\ <<>> \notin Numerals
  /\ Limits \in [script : Nat, push : Nat, number : 0..4, ops : Nat, stack : Nat, keys : Nat]

VARIABLES
  scripts,    \* the pair of scripts
  run,        \* which of them runs
  pc,         \* chunks of it that were run or skipped
  stack,      \* data; the top is the last
  altStack,
  execStack,  \* the conditions of the open conditionals
  hashStart,  \* chunks before the part of the script that is signed
  opCount,
  checking,   \* the check of signatures that is waited for
  answer      \* of verify: "none" yet, "error", "true", "false"

vars == <<scripts, run, pc, stack, altStack, execStack, hashStart, opCount, checking, answer>>

-----------------------------------------------------------------------------
(* Chunks                                                                    *)

Op(name) == [op |-> name, data |-> <<>>]
Push(data) == [op |-> "data", data |-> data]

SmallNumbers == <<"OP_1", "OP_2", "OP_3", "OP_4", "OP_5", "OP_6", "OP_7", "OP_8", "OP_9",
  "OP_10", "OP_11", "OP_12", "OP_13", "OP_14", "OP_15", "OP_16">>
Numbers == {"OP_0", "OP_1NEGATE"} \cup ToSet(SmallNumbers)
Nops == {"OP_NOP", "OP_NOP1", "OP_NOP2", "OP_NOP3", "OP_NOP4", "OP_NOP5", "OP_NOP6", "OP_NOP7",
  "OP_NOP8", "OP_NOP9", "OP_NOP10"}
Conditionals == {"OP_IF", "OP_NOTIF", "OP_ELSE", "OP_ENDIF"}
SigOps == {"OP_CHECKSIG", "OP_CHECKSIGVERIFY", "OP_CHECKMULTISIG", "OP_CHECKMULTISIGVERIFY"}
Unsafe == {"OP_CAT", "OP_SUBSTR", "OP_LEFT", "OP_RIGHT", "OP_INVERT", "OP_AND", "OP_OR",
  "OP_XOR", "OP_2MUL", "OP_2DIV", "OP_MUL", "OP_DIV", "OP_MOD", "OP_LSHIFT", "OP_RSHIFT"}

(* Data are compared with opcodes as the numbers that they are converted to. *)
Counted(c) ==
  IF c.op = "data" THEN c.data \in Numerals ELSE c.op \notin Numbers \cup {"OP_RESERVED"}

(* What is dispatched although the branch is not active.                     *)
InactiveToo(c) ==
  \/ c.op \in Conditionals \cup {"OP_VERIF", "OP_VERNOTIF"}
  \/ c.op = "data" /\ c.data \in BranchNumerals

Size(script) == FoldLeft(LAMBDA n, c : n + 1 + Len(c.data), 0, script)

-----------------------------------------------------------------------------
(* Data as numbers: little-endian, the highest bit is the sign.              *)

(* The bytes are read from the last on.                                      *)
Magnitude(data) ==
  LET read[n \in 0..Len(data)] ==
        IF n = 0 THEN 0 ELSE 256 * read[n - 1] + data[Len(data) - n + 1]
  IN  read[Len(data)]

castBigint(data) ==
  IF data # <<>> /\ Last(data) >= 128
    THEN -Magnitude(Append(Front(data), Last(data) - 128))
    ELSE Magnitude(data)

IsNumber(data) == Len(data) <= Limits.number

(* As many bytes as a number has; what is written has no more than four.     *)
Powers == <<1, 256, 65536, 16777216>>
Digits(n) ==
  LET length == CHOOSE k \in 0..4 : \A i \in 1..4 : i <= k <=> n >= Powers[i]
  IN  [i \in 1..length |-> (n \div Powers[i]) % 256]

Abs(n) == IF n < 0 THEN -n ELSE n
Bit(condition) == IF condition THEN 1 ELSE 0

(* A byte is added for the sign when the highest bit is taken.               *)
bigintToBuffer(n) ==
  LET digits == Digits(Abs(n))
      full == digits # <<>> /\ Last(digits) >= 128
      sign == IF n < 0 THEN 128 ELSE 0
  IN  IF n = 0 THEN <<>>
      ELSE IF full THEN Append(digits, sign)
      ELSE Front(digits) \o <<Last(digits) + sign>>

(* Negative zero is zero.                                                    *)
castBool(data) ==
  \E i \in DOMAIN data : data[i] # 0 /\ ~(data[i] = 128 /\ i = Len(data))

Truth(condition) == <<Bit(condition)>>

-----------------------------------------------------------------------------
(* The opcodes that only change the stacks: the two stacks afterwards, or    *)
(* Failure when the code throws.                                             *)

Failure == [ok |-> FALSE, stack |-> <<>>, alt |-> <<>>]
Done(s, alt) == [ok |-> TRUE, stack |-> s, alt |-> alt]

Top(s, offset) == s[Len(s) - offset + 1]
Popped(s, n) == SubSeq(s, 1, Len(s) - n)
SwappedWithoutTmp(s, a, b) == [s EXCEPT ![Len(s) - a + 1] = Top(s, b)]

Swapped(s, a, b) ==
  [s EXCEPT ![Len(s) - a + 1] = Top(s, b), ![Len(s) - b + 1] = Top(s, a)]

(* How many elements a rearrangement needs.                                  *)
Needs == [OP_2DROP |-> 2, OP_2DUP |-> 2, OP_3DUP |-> 3, OP_2OVER |-> 4, OP_2ROT |-> 6,
  OP_2SWAP |-> 4, OP_DROP |-> 1, OP_DUP |-> 1, OP_NIP |-> 2, OP_OVER |-> 2, OP_ROT |-> 3,
  OP_SWAP |-> 2, OP_TUCK |-> 2]

Rearranged(op, s) ==
  LET n == Len(s)
  IN  CASE op = "OP_2DROP" -> Popped(s, 2)
        [] op = "OP_2DUP" -> s \o <<Top(s, 2), Top(s, 1)>>
        [] op = "OP_3DUP" -> s \o <<Top(s, 3), Top(s, 2), Top(s, 1)>>
        [] op = "OP_2OVER" -> s \o <<Top(s, 4), Top(s, 3)>>
        [] op = "OP_2ROT" -> RemoveAt(RemoveAt(s, n - 5), n - 5) \o <<Top(s, 6), Top(s, 5)>>
        [] op = "OP_2SWAP" -> Swapped(Swapped(s, 4, 2), 3, 1)
        [] op = "OP_DROP" -> Popped(s, 1)
        [] op = "OP_DUP" -> Append(s, Top(s, 1))
        [] op = "OP_NIP" -> RemoveAt(s, n - 1)
        [] op = "OP_OVER" -> Append(s, Top(s, 2))
        [] op = "OP_ROT" -> Swapped(Swapped(s, 3, 2), 2, 1)
        [] op = "OP_SWAP" -> Swapped(s, 2, 1)
        [] op = "OP_TUCK" -> InsertAt(s, n - 1, Top(s, 1))

(* The number on top says which of the elements below is meant.              *)
PickOrRoll(op, s, alt) ==
  LET n == castBigint(Last(s))
      rest == Front(s)
  IN  IF s = <<>> \/ ~IsNumber(Last(s)) \/ n \notin 0 .. Len(rest) - 1 THEN Failure
      ELSE Done(Append(IF op = "OP_ROLL" THEN RemoveAt(rest, Len(rest) - n) ELSE rest,
                       Top(rest, n + 1)), alt)

Unary == {"OP_1ADD", "OP_1SUB", "OP_NEGATE", "OP_ABS", "OP_NOT", "OP_0NOTEQUAL"}
UnaryResult(op, n) ==
  CASE op = "OP_1ADD" -> n + 1
    [] op = "OP_1SUB" -> n - 1
    [] op = "OP_NEGATE" -> -n
    [] op = "OP_ABS" -> Abs(n)
    [] op = "OP_NOT" -> Bit(n = 0)
    [] op = "OP_0NOTEQUAL" -> Bit(n # 0)

Binary == {"OP_ADD", "OP_SUB", "OP_BOOLAND", "OP_BOOLOR", "OP_NUMEQUAL", "OP_NUMEQUALVERIFY",
  "OP_NUMNOTEQUAL", "OP_LESSTHAN", "OP_GREATERTHAN", "OP_LESSTHANOREQUAL",
  "OP_GREATERTHANOREQUAL", "OP_MIN", "OP_MAX"}
BinaryResult(op, a, b) ==
  CASE op = "OP_ADD" -> a + b
    [] op = "OP_SUB" -> a - b
    [] op = "OP_BOOLAND" -> Bit(a # 0 /\ b # 0)
    [] op = "OP_BOOLOR" -> Bit(a # 0 \/ b # 0)
    [] op \in {"OP_NUMEQUAL", "OP_NUMEQUALVERIFY"} -> Bit(a = b)
    [] op = "OP_NUMNOTEQUAL" -> Bit(a # b)
    [] op = "OP_LESSTHAN" -> Bit(a < b)
    [] op = "OP_GREATERTHAN" -> Bit(a > b)
    [] op = "OP_LESSTHANOREQUAL" -> Bit(a <= b)
    [] op = "OP_GREATERTHANOREQUAL" -> Bit(a >= b)
    [] op = "OP_MIN" -> IF a < b THEN a ELSE b
    [] op = "OP_MAX" -> IF a > b THEN a ELSE b

(* The last n elements are numbers.                                          *)
NumbersOnTop(s, n) == Len(s) >= n /\ \A i \in 1..n : IsNumber(Top(s, i))

Arithmetic(op, s, alt) ==
  LET arity == IF op \in Unary THEN 1 ELSE IF op = "OP_WITHIN" THEN 3 ELSE 2
      x(i) == castBigint(Top(s, i))
      result == CASE op \in Unary -> UnaryResult(op, x(1))
                  [] op \in Binary -> BinaryResult(op, x(2), x(1))
                  [] op = "OP_WITHIN" -> Bit(x(2) <= x(3) /\ x(3) < x(1))
      rest == Popped(s, arity)
  IN  IF ~NumbersOnTop(s, arity) THEN Failure
      ELSE IF op # "OP_NUMEQUALVERIFY" THEN Done(Append(rest, bigintToBuffer(result)), alt)
      ELSE IF result = 1 THEN Done(rest, alt) ELSE Failure

(* An equality leaves the byte 0 where it fails, not the empty OP_0.         *)
Equal(op, s, alt) ==
  LET same == Top(s, 1) = Top(s, 2)
  IN  IF Len(s) < 2 THEN Failure
      ELSE IF op = "OP_EQUAL" THEN Done(Append(Popped(s, 2), Truth(same)), alt)
      ELSE IF same THEN Done(Popped(s, 2), alt) ELSE Failure

(* Hashes are too long for numbers, true, and differ from each other.        *)
HashOps == {"OP_RIPEMD160", "OP_SHA1", "OP_SHA256", "OP_HASH160", "OP_HASH256"}
HashOf(op, data) ==
  [i \in 1..Limits.number |-> 255] \o <<IF op \in {"OP_SHA256", "OP_HASH256"} THEN 32 ELSE 20>> \o data

Compute(op, s, alt) ==
  CASE op \in Nops -> Done(s, alt)
    [] op = "OP_0" -> Done(Append(s, <<>>), alt)
    [] op = "OP_1NEGATE" -> Done(Append(s, bigintToBuffer(-1)), alt)
    [] op \in ToSet(SmallNumbers) ->
         Done(Append(s, bigintToBuffer(CHOOSE i \in 1..16 : SmallNumbers[i] = op)), alt)
    [] op \in DOMAIN Needs -> IF Len(s) < Needs[op] THEN Failure ELSE Done(Rearranged(op, s), alt)
    [] op = "OP_VERIFY" ->
         IF s = <<>> \/ ~castBool(Last(s)) THEN Failure ELSE Done(Front(s), alt)
    [] op = "OP_TOALTSTACK" ->
         IF s = <<>> THEN Failure ELSE Done(Front(s), Append(alt, Last(s)))
    [] op = "OP_FROMALTSTACK" ->
         IF alt = <<>> THEN Failure ELSE Done(Append(s, Last(alt)), Front(alt))
    [] op = "OP_IFDUP" ->
         IF s = <<>> THEN Failure ELSE Done(IF castBool(Last(s)) THEN Append(s, Last(s)) ELSE s, alt)
    [] op = "OP_DEPTH" -> Done(Append(s, bigintToBuffer(Len(s))), alt)
    [] op = "OP_SIZE" ->
         IF s = <<>> THEN Failure ELSE Done(Append(s, bigintToBuffer(Len(Last(s)))), alt)
    [] op \in {"OP_PICK", "OP_ROLL"} -> PickOrRoll(op, s, alt)
    [] op \in {"OP_EQUAL", "OP_EQUALVERIFY"} -> Equal(op, s, alt)
    [] op \in Unary \cup Binary \cup {"OP_WITHIN"} -> Arithmetic(op, s, alt)
    [] op \in HashOps ->
         IF s = <<>> THEN Failure ELSE Done(Append(Front(s), HashOf(op, Last(s))), alt)
    [] OTHER -> Failure   \* OP_RETURN, and opcodes the code does not know

-----------------------------------------------------------------------------
(* Signatures                                                                *)

(* The check of one signature against one key is that of signatures against  *)
(* keys with one of each.  code is what the signature must be about.         *)
NoCheck == [op |-> "none", sigs |-> <<>>, keys |-> <<>>, code |-> <<>>]
Check(op, sigs, keys, code) == [op |-> op, sigs |-> sigs, keys |-> keys, code |-> code]

(* The loop goes on behind the element that takes a deleted one's place.     *)
findAndDelete(chunks, data) ==
  LET deleted[i \in 0..Len(chunks)] ==
        i > 0 /\ chunks[i] = Push(data) /\ ~deleted[i - 1]
      kept[i \in 0..Len(chunks)] ==
        IF i = 0 THEN <<>> ELSE IF deleted[i] THEN kept[i - 1] ELSE Append(kept[i - 1], chunks[i])
  IN  kept[Len(chunks)]

(* The script from the last OP_CODESEPARATOR on, without the signatures.     *)
ScriptCode(sigs) ==
  LET without[i \in 0..Len(sigs)] ==
        IF i = 0 THEN SubSeq(scripts[run], hashStart + 1, Len(scripts[run]))
        ELSE findAndDelete(without[i - 1], sigs[i])
  IN  without[Len(sigs)]

checkSig(sig, key) == sig # <<>> /\ <<sig, key>> \in Valid

-----------------------------------------------------------------------------

Init ==
  /\ scripts \in Inputs
  /\ run = 1 /\ pc = 0 /\ stack = <<>> /\ altStack = <<>> /\ execStack = <<>>
  /\ hashStart = 0 /\ opCount = 0 /\ checking = NoCheck /\ answer = "none"

Script == scripts[run]
Chunk == Script[pc + 1]

(* The interpreter is about to look at a chunk.                              *)
Ready == answer = "none" /\ checking = NoCheck /\ Size(Script) <= Limits.script
Fetching == Ready /\ pc < Len(Script)

Exec == \A i \in DOMAIN execStack : execStack[i]

Disabled(c) == c.op \in Unsafe
TooMany(count) == count > Limits.ops
CountedOps == opCount + Bit(Counted(Chunk))

Refused ==
  \/ Len(Chunk.data) > Limits.push
  \/ Counted(Chunk) /\ TooMany(CountedOps)
  \/ Disabled(Chunk)

Fail ==
  /\ answer' = "error" /\ checking' = NoCheck
  /\ UNCHANGED <<scripts, run, pc, stack, altStack, execStack, hashStart, opCount>>

(* A chunk is done: both stacks together have a limit.                       *)
ProceedByStack(s, alt, conditions) ==
  IF Len(s) > Limits.stack THEN Fail
  ELSE /\ pc' = pc + 1 /\ opCount' = CountedOps
       /\ stack' = s /\ altStack' = alt /\ execStack' = conditions
       /\ UNCHANGED <<scripts, run, hashStart, checking, answer>>

Proceed(s, alt, conditions) ==
  IF Len(s) + Len(alt) > Limits.stack THEN Fail
  ELSE /\ pc' = pc + 1 /\ opCount' = CountedOps
       /\ stack' = s /\ altStack' = alt /\ execStack' = conditions
       /\ UNCHANGED <<scripts, run, hashStart, checking, answer>>

-----------------------------------------------------------------------------

Oversized == answer = "none" /\ Size(Script) > Limits.script /\ Fail

RefuseChunk == Fetching /\ Refused /\ Fail

(* Data go onto the stack; those of an inactive branch are skipped, unless   *)
(* they read as an opcode of conditionals, which throws.                     *)
PushData ==
  /\ Fetching /\ ~Refused /\ Chunk.op = "data"
  /\ IF Exec THEN Proceed(Append(stack, Chunk.data), altStack, execStack)
     ELSE IF InactiveToo(Chunk) THEN Fail
     ELSE Proceed(stack, altStack, execStack)

(* An OP_IF in an inactive branch counts, and takes nothing from the stack.  *)
If ==
  /\ Fetching /\ ~Refused /\ Chunk.op \in {"OP_IF", "OP_NOTIF"}
  /\ IF ~Exec THEN Proceed(stack, altStack, Append(execStack, FALSE))
     ELSE IF stack = <<>> THEN Fail
     ELSE Proceed(Front(stack), altStack,
                  Append(execStack, castBool(Last(stack)) <=> (Chunk.op = "OP_IF")))

ElseOfActive ==
  /\ Fetching /\ ~Refused /\ Chunk.op = "OP_ELSE"
  /\ IF execStack = <<>> THEN Fail
     ELSE Proceed(stack, altStack, [i \in DOMAIN execStack |-> ~execStack[i]])

Else ==
  /\ Fetching /\ ~Refused /\ Chunk.op = "OP_ELSE"
  /\ IF execStack = <<>> THEN Fail
     ELSE Proceed(stack, altStack, Append(Front(execStack), ~Last(execStack)))

EndIf ==
  /\ Fetching /\ ~Refused /\ Chunk.op = "OP_ENDIF"
  /\ IF execStack = <<>> THEN Fail ELSE Proceed(stack, altStack, Front(execStack))

Skip ==
  /\ Fetching /\ ~Refused /\ ~Exec /\ Chunk.op # "data" /\ ~InactiveToo(Chunk)
  /\ Proceed(stack, altStack, execStack)

CodeSeparator ==
  /\ Fetching /\ ~Refused /\ Exec /\ Chunk.op = "OP_CODESEPARATOR"
  /\ pc' = pc + 1 /\ hashStart' = pc + 1 /\ opCount' = CountedOps
  /\ UNCHANGED <<scripts, run, stack, altStack, execStack, checking, answer>>

(* The opcodes that only change the stacks, and those that always throw.     *)
Execute ==
  /\ Fetching /\ ~Refused
  /\ Chunk.op \notin {"data", "OP_CODESEPARATOR"} \cup Conditionals \cup SigOps
  /\ Exec \/ InactiveToo(Chunk)
  /\ LET result == Compute(Chunk.op, stack, altStack)
     IN  IF result.ok THEN Proceed(result.stack, result.alt, execStack) ELSE Fail

-----------------------------------------------------------------------------
(* The interpreter waits for the check of the first signature against the    *)
(* first key, and goes on when signatures or enough keys are gone.  What a   *)
(* check is about leaves the stack at once: nothing looks at it meanwhile.   *)

WaitFor(op, s, sigs, keys, count) ==
  /\ checking' = Check(op, sigs, keys, ScriptCode(sigs))
  /\ stack' = s /\ opCount' = count /\ pc' = pc + 1
  /\ UNCHANGED <<scripts, run, altStack, execStack, hashStart, answer>>

(* (sig pubkey -- bool)                                                      *)
CheckSig ==
  /\ Fetching /\ ~Refused /\ Exec /\ Chunk.op \in {"OP_CHECKSIG", "OP_CHECKSIGVERIFY"}
  /\ IF Len(stack) < 2 THEN Fail
     ELSE WaitFor(Chunk.op, Popped(stack, 2), <<Top(stack, 2)>>, <<Top(stack, 1)>>, CountedOps)

(* A number, as many elements, and what is below, or Failure.                *)
TakeList(s, max) ==
  LET n == castBigint(Last(s))
  IN  IF s = <<>> \/ ~IsNumber(Last(s)) \/ n \notin 0..max \/ Len(s) < n + 1 THEN Failure
      ELSE Done(Popped(s, n + 1), [i \in 1..n |-> Top(s, i + 1)])

(* ([sig ...] num_of_signatures [pubkey ...] num_of_pubkeys -- bool), and an *)
(* element more, as the original client does.                                *)
CheckMultiSig ==
  LET keys == TakeList(stack, Limits.keys)
      sigs == TakeList(keys.stack, Len(keys.alt))
      count == CountedOps + Len(keys.alt)
  IN  /\ Fetching /\ ~Refused /\ Exec
      /\ Chunk.op \in {"OP_CHECKMULTISIG", "OP_CHECKMULTISIGVERIFY"}
      /\ IF ~keys.ok \/ TooMany(count) \/ ~sigs.ok \/ sigs.stack = <<>> THEN Fail
         ELSE WaitFor(Chunk.op, Front(sigs.stack), sigs.alt, keys.alt, count)

TooFewKeys == Len(checking.sigs) > Len(checking.keys)

(* An answer of the check: a key that fits stays for the next signature.     *)
SigChecked ==
  /\ checking # NoCheck /\ checking.sigs # <<>> /\ ~TooFewKeys
  /\ checking' = IF checkSig(Head(checking.sigs), Head(checking.keys))
                   THEN [checking EXCEPT !.sigs = Tail(@)]
                   ELSE [checking EXCEPT !.keys = Tail(@)]
  /\ UNCHANGED <<scripts, run, pc, stack, altStack, execStack, hashStart, opCount, answer>>

(* The result of the check; the limit of the stacks is not looked at.        *)
SigsChecked ==
  /\ checking # NoCheck /\ (checking.sigs = <<>> \/ TooFewKeys)
  /\ IF checking.op \in {"OP_CHECKSIG", "OP_CHECKMULTISIG"} \/ ~TooFewKeys
       THEN /\ checking' = NoCheck
            /\ stack' = IF checking.op \in {"OP_CHECKSIG", "OP_CHECKMULTISIG"}
                          THEN Append(stack, Truth(~TooFewKeys)) ELSE stack
            /\ UNCHANGED <<scripts, run, pc, altStack, execStack, hashStart, opCount, answer>>
       ELSE Fail

-----------------------------------------------------------------------------

(* Only the stack goes on to the second script.                              *)
SecondScriptKeepsSeparator ==
  /\ run' = 2 /\ pc' = 0 /\ altStack' = <<>> /\ opCount' = 0
  /\ UNCHANGED <<scripts, stack, execStack, hashStart, checking, answer>>

SecondScript ==
  /\ run' = 2 /\ pc' = 0 /\ altStack' = <<>> /\ hashStart' = 0 /\ opCount' = 0
  /\ UNCHANGED <<scripts, stack, execStack, checking, answer>>

Result ==
  /\ answer' = IF stack = <<>> THEN "error" ELSE IF castBool(Last(stack)) THEN "true" ELSE "false"
  /\ UNCHANGED <<scripts, run, pc, stack, altStack, execStack, hashStart, opCount, checking>>

EndOfScript ==
  /\ Ready /\ pc = Len(Script)
  /\ IF execStack # <<>> THEN Fail ELSE IF run = 1 THEN SecondScript ELSE Result

Answered == answer # "none" /\ UNCHANGED vars

Next ==
  \/ Oversized \/ RefuseChunk \/ PushData \/ If \/ Else \/ EndIf \/ Skip
  \/ CodeSeparator \/ Execute \/ CheckSig \/ CheckMultiSig \/ SigChecked \/ SigsChecked
  \/ EndOfScript \/ Answered

Spec == Init /\ [][Next]_vars

-----------------------------------------------------------------------------
(* The stacks hold data, and no more than their limit: the checks of         *)
(* signatures, which do not look at the limit, cannot exceed it.             *)
TypeOK ==
  /\ scripts \in Inputs /\ run \in 1..2 /\ pc \in 0..Len(Script)
  /\ stack \in Seq(Data) /\ altStack \in Seq(Data)
  /\ Len(stack) + Len(altStack) <= Limits.stack
  /\ execStack \in Seq(BOOLEAN)
  /\ hashStart \in 0..pc /\ opCount \in 0..Limits.ops
  /\ checking.op \in {"none"} \cup SigOps /\ answer \in {"none", "error", "true", "false"}

(* What a signature is checked against is the running script from behind an  *)
(* OP_CODESEPARATOR on, or all of it, with the opcode that checks; no        *)
(* separator outside the conditionals lies between them; and only the        *)
(* signatures are missing from it, unless the script repeats one of them.    *)
Outside(i) ==
  LET before(ops) == Cardinality({j \in 1..i : Script[j].op \in ops})
  IN  before({"OP_IF", "OP_NOTIF"}) = before({"OP_ENDIF"})

(* The chunks that are not among those that have gone, in their order.       *)
Remaining(chunks, gone) ==
  LET rest[n \in 0..Len(chunks)] ==
        IF n = 0 THEN <<>> ELSE IF chunks[n] \in gone THEN rest[n - 1]
        ELSE Append(rest[n - 1], chunks[n])
  IN  rest[Len(chunks)]

SignsFrom(start, sigs, code) ==
  LET signed == SubSeq(Script, start + 1, Len(Script))
      copies(sig) == {i \in DOMAIN signed : signed[i] = Push(sig)}
  IN  /\ start = 0 \/ Script[start].op = "OP_CODESEPARATOR"
      /\ \A i \in start + 1 .. pc : Script[i].op = "OP_CODESEPARATOR" => ~Outside(i)
      /\ (\A sig \in sigs : Cardinality(copies(sig)) <= 1) =>
           code = Remaining(signed, {Push(sig) : sig \in sigs})

SignsOwnScript ==
  [][checking = NoCheck /\ checking' # NoCheck =>
       \E start \in 0..pc : SignsFrom(start, ToSet(checking'.sigs), checking'.code)]_vars

(* How many elements an opcode is about, and which of these (1 the lowest)   *)
(* are there afterwards: as the comments of the opcodes picture it, but for  *)
(* that of OP_3DUP, which is the one of OP_2DUP.                             *)
Picture == [OP_2DROP |-> <<2, <<>>>>, OP_2DUP |-> <<2, <<1, 2, 1, 2>>>>,
  OP_3DUP |-> <<3, <<1, 2, 3, 1, 2, 3>>>>, OP_2OVER |-> <<4, <<1, 2, 3, 4, 1, 2>>>>,
  OP_2ROT |-> <<6, <<3, 4, 5, 6, 1, 2>>>>, OP_2SWAP |-> <<4, <<3, 4, 1, 2>>>>,
  OP_DROP |-> <<1, <<>>>>, OP_DUP |-> <<1, <<1, 1>>>>, OP_NIP |-> <<2, <<2>>>>,
  OP_OVER |-> <<2, <<1, 2, 1>>>>, OP_ROT |-> <<3, <<2, 3, 1>>>>,
  OP_SWAP |-> <<2, <<2, 1>>>>, OP_TUCK |-> <<2, <<2, 1, 2>>>>]

AsPictured(op) ==
  LET size == Picture[op][1]
      after == Picture[op][2]
  IN  stack' = Popped(stack, size) \o [i \in DOMAIN after |-> Top(stack, size - after[i] + 1)]

(* The opcodes that rearrange the stack do so as their comments picture it   *)
(* (OP_3DUP as its name has it: its comment is that of another opcode), and  *)
(* a result of arithmetic is encoded as the data that read as it, in as few  *)
(* bytes as can be.                                                          *)
ExactNumber(op) ==
  LET result == IF op \in Unary THEN UnaryResult(op, castBigint(Top(stack, 1)))
                ELSE BinaryResult(op, castBigint(Top(stack, 2)), castBigint(Top(stack, 1)))
      data == Last(stack')
  IN  /\ castBigint(data) = result
      /\ \A n \in 0 .. Len(data) - 1 : castBigint(SubSeq(data, 1, n)) # result
      /\ castBool(data) = (result # 0)

ComputesAsPictured ==
  [][pc' = pc + 1 /\ Exec =>
       /\ Chunk.op \in DOMAIN Picture => AsPictured(Chunk.op)
       /\ Chunk.op \in (Unary \cup Binary) \ {"OP_NUMEQUALVERIFY"} => ExactNumber(Chunk.op)]_vars
=============================================================================
