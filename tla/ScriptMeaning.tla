--------------------------- MODULE ScriptMeaning ----------------------------
(* What a pair of scripts means, without program counter, stack of           *)
(* conditions or checks in steps: conditionals are unfolded to the branches  *)
(* they select, limits are read off the text, and signatures are assigned    *)
(* to keys.                                                                  *)
EXTENDS ScriptInterpreter

(* Conditionals that are open behind chunk i.                                *)
Depth(script, i) ==
  LET count(ops) == Cardinality({j \in 1..i : script[j].op \in ops})
  IN  count({"OP_IF", "OP_NOTIF"}) - count({"OP_ENDIF"})

Balanced(script) ==
  /\ Depth(script, Len(script)) = 0
  /\ \A i \in DOMAIN script : /\ Depth(script, i) >= 0
                              /\ script[i].op = "OP_ELSE" => Depth(script, i) >= 1

CountedChunks(script) == Len(SelectSeq(script, Counted))

(* What holds of a text that can succeed at all.                             *)
WellFormed(script) ==
  /\ Size(script) <= Limits.script /\ Balanced(script)
  /\ \A c \in ToSet(script) : /\ Len(c.data) <= Limits.push
                              /\ c.op \notin Unsafe \cup {"OP_VERIF", "OP_VERNOTIF"}

(* The script that is left when the condition of its leading conditional is  *)
(* known: branches are taken alternately.                                    *)
Unfolded(script, condition) ==
  LET end == CHOOSE i \in DOMAIN script :
               Depth(script, i) = 0 /\ \A j \in 1 .. i - 1 : Depth(script, j) > 0
      elses == {i \in 1..end : script[i].op = "OP_ELSE" /\ Depth(script, i) = 1}
      taken(i) == (Cardinality({j \in elses : j < i}) % 2 = 0) <=> condition
      body == SelectSeq([i \in 1 .. end - 1 |-> i], LAMBDA i : i > 1 /\ i \notin elses /\ taken(i))
  IN  [i \in DOMAIN body |-> script[body[i]]] \o SubSeq(script, end + 1, Len(script))

(* The signatures have keys in their order; a key may serve several, and no  *)
(* more keys are passed over than there are too many.                        *)
Fit(sigs, keys) ==
  \E key \in [DOMAIN sigs -> DOMAIN keys] :
    \A i \in DOMAIN sigs :
      /\ checkSig(sigs[i], keys[key[i]])
      /\ key[i] - i <= Len(keys) - Len(sigs)
      /\ \A j \in 1 .. i - 1 : key[j] <= key[i]

Checked(op, s, alt, fits) ==
  IF op \in {"OP_CHECKSIG", "OP_CHECKMULTISIG"} THEN Done(Append(s, Truth(fits)), alt)
  ELSE IF fits THEN Done(s, alt) ELSE Failure

Effect(op, s, alt) ==
  LET keys == TakeList(s, Limits.keys)
      sigs == TakeList(keys.stack, Len(keys.alt))
  IN  CASE op \in {"OP_CHECKSIG", "OP_CHECKSIGVERIFY"} ->
             IF Len(s) < 2 THEN Failure
             ELSE Checked(op, Popped(s, 2), alt, checkSig(Top(s, 2), Top(s, 1)))
        [] op \in SigOps \ {"OP_CHECKSIG", "OP_CHECKSIGVERIFY"} ->
             IF ~keys.ok \/ ~sigs.ok \/ sigs.stack = <<>> THEN Failure
             ELSE Checked(op, Front(sigs.stack), alt, Fit(sigs.alt, keys.alt))
        [] op = "OP_CODESEPARATOR" -> Done(s, alt)
        [] OTHER -> Compute(op, s, alt)

Keys(op, s) ==
  IF op \in {"OP_CHECKMULTISIG", "OP_CHECKMULTISIGVERIFY"} THEN castBigint(Last(s)) ELSE 0

Outcomes == [ok: BOOLEAN, stack: Seq(Data), alt: Seq(Data)]

(* The stacks behind a script that starts with those of at, or Failure.      *)
Execution[script \in Seq(Chunks), at \in Outcomes, count \in Nat] ==
  LET c == Head(script)
      s == at.stack
  IN  IF ~at.ok \/ count > Limits.ops \/ Len(s) + Len(at.alt) > Limits.stack THEN Failure
      ELSE IF script = <<>> THEN at
      ELSE IF c.op = "data"
        THEN Execution[Tail(script), Done(Append(s, c.data), at.alt), count]
      ELSE IF c.op \notin {"OP_IF", "OP_NOTIF"}
        THEN Execution[Tail(script), Effect(c.op, s, at.alt), count + Keys(c.op, s)]
      ELSE IF s = <<>> THEN Failure
      ELSE Execution[Unfolded(script, castBool(Last(s)) <=> c.op = "OP_IF"),
                     Done(Front(s), at.alt), count]

(* The second script runs on the stack of the first.                         *)
Evaluate(at, script) ==
  IF at.ok /\ WellFormed(script)
    THEN Execution[script, Done(at.stack, <<>>), CountedChunks(script)] ELSE Failure

Verdict[at \in Outcomes] ==
  IF ~at.ok \/ at.stack = <<>> THEN "error"
  ELSE IF castBool(Last(at.stack)) THEN "true" ELSE "false"

Meaning(pair) == Verdict[FoldLeft(Evaluate, Done(<<>>, <<>>), pair)]

(* No data read as a number of an opcode.                                    *)
Plain(script) == \A c \in ToSet(script) : c.data \notin Numerals

(* The interpreter answers what the scripts mean, unless their data read as  *)
(* numbers.                                                                  *)
AnswersMeaning ==
  answer # "none" /\ Plain(scripts[1]) /\ Plain(scripts[2]) => answer = Meaning(scripts)
=============================================================================
