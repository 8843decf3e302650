----------------------------- MODULE MCScript -------------------------------
(* Pairs of scripts for ScriptMeaning, a set for every part of the language. *)
EXTENDS ScriptMeaning

SmallLimits == [script |-> 40, push |-> 3, number |-> 2, ops |-> 9, stack |-> 9, keys |-> 3]

(* Two signatures by the first of three keys, one by the second.             *)
Sig(n) == <<200, n>>
Key(n) == <<201, n>>
Fitting == {<<Sig(1), Key(1)>>, <<Sig(2), Key(1)>>, <<Sig(3), Key(2)>>}

(* "97", "99" and "1e2", of which the first is no number of a conditional.   *)
NumeralTexts == {<<57, 55>>, <<57, 57>>, <<49, 101, 50>>}
BranchTexts == {<<57, 57>>, <<49, 101, 50>>}

Ops(names) == {Op(name) : name \in names}
Texts(chunks, n) == UNION {[1..k -> chunks] : k \in 0..n}
Pushes(data) == [i \in DOMAIN data |-> Push(data[i])]

Conditions == {<<Op("OP_0"), Op("OP_1")>>, <<Push(<<128>>), Op("OP_IFDUP")>>}
  \X Texts(Ops({"OP_IF", "OP_NOTIF", "OP_ELSE", "OP_ENDIF", "OP_DROP"}), 5)

(* Two conditionals, one in a branch of the other.                           *)
Nested == {<<<<Op(a), Op(b)>>, <<Op("OP_IF"), x, Op("OP_ELSE"), Op("OP_NOTIF"), y, Op("OP_ELSE"),
             z, Op("OP_ENDIF"), Op("OP_ENDIF"), Op("OP_1")>>>> :
  a \in {"OP_0", "OP_1"}, b \in {"OP_0", "OP_1", "OP_VER"},
  x \in Ops({"OP_RETURN", "OP_CAT", "OP_VERIF", "OP_TOALTSTACK", "OP_IF"}) \cup {Push(data) : data \in NumeralTexts},
  y \in Ops({"OP_FROMALTSTACK", "OP_1", "OP_RESERVED"}) \cup {Push(<<1, 2, 3, 4>>)},
  z \in Ops({"OP_VERIFY", "OP_ENDIF", "OP_2"})}

Stacks ==
  {Pushes([i \in 1..n |-> <<i>>]) : n \in {0, 2, 6}}
  \X {<<x, y>> : x \in Ops(DOMAIN Needs), y \in Ops(DOMAIN Needs \cup {"OP_DEPTH", "OP_SIZE"})}

Places ==
  {Pushes(<<<<7>>, <<8>>, <<9>>, n>>) : n \in {<<>>, <<1>>, <<2>>, <<3>>, <<129>>, <<1, 1, 1>>}}
  \X {<<Op(x), Op(y)>> : x \in {"OP_PICK", "OP_ROLL", "OP_TOALTSTACK"},
                         y \in {"OP_FROMALTSTACK", "OP_NOP7", "OP_VERIFY", "OP_SHA256"}}

Amounts == {<<>>, <<1>>, <<128>>, <<129>>, <<127>>, <<255>>, <<128, 0>>, <<255, 127>>, <<255, 255>>,
  <<0, 1>>, <<1, 0, 1>>}
Sums ==
  {Pushes(<<a, b>>) : a, b \in Amounts}
  \X ({<<Op(x)>> : x \in Binary \cup Unary \cup {"OP_EQUAL", "OP_EQUALVERIFY"}}
      \cup {<<Op("OP_ADD"), Op("OP_1ADD")>>, <<Op("OP_3"), Op("OP_WITHIN")>>})

(* The second script holds one of the signatures, too.                       *)
Signatures ==
  {Pushes(<<a>>) \o first : a \in {<<>>, Sig(1), Sig(3)},
     first \in {<<>>, <<Op("OP_CODESEPARATOR")>>}}
  \X {before \o <<Push(Key(1))>> \o between \o <<Op(check), Push(Sig(1))>> \o after :
     before \in {<<>>, <<Op("OP_CODESEPARATOR")>>, <<Push(Sig(1)), Op("OP_DROP")>>,
                 <<Op("OP_0"), Op("OP_IF"), Op("OP_CODESEPARATOR"), Op("OP_ENDIF")>>},
     between \in {<<>>, <<Op("OP_CODESEPARATOR")>>},
     check \in {"OP_CHECKSIG", "OP_CHECKSIGVERIFY"},
     after \in {<<>>, <<Op("OP_DROP")>>, <<Push(Sig(1))>>}}

Multiple ==
  {<<Op("OP_0")>> \o Pushes(sigs) \o <<Op(m)>> :
     sigs \in UNION {[1..n -> {<<>>} \cup {Sig(i) : i \in 1..3}] : n \in 0..2},
     m \in {"OP_0", "OP_1", "OP_2"}}
  \X {Pushes(keys) \o <<Op(n), Op(check)>> :
     keys \in UNION {[1..k -> {Key(1), Key(2)}] : k \in 1..3},
     n \in {"OP_1", "OP_2", "OP_3"},
     check \in {"OP_CHECKMULTISIG", "OP_CHECKMULTISIGVERIFY"}}

(* As many chunks, counted chunks, bytes or elements as fit, and more.       *)
Bounds ==
  {Pushes([i \in 1..n |-> <<1>>]) : n \in {1, 2, 9, 10}}
  \X ({[i \in 1..n |-> Op(op)] : n \in 7..10, op \in {"OP_NOP", "OP_DUP"}}
      \cup {[i \in 1..n |-> Push(<<1, 1, 1>>)] : n \in {1, 9, 10, 11}}
      \cup {<<Op("OP_TOALTSTACK"), Op("OP_DUP"), Op("OP_DUP")>>})
  \cup {<<Pushes(<<<<>>, Key(1), Key(1), Key(1)>>), [i \in 1..n |-> Op("OP_NOP")]
          \o <<Push(<<0>>), Op("OP_SWAP"), Op("OP_3"), Op("OP_CHECKMULTISIG")>>>> : n \in 0..7}

AllInputs == Conditions \cup Nested \cup Stacks \cup Places \cup Sums \cup Signatures \cup Multiple
  \cup Bounds
=============================================================================
