----------------------------- MODULE Connection -----------------------------
(* The messages of a connection between two nodes, from lib/connection.js:   *)
(* the version handshake, the switch to checksums it brings, and how         *)
(* messages are found again in a stream that arrives in pieces.              *)
(*                                                                           *)
(* A stream is a sequence of tokens for what the code reads as a unit.  The  *)
(* four bytes of the magic number are two tokens, since the scan for them    *)
(* must meet a part of them; the twelve bytes of the command, the four of    *)
(* the length and the four of the checksum are one each, so the 20 bytes of  *)
(* a header are four tokens and the 24 of one with a checksum are five.      *)
(*                                                                           *)
(* A definition whose name extends that of the one below it is a faulty      *)
(* variant, with the mistake a change of the code could make.                *)
EXTENDS Integers, Sequences, SequencesExt

CONSTANTS
  Versions,   \* the protocol versions of nodes, all with checksums
  MaxSent,    \* bound: messages of the application sent by each end
  MaxGarbage  \* bound: tokens of garbage between messages

Ends == {"out", "in"}    \* the node that connected, the node that listened

ASSUME ConnectionAssumption ==
  /\ Versions \subseteq Nat /\ \A v \in Versions : v >= 209
  /\ MaxSent \in [Ends -> Nat] /\ MaxGarbage \in Nat

Other(e) == IF e = "out" THEN "in" ELSE "out"

VARIABLES
  conn,      \* the Connection of an end
  stream,    \* tokens on the way to an end
  sent,      \* messages of the application: sent by an end,
  version,   \* Node.version of an end
  self,      \* both ends are the same node
  opened,    \* the socket is connected
  garbage    \* tokens of garbage so far

vars == <<conn, stream, sent, version, self, opened, garbage>>

NaN == -1    \* Math.min(undefined, ...); below every version

\* Command words
Version == 1
Verack == 2
App == 3     \* any message of the application, told apart by a number

HasChecksum(v) == v >= 209
Token(kind, val) == [kind |-> kind, val |-> val]
Payload(vals) == [i \in DOMAIN vals |-> Token("data", vals[i])]
Hash(tokens) == IF tokens = <<>> THEN 7 ELSE 8 + tokens[1].val

TypeOK ==
  /\ \A e \in Ends :
       /\ conn[e].sendVer \in {0, 209} \cup Versions
       /\ conn[e].recvVer \in {0, 209} \cup Versions
       /\ conn[e].heard \in {0} \cup Versions
       /\ conn[e].onVerack \in Seq(Versions)
       /\ conn[e].active \in BOOLEAN /\ conn[e].ended \in BOOLEAN
       /\ conn[e].thrown \in BOOLEAN
       /\ conn[e].out = <<>>
  /\ version \in [Ends -> Versions]
  /\ self \in BOOLEAN /\ opened \in BOOLEAN /\ garbage \in 0..MaxGarbage

(* Since 20 February 2012 checksums are used from the start.                 *)
NewConnection(v) ==
  [sendVer |-> v, recvVer |-> v, heard |-> 0, onVerack |-> <<>>, active |-> FALSE,
   ended |-> FALSE, thrown |-> FALSE, buffers |-> <<>>, got |-> <<>>, out |-> <<>>]

Init ==
  /\ \E v \in {0, 209} : conn = [e \in Ends |-> NewConnection(v)]
  /\ stream = [e \in Ends |-> <<>>]
  /\ sent = [e \in Ends |-> 0]
  /\ self \in BOOLEAN
  /\ version \in [Ends -> Versions] /\ (self => version["out"] = version["in"])
  /\ opened = FALSE /\ garbage = 0

-----------------------------------------------------------------------------
(* The handlers, as functions of a Connection c; what it writes to the       *)
(* socket is gathered in c.out.                                              *)

SendMessage(c, command, payload) ==
  LET checksum == IF HasChecksum(c.sendVer) THEN <<Token("sum", Hash(payload))>> ELSE <<>>
      header == <<Token("magic1", 0), Token("magic2", 0), Token("command", command),
                  Token("length", Len(payload))>>
  IN  IF c.ended THEN c ELSE [c EXCEPT !.out = @ \o header \o checksum \o payload]

Nonce(e) == IF self \/ e = "out" THEN 1 ELSE 2
SendVersion(c, e) == SendMessage(c, Version, Payload(<<version[e], Nonce(e)>>))

Smaller(v, w) == IF v < w THEN v ELSE w

(* The checksum of incoming messages is looked for once the verack is there. *)
ExpectChecksumsAtOnce(c, v) == [c EXCEPT !.recvVer = v, !.onVerack = Append(@, v)]
ExpectChecksums(c, v) == [c EXCEPT !.onVerack = Append(@, v)]

HandleVersionLateVerack(c, e, v) ==
  LET answered == IF e = "in" THEN SendVersion(c, e) ELSE c
      switched == [answered EXCEPT !.sendVer = Smaller(v, version[e]), !.heard = v]
  IN  ExpectChecksums(SendMessage(switched, Verack, <<>>), v)

HandleVersionActive(c, e, v) ==
  LET answered == IF e = "in" THEN SendVersion(c, e) ELSE c
      done == SendMessage(answered, Verack, <<>>)
  IN  ExpectChecksums([done EXCEPT !.sendVer = Smaller(v, version[e]),
                                   !.heard = v, !.active = TRUE], v)

HandleVersion(c, e, v) ==
  LET answered == IF e = "in" THEN SendVersion(c, e) ELSE c
      done == IF HasChecksum(v) THEN SendMessage(answered, Verack, <<>>) ELSE answered
      switched == [done EXCEPT !.sendVer = Smaller(v, version[e]), !.heard = v]
  IN  IF HasChecksum(v) THEN ExpectChecksums(switched, v)
      ELSE [switched EXCEPT !.recvVer = Smaller(v, version[e])]

(* A verack has no version: the smaller one is not a number, until the       *)
(* listener that a version left sets it.                                     *)
HandleVerackOfVersion(c) ==
  [c EXCEPT !.active = TRUE, !.onVerack = <<>>, !.recvVer = NaN]

HandleVerack(c) ==
  [c EXCEPT !.active = TRUE, !.onVerack = <<>>,
            !.recvVer = IF c.onVerack = <<>> THEN NaN ELSE Last(c.onVerack)]

(* A message that cannot be parsed, or has an unknown command, is dropped.   *)
HandleMessage(c, e, command, payload) ==
  CASE command.kind = "command" /\ command.val = Version /\ Len(payload) >= 2 ->
         IF payload[2].val = Nonce(e) THEN [c EXCEPT !.ended = TRUE]
         ELSE HandleVersion(c, e, payload[1].val)
    [] command.kind = "command" /\ command.val = Verack -> HandleVerack(c)
    [] command.kind = "command" /\ command.val = App /\ Len(payload) >= 1 ->
         [c EXCEPT !.got = Append(@, payload[1].val)]
    [] OTHER -> c

-----------------------------------------------------------------------------
(* processData, on the buffers b of c.                                       *)

Header == 4
MagicAt(b, i) == b[i].kind = "magic1" /\ i < Len(b) /\ b[i + 1].kind = "magic2"

(* The scan reads beyond the end when the buffers end with a part of the     *)
(* magic number, and the header beyond it when garbage before it is skipped. *)
CutMagic(b) ==
  b # <<>> /\ b[Len(b)].kind = "magic1" /\ \A i \in DOMAIN b : ~MagicAt(b, i)

FirstMagic(b) ==
  CHOOSE i \in DOMAIN b : MagicAt(b, i) /\ \A j \in 1 .. i - 1 : ~MagicAt(b, j)

Drop(b, n) == SubSeq(b, n + 1, Len(b))

Throws(c) == [c EXCEPT !.thrown = TRUE]

(* A message leaves the buffers after it was handled.                        *)
MessageKept(c, e, b, start, end) ==
  LET handled == HandleMessage(c, e, b[3], SubSeq(b, start + 1, end))
  IN  [handled EXCEPT !.buffers = b]

Message(c, e, b, start, end) ==
  LET handled == HandleMessage(c, e, b[3], SubSeq(b, start + 1, end))
  IN  [handled EXCEPT !.buffers = Drop(b, end)]

(* A wrong checksum leaves the message where it is.                          *)
ReadMessage(c, e, b) ==
  LET sums == HasChecksum(c.recvVer)
      start == IF sums THEN Header + 1 ELSE Header
      end == start + b[4].val
  IN  IF \/ Len(b) < end
         \/ sums /\ b[5].val # Hash(SubSeq(b, start + 1, end))
      THEN [c EXCEPT !.buffers = b]
      ELSE Message(c, e, b, start, end)

(* One call of processData, without the one it ends with.                    *)
Round(c, e) ==
  LET b == c.buffers
      found == \E i \in DOMAIN b : MagicAt(b, i)
      rest == IF found THEN Drop(b, FirstMagic(b) - 1) ELSE b
  IN  IF c.thrown \/ Len(b) < Header THEN c
      ELSE IF CutMagic(b) THEN Throws(c)
      ELSE IF ~found THEN [c EXCEPT !.buffers = Drop(b, Len(b) - 1)]
      ELSE IF Len(rest) < Header THEN Throws([c EXCEPT !.buffers = rest])
      ELSE ReadMessage(c, e, rest)

(* It calls itself after each message; a round more than there are messages  *)
(* changes nothing.  The set holds the one Connection that is left.          *)
ProcessData(c, e) ==
  LET left[n \in 0 .. Len(c.buffers)] ==
        IF n = 0 THEN {c} ELSE {Round(x, e) : x \in left[n - 1]}
  IN  left[Len(c.buffers)]

-----------------------------------------------------------------------------
(* The connection e is now c, and what it wrote is on its way.               *)
Write(e, c, streams) ==
  /\ conn' = [conn EXCEPT ![e] = [c EXCEPT !.out = <<>>]]
  /\ stream' = [streams EXCEPT ![Other(e)] = @ \o c.out]

Connect ==
  /\ ~opened /\ opened' = TRUE
  /\ Write("out", SendVersion(conn["out"], "out"), stream)
  /\ UNCHANGED <<sent, version, self, garbage>>

(* The application sends when it likes: the node broadcasts to connections   *)
(* that have had no handshake too, even before the socket is connected.      *)
Send(e) ==
  /\ sent[e] < MaxSent[e] /\ (opened \/ e = "out") /\ ~conn[e].thrown /\ ~conn[e].ended
  /\ sent' = [sent EXCEPT ![e] = @ + 1]
  /\ Write(e, SendMessage(conn[e], App, Payload(<<sent[e] + 1>>)), stream)
  /\ UNCHANGED <<version, self, opened, garbage>>

(* Any part of what is on the way arrives.                                   *)
HandleData(e) ==
  /\ opened /\ ~conn[e].thrown
  /\ \E n \in 1..Len(stream[e]) :
       \E c \in ProcessData([conn[e] EXCEPT !.buffers = @ \o SubSeq(stream[e], 1, n)], e) :
         Write(e, c, [stream EXCEPT ![e] = Drop(@, n)])
  /\ UNCHANGED <<sent, version, self, opened, garbage>>

Garbage(e) ==
  /\ opened /\ garbage < MaxGarbage /\ garbage' = garbage + 1
  /\ stream' = [stream EXCEPT ![e] = Append(@, Token("junk", 0))]
  /\ UNCHANGED <<conn, sent, version, self, opened>>

Next == Connect \/ \E e \in Ends : Send(e) \/ HandleData(e) \/ Garbage(e)
Spec == Init /\ [][Next]_vars

FairSpec == Spec /\ WF_vars(Connect) /\ \A e \in Ends : WF_vars(HandleData(e))

-----------------------------------------------------------------------------
(* What arrives is what was sent, in order, through the switch to checksums  *)
(* and whatever the pieces it came in.                                       *)
DeliversInOrder ==
  \A e \in Ends : /\ Len(conn[e].got) <= sent[Other(e)]
                  /\ \A i \in DOMAIN conn[e].got : conn[e].got[i] = i

(* A connection is used only when the other end has taken its version.       *)
ActiveWhenHeard ==
  \A e \in Ends : conn[e].active => conn[Other(e)].heard = version[e] /\ ~self

(* Reading fails only after garbage.                                         *)
ThrowsOnlyOnGarbage == \A e \in Ends : conn[e].thrown => garbage > 0

(* The handshake ends and all messages arrive, unless the node is connected  *)
(* to itself or failed on garbage.                                           *)
Delivered ==
  <>[](\/ self \/ \E e \in Ends : conn[e].thrown
       \/ \A e \in Ends : conn[e].active /\ Len(conn[e].got) = sent[Other(e)])
=============================================================================
