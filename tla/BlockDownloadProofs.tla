------------------------ MODULE BlockDownloadProofs ------------------------
(* Theorems about the download of the chain: its types, and the two          *)
(* invariants that tie the manager and the orphans to the queue of the block *)
(* chain.  They hold for every network, every batch size and any number of   *)
(* lost connections and early timeouts.                                      *)
(*                                                                           *)
(* Among and AskForOrphans are loops, written as recursive functions; what   *)
(* they return is found by the least round at which it would be wrong.       *)
EXTENDS BlockDownload, LoopProofs

-----------------------------------------------------------------------------
(* Loops over a sequence, as recursive functions.                            *)

(* The elements of a filtered sequence are of the same kind.                 *)
LEMMA AmongType ==
  ASSUME NEW S, NEW seq \in Seq(S), NEW set
  PROVE  Among(seq, set) \in Seq(S)
  <1> DEFINE n == Len(seq)
             Def(f) == [i \in 0 .. n |->
                          IF i = 0 THEN <<>>
                          ELSE IF seq[i] \in set THEN Append(f[i - 1], seq[i]) ELSE f[i - 1]]
             round == [i \in 1 .. n |-> [x \in Seq(S) |->
                          IF seq[i] \in set THEN Append(x, seq[i]) ELSE x]]
             kept == CHOOSE f : f = Def(f)
  <1>1. n \in Nat /\ <<>> \in Seq(S)
    OBVIOUS
  <1>2. \A i \in 1 .. n : seq[i] \in S
    OBVIOUS
  <1>3. \A i \in 1 .. n : \A x \in Seq(S) :
           (IF seq[i] \in set THEN Append(x, seq[i]) ELSE x) \in Seq(S)
    BY <1>2
  <1>4. round \in [1 .. n -> [Seq(S) -> Seq(S)]]
    <2> HIDE DEF n
    <2> QED BY <1>3
  <1>5. \A i \in 1 .. n : \A x \in Seq(S) :
           round[i][x] = IF seq[i] \in set THEN Append(x, seq[i]) ELSE x
    OBVIOUS
  <1>6. PICK f \in [0 .. n -> Seq(S)] : Loops(f, n, <<>>, round)
    <2> HIDE DEF n, round
    <2> QED BY <1>1, <1>4, LoopRuns
  <1>7. f = Def(f)
    <2>1. \A i \in 0 .. n : i # 0 => i \in 1 .. n /\ i - 1 \in 0 .. n
      BY <1>1
    <2> HIDE DEF n, round
    <2>2. \A i \in 1 .. n : f[i - 1] \in Seq(S)
      BY <1>1
    <2>3. \A i \in 1 .. n :
            round[i][f[i - 1]] = IF seq[i] \in set THEN Append(f[i - 1], seq[i]) ELSE f[i - 1]
      BY <1>5, <2>2
    <2> QED BY <1>6, <2>1, <2>3 DEF Loops
  <1>8. kept = Def(kept)
    <2> HIDE DEF Def
    <2> QED BY <1>7
  <1>9. \A i \in 0 .. n : kept[i] = Def(kept)[i]
    <2> HIDE DEF kept, Def
    <2> QED BY <1>8
  <1>10. Among(seq, set) = kept[n]
    BY Zenon DEF Among
  <1> HIDE DEF kept, n, round
  <1>11. kept[0] = <<>>
    BY <1>1, <1>9
  <1>12. \A i \in 1 .. n :
           kept[i] = IF seq[i] \in set THEN Append(kept[i - 1], seq[i]) ELSE kept[i - 1]
    BY <1>1, <1>9
  <1>13. ASSUME NEW i \in 1 .. n, kept[i - 1] \in Seq(S)
         PROVE  kept[i] \in Seq(S)
    BY <1>3, <1>12, <1>13
  <1>14. kept[0] \in Seq(S)
    BY <1>1, <1>11
  <1>15. \A i \in 0 .. n : kept[i] \in Seq(S)
    BY <1>1, <1>13, <1>14, LoopKeeps
  <1> QED BY <1>1, <1>10, <1>15

-----------------------------------------------------------------------------
(* The operators of the manager and of the chain.                            *)

LEMMA StartType ==
  ASSUME NEW m \in Managers, NEW k \in Chains, NEW to \in Heights,
         NEW s \in Servers \cup {NoConn, Dead}
  PROVE  /\ StartDownload(m, k, to, s) \in Managers
         /\ k.queue = <<>> => StartDownload(m, k, to, s).tickle = m.tickle
  BY DEF StartDownload, Managers, Downloads, Chains

LEMMA NoDownloadType == NoDownload \in Downloads
  BY DownloadAssumption DEF NoDownload, Downloads, Heights, AnyBlock

LEMMA ConnectType ==
  ASSUME NEW m \in Managers, NEW k \in Chains
  PROVE  /\ HandleConnect(m, k) \in Managers
         /\ k.queue = <<>> => HandleConnect(m, k).tickle = m.tickle
  <1>1. AnyBlock \in Heights
    BY DownloadAssumption DEF AnyBlock, Heights
  <1> QED BY <1>1, StartType DEF HandleConnect

LEMMA QueueDoneType ==
  ASSUME NEW m \in Managers, NEW k \in Chains
  PROVE  /\ HandleQueueDone(m, k) \in Managers
         /\ k.queue = <<>> => HandleQueueDone(m, k).tickle = {}
  <1>1. CASE m.tickle # {}
    <2> DEFINE to == CHOOSE h \in m.tickle : TRUE
    <2>1. to \in Heights
      BY <1>1 DEF Managers
    <2> HIDE DEF to
    <2>2. StartDownload(m, k, to, NoConn) \in Managers
      BY <2>1, StartType
    <2>3. HandleQueueDone(m, k) = [StartDownload(m, k, to, NoConn) EXCEPT !.tickle = {}]
      BY <1>1 DEF HandleQueueDone, to
    <2> QED BY <2>2, <2>3 DEF Managers
  <1>2. CASE m.tickle = {}
    BY <1>2, ConnectType DEF HandleQueueDone
  <1> QED BY <1>1, <1>2

LEMMA DownloadInvType ==
  ASSUME NEW m \in Managers, NEW k \in Chains, NEW s \in Servers, NEW invs \in Seq(Heights)
  PROVE  /\ HandleDownloadInv(m, k, s, invs) \in Managers
         /\ k.queue = <<>> => HandleDownloadInv(m, k, s, invs).tickle = m.tickle
  <1>1. CASE m.download.at = "running" /\ m.download.conn = s /\ Len(invs) = 1
    <2>1. invs[1] \in Heights
      <3>1. 1 \in 1 .. Len(invs)
        BY <1>1
      <3> QED BY <3>1
    <2>2. /\ StartDownload(m, k, invs[1], s) \in Managers
          /\ k.queue = <<>> => StartDownload(m, k, invs[1], s).tickle = m.tickle
      BY <2>1, StartType
    <2>3. HandleDownloadInv(m, k, s, invs)
            = [StartDownload(m, k, invs[1], s) EXCEPT !.download = NoDownload]
      BY <1>1 DEF HandleDownloadInv
    <2> QED BY <2>2, <2>3, NoDownloadType DEF Managers
  <1>2. CASE ~(m.download.at = "running" /\ m.download.conn = s /\ Len(invs) = 1)
    BY <1>2 DEF HandleDownloadInv
  <1> QED BY <1>1, <1>2

LEMMA DisconnectType ==
  ASSUME NEW m \in Managers, NEW s \in Servers, NEW ended \in BOOLEAN
  PROVE  /\ HandleDownloadDisconnect(m, s, ended) \in Managers
         /\ HandleDownloadDisconnect(m, s, ended).tickle = m.tickle
  BY NoDownloadType DEF HandleDownloadDisconnect, Managers, Downloads

(* The requests for the orphans of an inv, one after the other.              *)
LEMMA AskType ==
  ASSUME NEW m \in Managers, NEW k \in Chains, NEW s \in Servers, NEW invs \in Seq(Heights)
  PROVE  /\ AskForOrphans(m, k, s, invs) \in Managers
         /\ k.queue = <<>> => AskForOrphans(m, k, s, invs).tickle = m.tickle
  <1> DEFINE n == Len(invs)
             T == {x \in Managers : k.queue = <<>> => x.tickle = m.tickle}
             Def(f) == [i \in 0 .. n |->
                          IF i = 0 THEN m
                          ELSE IF invs[i] \in k.orphans
                               THEN StartDownload(f[i - 1], k, invs[i], s) ELSE f[i - 1]]
             round == [i \in 1 .. n |-> [x \in T |->
                          IF invs[i] \in k.orphans THEN StartDownload(x, k, invs[i], s) ELSE x]]
             asked == CHOOSE f : f = Def(f)
  <1>1. n \in Nat /\ m \in T
    OBVIOUS
  <1>2. \A i \in 1 .. n : invs[i] \in Heights
    OBVIOUS
  <1>3. \A i \in 1 .. n : \A x \in T :
           (IF invs[i] \in k.orphans THEN StartDownload(x, k, invs[i], s) ELSE x) \in T
    BY <1>2, StartType
  <1>4. round \in [1 .. n -> [T -> T]]
    <2> HIDE DEF n, T
    <2> QED BY <1>3
  <1>5. \A i \in 1 .. n : \A x \in T :
           round[i][x] = IF invs[i] \in k.orphans THEN StartDownload(x, k, invs[i], s) ELSE x
    <2> HIDE DEF n, T
    <2> QED OBVIOUS
  <1>6. PICK f \in [0 .. n -> T] : Loops(f, n, m, round)
    <2> HIDE DEF n, T, round
    <2> QED BY <1>1, <1>4, LoopRuns
  <1>7. f = Def(f)
    <2>1. \A i \in 0 .. n : i # 0 => i \in 1 .. n /\ i - 1 \in 0 .. n
      BY <1>1
    <2> HIDE DEF n, T, round
    <2>2. \A i \in 1 .. n : f[i - 1] \in T
      BY <1>1
    <2>3. \A i \in 1 .. n : round[i][f[i - 1]] =
            IF invs[i] \in k.orphans THEN StartDownload(f[i - 1], k, invs[i], s) ELSE f[i - 1]
      BY <1>5, <2>2
    <2> QED BY <1>6, <2>1, <2>3 DEF Loops
  <1>8. asked = Def(asked)
    <2> HIDE DEF Def
    <2> QED BY <1>7
  <1>9. \A i \in 0 .. n : asked[i] = Def(asked)[i]
    <2> HIDE DEF asked, Def
    <2> QED BY <1>8
  <1>10. AskForOrphans(m, k, s, invs) = asked[n]
    BY Zenon DEF AskForOrphans
  <1> HIDE DEF asked, n, round, T
  <1>11. asked[0] \in T
    BY <1>1, <1>9
  <1>12. \A i \in 1 .. n : asked[i] =
            IF invs[i] \in k.orphans THEN StartDownload(asked[i - 1], k, invs[i], s)
            ELSE asked[i - 1]
    BY <1>1, <1>9
  <1>13. ASSUME NEW i \in 1 .. n, asked[i - 1] \in T
         PROVE  asked[i] \in T
    BY <1>3, <1>12, <1>13
  <1>14. \A i \in 0 .. n : asked[i] \in T
    BY <1>1, <1>11, <1>13, LoopKeeps
  <1>15. asked[n] \in T
    BY <1>1, <1>14
  <1> QED BY <1>10, <1>15 DEF T

(* The first height left out of an answer exists, and lies above the common  *)
(* block and at most one above the top.                                      *)
LEMMA StopAtType ==
  ASSUME NEW s \in Servers, height[s] \in Nat, NEW from \in 0 .. height[s], NEW to
  PROVE  StopAt(s, from, to) \in from + 1 .. height[s] + 1
  <1> DEFINE Ends(h) == h > height[s] \/ h - from > BatchLimit \/ h = to
             Stops == {h \in from + 1 .. height[s] + 1 : Ends(h)}
  <1>1. height[s] + 1 \in Stops /\ Stops \in SUBSET Nat
    OBVIOUS
  <1>2. PICK h \in Stops : \A i \in Stops : h <= i
    <2> HIDE DEF Stops
    <2> QED BY <1>1, NatMin
  <1>3. ASSUME NEW i \in from + 1 .. h - 1
        PROVE  i - from <= BatchLimit /\ i # to
    <2>1. i \notin Stops /\ i \in from + 1 .. height[s] + 1
      BY <1>2
    <2> QED BY <2>1, DownloadAssumption
  <1>4. \E x \in from + 1 .. height[s] + 1 :
          /\ x > height[s] \/ x - from > BatchLimit \/ x = to
          /\ \A i \in from + 1 .. x - 1 : i - from <= BatchLimit /\ i # to
    BY <1>2, <1>3
  <1> QED BY <1>4 DEF StopAt

LEMMA RemoveAtType ==
  ASSUME NEW S, NEW q \in Seq(S), NEW i \in 1 .. Len(q)
  PROVE  RemoveAt(q, i) \in Seq(S)
  BY DEF RemoveAt

-----------------------------------------------------------------------------
(* Types: the queues of the links, then one lemma for each action.           *)

LEMMA QueueType ==
  ASSUME NEW M, NEW q \in [Links -> Seq(M)], NEW l \in Links
  PROVE  /\ q[l] # <<>> => Head(q[l]) \in M
         /\ q[l] # <<>> => [q EXCEPT ![l] = Tail(@)] \in [Links -> Seq(M)]
         /\ \A x \in M : [q EXCEPT ![l] = Append(@, x)] \in [Links -> Seq(M)]
         /\ [q EXCEPT ![l] = <<>>] \in [Links -> Seq(M)]
  OBVIOUS

LEMMA LinkType ==
  ASSUME NEW c \in Clients, NEW s \in Servers
  PROVE  <<c, s>> \in Links
  BY DEF Links

LEMMA MessageTypes ==
  /\ \A from, to \in Heights : GetBlocks(from, to) \in Requests
  /\ \A invs \in Seq(Heights) : invs # <<>> => GetData(invs) \in Requests
  /\ \A invs \in Seq(Heights) : Inv(invs) \in Answers
  /\ \A b \in Heights : Block(b) \in Answers
  /\ \A m \in Requests : m.kind = "getblocks" => m.from \in Heights /\ m.to \in Heights
  /\ \A m \in Requests : m.kind = "getdata" => m.invs \in Seq(Heights) \ {<<>>}
  /\ \A m \in Answers : m.kind = "inv" => m.invs \in Seq(Heights)
  /\ \A m \in Answers : m.kind = "block" => m.blk \in Heights
  BY DEF GetBlocks, GetData, Inv, Block, Requests, Answers

LEMMA FinalizeType ==
  ASSUME TypeOK, NEW c \in Clients, NEW k \in Chains, Finalize(c, k)
  PROVE  chain' \in [Clients -> Chains] /\ bcm' \in [Clients -> Managers]
  <1>1. CASE k.queue # <<>>
    <2>1. Head(k.queue) \in Heights /\ Tail(k.queue) \in Seq(Heights)
      BY <1>1 DEF Chains
    <2>2. [k EXCEPT !.blk = Head(k.queue), !.at = "connect", !.queue = Tail(k.queue)] \in Chains
      BY <2>1 DEF Chains
    <2> QED BY <1>1, <2>2 DEF Finalize, TypeOK
  <1>2. CASE k.queue = <<>>
    <2> DEFINE done == [k EXCEPT !.blk = 0, !.at = "idle"]
    <2>1. done \in Chains
      <3>1. 0 \in Heights
        BY DownloadAssumption DEF Heights
      <3> QED BY <3>1 DEF Chains
    <2>2. bcm[c] \in Managers
      BY DEF TypeOK
    <2> HIDE DEF done
    <2>3. HandleQueueDone(bcm[c], done) \in Managers
      BY <2>1, <2>2, QueueDoneType
    <2>4. /\ chain' = [chain EXCEPT ![c] = done]
          /\ bcm' = [bcm EXCEPT ![c] = HandleQueueDone(bcm[c], done)]
      BY <1>2 DEF Finalize, done, TypeOK
    <2> QED BY <2>1, <2>3, <2>4 DEF TypeOK
  <1> QED BY <1>1, <1>2

LEMMA ConnectBlockType ==
  ASSUME TypeOK, NEW c \in Clients, ConnectBlock(c)
  PROVE  TypeOK'
  <1> DEFINE k == chain[c]
  <1>1. k \in Chains
    BY DEF TypeOK
  <1>2. chain' \in [Clients -> Chains] /\ bcm' \in [Clients -> Managers]
    <2>1. CASE k.blk = k.top + 1
      <3>1. [k EXCEPT !.top = k.blk, !.at = "save", !.orphans = @ \ {k.blk}] \in Chains
        BY <1>1 DEF Chains
      <3> QED BY <2>1, <3>1 DEF ConnectBlock, TypeOK
    <2>2. CASE k.blk # k.top + 1
      <3> DEFINE late == [k EXCEPT !.orphans = IF k.blk > k.top THEN @ \cup {k.blk} ELSE @]
      <3>1. late \in Chains
        BY <1>1 DEF Chains
      <3>2. Finalize(c, late)
        BY <2>2 DEF ConnectBlock
      <3> HIDE DEF late
      <3> QED BY <3>1, <3>2, FinalizeType
    <2> QED BY <2>1, <2>2
  <1> QED BY <1>2 DEF ConnectBlock, TypeOK, wires, given, budgets

LEMMA ChildrenType ==
  ASSUME NEW k \in Chains
  PROVE  [k EXCEPT !.stored = k.blk, !.queue = Children(k) \o @] \in Chains
  <1>1. Children(k) \in Seq(Heights)
    <2>1. CASE k.blk + 1 \in k.orphans
      <3>1. k.blk + 1 \in Heights
        BY <2>1 DEF Chains
      <3>2. <<k.blk + 1>> \in Seq(Heights)
        BY <3>1
      <3> QED BY <2>1, <3>2 DEF Children
    <2>2. CASE k.blk + 1 \notin k.orphans
      <3>1. <<>> \in Seq(Heights)
        OBVIOUS
      <3> QED BY <2>2, <3>1 DEF Children
    <2> QED BY <2>1, <2>2
  <1>2. k.queue \in Seq(Heights) /\ k.blk \in Heights
    BY DEF Chains
  <1>3. Children(k) \o k.queue \in Seq(Heights)
    BY <1>1, <1>2
  <1> QED BY <1>2, <1>3 DEF Chains

LEMMA SaveBlockType ==
  ASSUME TypeOK, NEW c \in Clients, SaveBlock(c)
  PROVE  TypeOK'
  <1> DEFINE k == [chain[c] EXCEPT !.stored = chain[c].blk, !.queue = Children(chain[c]) \o @]
  <1>1. k \in Chains
    BY ChildrenType DEF TypeOK
  <1>2. Finalize(c, k)
    BY DEF SaveBlock
  <1>3. chain' \in [Clients -> Chains] /\ bcm' \in [Clients -> Managers]
    <2> HIDE DEF k
    <2> QED BY <1>1, <1>2, FinalizeType
  <1> QED BY <1>3 DEF SaveBlock, TypeOK, wires, given, budgets

LEMMA ReceiveInvType ==
  ASSUME TypeOK, NEW c \in Clients, NEW s \in Servers, ReceiveInv(c, s)
  PROVE  TypeOK'
  <1> DEFINE l == <<c, s>>
             k == chain[c]
             invs == Head(toClient[l]).invs
             rest == Among(invs, Heights \ Connecting(k))
             m == AskForOrphans(bcm[c], k, s, invs)
  <1>1. l \in Links /\ k \in Chains /\ bcm[c] \in Managers
    BY LinkType DEF TypeOK
  <1>2. toClient \in [Links -> Seq(Answers)] /\ toClient[l] # <<>>
    BY DEF TypeOK, ReceiveInv
  <1>3. /\ [toClient EXCEPT ![l] = Tail(@)] \in [Links -> Seq(Answers)]
        /\ Head(toClient[l]) \in Answers
    BY <1>1, <1>2, QueueType
  <1>4. invs \in Seq(Heights)
    BY <1>3, MessageTypes DEF ReceiveInv
  <1>5. /\ toClient' = [toClient EXCEPT ![l] = Tail(@)]
        /\ checks' = [checks EXCEPT ![c] =
                        IF rest = <<>> THEN @ ELSE Append(@, [conn |-> s, invs |-> rest])]
        /\ bcm' = [bcm EXCEPT ![c] = HandleDownloadInv(m, k, s, invs)]
    BY DEF ReceiveInv
  <1>6. rest \in Seq(Heights)
    BY <1>4, AmongType
  <1> HIDE DEF k, invs, rest, l
  <1>7. m \in Managers
    BY <1>1, <1>4, AskType
  <1> HIDE DEF m
  <1>8. HandleDownloadInv(m, k, s, invs) \in Managers
    BY <1>1, <1>4, <1>7, DownloadInvType
  <1>9. bcm' \in [Clients -> Managers]
    BY <1>5, <1>8 DEF TypeOK
  <1>10. checks' \in [Clients -> Seq(Lookups(Servers))]
    <2>1. checks \in [Clients -> Seq(Lookups(Servers))]
      BY DEF TypeOK
    <2>2. [conn |-> s, invs |-> rest] \in Lookups(Servers)
      BY <1>6 DEF Lookups
    <2> HIDE DEF Lookups
    <2> QED BY <1>5, <2>1, <2>2
  <1>11. toClient' \in [Links -> Seq(Answers)]
    BY <1>3, <1>5
  <1> QED BY <1>9, <1>10, <1>11 DEF ReceiveInv, TypeOK, given, budgets

LEMMA AnswerChecksType ==
  ASSUME TypeOK, NEW c \in Clients, AnswerChecks(c)
  PROVE  TypeOK'
  <1>1. PICK i \in DOMAIN checks[c] :
          LET j == checks[c][i]
              l == <<c, j.conn>>
              unknown == Among(j.invs, chain[c].stored + 1 .. MaxHeight)
          IN  /\ checks' = [checks EXCEPT ![c] = RemoveAt(@, i)]
              /\ toServer' = [toServer EXCEPT ![l] =
                                IF unknown = <<>> THEN @ ELSE Append(@, GetData(unknown))]
    BY DEF AnswerChecks
  <1> DEFINE j == checks[c][i]
             l == <<c, j.conn>>
             unknown == Among(j.invs, chain[c].stored + 1 .. MaxHeight)
  <1>2. checks[c] \in Seq(Lookups(Servers)) /\ i \in 1 .. Len(checks[c])
    BY <1>1 DEF TypeOK
  <1>3. j \in Lookups(Servers)
    BY <1>2
  <1>4. l \in Links /\ j.invs \in Seq(Heights)
    BY <1>3 DEF Lookups, Links
  <1>5. unknown \in Seq(Heights)
    BY <1>4, AmongType
  <1>6. checks' \in [Clients -> Seq(Lookups(Servers))]
    <2>1. RemoveAt(checks[c], i) \in Seq(Lookups(Servers))
      BY <1>2, RemoveAtType
    <2> QED BY <1>1, <2>1 DEF TypeOK
  <1>7. toServer' \in [Links -> Seq(Requests)]
    <2>1. toServer' = [toServer EXCEPT ![l] =
                         IF unknown = <<>> THEN @ ELSE Append(@, GetData(unknown))]
      BY <1>1
    <2>2. toServer \in [Links -> Seq(Requests)]
      BY DEF TypeOK
    <2> HIDE DEF unknown, l
    <2>3. unknown # <<>> => GetData(unknown) \in Requests
      BY <1>5, MessageTypes
    <2> QED BY <1>4, <2>1, <2>2, <2>3
  <1>8. UNCHANGED <<chain, bcm, alive, up, toClient, jobs, height, hashContinue,
                    given, budgets>>
    BY DEF AnswerChecks
  <1> QED BY <1>6, <1>7, <1>8 DEF TypeOK, given, budgets

LEMMA AddBlockType ==
  ASSUME NEW k \in Chains, NEW b \in Heights
  PROVE  AddBlock(k, b) \in Chains
  <1>1. Append(k.queue, b) \in Seq(Heights)
    BY DEF Chains
  <1>2. [k EXCEPT !.queue = Append(@, b)] \in Chains
    BY <1>1 DEF Chains
  <1>3. [k EXCEPT !.blk = b, !.at = "connect"] \in Chains
    BY DEF Chains
  <1> QED BY <1>2, <1>3 DEF AddBlock

LEMMA ReceiveBlockType ==
  ASSUME TypeOK, NEW c \in Clients, NEW s \in Servers, ReceiveBlock(c, s)
  PROVE  TypeOK'
  <1> DEFINE l == <<c, s>>
  <1>1. l \in Links /\ chain[c] \in Chains
    BY LinkType DEF TypeOK
  <1>2. toClient \in [Links -> Seq(Answers)] /\ toClient[l] # <<>>
    BY DEF TypeOK, ReceiveBlock
  <1>3. /\ [toClient EXCEPT ![l] = Tail(@)] \in [Links -> Seq(Answers)]
        /\ Head(toClient[l]) \in Answers
    BY <1>1, <1>2, QueueType
  <1>4. Head(toClient[l]).blk \in Heights
    BY <1>3, MessageTypes DEF ReceiveBlock
  <1>5. AddBlock(chain[c], Head(toClient[l]).blk) \in Chains
    BY <1>1, <1>4, AddBlockType
  <1>6. chain' \in [Clients -> Chains]
    BY <1>5 DEF ReceiveBlock, TypeOK
  <1>7. toClient' \in [Links -> Seq(Answers)]
    BY <1>3 DEF ReceiveBlock
  <1> QED BY <1>6, <1>7 DEF ReceiveBlock, TypeOK, given, budgets

LEMMA LocateType ==
  ASSUME TypeOK, NEW c \in Clients, NEW s \in Servers \cup {Dead}, Locate(c, s)
  PROVE  TypeOK'
  <1> DEFINE d == bcm[c].download
  <1>1. bcm[c] \in Managers /\ d \in Downloads
    BY DEF TypeOK, Managers
  <1>2. [d EXCEPT !.at = "running", !.conn = s] \in Downloads
    BY <1>1 DEF Downloads
  <1>3. [bcm[c] EXCEPT !.download = [d EXCEPT !.at = "running", !.conn = s]] \in Managers
    BY <1>1, <1>2 DEF Managers
  <1>4. bcm' = [bcm EXCEPT ![c] =
                  [bcm[c] EXCEPT !.download = [d EXCEPT !.at = "running", !.conn = s]]]
    BY DEF Locate, TypeOK
  <1>5. bcm' \in [Clients -> Managers]
    BY <1>3, <1>4 DEF TypeOK
  <1>6. toServer' \in [Links -> Seq(Requests)]
    <2>1. toServer \in [Links -> Seq(Requests)]
      BY DEF TypeOK
    <2>2. CASE s = Dead
      BY <2>1, <2>2 DEF Locate
    <2>3. CASE s # Dead
      <3>1. <<c, s>> \in Links
        BY <2>3 DEF Links
      <3>2. GetBlocks(d.from, d.to) \in Requests
        BY <1>1, MessageTypes DEF Downloads
      <3>3. toServer' = [toServer EXCEPT ![<<c, s>>] = Append(@, GetBlocks(d.from, d.to))]
        BY <2>3 DEF Locate
      <3> QED BY <2>1, <3>1, <3>2, <3>3, QueueType
    <2> QED BY <2>2, <2>3
  <1> QED BY <1>5, <1>6 DEF Locate, TypeOK, given, budgets

LEMMA TimerType ==
  ASSUME TypeOK, NEW c \in Clients, LocatorFails(c) \/ NoConnection(c) \/ Timeout(c)
  PROVE  TypeOK'
  <1>1. bcm[c] \in Managers /\ chain[c] \in Chains
    BY DEF TypeOK
  <1>2. CASE LocatorFails(c)
    BY <1>2 DEF LocatorFails, TypeOK, wires, given, budgets
  <1>3. CASE NoConnection(c)
    <2>1. [bcm[c] EXCEPT !.download.at = "stuck"] \in Managers
      BY <1>1 DEF Managers, Downloads
    <2>2. bcm' = [bcm EXCEPT ![c] = [bcm[c] EXCEPT !.download.at = "stuck"]]
      BY <1>3 DEF NoConnection, TypeOK
    <2>3. bcm' \in [Clients -> Managers]
      BY <2>1, <2>2 DEF TypeOK
    <2> QED BY <1>3, <2>3 DEF NoConnection, TypeOK, wires, given, budgets
  <1>4. CASE Timeout(c)
    <2> DEFINE closed == [bcm[c] EXCEPT !.download = NoDownload]
    <2>1. closed \in Managers
      BY <1>1, NoDownloadType DEF Managers
    <2>2. bcm' = [bcm EXCEPT ![c] = StartDownload(closed, chain[c], AnyBlock, NoConn)]
      BY <1>4 DEF Timeout, TypeOK
    <2>3. AnyBlock \in Heights
      BY DownloadAssumption DEF AnyBlock, Heights
    <2> HIDE DEF closed
    <2>4. StartDownload(closed, chain[c], AnyBlock, NoConn) \in Managers
      BY <1>1, <2>1, <2>3, StartType
    <2>5. bcm' \in [Clients -> Managers]
      BY <2>2, <2>4 DEF TypeOK
    <2>6. early' \in Nat
      BY <1>4 DEF Timeout, TypeOK
    <2> QED BY <1>4, <2>5, <2>6 DEF Timeout, TypeOK, wires, given
  <1> QED BY <1>2, <1>3, <1>4

LEMMA ConnectionType ==
  ASSUME TypeOK, NEW c \in Clients, NEW s \in Servers,
         Connect(c, s) \/ \E ended \in BOOLEAN : Disconnect(c, s, ended)
  PROVE  TypeOK'
  <1> DEFINE l == <<c, s>>
  <1>1. l \in Links /\ bcm[c] \in Managers /\ chain[c] \in Chains
    BY LinkType DEF TypeOK
  <1>2. CASE Connect(c, s)
    <2>1. HandleConnect(bcm[c], chain[c]) \in Managers
      BY <1>1, ConnectType
    <2>2. bcm' \in [Clients -> Managers]
      BY <1>2, <2>1 DEF Connect, TypeOK
    <2>3. up' \subseteq links
      BY <1>2 DEF Connect, TypeOK
    <2> QED BY <1>2, <2>2, <2>3 DEF Connect, TypeOK, wires, given, budgets
  <1>3. ASSUME NEW ended \in BOOLEAN, Disconnect(c, s, ended)
        PROVE  TypeOK'
    <2>1. HandleDownloadDisconnect(bcm[c], s, ended) \in Managers
      BY <1>1, DisconnectType
    <2>2. bcm' \in [Clients -> Managers]
      BY <1>3, <2>1 DEF Disconnect, TypeOK
    <2>3. checks' \in [Clients -> Seq(Lookups(Servers))]
      <3>1. Among(checks[c], Lookups(Servers \ {s})) \in Seq(Lookups(Servers))
        BY AmongType DEF TypeOK
      <3> QED BY <1>3, <3>1 DEF Disconnect, TypeOK
    <2>4. toServer' \in [Links -> Seq(Requests)]
      <3>1. toServer \in [Links -> Seq(Requests)]
        BY DEF TypeOK
      <3>2. toServer' = [toServer EXCEPT ![l] = <<>>]
        BY <1>3 DEF Disconnect
      <3> QED BY <1>1, <3>1, <3>2, QueueType
    <2>5. toClient' \in [Links -> Seq(Answers)]
      <3>1. toClient \in [Links -> Seq(Answers)]
        BY DEF TypeOK
      <3>2. toClient' = [toClient EXCEPT ![l] = <<>>]
        BY <1>3 DEF Disconnect
      <3> QED BY <1>1, <3>1, <3>2, QueueType
    <2>6. jobs' \in [Links -> Seq(Seq(Heights) \ {<<>>})]
      <3>1. jobs \in [Links -> Seq(Seq(Heights) \ {<<>>})]
        BY DEF TypeOK
      <3>2. jobs' = [jobs EXCEPT ![l] = <<>>]
        BY <1>3 DEF Disconnect
      <3> QED BY <1>1, <3>1, <3>2, QueueType
    <2>7. up' \subseteq links /\ drops' \in Nat
      BY <1>3 DEF Disconnect, TypeOK
    <2> QED BY <1>3, <2>2, <2>3, <2>4, <2>5, <2>6, <2>7 DEF Disconnect, TypeOK, given
  <1> QED BY <1>2, <1>3

LEMMA ServeGetBlocksType ==
  ASSUME TypeOK, NEW c \in Clients, NEW s \in Servers, ServeGetBlocks(c, s)
  PROVE  TypeOK'
  <1> DEFINE l == <<c, s>>
             m == Head(toServer[l])
             common == IF m.from > height[s] THEN height[s] ELSE m.from
             stop == StopAt(s, common, m.to)
             hashes == [i \in 1 .. stop - 1 - common |-> common + i]
  <1>1. /\ l \in Links /\ height[s] \in 0 .. MaxHeight
        /\ toServer \in [Links -> Seq(Requests)] /\ toClient \in [Links -> Seq(Answers)]
        /\ hashContinue \in [Servers -> Heights]
    BY LinkType DEF TypeOK, Heights
  <1>2. toServer[l] # <<>> /\ m.kind = "getblocks" /\ toServer' = [toServer EXCEPT ![l] = Tail(@)]
    BY DEF ServeGetBlocks
  <1>3. /\ hashContinue' = [hashContinue EXCEPT ![s] = IF hashes = <<>> THEN 0 ELSE stop - 1]
           \/ hashContinue' = hashContinue
        /\ toClient' = [toClient EXCEPT ![l] = Append(@, Inv(hashes))] \/ toClient' = toClient
        /\ UNCHANGED <<chain, bcm, checks, alive, up, jobs, height, given, budgets>>
    BY DEF ServeGetBlocks
  <1>4. m \in Requests /\ toServer' \in [Links -> Seq(Requests)]
    BY <1>1, <1>2, QueueType
  <1>5. m.from \in 0 .. MaxHeight
    BY <1>2, <1>4, MessageTypes DEF Heights
  <1>6. common \in 0 .. height[s]
    BY <1>1, <1>5
  <1> HIDE DEF common, m
  <1>7. stop \in common + 1 .. height[s] + 1
    BY <1>1, <1>6, StopAtType
  <1> HIDE DEF stop
  <1>8. stop - 1 \in 0 .. MaxHeight /\ stop - 1 - common \in Nat
    BY <1>1, <1>6, <1>7, DownloadAssumption
  <1>9. hashes \in Seq(Heights)
    <2>1. \A i \in 1 .. stop - 1 - common : common + i \in Heights
      BY <1>1, <1>6, <1>7, DownloadAssumption DEF Heights
    <2> QED BY <1>8, <2>1
  <1> HIDE DEF hashes
  <1>10. toClient' \in [Links -> Seq(Answers)]
    <2>1. Inv(hashes) \in Answers
      BY <1>9, MessageTypes
    <2>2. [toClient EXCEPT ![l] = Append(@, Inv(hashes))] \in [Links -> Seq(Answers)]
      BY <1>1, <2>1, QueueType
    <2> QED BY <1>1, <1>3, <2>2
  <1>11. hashContinue' \in [Servers -> Heights]
    <2>1. 0 \in Heights /\ stop - 1 \in Heights
      BY <1>8, DownloadAssumption DEF Heights
    <2> QED BY <1>1, <1>3, <2>1
  <1> QED BY <1>3, <1>4, <1>10, <1>11 DEF TypeOK, given, budgets

LEMMA ServeGetDataType ==
  ASSUME TypeOK, NEW c \in Clients, NEW s \in Servers, ServeGetData(c, s)
  PROVE  TypeOK'
  <1> DEFINE l == <<c, s>>
             Batches == Seq(Heights) \ {<<>>}
  <1>1. /\ l \in Links /\ toServer \in [Links -> Seq(Requests)]
        /\ jobs \in [Links -> Seq(Batches)]
    BY LinkType DEF TypeOK
  <1>2. toServer[l] # <<>> /\ Head(toServer[l]).kind = "getdata"
    BY DEF ServeGetData
  <1>3. /\ Head(toServer[l]) \in Requests
        /\ [toServer EXCEPT ![l] = Tail(@)] \in [Links -> Seq(Requests)]
    BY <1>1, <1>2, QueueType
  <1>4. Head(toServer[l]).invs \in Batches
    BY <1>2, <1>3, MessageTypes
  <1>5. [jobs EXCEPT ![l] = Append(@, Head(toServer[l]).invs)] \in [Links -> Seq(Batches)]
    <2> HIDE DEF Batches
    <2> QED BY <1>1, <1>4, QueueType
  <1> QED BY <1>3, <1>5 DEF ServeGetData, TypeOK, given, budgets

LEMMA SendBlockType ==
  ASSUME TypeOK, NEW c \in Clients, NEW s \in Servers, SendBlock(c, s)
  PROVE  TypeOK'
  <1> DEFINE l == <<c, s>>
             Batches == Seq(Heights) \ {<<>>}
  <1>1. /\ l \in Links /\ jobs \in [Links -> Seq(Batches)]
        /\ toClient \in [Links -> Seq(Answers)] /\ height[s] \in Heights
        /\ hashContinue \in [Servers -> Heights]
    BY LinkType DEF TypeOK
  <1>2. PICK i \in DOMAIN jobs[l] :
          LET b == Head(jobs[l][i])
              last == hashContinue[s] = b
          IN  /\ jobs' = [jobs EXCEPT ![l] =
                             IF Len(jobs[l][i]) = 1 THEN RemoveAt(jobs[l], i)
                             ELSE [jobs[l] EXCEPT ![i] = Tail(@)]]
              /\ toClient' = [toClient EXCEPT ![l] =
                   @ \o <<Block(b)>> \o (IF last THEN <<Inv(<<height[s]>>)>> ELSE <<>>)]
              /\ hashContinue' = [hashContinue EXCEPT ![s] = IF last THEN 0 ELSE @]
    BY DEF SendBlock
  <1> DEFINE b == Head(jobs[l][i])
             end == IF hashContinue[s] = b THEN <<Inv(<<height[s]>>)>> ELSE <<>>
  <1>3. jobs[l] \in Seq(Batches) /\ i \in 1 .. Len(jobs[l])
    BY <1>1, <1>2
  <1>4. jobs[l][i] \in Batches
    BY <1>3
  <1>5. b \in Heights
    BY <1>4
  <1>6. jobs' \in [Links -> Seq(Batches)]
    <2>1. RemoveAt(jobs[l], i) \in Seq(Batches)
      BY <1>3, RemoveAtType
    <2>2. ASSUME NEW q \in Batches, Len(q) # 1
          PROVE  Tail(q) \in Batches
      <3>1. q \in Seq(Heights) /\ Len(q) \in Nat /\ Len(q) # 0
        OBVIOUS
      <3>2. Tail(q) \in Seq(Heights) /\ Len(Tail(q)) = Len(q) - 1
        BY <3>1
      <3>3. Len(Tail(q)) # Len(<<>>)
        BY <2>2, <3>1, <3>2
      <3> QED BY <3>2, <3>3
    <2> DEFINE left == IF Len(jobs[l][i]) = 1 THEN RemoveAt(jobs[l], i)
                       ELSE [jobs[l] EXCEPT ![i] = Tail(@)]
    <2>3. jobs' = [jobs EXCEPT ![l] = left]
      <3> HIDE DEF l
      <3> QED BY <1>1, <1>2
    <2> HIDE DEF Batches
    <2>4. Len(jobs[l][i]) # 1 => [jobs[l] EXCEPT ![i] = Tail(@)] \in Seq(Batches)
      BY <1>3, <1>4, <2>2
    <2>5. left \in Seq(Batches)
      BY <2>1, <2>4
    <2> HIDE DEF left
    <2> QED BY <1>1, <2>3, <2>5
  <1>7. toClient' \in [Links -> Seq(Answers)]
    <2>1. Block(b) \in Answers
      BY <1>5, MessageTypes
    <2>2. Inv(<<height[s]>>) \in Answers
      <3>1. <<height[s]>> \in Seq(Heights)
        BY <1>1
      <3> QED BY <3>1, MessageTypes
    <2>3. end \in Seq(Answers)
      BY <2>2
    <2>4. toClient' = [toClient EXCEPT ![l] = @ \o <<Block(b)>> \o end]
      BY <1>2
    <2> HIDE DEF end, b, l
    <2>5. toClient[l] \o <<Block(b)>> \o end \in Seq(Answers)
      BY <1>1, <2>1, <2>3
    <2> QED BY <1>1, <2>4, <2>5
  <1>8. hashContinue' \in [Servers -> Heights]
    <2>1. 0 \in Heights
      BY DownloadAssumption DEF Heights
    <2> QED BY <1>1, <1>2, <2>1
  <1>9. UNCHANGED <<chain, bcm, checks, alive, up, toServer, height, given, budgets>>
    BY DEF SendBlock
  <1> QED BY <1>6, <1>7, <1>8, <1>9 DEF TypeOK, given, budgets

LEMMA AnnounceType ==
  ASSUME TypeOK, NEW s \in Servers, Announce(s)
  PROVE  TypeOK'
  <1>1. height[s] + 1 \in Heights
    BY DownloadAssumption DEF Announce, TypeOK, Heights
  <1>2. Inv(<<height[s] + 1>>) \in Answers
    <2>1. <<height[s] + 1>> \in Seq(Heights)
      BY <1>1
    <2> QED BY <2>1, MessageTypes
  <1>3. toClient' \in [Links -> Seq(Answers)]
    <2>1. toClient \in [Links -> Seq(Answers)]
      BY DEF TypeOK
    <2>2. \A l \in Links : Append(toClient[l], Inv(<<height[s] + 1>>)) \in Seq(Answers)
      BY <1>2, <2>1
    <2> QED BY <2>1, <2>2 DEF Announce
  <1>4. height' \in [Servers -> Heights]
    BY <1>1 DEF Announce, TypeOK
  <1> QED BY <1>3, <1>4 DEF Announce, TypeOK, given, budgets

(* The initial states have the types.                                        *)
LEMMA InitType == Init => TypeOK
  <1> SUFFICES ASSUME Init PROVE TypeOK
    OBVIOUS
  <1>1. PICK u \in Setups : /\ backend = u.backend /\ links = u.links /\ height = u.height
                            /\ drops = u.drops /\ early = u.early
    BY DEF Init
  <1>2. /\ backend \in Backends /\ links \subseteq Links /\ height \in [Servers -> Heights]
        /\ drops \in Nat /\ early \in Nat
    BY <1>1, DownloadAssumption DEF Heights, Links
  <1>3. 0 \in Heights /\ <<>> \in Seq(Heights)
    BY DownloadAssumption DEF Heights
  <1>4. chain \in [Clients -> Chains]
    BY <1>3 DEF Init, Chains
  <1>5. bcm \in [Clients -> Managers]
    BY NoDownloadType DEF Init, Managers
  <1>6. /\ checks \in [Clients -> Seq(Lookups(Servers))]
        /\ toServer \in [Links -> Seq(Requests)] /\ toClient \in [Links -> Seq(Answers)]
        /\ jobs \in [Links -> Seq(Seq(Heights) \ {<<>>})]
    BY DEF Init
  <1>7. alive \subseteq Clients /\ up \subseteq links /\ hashContinue \in [Servers -> Heights]
    BY <1>3 DEF Init
  <1> QED BY <1>2, <1>4, <1>5, <1>6, <1>7 DEF TypeOK

(* Every step keeps them.                                                    *)
LEMMA NextType == TypeOK /\ [Next]_vars => TypeOK'
  <1> SUFFICES ASSUME TypeOK, [Next]_vars PROVE TypeOK'
    OBVIOUS
  <1>1. CASE UNCHANGED vars
    BY <1>1 DEF TypeOK, vars
  <1>2. ASSUME NEW c \in Clients,
               \/ ConnectBlock(c) \/ SaveBlock(c) \/ AnswerChecks(c)
               \/ LocatorFails(c) \/ NoConnection(c) \/ Timeout(c)
        PROVE  TypeOK'
    BY <1>2, ConnectBlockType, SaveBlockType, AnswerChecksType, TimerType
  <1>3. ASSUME NEW c \in Clients, NEW s \in Servers \cup {Dead}, Locate(c, s)
        PROVE  TypeOK'
    BY <1>3, LocateType
  <1>4. ASSUME NEW c \in Clients, NEW s \in Servers,
               \/ Connect(c, s) \/ ReceiveInv(c, s) \/ ReceiveBlock(c, s)
               \/ \E ended \in BOOLEAN : Disconnect(c, s, ended)
               \/ ServeGetBlocks(c, s) \/ ServeGetData(c, s) \/ SendBlock(c, s)
        PROVE  TypeOK'
    BY <1>4, ConnectionType, ReceiveInvType, ReceiveBlockType, ServeGetBlocksType,
       ServeGetDataType, SendBlockType
  <1>5. ASSUME NEW s \in Servers, Announce(s)
        PROVE  TypeOK'
    BY <1>5, AnnounceType
  <1> QED BY <1>1, <1>2, <1>3, <1>4, <1>5 DEF Next

(* Every message, every lookup and every download names a height that some   *)
(* chain can have, in every network and for every batch size: an answer to   *)
(* getblocks never goes beyond the server's chain.                           *)
THEOREM DownloadTypeCorrect == Spec => []TypeOK
  <1>1. Init => TypeOK
    BY InitType
  <1>2. TypeOK /\ [Next]_vars => TypeOK'
    BY NextType
  <1> QED BY <1>1, <1>2, PTL DEF Spec

-----------------------------------------------------------------------------
(* The queue and the orphans.  When nothing is in process nothing is queued; *)
(* a block that is being saved is the top; and the block after the top waits *)
(* among the orphans only while the top is being saved, when the end of the  *)
(* save will put it first in the queue, or while it is itself in process.    *)
ChainOK(k) ==
  /\ k.at = "idle" => k.queue = <<>> /\ k.top + 1 \notin k.orphans
  /\ k.at = "save" => k.blk = k.top
  /\ k.at = "connect" /\ k.top + 1 \in k.orphans => k.blk = k.top + 1

ChainsOK == \A c \in Clients : ChainOK(chain[c])

IInv == TypeOK /\ ChainsOK /\ TickleServed

(* The end of a block: if the block after the top waits, it is next in the   *)
(* queue.                                                                    *)
LEMMA FinalizeOK ==
  ASSUME TypeOK, NEW c \in Clients, NEW k \in Chains, Finalize(c, k),
         \/ k.top + 1 \notin k.orphans
         \/ k.queue # <<>> /\ Head(k.queue) = k.top + 1
  PROVE  /\ ChainOK(chain'[c]) /\ (bcm'[c].tickle # {} => chain'[c].at # "idle")
         /\ \A x \in Clients \ {c} : chain'[x] = chain[x] /\ bcm'[x] = bcm[x]
  <1>0. bcm \in [Clients -> Managers] /\ chain \in [Clients -> Chains]
    BY DEF TypeOK
  <1>1. CASE k.queue # <<>>
    <2> DEFINE next == [k EXCEPT !.blk = Head(k.queue), !.at = "connect",
                                 !.queue = Tail(k.queue)]
    <2>1. chain' = [chain EXCEPT ![c] = next] /\ bcm' = bcm
      BY <1>1 DEF Finalize
    <2>2. next.at = "connect" /\ next.blk = Head(k.queue) /\ next.top = k.top
            /\ next.orphans = k.orphans
      BY DEF Chains
    <2>3. ChainOK(next)
      BY <2>2 DEF ChainOK
    <2> HIDE DEF next
    <2> QED BY <1>0, <2>1, <2>2, <2>3
  <1>2. CASE k.queue = <<>>
    <2> DEFINE done == [k EXCEPT !.blk = 0, !.at = "idle"]
    <2>1. done \in Chains /\ done.at = "idle" /\ done.queue = <<>> /\ done.top = k.top
            /\ done.orphans = k.orphans
      <3>1. 0 \in Heights
        BY DownloadAssumption DEF Heights
      <3> QED BY <1>2, <3>1 DEF Chains
    <2>2. /\ chain' = [chain EXCEPT ![c] = done]
          /\ bcm' = [bcm EXCEPT ![c] = HandleQueueDone(bcm[c], done)]
      BY <1>0, <1>2 DEF Finalize
    <2> HIDE DEF done
    <2>3. ChainOK(done)
      BY <1>2, <2>1 DEF ChainOK
    <2>4. HandleQueueDone(bcm[c], done).tickle = {}
      BY <1>0, <2>1, QueueDoneType
    <2> QED BY <1>0, <2>2, <2>3, <2>4
  <1> QED BY <1>1, <1>2

(* The steps of the block chain.                                             *)
LEMMA ChainStepOK ==
  ASSUME IInv, NEW c \in Clients, NEW k, ChainOK(k), chain' = [chain EXCEPT ![c] = k],
         UNCHANGED bcm, chain[c].at # "idle" => k.at # "idle"
  PROVE  ChainsOK' /\ TickleServed'
  <1>1. chain'[c] = k /\ \A x \in Clients \ {c} : chain'[x] = chain[x]
    BY DEF IInv, TypeOK
  <1> QED BY <1>1 DEF IInv, ChainsOK, TickleServed

LEMMA ConnectBlockOK ==
  ASSUME IInv, NEW c \in Clients, ConnectBlock(c)
  PROVE  ChainsOK' /\ TickleServed'
  <1> DEFINE k == chain[c]
  <1>1. k \in Chains /\ k.at = "connect" /\ ChainOK(k)
    BY DEF IInv, TypeOK, ChainsOK, ConnectBlock
  <1>2. CASE k.blk = k.top + 1
    <2> DEFINE next == [k EXCEPT !.top = k.blk, !.at = "save", !.orphans = @ \ {k.blk}]
    <2>1. chain' = [chain EXCEPT ![c] = next] /\ bcm' = bcm
      BY <1>2 DEF ConnectBlock
    <2>2. next.at = "save" /\ next.blk = next.top
      BY <1>1 DEF Chains
    <2>3. ChainOK(next)
      BY <2>2 DEF ChainOK
    <2> HIDE DEF next
    <2> QED BY <2>1, <2>2, <2>3, ChainStepOK
  <1>3. CASE k.blk # k.top + 1
    <2> DEFINE late == [k EXCEPT !.orphans = IF k.blk > k.top THEN @ \cup {k.blk} ELSE @]
    <2>1. late \in Chains
      BY <1>1 DEF Chains
    <2>2. Finalize(c, late)
      BY <1>3 DEF ConnectBlock
    <2>3. late.top + 1 \notin late.orphans
      BY <1>1, <1>3 DEF Chains, ChainOK
    <2> HIDE DEF late
    <2>4. /\ ChainOK(chain'[c]) /\ (bcm'[c].tickle # {} => chain'[c].at # "idle")
          /\ \A x \in Clients \ {c} : chain'[x] = chain[x] /\ bcm'[x] = bcm[x]
      BY <2>1, <2>2, <2>3, FinalizeOK DEF IInv
    <2> QED BY <2>4 DEF IInv, ChainsOK, TickleServed
  <1> QED BY <1>2, <1>3

LEMMA SaveBlockOK ==
  ASSUME IInv, NEW c \in Clients, SaveBlock(c)
  PROVE  ChainsOK' /\ TickleServed'
  <1> DEFINE k == chain[c]
             saved == [k EXCEPT !.stored = k.blk, !.queue = Children(k) \o @]
  <1>1. k \in Chains /\ k.at = "save" /\ ChainOK(k)
    BY DEF IInv, TypeOK, ChainsOK, SaveBlock
  <1>2. saved \in Chains /\ Finalize(c, saved)
    BY <1>1, ChildrenType DEF SaveBlock
  <1>3. saved.top = k.top /\ saved.orphans = k.orphans /\ saved.queue = Children(k) \o k.queue
    BY <1>1 DEF Chains
  <1>4. k.top + 1 \in k.orphans => saved.queue # <<>> /\ Head(saved.queue) = k.top + 1
    <2> SUFFICES ASSUME k.top + 1 \in k.orphans
                 PROVE  saved.queue # <<>> /\ Head(saved.queue) = k.top + 1
      OBVIOUS
    <2>1. Children(k) = <<k.top + 1>> /\ k.queue \in Seq(Heights) /\ k.top + 1 \in Heights
      BY <1>1 DEF ChainOK, Children, Chains
    <2>2. <<k.top + 1>> \o k.queue # <<>> /\ Head(<<k.top + 1>> \o k.queue) = k.top + 1
      <3> HIDE DEF k
      <3> QED BY <2>1
    <2> QED BY <1>3, <2>1, <2>2
  <1> HIDE DEF saved
  <1>5. /\ ChainOK(chain'[c]) /\ (bcm'[c].tickle # {} => chain'[c].at # "idle")
        /\ \A x \in Clients \ {c} : chain'[x] = chain[x] /\ bcm'[x] = bcm[x]
    BY <1>2, <1>3, <1>4, FinalizeOK DEF IInv
  <1> QED BY <1>5 DEF IInv, ChainsOK, TickleServed

LEMMA ReceiveBlockOK ==
  ASSUME IInv, NEW c \in Clients, NEW s \in Servers, ReceiveBlock(c, s)
  PROVE  ChainsOK' /\ TickleServed'
  <1> DEFINE k == chain[c]
             b == Head(toClient[<<c, s>>]).blk
  <1>1. k \in Chains /\ ChainOK(k)
    BY DEF IInv, TypeOK, ChainsOK
  <1>2. chain' = [chain EXCEPT ![c] = AddBlock(k, b)] /\ bcm' = bcm
    BY DEF ReceiveBlock
  <1> HIDE DEF b
  <1>3. ChainOK(AddBlock(k, b)) /\ (k.at # "idle" => AddBlock(k, b).at # "idle")
    BY <1>1 DEF AddBlock, ChainOK, Chains
  <1> QED BY <1>2, <1>3, ChainStepOK

(* The steps that change the manager leave the chain alone.  With an empty   *)
(* queue they keep no hash.                                                  *)
LEMMA ManagerOK ==
  ASSUME IInv, NEW c \in Clients, NEW m, UNCHANGED chain, bcm' = [bcm EXCEPT ![c] = m],
         chain[c].queue = <<>> => m.tickle = bcm[c].tickle
  PROVE  ChainsOK' /\ TickleServed'
  BY DEF IInv, TypeOK, ChainsOK, ChainOK, TickleServed

LEMMA ClientOK ==
  ASSUME IInv, NEW c \in Clients,
         LocatorFails(c) \/ NoConnection(c) \/ Timeout(c)
           \/ \E s \in Servers \cup {Dead} : Locate(c, s)
  PROVE  ChainsOK' /\ TickleServed'
  <1>1. bcm[c] \in Managers /\ chain[c] \in Chains
    BY DEF IInv, TypeOK
  <1>2. CASE LocatorFails(c)
    BY <1>2 DEF LocatorFails, IInv, ChainsOK, TickleServed
  <1>3. CASE NoConnection(c)
    <2> DEFINE m == [bcm[c] EXCEPT !.download.at = "stuck"]
    <2>1. UNCHANGED chain /\ bcm' = [bcm EXCEPT ![c] = m]
      BY <1>3 DEF NoConnection, IInv, TypeOK
    <2>2. m.tickle = bcm[c].tickle
      BY <1>1 DEF Managers
    <2> HIDE DEF m
    <2> QED BY <2>1, <2>2, ManagerOK
  <1>4. CASE Timeout(c)
    <2> DEFINE closed == [bcm[c] EXCEPT !.download = NoDownload]
    <2>1. closed \in Managers /\ closed.tickle = bcm[c].tickle
      BY <1>1, NoDownloadType DEF Managers
    <2>2. UNCHANGED chain
            /\ bcm' = [bcm EXCEPT ![c] = StartDownload(closed, chain[c], AnyBlock, NoConn)]
      BY <1>4 DEF Timeout, IInv, TypeOK
    <2>3. AnyBlock \in Heights
      BY DownloadAssumption DEF AnyBlock, Heights
    <2> HIDE DEF closed
    <2>4. chain[c].queue = <<>> =>
            StartDownload(closed, chain[c], AnyBlock, NoConn).tickle = bcm[c].tickle
      BY <1>1, <2>1, <2>3, StartType
    <2> QED BY <2>2, <2>4, ManagerOK
  <1>5. ASSUME NEW s \in Servers \cup {Dead}, Locate(c, s)
        PROVE  ChainsOK' /\ TickleServed'
    <2> DEFINE m == [bcm[c] EXCEPT !.download =
                       [bcm[c].download EXCEPT !.at = "running", !.conn = s]]
    <2>1. UNCHANGED chain /\ bcm' = [bcm EXCEPT ![c] = m]
      BY <1>5 DEF Locate, IInv, TypeOK
    <2>2. m.tickle = bcm[c].tickle
      BY <1>1 DEF Managers
    <2> HIDE DEF m
    <2> QED BY <2>1, <2>2, ManagerOK
  <1> QED BY <1>2, <1>3, <1>4, <1>5

LEMMA LinkOK ==
  ASSUME IInv, NEW c \in Clients, NEW s \in Servers,
         Connect(c, s) \/ ReceiveInv(c, s) \/ \E ended \in BOOLEAN : Disconnect(c, s, ended)
  PROVE  ChainsOK' /\ TickleServed'
  <1>1. bcm[c] \in Managers /\ chain[c] \in Chains
    BY DEF IInv, TypeOK
  <1>2. CASE Connect(c, s)
    <2>1. UNCHANGED chain /\ bcm' = [bcm EXCEPT ![c] = HandleConnect(bcm[c], chain[c])]
      BY <1>2 DEF Connect
    <2>2. chain[c].queue = <<>> => HandleConnect(bcm[c], chain[c]).tickle = bcm[c].tickle
      BY <1>1, ConnectType
    <2> QED BY <2>1, <2>2, ManagerOK
  <1>3. CASE ReceiveInv(c, s)
    <2> DEFINE l == <<c, s>>
               k == chain[c]
               invs == Head(toClient[l]).invs
               m == AskForOrphans(bcm[c], k, s, invs)
    <2>1. l \in Links /\ toClient \in [Links -> Seq(Answers)] /\ toClient[l] # <<>>
      BY <1>3, LinkType DEF IInv, TypeOK, ReceiveInv
    <2>2. Head(toClient[l]) \in Answers
      BY <2>1, QueueType
    <2>3. invs \in Seq(Heights)
      BY <1>3, <2>2, MessageTypes DEF ReceiveInv
    <2>4. UNCHANGED chain /\ bcm' = [bcm EXCEPT ![c] = HandleDownloadInv(m, k, s, invs)]
      BY <1>3 DEF ReceiveInv
    <2> HIDE DEF invs
    <2>5. m \in Managers /\ (k.queue = <<>> => m.tickle = bcm[c].tickle)
      BY <1>1, <2>3, AskType
    <2> HIDE DEF m
    <2>6. k.queue = <<>> => HandleDownloadInv(m, k, s, invs).tickle = bcm[c].tickle
      BY <1>1, <2>3, <2>5, DownloadInvType
    <2> QED BY <2>4, <2>6, ManagerOK
  <1>4. ASSUME NEW ended \in BOOLEAN, Disconnect(c, s, ended)
        PROVE  ChainsOK' /\ TickleServed'
    <2>1. UNCHANGED chain
            /\ bcm' = [bcm EXCEPT ![c] = HandleDownloadDisconnect(bcm[c], s, ended)]
      BY <1>4 DEF Disconnect
    <2>2. HandleDownloadDisconnect(bcm[c], s, ended).tickle = bcm[c].tickle
      BY <1>1, DisconnectType
    <2> QED BY <2>1, <2>2, ManagerOK
  <1> QED BY <1>2, <1>3, <1>4

(* The steps that touch neither the manager nor the chain.                   *)
LEMMA ServerOK ==
  ASSUME IInv,
         \/ UNCHANGED vars
         \/ \E c \in Clients : AnswerChecks(c)
         \/ \E c \in Clients, s \in Servers :
              ServeGetBlocks(c, s) \/ ServeGetData(c, s) \/ SendBlock(c, s)
         \/ \E s \in Servers : Announce(s)
  PROVE  ChainsOK' /\ TickleServed'
  <1>1. UNCHANGED <<chain, bcm>>
    <2>1. CASE UNCHANGED vars
      BY <2>1 DEF vars
    <2>2. ASSUME NEW c \in Clients, AnswerChecks(c) PROVE UNCHANGED <<chain, bcm>>
      BY <2>2 DEF AnswerChecks
    <2>3. ASSUME NEW c \in Clients, NEW s \in Servers,
                 ServeGetBlocks(c, s) \/ ServeGetData(c, s)
          PROVE  UNCHANGED <<chain, bcm>>
      BY <2>3, ZenonT(60) DEF ServeGetBlocks, ServeGetData
    <2>4. ASSUME NEW c \in Clients, NEW s \in Servers, SendBlock(c, s)
          PROVE  UNCHANGED <<chain, bcm>>
      BY <2>4 DEF SendBlock
    <2>5. ASSUME NEW s \in Servers, Announce(s) PROVE UNCHANGED <<chain, bcm>>
      BY <2>5 DEF Announce
    <2> QED BY <2>1, <2>2, <2>3, <2>4, <2>5
  <1> QED BY <1>1 DEF IInv, ChainsOK, TickleServed

(* The inductive invariant: types, the queue and the orphans, and the hash   *)
(* kept for later.                                                           *)
THEOREM DownloadInvariant == Spec => []IInv
  <1>1. Init => IInv
    <2> SUFFICES ASSUME Init PROVE IInv
      OBVIOUS
    <2>1. ChainsOK /\ TickleServed
      BY DEF Init, ChainsOK, ChainOK, TickleServed
    <2> QED BY <2>1, InitType DEF IInv
  <1>2. IInv /\ [Next]_vars => IInv'
    <2> SUFFICES ASSUME IInv, [Next]_vars PROVE IInv'
      OBVIOUS
    <2>1. TypeOK'
      BY NextType DEF IInv
    <2>2. ChainsOK' /\ TickleServed'
      <3>1. ASSUME NEW c \in Clients, ConnectBlock(c) \/ SaveBlock(c)
            PROVE  ChainsOK' /\ TickleServed'
        BY <3>1, ConnectBlockOK, SaveBlockOK
      <3>2. ASSUME NEW c \in Clients,
                   LocatorFails(c) \/ NoConnection(c) \/ Timeout(c)
                     \/ \E s \in Servers \cup {Dead} : Locate(c, s)
            PROVE  ChainsOK' /\ TickleServed'
        BY <3>2, ClientOK
      <3>3. ASSUME NEW c \in Clients, NEW s \in Servers,
                   \/ Connect(c, s) \/ ReceiveInv(c, s)
                   \/ \E ended \in BOOLEAN : Disconnect(c, s, ended)
            PROVE  ChainsOK' /\ TickleServed'
        BY <3>3, LinkOK
      <3>4. ASSUME NEW c \in Clients, NEW s \in Servers, ReceiveBlock(c, s)
            PROVE  ChainsOK' /\ TickleServed'
        BY <3>4, ReceiveBlockOK
      <3> QED BY <3>1, <3>2, <3>3, <3>4, ServerOK DEF Next
    <2> QED BY <2>1, <2>2 DEF IInv
  <1> QED BY <1>1, <1>2, PTL DEF Spec

(* A hash that was kept for later is never forgotten while nothing is in     *)
(* process: the end of the queue takes it, whatever timeouts, lost           *)
(* connections and answers of other downloads came before.                   *)
THEOREM TickleAlwaysServed == Spec => []TickleServed
  <1>1. IInv => TickleServed
    BY DEF IInv
  <1> QED BY <1>1, DownloadInvariant, PTL

(* However the blocks of many servers arrive, when the queue is done the     *)
(* block after the top does not wait among the orphans.                      *)
THEOREM NoOrphanLeftIdle == Spec => []NoIdleOrphan
  <1>1. IInv => NoIdleOrphan
    BY DEF IInv, ChainsOK, ChainOK, NoIdleOrphan
  <1> QED BY <1>1, DownloadInvariant, PTL
=============================================================================
