--------------------------- MODULE BlockDownload ---------------------------
(* The download of the block chain: lib/blockchainmanager.js and the         *)
(* handlers of lib/node.js on both ends of a connection.                     *)
(*                                                                           *)
(* A client keeps at most one download.  It sends getblocks with a locator,  *)
(* gets an inv with a batch of hashes, asks for those it does not know, and  *)
(* takes an inv with one block for the end of the batch.  A block is known   *)
(* by its height on the one chain all servers follow; forks are the business *)
(* of BlockChain.  The client's chain is reduced to what the download sees:  *)
(* the queue, the block in process, the orphans, the top in memory and the   *)
(* top in the database.                                                      *)
(*                                                                           *)
(* A definition whose name extends that of the one below it is a faulty      *)
(* variant, with the mistake a change of the code could make.                *)
EXTENDS Integers, Sequences, SequencesExt

CONSTANTS
  Clients, Servers,
  NoConn,        \* no connection given
  Dead,          \* a connection that is closed
  Setups,        \* what to start from: the storage of all nodes, the links
                 \* <<client, server>>, the servers' heights and the bounds on
                 \* the faults: the connections lost (drops) and on the downloads that
                 \* time out with answers on the way (early)
  MaxHeight,     \* bound: no server grows beyond it
  BatchLimit     \* the 500 hashes of an answer to getblocks

Backends == {"mongodb", "leveldb"}

ASSUME DownloadAssumption ==
  /\ NoConn \notin Servers /\ Dead \notin Servers /\ NoConn # Dead
  /\ MaxHeight \in Nat /\ BatchLimit \in Nat \ {0}
  /\ Setups \subseteq [backend: Backends, links: SUBSET (Clients \X Servers), height: [Servers -> 0..MaxHeight],
                       drops: Nat, early: Nat]

VARIABLES
  chain,         \* a client's block chain
  bcm,           \* its BlockChainManager
  checks,        \* invs whose hashes it is looking up
  alive,         \* the clients whose process runs
  up,            \* the links that are connected
  toServer,      \* messages under way on a link
  toClient,
  jobs,          \* the getdata loops of the server
  height,        \* a server's height
  hashContinue,  \* the last hash of its last answer; 0: none
  links,         \* the links that can be connected
  backend,       \* the storage of all nodes
  drops, early   \* the faults that may still come

vars == <<chain, bcm, checks, alive, up, toServer, toClient, jobs, height,
          hashContinue, links, backend, drops, early>>
wires == <<toServer, toClient, jobs>>
given == <<links, backend>>
budgets == <<drops, early>>

Heights == 0..MaxHeight
AnyBlock == 0            \* Util.NULL_HASH: as many blocks as possible
Links == Clients \X Servers

(* The elements of seq that are in set, in their order.                      *)
Among(seq, set) ==
  LET kept[i \in 0 .. Len(seq)] ==
        IF i = 0 THEN <<>>
        ELSE IF seq[i] \in set THEN Append(kept[i - 1], seq[i]) ELSE kept[i - 1]
  IN  kept[Len(seq)]

NoDownload == [at |-> "none", conn |-> NoConn, from |-> 0, to |-> AnyBlock]

Requests == [kind: {"getblocks"}, from: Heights, to: Heights]
              \cup [kind: {"getdata"}, invs: Seq(Heights) \ {<<>>}]
Answers == [kind: {"inv"}, invs: Seq(Heights)] \cup [kind: {"block"}, blk: Heights]
Lookups(conns) == [conn: conns, invs: Seq(Heights)]

Chains == [top: Heights, stored: Heights, blk: Heights,
           at: {"idle", "connect", "save"},
           queue: Seq(Heights), orphans: SUBSET Heights]
Downloads == [at: {"none", "locating", "running", "stuck"},
              conn: Servers \cup {NoConn, Dead}, from: Heights, to: Heights]
Managers == [download: Downloads, tickle: SUBSET Heights]

TypeOK ==
  /\ chain \in [Clients -> Chains]
  /\ bcm \in [Clients -> Managers]
  /\ checks \in [Clients -> Seq(Lookups(Servers))]
  /\ alive \subseteq Clients
  /\ up \subseteq links /\ links \subseteq Links
  /\ toServer \in [Links -> Seq(Requests)]
  /\ toClient \in [Links -> Seq(Answers)]
  /\ jobs \in [Links -> Seq(Seq(Heights) \ {<<>>})]
  /\ height \in [Servers -> Heights] /\ hashContinue \in [Servers -> Heights]
  /\ backend \in Backends
  /\ drops \in Nat /\ early \in Nat

Init ==
  /\ chain = [c \in Clients |-> [top |-> 0, stored |-> 0, blk |-> 0, at |-> "idle",
                                 queue |-> <<>>, orphans |-> {}]]
  /\ bcm = [c \in Clients |-> [download |-> NoDownload, tickle |-> {}]]
  /\ checks = [c \in Clients |-> <<>>]
  /\ alive = Clients
  /\ up = {}
  /\ toServer = [l \in Links |-> <<>>]
  /\ toClient = [l \in Links |-> <<>>]
  /\ jobs = [l \in Links |-> <<>>]
  /\ hashContinue = [s \in Servers |-> 0]
  /\ \E u \in Setups : /\ backend = u.backend /\ links = u.links /\ height = u.height
                       /\ drops = u.drops /\ early = u.early

-----------------------------------------------------------------------------
(* The manager, as functions of its state m and the chain k it looks at.     *)

(* A request waits for the queue to be empty, without its connection; while  *)
(* a download is going it is dropped.                                        *)
StartDownload(m, k, to, s) ==
  IF k.queue # <<>> THEN [m EXCEPT !.tickle = {to}]
  ELSE IF m.download # NoDownload THEN m
  ELSE [m EXCEPT !.download = [at |-> "locating", conn |-> s, from |-> k.top, to |-> to]]

HandleConnect(m, k) ==
  IF m.download = NoDownload THEN StartDownload(m, k, AnyBlock, NoConn) ELSE m

HandleQueueDoneKeepsTickle(m, k) ==
  IF m.tickle # {}
  THEN StartDownload(m, k, CHOOSE h \in m.tickle : TRUE, NoConn)
  ELSE HandleConnect(m, k)

HandleQueueDone(m, k) ==
  IF m.tickle # {}
  THEN LET to == CHOOSE h \in m.tickle : TRUE
       IN  [StartDownload(m, k, to, NoConn) EXCEPT !.tickle = {}]
  ELSE HandleConnect(m, k)

(* The listener of a running download: one block ends it.  The next one is   *)
(* asked for while this one is still there.                                  *)
HandleDownloadInv(m, k, s, invs) ==
  IF m.download.at = "running" /\ m.download.conn = s /\ Len(invs) = 1
  THEN [StartDownload(m, k, invs[1], s) EXCEPT !.download = NoDownload]
  ELSE m

(* The end of a connection closes its download; an error of the socket is no *)
(* 'disconnect', and leaves it to time out.                                  *)
HandleDownloadDisconnect(m, s, ended) ==
  IF m.download.conn # s THEN m
  ELSE IF ended /\ m.download.at = "running" THEN [m EXCEPT !.download = NoDownload]
  ELSE [m EXCEPT !.download.conn = Dead]

-----------------------------------------------------------------------------
(* The client's block chain.                                                 *)

Connecting(k) == k.orphans \cup (IF k.at = "connect" THEN {k.blk} ELSE {})

(* add(): a block that is being added or was added is ignored, one that      *)
(* finds another in process queues.                                          *)
AddBlock(k, b) ==
  IF b \in Connecting(k) \cup 1..k.top THEN k
  ELSE IF k.at = "idle" THEN [k EXCEPT !.blk = b, !.at = "connect"]
  ELSE [k EXCEPT !.queue = Append(@, b)]

(* finalizeStep: the next block, or 'queueDone'.                             *)
Finalize(c, k) ==
  IF k.queue # <<>>
  THEN /\ chain' = [chain EXCEPT ![c] = [k EXCEPT !.blk = Head(k.queue), !.at = "connect",
                                                  !.queue = Tail(k.queue)]]
       /\ UNCHANGED bcm
  ELSE LET done == [k EXCEPT !.blk = 0, !.at = "idle"]
       IN  /\ chain' = [chain EXCEPT ![c] = done]
           /\ bcm' = [bcm EXCEPT ![c] = HandleQueueDone(@, done)]

ConnectBlock(c) ==
  LET k == chain[c]
  IN  /\ c \in alive /\ k.at = "connect"
      /\ IF k.blk = k.top + 1
         THEN /\ chain' = [chain EXCEPT ![c] = [k EXCEPT !.top = k.blk, !.at = "save",
                                                         !.orphans = @ \ {k.blk}]]
              /\ UNCHANGED bcm
         ELSE Finalize(c, [k EXCEPT !.orphans =
                             IF k.blk > k.top THEN @ \cup {k.blk} ELSE @])
      /\ UNCHANGED <<checks, alive, up, wires, height, hashContinue, given, budgets>>

ChildrenDropped(k) == <<>>

(* The children that waited are processed before the rest of the queue.      *)
Children(k) == IF k.blk + 1 \in k.orphans THEN <<k.blk + 1>> ELSE <<>>

SaveBlock(c) ==
  LET k == chain[c]
  IN  /\ c \in alive /\ k.at = "save"
      /\ Finalize(c, [k EXCEPT !.stored = k.blk, !.queue = Children(k) \o @])
      /\ UNCHANGED <<checks, alive, up, wires, height, hashContinue, given, budgets>>

-----------------------------------------------------------------------------
(* Messages.                                                                 *)

GetBlocks(from, to) == [kind |-> "getblocks", from |-> from, to |-> to]
GetData(invs) == [kind |-> "getdata", invs |-> invs]
Inv(invs) == [kind |-> "inv", invs |-> invs]
Block(b) == [kind |-> "block", blk |-> b]

(* Node.handleInv for blocks.  Those in the index of connecting blocks are   *)
(* found at once, and an orphan among them starts a download; the rest is    *)
(* looked up in the database.  Then the download hears of the inv.           *)
AskForOrphans(m, k, s, invs) ==
  LET asked[i \in 0 .. Len(invs)] ==
        IF i = 0 THEN m
        ELSE IF invs[i] \in k.orphans THEN StartDownload(asked[i - 1], k, invs[i], s)
        ELSE asked[i - 1]
  IN  asked[Len(invs)]

ReceiveInv(c, s) ==
  LET l == <<c, s>>
      k == chain[c]
      invs == Head(toClient[l]).invs
      rest == Among(invs, Heights \ Connecting(k))
      m == AskForOrphans(bcm[c], k, s, invs)
  IN  /\ c \in alive /\ l \in up /\ toClient[l] # <<>> /\ Head(toClient[l]).kind = "inv"
      /\ toClient' = [toClient EXCEPT ![l] = Tail(@)]
      /\ checks' = [checks EXCEPT ![c] =
                      IF rest = <<>> THEN @ ELSE Append(@, [conn |-> s, invs |-> rest])]
      /\ bcm' = [bcm EXCEPT ![c] = HandleDownloadInv(m, k, s, invs)]
      /\ UNCHANGED <<chain, alive, up, toServer, jobs, height, hashContinue, given, budgets>>

(* The last answer of the database sends the getdata.                        *)
AnswerChecks(c) ==
  \E i \in DOMAIN checks[c] :
    LET j == checks[c][i]
        l == <<c, j.conn>>
        unknown == Among(j.invs, chain[c].stored + 1 .. MaxHeight)
    IN  /\ c \in alive
        /\ checks' = [checks EXCEPT ![c] = RemoveAt(@, i)]
        /\ toServer' = [toServer EXCEPT ![l] =
                          IF unknown = <<>> THEN @ ELSE Append(@, GetData(unknown))]
        /\ UNCHANGED <<chain, bcm, alive, up, toClient, jobs, height, hashContinue,
                       given, budgets>>

ReceiveBlock(c, s) ==
  LET l == <<c, s>>
  IN  /\ c \in alive /\ l \in up /\ toClient[l] # <<>> /\ Head(toClient[l]).kind = "block"
      /\ toClient' = [toClient EXCEPT ![l] = Tail(@)]
      /\ chain' = [chain EXCEPT ![c] = AddBlock(@, Head(toClient[l]).blk)]
      /\ UNCHANGED <<bcm, checks, alive, up, toServer, jobs, height, hashContinue,
                     given, budgets>>

(* BlockChainDownload.start once the locator is there.  LevelDB has no entry *)
(* for a top that is not saved yet: the error has no step left to go to and  *)
(* ends the process.  Without a connection getConnection() throws into the   *)
(* storage, which logs it: nothing is sent and nothing will time out.        *)
Locate(c, s) ==
  LET d == bcm[c].download
  IN  /\ c \in alive /\ d.at = "locating"
      /\ IF d.conn = NoConn THEN <<c, s>> \in up ELSE d.conn = s
      /\ ~(backend = "leveldb" /\ d.from > chain[c].stored)
      /\ bcm' = [bcm EXCEPT ![c].download = [d EXCEPT !.at = "running", !.conn = s]]
      /\ toServer' = IF s = Dead THEN toServer
                     ELSE [toServer EXCEPT ![<<c, s>>] = Append(@, GetBlocks(d.from, d.to))]
      /\ UNCHANGED <<chain, checks, alive, up, toClient, jobs, height, hashContinue,
                     given, budgets>>

LocatorFails(c) ==
  /\ c \in alive /\ bcm[c].download.at = "locating"
  /\ backend = "leveldb" /\ bcm[c].download.from > chain[c].stored
  /\ alive' = alive \ {c}
  /\ UNCHANGED <<chain, bcm, checks, up, wires, height, hashContinue, given, budgets>>

NoConnection(c) ==
  LET d == bcm[c].download
  IN  /\ c \in alive /\ d.at = "locating" /\ d.conn = NoConn
      /\ \A s \in Servers : <<c, s>> \notin up
      /\ ~(backend = "leveldb" /\ d.from > chain[c].stored)
      /\ bcm' = [bcm EXCEPT ![c].download.at = "stuck"]
      /\ UNCHANGED <<chain, checks, alive, up, wires, height, hashContinue, given, budgets>>

(* pingStatus() finds the last answer too old.  The new download is asked    *)
(* for on the next tick, when the old one is closed.                         *)
Quiet(c) ==
  /\ chain[c].at = "idle" /\ checks[c] = <<>>
  /\ \A s \in Servers : /\ toServer[<<c, s>>] = <<>> /\ toClient[<<c, s>>] = <<>>
                        /\ jobs[<<c, s>>] = <<>>

TimeoutRestartsAtOnce(c) ==
  /\ c \in alive /\ bcm[c].download.at = "running"
  /\ IF Quiet(c) THEN UNCHANGED early ELSE early > 0 /\ early' = early - 1
  /\ bcm' = [bcm EXCEPT ![c] =
               [StartDownload(@, chain[c], AnyBlock, NoConn) EXCEPT !.download = NoDownload]]
  /\ UNCHANGED <<chain, checks, alive, up, wires, height, hashContinue, given, drops>>

Timeout(c) ==
  /\ c \in alive /\ bcm[c].download.at = "running"
  /\ IF Quiet(c) THEN UNCHANGED early ELSE early > 0 /\ early' = early - 1
  /\ bcm' = [bcm EXCEPT ![c] =
               StartDownload([@ EXCEPT !.download = NoDownload], chain[c], AnyBlock, NoConn)]
  /\ UNCHANGED <<chain, checks, alive, up, wires, height, hashContinue, given, drops>>

(* A connection has had its handshake.                                       *)
Connect(c, s) ==
  /\ c \in alive /\ <<c, s>> \in links \ up
  /\ up' = up \cup {<<c, s>>}
  /\ bcm' = [bcm EXCEPT ![c] = HandleConnect(@, chain[c])]
  /\ UNCHANGED <<chain, checks, alive, wires, height, hashContinue, given, budgets>>

(* A connection ends, or fails: what was under way is lost.                  *)
Disconnect(c, s, ended) ==
  LET l == <<c, s>>
  IN  /\ l \in up /\ drops > 0
      /\ drops' = drops - 1
      /\ up' = up \ {l}
      /\ toServer' = [toServer EXCEPT ![l] = <<>>]
      /\ toClient' = [toClient EXCEPT ![l] = <<>>]
      /\ jobs' = [jobs EXCEPT ![l] = <<>>]
      /\ checks' = [checks EXCEPT ![c] = Among(@, Lookups(Servers \ {s}))]
      /\ bcm' = [bcm EXCEPT ![c] = HandleDownloadDisconnect(@, s, ended)]
      /\ UNCHANGED <<chain, alive, height, hashContinue, given, early>>

-----------------------------------------------------------------------------
(* The server.                                                               *)

(* The first height that is not part of the answer: beyond the chain, one    *)
(* too many, or the block to stop at.                                        *)
StopAtBeyondEnd(s, from, to) ==
  CHOOSE h \in from + 1 .. height[s] + 3 :
    /\ h > height[s] + 1 \/ h - from > BatchLimit \/ h = to
    /\ \A i \in from + 1 .. h - 1 : i - from <= BatchLimit /\ i # to

StopAt(s, from, to) ==
  CHOOSE h \in from + 1 .. height[s] + 1 :
    /\ h > height[s] \/ h - from > BatchLimit \/ h = to
    /\ \A i \in from + 1 .. h - 1 : i - from <= BatchLimit /\ i # to

(* Node.handleGetblocks.  The database of LevelDB reports an error for a     *)
(* hash it does not know and for a height beyond the chain; then nothing is  *)
(* sent.                                                                     *)
ServeGetBlocks(c, s) ==
  LET l == <<c, s>>
      m == Head(toServer[l])
      common == IF m.from > height[s] THEN height[s] ELSE m.from
      stop == StopAt(s, common, m.to)
      hashes == [i \in 1 .. stop - 1 - common |-> common + i]
      quiet == backend = "leveldb" /\ (m.from > height[s] \/ stop > height[s])
  IN  /\ l \in up /\ toServer[l] # <<>> /\ m.kind = "getblocks"
      /\ toServer' = [toServer EXCEPT ![l] = Tail(@)]
      /\ IF quiet
         THEN UNCHANGED <<hashContinue, toClient>>
         ELSE /\ hashContinue' = [hashContinue EXCEPT ![s] =
                                    IF hashes = <<>> THEN 0 ELSE stop - 1]
              /\ toClient' = [toClient EXCEPT ![l] = Append(@, Inv(hashes))]
      /\ UNCHANGED <<chain, bcm, checks, alive, up, jobs, height, given, budgets>>

(* Node.handleGetdata: each request is a loop of its own over its hashes.    *)
ServeGetData(c, s) ==
  LET l == <<c, s>>
  IN  /\ l \in up /\ toServer[l] # <<>> /\ Head(toServer[l]).kind = "getdata"
      /\ toServer' = [toServer EXCEPT ![l] = Tail(@)]
      /\ jobs' = [jobs EXCEPT ![l] = Append(@, Head(toServer[l]).invs)]
      /\ UNCHANGED <<chain, bcm, checks, alive, up, toClient, height, hashContinue,
                     given, budgets>>

(* The block that ends the batch is followed by an inv with the top block.   *)
SendBlock(c, s) ==
  LET l == <<c, s>>
  IN  \E i \in DOMAIN jobs[l] :
        LET b == Head(jobs[l][i])
            last == hashContinue[s] = b
            left == IF Len(jobs[l][i]) = 1 THEN RemoveAt(jobs[l], i)
                    ELSE [jobs[l] EXCEPT ![i] = Tail(@)]
        IN  /\ jobs' = [jobs EXCEPT ![l] = left]
            /\ toClient' = [toClient EXCEPT ![l] =
                 @ \o <<Block(b)>> \o (IF last THEN <<Inv(<<height[s]>>)>> ELSE <<>>)]
            /\ hashContinue' = [hashContinue EXCEPT ![s] = IF last THEN 0 ELSE @]
            /\ UNCHANGED <<chain, bcm, checks, alive, up, toServer, height, given, budgets>>

(* A server gets a new block and announces it.                               *)
Announce(s) ==
  /\ height[s] < MaxHeight
  /\ height' = [height EXCEPT ![s] = @ + 1]
  /\ toClient' = [l \in Links |-> IF l[2] = s /\ l \in up
                                  THEN Append(toClient[l], Inv(<<height[s] + 1>>))
                                  ELSE toClient[l]]
  /\ UNCHANGED <<chain, bcm, checks, alive, up, toServer, jobs, hashContinue, given, budgets>>

-----------------------------------------------------------------------------

Next ==
  \/ \E c \in Clients :
       \/ ConnectBlock(c) \/ SaveBlock(c) \/ AnswerChecks(c)
       \/ LocatorFails(c) \/ NoConnection(c) \/ Timeout(c)
       \/ \E s \in Servers \cup {Dead} : Locate(c, s)
       \/ \E s \in Servers :
            \/ Connect(c, s) \/ ReceiveInv(c, s) \/ ReceiveBlock(c, s)
            \/ \E ended \in BOOLEAN : Disconnect(c, s, ended)
            \/ ServeGetBlocks(c, s) \/ ServeGetData(c, s) \/ SendBlock(c, s)
  \/ \E s \in Servers : Announce(s)

Spec == Init /\ [][Next]_vars

(* Callbacks come, messages arrive, the timer fires, the peer manager        *)
(* connects again, and a random choice leaves no connection out for ever.    *)
Fairness ==
  \A c \in Clients :
    /\ WF_vars(ConnectBlock(c)) /\ WF_vars(SaveBlock(c)) /\ WF_vars(AnswerChecks(c))
    /\ WF_vars(LocatorFails(c)) /\ WF_vars(NoConnection(c))
    /\ WF_vars(Timeout(c) /\ Quiet(c)) /\ WF_vars(Locate(c, Dead))
    /\ \A s \in Servers :
         /\ SF_vars(Locate(c, s)) /\ WF_vars(Connect(c, s))
         /\ WF_vars(ReceiveInv(c, s)) /\ WF_vars(ReceiveBlock(c, s))
         /\ WF_vars(ServeGetBlocks(c, s)) /\ WF_vars(ServeGetData(c, s))
         /\ WF_vars(SendBlock(c, s))

FairSpec == Spec /\ Fairness

-----------------------------------------------------------------------------
(* A hash is kept for later only while blocks are processed: the end of the  *)
(* queue will serve it.                                                      *)
TickleServed == \A c \in Clients : bcm[c].tickle # {} => chain[c].at # "idle"

(* When the queue is done no orphan is left that could be connected.         *)
NoIdleOrphan ==
  \A c \in Clients : chain[c].at = "idle" => chain[c].top + 1 \notin chain[c].orphans

(* Nothing is under way for a connected client, and no download is left.     *)
Rests(c) == Quiet(c) /\ bcm[c].download = NoDownload /\ \E s \in Servers : <<c, s>> \in up

Caught(c, s) == chain[c].top >= height[s]

(* What is known to stop a download for good: a download that never got a    *)
(* connection, a batch whose last inv came when the queue was done (it is    *)
(* dropped because the download that it ends is still there, and an orphan   *)
(* above the top remains), and a database of LevelDB at the server, which    *)
(* answers only as long as more than a batch is missing.                     *)
Stuck(c) == bcm[c].download.at = "stuck"
Stalled(c) == Rests(c) /\ \E h \in chain[c].orphans : h > chain[c].top + 1
Unanswered(c, s) == backend = "leveldb" /\ height[s] - chain[c].top <= BatchLimit

(* A client that stays connected has in the end every block its servers have,*)
(* through batches, timeouts, disconnects and blocks that others deliver,    *)
(* or it is in one of the states above.                                      *)
CatchesUp ==
  \A c \in Clients :
    <>[](\/ c \notin alive \/ Stuck(c) \/ Stalled(c)
         \/ \A s \in Servers : <<c, s>> \notin links
         \/ \E s \in Servers : <<c, s>> \in links /\ (Caught(c, s) \/ Unanswered(c, s)))
=============================================================================
