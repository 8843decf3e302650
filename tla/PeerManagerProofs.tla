------------------------- MODULE PeerManagerProofs -------------------------
(* Theorems about PeerManager, for all settings, hosts and bounds:           *)
(*   PeersTypeCorrect      every variable keeps its type and bound           *)
(*   ActiveAlwaysDownloads a working connection means the node downloads     *)
(*   ProxyNeverStrays      what a proxy connects to                          *)
(* All rest on one inductive invariant, PeerInv.  The types alone are not    *)
(* inductive: that at most two loops of pingStatus run, and that netConnected*)
(* is emitted once for every loss at most, depends on when the fall-back     *)
(* from the local node is over and on who was connected before.              *)
EXTENDS PeerManager, TLAPS

Active(conns) == \E k \in conns : k.active

(* Nothing is connected, and no timer runs, before the network is enabled.   *)
QuietBeforeStart ==
  state \in {"null", "init"} =>
    /\ ~enabled /\ connections = {} /\ timers = 0 /\ connectAutoConn = "null" /\ ~isConnected

(* The second loop starts with the fall-back, which happens once.            *)
OneFallBack == connectAutoConn = "local" => timers <= 1

(* What "isConnected" remembers, and what was emitted for it.                *)
ConnectedInv ==
  /\ Active(connections) => isConnected
  /\ isConnected => state = "blockDownload"
  /\ netConnected <= drops + 1
  /\ ~Active(connections) => netConnected <= drops

(* Only connect="auto" makes a Peer of the local node, and only its answer   *)
(* makes the proxy; the proxy knows the local node and what was still being  *)
(* looked up.                                                                *)
ProxyInv ==
  /\ \A o \in peers \cup Connected(connections) : o.by = "local" => cfg.connect = "auto"
  /\ \A o \in forcePeers : o.by = "force"
  /\ connectAutoConn = "false" =>
       /\ cfg.connect = "auto" /\ ~peerDiscovery
       /\ \A o \in peers : o.by \in {"local", "bootstrap"}

PeerInv == TypeOK /\ QuietBeforeStart /\ OneFallBack /\ ConnectedInv /\ ProxyInv

-----------------------------------------------------------------------------
(* checkStatus: it opens connections, to peers and forced peers, closes none *)
(* and leaves the peers alone.                                               *)

ManagerType ==
  [peers : SUBSET PeerObjects, forcePeers : SUBSET PeerObjects,
   bootstrap : SUBSET Hosts, lookups : SUBSET Hosts,
   connections : SUBSET [peer : PeerObjects, active : BOOLEAN],
   connectAutoConn : {"null", "false", "local"}]

LEMMA CheckStatusOpens ==
  ASSUME NEW p \in ManagerType, NEW q \in CheckStatus(p)
  PROVE  /\ q \in ManagerType
         /\ q.peers = p.peers /\ q.forcePeers = p.forcePeers
         /\ p.connections \subseteq q.connections
         /\ \A k \in q.connections \ p.connections :
               ~k.active /\ k.peer \in p.peers \cup p.forcePeers
         /\ q.connectAutoConn = p.connectAutoConn
              \/ (p.connectAutoConn = "local" /\ q.connectAutoConn = "null")
  <1> DEFINE f == ForceConnect(p)
             r == RunBootstrap(ForgetLocal(f))
  <1>1. /\ f \in ManagerType
        /\ f.peers = p.peers /\ f.forcePeers = p.forcePeers
        /\ f.connectAutoConn = p.connectAutoConn
        /\ p.connections \subseteq f.connections
        /\ \A k \in f.connections \ p.connections : ~k.active /\ k.peer \in p.forcePeers
    BY DEF ManagerType, ForceConnect, MissingForced, Opened
  <1>2. /\ r \in ManagerType
        /\ r.peers = p.peers /\ r.forcePeers = p.forcePeers
        /\ r.connections = f.connections
        /\ r.connectAutoConn = IF p.connectAutoConn = "local" THEN "null" ELSE p.connectAutoConn
    BY <1>1 DEF ManagerType, ForgetLocal, RunBootstrap
  <1>3. CASE q = f
    BY <1>1, <1>3
  <1>4. CASE q \in Dialed(r)
    <2>1. PICK chosen \in SUBSET Connectable(r) :
             q = [r EXCEPT !.connections = @ \cup Opened(chosen)]
      BY <1>4 DEF Dialed, kSubset
    <2>2. chosen \subseteq r.peers
      BY DEF Connectable
    <2> QED BY <1>1, <1>2, <2>1, <2>2 DEF ManagerType, Opened
  <1> QED BY <1>3, <1>4 DEF CheckStatus

LEMMA ManagerTyped == ASSUME TypeOK PROVE Manager \in ManagerType
  BY DEF TypeOK, ManagerType, Manager

(* What a call of checkStatus on p does to the variables, for a p whose      *)
(* peers and connections are those of the manager or fewer.                  *)
LEMMA CheckStatusKeeps ==
  ASSUME TypeOK, ProxyInv, NEW p \in ManagerType, NEW q \in CheckStatus(p), SetManager(q),
         p.peers \subseteq peers, p.forcePeers = forcePeers,
         p.connections \subseteq connections
  PROVE  /\ peers' \subseteq peers /\ peers' \subseteq PeerObjects
         /\ forcePeers' = forcePeers
         /\ bootstrap' \subseteq Hosts /\ lookups' \subseteq Hosts
         /\ connections' \subseteq [peer : PeerObjects, active : BOOLEAN]
         /\ p.connections \subseteq connections'
         /\ \A k \in connections' : k.active => k \in p.connections
         /\ \A k \in connections' \ connections : k.peer \in peers \cup forcePeers
         /\ connectAutoConn' = p.connectAutoConn
              \/ (p.connectAutoConn = "local" /\ connectAutoConn' = "null")
  BY CheckStatusOpens DEF SetManager, ManagerType

-----------------------------------------------------------------------------
(* The invariant holds at first, and every action keeps it.                  *)

LEMMA DropBound == MaxDrops \in Nat
  BY PeerManagerAssumption DEF PeerManagerAssumption

LEMMA PeerInvInit == Init => PeerInv
  <1> SUFFICES ASSUME Init PROVE PeerInv
    OBVIOUS
  <1> USE DEF Init
  <1>1. TypeOK
    <2>1. timers \in 0..2 /\ netConnected \in 0..MaxDrops + 1 /\ drops \in 0..MaxDrops
      BY DropBound
    <2> QED BY <2>1 DEF TypeOK
  <1>2. QuietBeforeStart /\ OneFallBack
    BY DEF QuietBeforeStart, OneFallBack
  <1>3. ConnectedInv
    BY DEF ConnectedInv, Active
  <1>4. ProxyInv
    BY DEF ProxyInv, Connected
  <1> QED BY <1>1, <1>2, <1>3, <1>4 DEF PeerInv

LEMMA StartKeeps == ASSUME PeerInv, Start PROVE PeerInv'
  BY DEF Start, PeerInv, TypeOK, QuietBeforeStart, OneFallBack, ConnectedInv, ProxyInv,
         Active, Connected

LEMMA InitCompleteKeeps == ASSUME PeerInv, InitComplete PROVE PeerInv'
  <1> DEFINE p == [peers |-> AutoPeer \cup {Object(h, "config") : h \in InitialPeers},
               forcePeers |-> {Object(h, "force") : h \in cfg.initialPeers},
               bootstrap |-> IF Networked THEN cfg.bootstrap ELSE {},
               lookups |-> {}, connections |-> Opened(AutoPeer),
               connectAutoConn |-> IF cfg.connect = "auto" THEN "local" ELSE "null"]
  <1>1. PICK q \in CheckStatus(p) : SetManager(q)
    BY DEF InitComplete
  <1>2. /\ cfg.initialPeers \subseteq Hosts /\ cfg.bootstrap \subseteq Hosts
        /\ cfg.connect \in {"auto", "p2p", "none"} \cup Hosts /\ Local \in Hosts
    BY PeerManagerAssumption DEF PeerInv, TypeOK
  <1>3. p \in ManagerType
    <2>1. AutoPeer \subseteq PeerObjects
      BY <1>2 DEF AutoPeer, LocalPeer, PeerObjects, Origins, Object
    <2>2. InitialPeers \subseteq Hosts
      BY <1>2 DEF InitialPeers
    <2>3. \A h \in Hosts, by \in Origins : Object(h, by) \in PeerObjects
      BY DEF PeerObjects, Object
    <2>4. {Object(h, "config") : h \in InitialPeers} \subseteq PeerObjects
      BY <2>2, <2>3 DEF Origins
    <2>5. {Object(h, "force") : h \in cfg.initialPeers} \subseteq PeerObjects
      BY <1>2, <2>3 DEF Origins
    <2>6. Opened(AutoPeer) \subseteq [peer : PeerObjects, active : BOOLEAN]
      BY <2>1 DEF Opened
    <2> QED BY <1>2, <2>1, <2>4, <2>5, <2>6 DEF ManagerType
  <1>4. /\ q \in ManagerType
        /\ q.peers = p.peers /\ q.forcePeers = p.forcePeers
        /\ p.connections \subseteq q.connections
        /\ \A k \in q.connections \ p.connections :
               ~k.active /\ k.peer \in p.peers \cup p.forcePeers
        /\ q.connectAutoConn = p.connectAutoConn
              \/ (p.connectAutoConn = "local" /\ q.connectAutoConn = "null")
    BY <1>1, <1>3, CheckStatusOpens
  <1>5. /\ state' = "netConnect" /\ enabled' = TRUE /\ peerDiscovery' \in BOOLEAN /\ timers' = 1
        /\ UNCHANGED <<isConnected, netConnected, cfg, drops>> /\ state = "init"
    BY DEF InitComplete, Networked
  <1>6. TypeOK'
    BY <1>1, <1>4, <1>5 DEF PeerInv, TypeOK, SetManager, ManagerType
  <1>7. QuietBeforeStart' /\ OneFallBack'
    BY <1>5 DEF QuietBeforeStart, OneFallBack
  <1>8. ~Active(connections')
    BY <1>1, <1>4 DEF Active, SetManager, Opened
  <1>9. ConnectedInv'
    BY <1>5, <1>8 DEF PeerInv, ConnectedInv, Active, QuietBeforeStart
  <1>10. ProxyInv'
    <2>1. \A o \in p.peers \cup p.forcePeers : o.by = "local" => cfg.connect = "auto"
      BY DEF AutoPeer, Object
    <2>2. \A o \in peers' \cup Connected(connections') : o.by = "local" => cfg'.connect = "auto"
      BY <1>1, <1>4, <1>5, <2>1 DEF Connected, SetManager, Opened, AutoPeer
    <2>3. \A o \in forcePeers' : o.by = "force"
      BY <1>1, <1>4 DEF SetManager, Object
    <2>4. connectAutoConn' # "false"
      BY <1>1, <1>4 DEF SetManager
    <2> QED BY <2>2, <2>3, <2>4 DEF ProxyInv
  <1> QED BY <1>6, <1>7, <1>9, <1>10 DEF PeerInv

LEMMA PingStatusKeeps == ASSUME PeerInv, PingStatus PROVE PeerInv'
  <1>1. PICK q \in CheckStatus(Manager) : SetManager(q)
    BY DEF PingStatus
  <1>2. /\ peers' \subseteq peers /\ peers' \subseteq PeerObjects
        /\ forcePeers' = forcePeers
        /\ bootstrap' \subseteq Hosts /\ lookups' \subseteq Hosts
        /\ connections' \subseteq [peer : PeerObjects, active : BOOLEAN]
        /\ connections \subseteq connections'
        /\ \A k \in connections' : k.active => k \in connections
        /\ \A k \in connections' \ connections : k.peer \in peers \cup forcePeers
        /\ connectAutoConn' = connectAutoConn
             \/ (connectAutoConn = "local" /\ connectAutoConn' = "null")
    <2>1. /\ Manager.peers = peers /\ Manager.forcePeers = forcePeers
          /\ Manager.connections = connections /\ Manager.connectAutoConn = connectAutoConn
      BY DEF Manager
    <2> QED BY <1>1, <2>1, ManagerTyped, CheckStatusKeeps DEF PeerInv
  <1>3. UNCHANGED <<state, enabled, isConnected, peerDiscovery, timers, netConnected, cfg, drops>>
    BY DEF PingStatus
  <1>4. TypeOK'
    BY <1>2, <1>3 DEF PeerInv, TypeOK
  <1>5. QuietBeforeStart' /\ OneFallBack'
    BY <1>2, <1>3 DEF PingStatus, PeerInv, QuietBeforeStart, OneFallBack
  <1>6. ConnectedInv'
    BY <1>2, <1>3 DEF PeerInv, ConnectedInv, Active
  <1>7. ProxyInv'
    BY <1>2, <1>3 DEF PeerInv, ProxyInv, Connected
  <1> QED BY <1>4, <1>5, <1>6, <1>7 DEF PeerInv

(* A connection ends: the manager p without it, and the second loop if this  *)
(* was taken for the failure of the local node.                              *)
LEMMA DisconnectChanges ==
  ASSUME PeerInv, NEW k \in connections, HandleDisconnect(k)
  PROVE  /\ peers' \subseteq peers /\ peers' \subseteq PeerObjects
         /\ forcePeers' = forcePeers
         /\ bootstrap' \subseteq Hosts /\ lookups' \subseteq Hosts
         /\ connections' \subseteq [peer : PeerObjects, active : BOOLEAN]
         /\ connections \ {k} \subseteq connections'
         /\ \A c \in connections' : c.active => c \in connections \ {k}
         /\ \A c \in connections' \ connections : c.peer \in peers \cup forcePeers
         /\ connectAutoConn' = IF connectAutoConn = "local" THEN "null" ELSE connectAutoConn
         /\ timers' = IF connectAutoConn = "local" THEN timers + 1 ELSE timers
         /\ isConnected' = (isConnected /\ connections' # {})
         /\ UNCHANGED <<state, enabled, peerDiscovery, netConnected, cfg>>
  <1> DEFINE p == [Manager EXCEPT !.connections = @ \ {k}]
  <1>1. /\ isConnected' = (isConnected /\ connections' # {})
        /\ UNCHANGED <<state, enabled, peerDiscovery, netConnected, cfg>>
    BY DEF HandleDisconnect
  <1>2. /\ p \in ManagerType /\ p.peers = peers /\ p.forcePeers = forcePeers
        /\ p.connections = connections \ {k} /\ p.connectAutoConn = connectAutoConn
    BY ManagerTyped DEF Manager, ManagerType, PeerInv
  <1>3. CASE connectAutoConn = "local"
    <2>1. PICK q \in CheckStatus(FallBack(p)) : SetManager(q)
      BY <1>3 DEF HandleDisconnect
    <2>2. timers' = timers + 1
      BY <1>3 DEF HandleDisconnect
    <2>3. /\ FallBack(p) \in ManagerType /\ FallBack(p).peers = {}
          /\ FallBack(p).forcePeers = forcePeers
          /\ FallBack(p).connections = connections \ {k}
          /\ FallBack(p).connectAutoConn = "null"
      BY <1>2 DEF FallBack, ManagerType
    <2>4. /\ peers' \subseteq peers /\ peers' \subseteq PeerObjects
          /\ forcePeers' = forcePeers
          /\ bootstrap' \subseteq Hosts /\ lookups' \subseteq Hosts
          /\ connections' \subseteq [peer : PeerObjects, active : BOOLEAN]
          /\ connections \ {k} \subseteq connections'
          /\ \A c \in connections' : c.active => c \in connections \ {k}
          /\ \A c \in connections' \ connections : c.peer \in peers \cup forcePeers
          /\ connectAutoConn' = "null"
      BY <2>1, <2>3, CheckStatusKeeps DEF PeerInv
    <2> QED BY <1>1, <1>3, <2>2, <2>4
  <1>4. CASE connectAutoConn # "local"
    <2>1. SetManager(p) /\ UNCHANGED timers
      BY <1>4 DEF HandleDisconnect
    <2> QED BY <1>1, <1>2, <1>4, <2>1 DEF SetManager, ManagerType
  <1> QED BY <1>3, <1>4

(* A lost connection pays for the next netConnected; a refused one was not   *)
(* active.                                                                   *)
LEMMA DisconnectKeeps ==
  ASSUME PeerInv, NEW k \in connections, Refused(k) \/ Lost(k)
  PROVE  PeerInv'
  <1>1. HandleDisconnect(k)
    BY DEF Refused, Lost
  <1>2. \/ drops' = drops + 1 /\ drops' \in 0..MaxDrops
        \/ drops' = drops /\ ~k.active
    BY DropBound DEF Refused, Lost, PeerInv, TypeOK
  <1>3. TypeOK'
    <2>1. /\ timers' \in 0..2 /\ netConnected' \in 0..MaxDrops + 1 /\ drops' \in 0..MaxDrops
      BY <1>1, <1>2, DisconnectChanges DEF PeerInv, TypeOK, OneFallBack
    <2>2. isConnected' \in BOOLEAN
      BY <1>1, DisconnectChanges
    <2> QED BY <1>1, <2>1, <2>2, DisconnectChanges DEF PeerInv, TypeOK
  <1>4. QuietBeforeStart' /\ OneFallBack'
    BY <1>1, DisconnectChanges DEF PeerInv, QuietBeforeStart, OneFallBack
  <1>5. ConnectedInv'
    <2>1. Active(connections') => Active(connections) /\ isConnected'
      BY <1>1, DisconnectChanges DEF PeerInv, ConnectedInv, Active
    <2>2. drops' = drops => (Active(connections) => Active(connections'))
      BY <1>1, <1>2, DisconnectChanges DEF Active, PeerInv, TypeOK
    <2> QED BY <1>1, <1>2, <2>1, <2>2, DisconnectChanges DEF PeerInv, ConnectedInv, TypeOK
  <1>6. ProxyInv'
    BY <1>1, DisconnectChanges DEF PeerInv, ProxyInv, Connected
  <1> QED BY <1>3, <1>4, <1>5, <1>6 DEF PeerInv

LEMMA HandleReadyKeeps ==
  ASSUME PeerInv, NEW k \in connections, HandleReady(k)
  PROVE  PeerInv'
  <1> DEFINE r == [k EXCEPT !.active = TRUE]
  <1>1. /\ connections' = (connections \ {k}) \cup {r}
        /\ r.active /\ r.peer = k.peer /\ r \in [peer : PeerObjects, active : BOOLEAN]
    BY DEF HandleReady, PeerInv, TypeOK
  <1>2. state' = "blockDownload" /\ isConnected'
    BY DEF HandleReady, PeerInv, TypeOK, QuietBeforeStart, ConnectedInv
  <1>3. /\ peers' \subseteq PeerObjects /\ peerDiscovery' \in BOOLEAN /\ bootstrap' \subseteq Hosts
        /\ connectAutoConn' \in {connectAutoConn, "false"}
    BY DEF HandleReady, BecomeProxy, PeerInv, TypeOK
  <1>4. UNCHANGED <<enabled, forcePeers, lookups, timers, cfg, drops>>
    BY DEF HandleReady
  <1>5. ConnectedInv'
    BY <1>1, <1>2, <1>4, DropBound
    DEF HandleReady, PeerInv, ConnectedInv, Active, TypeOK
  <1>6. TypeOK'
    <2>1. connections' \subseteq [peer : PeerObjects, active : BOOLEAN]
      BY <1>1 DEF PeerInv, TypeOK
    <2>2. netConnected' \in 0..MaxDrops + 1 /\ isConnected' \in BOOLEAN
      BY <1>4, DropBound DEF HandleReady, PeerInv, TypeOK, ConnectedInv, Active
    <2> QED BY <1>2, <1>3, <1>4, <2>1, <2>2 DEF PeerInv, TypeOK
  <1>7. QuietBeforeStart' /\ OneFallBack'
    BY <1>2, <1>3, <1>4 DEF PeerInv, QuietBeforeStart, OneFallBack
  <1>8. ProxyInv'
    <2>1. Connected(connections') = Connected(connections)
      BY <1>1 DEF Connected
    <2>2. CASE k.peer = LocalPeer
      <3>1. cfg.connect = "auto"
        BY <2>2 DEF PeerInv, ProxyInv, Connected, LocalPeer, Object
      <3>2. peers' = {LocalPeer} /\ ~peerDiscovery'
        BY <2>2 DEF HandleReady, BecomeProxy
      <3> QED BY <1>4, <2>1, <3>1, <3>2 DEF PeerInv, ProxyInv, LocalPeer, Object
    <2>3. CASE k.peer # LocalPeer
      BY <1>4, <2>1, <2>3 DEF HandleReady, PeerInv, ProxyInv
    <2> QED BY <2>2, <2>3
  <1> QED BY <1>5, <1>6, <1>7, <1>8 DEF PeerInv

LEMMA HandleAddrKeeps ==
  ASSUME PeerInv, NEW k \in connections, NEW h \in Hosts, HandleAddr(k, h)
  PROVE  PeerInv'
  <1>1. Object(h, "addr") \in PeerObjects /\ Object(h, "addr").by = "addr"
    BY DEF Object, PeerObjects, Origins
  <1> QED BY <1>1 DEF HandleAddr, PeerInv, TypeOK, QuietBeforeStart, OneFallBack, ConnectedInv,
                      ProxyInv, Active, Connected

LEMMA BootstrapFoundKeeps ==
  ASSUME PeerInv, NEW h \in Hosts, BootstrapFound(h)
  PROVE  PeerInv'
  <1>1. Object(h, "bootstrap") \in PeerObjects /\ Object(h, "bootstrap").by = "bootstrap"
    BY DEF Object, PeerObjects, Origins
  <1> QED BY <1>1 DEF BootstrapFound, PeerInv, TypeOK, QuietBeforeStart, OneFallBack,
                      ConnectedInv, ProxyInv, Active, Connected

LEMMA InboundKeeps ==
  ASSUME PeerInv, NEW h \in Hosts, Inbound(h)
  PROVE  PeerInv'
  <1> DEFINE new == Opened({Object(h, "inbound")})
  <1>1. Object(h, "inbound") \in PeerObjects /\ Object(h, "inbound").by = "inbound"
    BY DEF Object, PeerObjects, Origins
  <1>2. \A c \in new : c \in [peer : PeerObjects, active : BOOLEAN]
                       /\ ~c.active /\ c.peer.by = "inbound"
    BY <1>1 DEF Opened
  <1>3. /\ connections' = connections \cup new /\ enabled
        /\ UNCHANGED <<state, enabled, peers, forcePeers, bootstrap, lookups, isConnected,
                       connectAutoConn, peerDiscovery, timers, netConnected, cfg, drops>>
    BY DEF Inbound, Listening
  <1> QED BY <1>2, <1>3 DEF PeerInv, TypeOK, QuietBeforeStart, OneFallBack, ConnectedInv,
                            ProxyInv, Active, Connected

LEMMA PeerInvNext == PeerInv /\ [Next]_vars => PeerInv'
  <1> SUFFICES ASSUME PeerInv, [Next]_vars PROVE PeerInv'
    OBVIOUS
  <1>1. CASE Start
    BY <1>1, StartKeeps
  <1>2. CASE InitComplete
    BY <1>2, InitCompleteKeeps
  <1>3. CASE PingStatus
    BY <1>3, PingStatusKeeps
  <1>4. ASSUME NEW k \in connections, HandleReady(k) PROVE PeerInv'
    BY <1>4, HandleReadyKeeps
  <1>5. ASSUME NEW k \in connections, Refused(k) \/ Lost(k) PROVE PeerInv'
    BY <1>5, DisconnectKeeps
  <1>6. ASSUME NEW k \in connections, NEW h \in Hosts, HandleAddr(k, h) PROVE PeerInv'
    BY <1>6, HandleAddrKeeps
  <1>7. ASSUME NEW h \in Hosts, Inbound(h) PROVE PeerInv'
    BY <1>7, InboundKeeps
  <1>8. ASSUME NEW h \in Hosts, BootstrapFound(h) PROVE PeerInv'
    BY <1>8, BootstrapFoundKeeps
  <1>9. CASE UNCHANGED vars
    BY <1>9 DEF vars, PeerInv, TypeOK, QuietBeforeStart, OneFallBack, ConnectedInv, ProxyInv,
                Active, Connected
  <1> QED BY <1>1, <1>2, <1>3, <1>4, <1>5, <1>6, <1>7, <1>8, <1>9 DEF Next

LEMMA PeerInvariance == Spec => []PeerInv
  BY PeerInvInit, PeerInvNext, PTL DEF Spec

-----------------------------------------------------------------------------

(* Every variable keeps its type, whatever the settings, the hosts that      *)
(* answer and the order of the events: at most two loops of pingStatus run   *)
(* (while the network is enabled none of them stops), and netConnected is    *)
(* emitted at most once more than working connections were lost.             *)
THEOREM PeersTypeCorrect == Spec => []TypeOK
  <1>1. PeerInv => TypeOK
    BY DEF PeerInv
  <1> QED BY <1>1, PeerInvariance, PTL

(* A working connection means that the manager knows it is connected and     *)
(* that the node downloads blocks, through refusals, losses, the fall-back   *)
(* from the local node and inbound peers.                                    *)
THEOREM ActiveAlwaysDownloads == Spec => []ActiveStartsDownload
  <1>1. PeerInv => ActiveStartsDownload
    BY DEF PeerInv, ConnectedInv, Active, ActiveStartsDownload
  <1> QED BY <1>1, PeerInvariance, PTL

(* Once the local node answered, new connections go to it, to forced peers   *)
(* and to hosts whose lookup was under way, and to no others.                *)
THEOREM ProxyNeverStrays == Spec => ProxyStaysLocal
  <1> DEFINE Strays == connectAutoConn = "false" =>
               \A k \in connections' : \/ k.peer \in Connected(connections)
                                       \/ k.peer.by \in {"local", "force", "bootstrap"}
  <1>1. PeerInv /\ [Next]_vars => [Strays]_vars
    <2> SUFFICES ASSUME PeerInv, Next, connectAutoConn = "false", NEW k \in connections'
                 PROVE  \/ k.peer \in Connected(connections)
                        \/ k.peer.by \in {"local", "force", "bootstrap"}
      OBVIOUS
    <2>1. k \in connections => k.peer \in Connected(connections)
      BY DEF Connected
    <2>2. k \in connections \/ k.peer \in peers \cup forcePeers =>
            \/ k.peer \in Connected(connections)
            \/ k.peer.by \in {"local", "force", "bootstrap"}
      BY <2>1 DEF PeerInv, ProxyInv
    <2>3. CASE Start \/ \E h \in Hosts : BootstrapFound(h)
      BY <2>2, <2>3 DEF Start, BootstrapFound
    <2>4. ~InitComplete
      BY DEF InitComplete, PeerInv, QuietBeforeStart
    <2>5. CASE PingStatus
      <3>1. PICK q \in CheckStatus(Manager) : SetManager(q)
        BY <2>5 DEF PingStatus
      <3>2. q.connections = connections' /\ Manager.connections = connections
        BY <3>1 DEF SetManager, Manager
      <3>3. Manager.peers = peers /\ Manager.forcePeers = forcePeers
        BY DEF Manager
      <3> QED BY <2>2, <3>1, <3>2, <3>3, ManagerTyped, CheckStatusOpens DEF PeerInv
    <2>6. ASSUME NEW c \in connections, HandleReady(c)
          PROVE  k.peer \in Connected(connections)
      BY <2>1, <2>6 DEF HandleReady, Connected, PeerInv, TypeOK
    <2>7. ASSUME NEW c \in connections, Refused(c) \/ Lost(c)
          PROVE  k \in connections \/ k.peer \in peers \cup forcePeers
      BY <2>7, DisconnectChanges DEF Refused, Lost
    <2>8. ASSUME NEW c \in connections, NEW h \in Hosts, HandleAddr(c, h)
          PROVE  k \in connections
      BY <2>8 DEF HandleAddr
    <2>9. ASSUME NEW h \in Hosts PROVE ~Inbound(h)
      BY DEF Inbound, Listening, PeerInv, ProxyInv
    <2> QED BY <2>1, <2>2, <2>3, <2>4, <2>5, <2>6, <2>7, <2>8, <2>9 DEF Next
  <1> QED BY <1>1, PeerInvariance, PTL DEF Spec, ProxyStaysLocal
=============================================================================
