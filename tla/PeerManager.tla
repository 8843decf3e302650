---------------------------- MODULE PeerManager ----------------------------
(* The connections of a node, from lib/peermanager.js, and the states of     *)
(* lib/node.js they drive: a node starts, its block chain is initialized,    *)
(* the peer manager is enabled and connects to the peers it knows, and the   *)
(* first handshake starts the download.                                      *)
(*                                                                           *)
(* A Peer object is known by its host and by how it was made: the manager    *)
(* compares objects in one place and addresses in another.  A connection is  *)
(* known by its Peer object, of which it has one at most.                    *)
(*                                                                           *)
(* A definition whose name extends that of the one below it is a faulty      *)
(* variant, with the mistake a change of the code could make.                *)
EXTENDS Integers, FiniteSets, FiniteSetsExt

CONSTANTS
  Hosts,
  Local,           \* localhost
  Silent,          \* the hosts that accept a connection and say nothing
  Configs,         \* the network settings to start from, with the hosts that
                   \* answer the handshake (up), the names that resolve and
                   \* the hosts that peers tell of (addrs)
  MinConnections,  \* the manager connects to peers while it has fewer
  MinKnownPeers,   \* it runs the bootstrap modules while it knows fewer
  MaxDrops         \* bound: working connections that are lost

ASSUME PeerManagerAssumption ==
  /\ Local \in Hosts
  /\ Silent \subseteq Hosts
  /\ Configs \subseteq [up: SUBSET (Hosts \ Silent),
                        connect: {"auto", "p2p", "none"} \cup Hosts,
                        initialPeers: SUBSET Hosts, bootstrap: SUBSET Hosts,
                        resolved: SUBSET Hosts, addrs: SUBSET Hosts, noListen: BOOLEAN]
  /\ MinConnections \in Nat \ {0} /\ MinKnownPeers \in Nat /\ MaxDrops \in Nat

VARIABLES
  state,        \* Node.state
  enabled,
  peers,        \* the Peer objects to connect to
  forcePeers,   \* those that are always to be connected
  bootstrap,    \* modules that were not run yet: the hosts they will find
  lookups,      \* names that are being resolved
  connections,
  isConnected,
  connectAutoConn,
  peerDiscovery,
  timers,       \* loops of pingStatus
  netConnected, \* how often the event was emitted
  cfg,
  drops

vars == <<state, enabled, peers, forcePeers, bootstrap, lookups, connections, isConnected,
          connectAutoConn, peerDiscovery, timers, netConnected, cfg, drops>>

Origins == {"local", "config", "force", "bootstrap", "addr", "inbound"}
PeerObjects == [host: Hosts, by: Origins]
Object(h, by) == [host |-> h, by |-> by]
LocalPeer == Object(Local, "local")

TypeOK ==
  /\ state \in {"null", "init", "netConnect", "blockDownload"}
  /\ enabled \in BOOLEAN /\ isConnected \in BOOLEAN /\ peerDiscovery \in BOOLEAN
  /\ peers \subseteq PeerObjects /\ forcePeers \subseteq PeerObjects
  /\ bootstrap \subseteq Hosts /\ lookups \subseteq Hosts
  /\ connections \subseteq [peer: PeerObjects, active: BOOLEAN]
  /\ connectAutoConn \in {"null", "false", "local"}
  /\ timers \in 0..2 /\ netConnected \in 0..MaxDrops + 1
  /\ cfg \in Configs /\ drops \in 0..MaxDrops

Init ==
  /\ state = "null" /\ enabled = FALSE
  /\ peers = {} /\ forcePeers = {} /\ bootstrap = {} /\ lookups = {}
  /\ connections = {} /\ isConnected = FALSE
  /\ connectAutoConn = "null" /\ peerDiscovery = TRUE
  /\ timers = 0 /\ netConnected = 0
  /\ cfg \in Configs /\ drops = 0

-----------------------------------------------------------------------------
(* checkStatus.  It works on the manager p, a record of what it reads and    *)
(* changes, and is nondeterministic: peers are tried in random order.        *)

Manager == [peers |-> peers, forcePeers |-> forcePeers, bootstrap |-> bootstrap,
            lookups |-> lookups, connections |-> connections,
            connectAutoConn |-> connectAutoConn]

Connected(conns) == {k.peer : k \in conns}
Opened(objects) == [peer: objects, active: {FALSE}]

(* Forced peers are looked for by address.                                   *)
MissingForced(p) == {o \in p.forcePeers : \A k \in p.connections : k.peer.host # o.host}
ForceConnect(p) == [p EXCEPT !.connections = @ \cup Opened(MissingForced(p))]

StillTryingLocal(p) ==
  p.connectAutoConn = "local" /\ LocalPeer \in Connected(p.connections)

ForgetLocal(p) ==
  [p EXCEPT !.connectAutoConn = IF @ = "local" THEN "null" ELSE @]

(* The modules run once: the list is emptied.                                *)
RunBootstrap(p) ==
  IF Cardinality(p.peers) < MinKnownPeers
  THEN [p EXCEPT !.lookups = @ \cup p.bootstrap, !.bootstrap = {}] ELSE p

(* Others are compared as objects.                                           *)
Connectable(p) == p.peers \ Connected(p.connections)
Room(p) == IF Cardinality(p.connections) < MinConnections
           THEN MinConnections - Cardinality(p.connections) ELSE 0
Dialed(p) ==
  LET n == IF Room(p) < Cardinality(Connectable(p)) THEN Room(p)
           ELSE Cardinality(Connectable(p))
  IN  {[p EXCEPT !.connections = @ \cup Opened(chosen)] : chosen \in kSubset(n, Connectable(p))}

CheckStatus(p) ==
  LET f == ForceConnect(p)
  IN  IF StillTryingLocal(f) THEN {f} ELSE Dialed(RunBootstrap(ForgetLocal(f)))

SetManager(p) ==
  /\ peers' = p.peers /\ forcePeers' = p.forcePeers
  /\ bootstrap' = p.bootstrap /\ lookups' = p.lookups
  /\ connections' = p.connections /\ connectAutoConn' = p.connectAutoConn

-----------------------------------------------------------------------------
(* Starting.                                                                 *)

Start ==
  /\ state = "null"
  /\ state' = "init"
  /\ UNCHANGED <<enabled, peers, forcePeers, bootstrap, lookups, connections, isConnected,
                 connectAutoConn, peerDiscovery, timers, netConnected, cfg, drops>>

(* The local node is tried first; its answer decides.                        *)
AutoPeer == IF cfg.connect = "auto" THEN {LocalPeer} ELSE {}

(* Only p2p and auto use the peers of the settings and the bootstrapping.    *)
InitialPeers ==
  IF cfg.connect \in {"auto", "p2p"} THEN cfg.initialPeers
  ELSE IF cfg.connect = "none" THEN {} ELSE {cfg.connect}
Networked == cfg.connect \in {"auto", "p2p"}

(* initComplete: the network is enabled.  The forced peers are the initial   *)
(* ones of the settings, whatever "connect" says.                            *)
InitComplete ==
  /\ state = "init"
  /\ state' = "netConnect"
  /\ enabled' = TRUE
  /\ peerDiscovery' = Networked
  /\ timers' = 1
  /\ LET p == [peers |-> AutoPeer \cup {Object(h, "config") : h \in InitialPeers},
               forcePeers |-> {Object(h, "force") : h \in cfg.initialPeers},
               bootstrap |-> IF Networked THEN cfg.bootstrap ELSE {},
               lookups |-> {}, connections |-> Opened(AutoPeer),
               connectAutoConn |-> IF cfg.connect = "auto" THEN "local" ELSE "null"]
     IN  \E q \in CheckStatus(p) : SetManager(q)
  /\ UNCHANGED <<isConnected, netConnected, cfg, drops>>

PingStatus ==
  /\ enabled /\ timers > 0
  /\ \E p \in CheckStatus(Manager) : SetManager(p)
  /\ UNCHANGED <<state, enabled, isConnected, peerDiscovery, timers, netConnected, cfg, drops>>

-----------------------------------------------------------------------------
(* Events of the connections.                                                *)

(* The local node answers: from now on this node is its proxy.               *)
BecomeProxyOnly ==
  /\ connectAutoConn' = "false"
  /\ bootstrap' = {} /\ peerDiscovery' = FALSE
  /\ UNCHANGED peers

BecomeProxy ==
  /\ connectAutoConn' = "false"
  /\ bootstrap' = {} /\ peerDiscovery' = FALSE
  /\ peers' = {LocalPeer}

(* The handshake is done.                                                    *)
HandleReady(k) ==
  /\ k \in connections /\ ~k.active /\ k.peer.host \in cfg.up
  /\ connections' = (connections \ {k}) \cup {[k EXCEPT !.active = TRUE]}
  /\ state' = IF ~isConnected /\ state = "netConnect" THEN "blockDownload" ELSE state
  /\ netConnected' = IF isConnected THEN netConnected ELSE netConnected + 1
  /\ isConnected' = TRUE
  /\ IF k.peer = LocalPeer
     THEN BecomeProxy
     ELSE UNCHANGED <<connectAutoConn, bootstrap, peers, peerDiscovery>>
  /\ UNCHANGED <<enabled, forcePeers, lookups, timers, cfg, drops>>

(* A connection fails or ends.  While the local node is tried, the end of    *)
(* any connection is taken for its failure.                                  *)
FallBackKeepsTrying(p) == [p EXCEPT !.peers = {}]
FallBackForgetsForced(p) ==
  [p EXCEPT !.connectAutoConn = "null", !.peers = {}, !.forcePeers = {}]
FallBack(p) == [p EXCEPT !.connectAutoConn = "null", !.peers = {}]

HandleDisconnectOfAll(k) ==
  LET p == [Manager EXCEPT !.connections = @ \ {k}]
  IN  /\ IF connectAutoConn = "local"
         THEN /\ \E q \in CheckStatus(FallBack(p)) : SetManager(q)
              /\ timers' = timers + 1
         ELSE SetManager(p) /\ UNCHANGED timers
      /\ isConnected' = FALSE
      /\ UNCHANGED <<state, enabled, peerDiscovery, netConnected, cfg>>

HandleDisconnect(k) ==
  LET p == [Manager EXCEPT !.connections = @ \ {k}]
  IN  /\ IF connectAutoConn = "local"
         THEN /\ \E q \in CheckStatus(FallBack(p)) : SetManager(q)
              /\ timers' = timers + 1
         ELSE SetManager(p) /\ UNCHANGED timers
      /\ isConnected' = (isConnected /\ connections' # {})
      /\ UNCHANGED <<state, enabled, peerDiscovery, netConnected, cfg>>

Refused(k) ==
  /\ k \in connections /\ ~k.active /\ k.peer.host \notin cfg.up \cup Silent
  /\ HandleDisconnect(k) /\ UNCHANGED drops

Lost(k) ==
  /\ k \in connections /\ drops < MaxDrops /\ drops' = drops + 1
  /\ HandleDisconnect(k)

(* A peer tells of others, once it is connected.                             *)
HandleAddr(k, h) ==
  /\ k \in connections /\ k.active /\ h \in cfg.addrs
  /\ Object(h, "addr") \notin peers
  /\ peerDiscovery
  /\ peers' = peers \cup {Object(h, "addr")}
  /\ UNCHANGED <<state, enabled, forcePeers, bootstrap, lookups, connections, isConnected,
                 connectAutoConn, peerDiscovery, timers, netConnected, cfg, drops>>

(* A name is resolved, or not; it is not asked for again.                    *)
BootstrapFound(h) ==
  /\ h \in lookups
  /\ lookups' = lookups \ {h}
  /\ peers' = IF h \in cfg.resolved THEN peers \cup {Object(h, "bootstrap")} ELSE peers
  /\ UNCHANGED <<state, enabled, forcePeers, bootstrap, connections, isConnected,
                 connectAutoConn, peerDiscovery, timers, netConnected, cfg, drops>>

(* The server hands a socket over.  With connect="auto" it is not started.   *)
Listening == enabled /\ ~cfg.noListen /\ cfg.connect # "auto"

Inbound(h) ==
  /\ Listening /\ h \in cfg.up /\ Object(h, "inbound") \notin Connected(connections)
  /\ connections' = connections \cup Opened({Object(h, "inbound")})
  /\ UNCHANGED <<state, enabled, peers, forcePeers, bootstrap, lookups, isConnected,
                 connectAutoConn, peerDiscovery, timers, netConnected, cfg, drops>>

-----------------------------------------------------------------------------

Next ==
  \/ Start \/ InitComplete \/ PingStatus
  \/ \E k \in connections : \/ HandleReady(k) \/ Refused(k) \/ Lost(k)
                            \/ \E h \in Hosts : HandleAddr(k, h)
  \/ \E h \in Hosts : Inbound(h) \/ BootstrapFound(h)

Spec == Init /\ [][Next]_vars

(* Timers fire, sockets answer or fail, names are resolved or not; a random  *)
(* choice leaves no host out for ever.                                       *)
Dials(h) == PingStatus /\ \E k \in connections' \ connections : k.peer.host = h

Fairness ==
  /\ WF_vars(Start) /\ WF_vars(InitComplete)
  /\ WF_vars(\E h \in Hosts : BootstrapFound(h))
  /\ WF_vars(\E k \in connections : HandleReady(k))
  /\ \A h \in Hosts \ Silent :
       /\ WF_vars(\E k \in connections : k.peer.host = h /\ Refused(k))
       /\ SF_vars(Dials(h))

FairSpec == Spec /\ Fairness

-----------------------------------------------------------------------------
(* Whoever has a working connection is downloading, and knows it: the first  *)
(* handshake starts the download (node.js), whatever was lost before.        *)
ActiveStartsDownload ==
  (\E k \in connections : k.active) => state = "blockDownload" /\ isConnected

(* A proxy connects to its local node, to the forced peers and to those that *)
(* a lookup still finds, and to no others.                                   *)
ProxyStaysLocal ==
  [][connectAutoConn = "false" =>
       \A k \in connections' : \/ k.peer \in Connected(connections)
                               \/ k.peer.by \in {"local", "force", "bootstrap"}]_vars

(* The connections that silent hosts may hold.                               *)
SilentOf(c) ==
  2 * Cardinality(c.initialPeers \cap Silent) + Cardinality(c.bootstrap \cap Silent)
  + Cardinality(c.addrs \cap Silent) + (IF c.connect \in Silent THEN 1 ELSE 0)

(* The settings name a host that answers, and silent ones leave it room: the *)
(* handshake has no timeout.  A silent local node is waited for forever.     *)
Reachable(c) ==
  \/ c.initialPeers \cap c.up # {}
  \/ /\ SilentOf(c) < MinConnections /\ Cardinality(c.initialPeers) < MinKnownPeers
     /\ \/ c.connect \in c.up
        \/ c.connect = "auto" /\ Local \in c.up
        \/ /\ c.connect = "p2p" \/ (c.connect = "auto" /\ Local \notin Silent)
           /\ c.bootstrap \cap c.resolved \cap c.up # {}

(* A node that can reach a peer ends up connected, through refusals, the     *)
(* fall-back from the local node and lost connections.                       *)
StaysConnected ==
  Reachable(cfg) => <>[](\E k \in connections : k.active)
=============================================================================
