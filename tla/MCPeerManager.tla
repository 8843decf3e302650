--------------------------- MODULE MCPeerManager ---------------------------
(* Settings for PeerManager: localhost, which answers or refuses, two hosts  *)
(* that answer, one that is silent and one that refuses.                     *)
EXTENDS PeerManager

Settings(up, connect, initial, boot, addrs) ==
  [up |-> up, connect |-> connect, initialPeers |-> initial, bootstrap |-> boot,
   resolved |-> {"good", "fair", "mute"}, addrs |-> addrs, noListen |-> FALSE]

Others == {"good", "fair"}
Everyone == {"localhost", "good", "fair"}

SmallConfigs ==
  {Settings(Others, "auto", {}, {"good", "bad"}, {"mute"}),
   Settings(Others, "auto", {"good", "bad"}, {"fair", "mute"}, {"bad"}),
   Settings(Others, "auto", {"good"}, {}, {"bad"}),
   Settings(Everyone, "auto", {"bad"}, {"good"}, {"mute"}),
   Settings(Everyone, "auto", {"good"}, {"fair"}, {"mute"}),
   Settings(Others, "p2p", {"good", "fair"}, {"mute", "bad"}, {"good"}),
   Settings(Others, "p2p", {}, {"good", "fair", "mute"}, {"bad"}),
   Settings(Others, "p2p", {"mute"}, {"good"}, {"fair"}),
   Settings(Others, "good", {"mute"}, {"bad"}, {"bad"}),
   Settings(Others, "none", {"good"}, {"bad"}, {})}
=============================================================================
