SPECIFICATION FairSpec
CONSTANTS
  Hosts = {"localhost", "good", "fair", "mute", "bad"}
  Local = "localhost"
  Silent = {"mute"}
  Configs <- SmallConfigs
  MinConnections = 3
  MinKnownPeers = 3
  MaxDrops = 2
INVARIANTS
  TypeOK
  ActiveStartsDownload
PROPERTIES
  ProxyStaysLocal
  StaysConnected
