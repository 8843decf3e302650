-------------------------- MODULE MCBlockDownload --------------------------
(* Small networks for BlockDownload: one connection to a server that grows,  *)
(* on each storage, a choice of two servers, a server with two clients.      *)
EXTENDS BlockDownload

OneServer(b, h, d, e) ==
  [backend |-> b, links |-> {<<"c1", "s1">>}, height |-> [s1 |-> h, s2 |-> 3],
   drops |-> d, early |-> e]
TwoServers ==
  [backend |-> "mongodb", links |-> {<<"c1", "s1">>, <<"c1", "s2">>},
   height |-> [s1 |-> 3, s2 |-> 3], drops |-> 1, early |-> 0]
TwoClients ==
  [backend |-> "mongodb", links |-> {<<"c1", "s1">>, <<"c2", "s1">>},
   height |-> [s1 |-> 3, s2 |-> 3], drops |-> 0, early |-> 0]

Networks == {OneServer("mongodb", 2, 1, 0), OneServer("mongodb", 3, 1, 1),
             OneServer("leveldb", 2, 1, 0), OneServer("leveldb", 3, 1, 1),
             TwoServers, TwoClients}
=============================================================================
