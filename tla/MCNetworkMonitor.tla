-------------------------- MODULE MCNetworkMonitor --------------------------
(* Instances of NetworkMonitor for TLC: every kind of packet of one client, *)
(* and the SYNs of a second one.                                            *)
EXTENDS NetworkMonitor

CONSTANTS c1, c2

MCPackets == [client : {c1}, kind : Kinds] \cup [client : {c2}, kind : {"syn"}]
MCRamBuild == {[store |-> "ram", queue |-> "sync"]}
MCBuilds ==
  MCRamBuild \cup {[store |-> "mysql", queue |-> "spsc"], [store |-> "sqlite", queue |-> "sync"]}
=============================================================================
