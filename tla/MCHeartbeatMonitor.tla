-------------------------- MODULE MCHeartbeatMonitor --------------------------
(* Instances of HeartbeatMonitor for model checking. *)
EXTENDS HeartbeatMonitor, TLC

CONSTANTS n1, n2

PairPeers == (n1 :> {n2}) @@ (n2 :> {n1})
=============================================================================
