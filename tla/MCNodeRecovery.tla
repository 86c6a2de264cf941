---------------------------- MODULE MCNodeRecovery ----------------------------
(* Instances of NodeRecovery for model checking. *)
EXTENDS NodeRecovery, TLC

CONSTANTS n1, n2

PairPeers == (n1 :> {n2}) @@ (n2 :> {n1})
SoloQuota == (n1 :> 2) @@ (n2 :> 0)
=============================================================================
