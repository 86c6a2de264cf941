---------------------------- MODULE MCClusterSync ----------------------------
(* Instances of ClusterSync for model checking. *)
EXTENDS ClusterSync, TLC

CONSTANTS n1, n2

PairPeers == (n1 :> {n2}) @@ (n2 :> {n1})
PairQuota == (n1 :> 2) @@ (n2 :> 1)

(* Nothing tells the handlers of a node apart. *)
HandlerSymmetry == Permutations(Writer)
=============================================================================
