-------------------------- MODULE MCConfigReplication --------------------------
(* Instances of ConfigReplication for model checking. *)
EXTENDS ConfigReplication, TLC

CONSTANTS n1, n2

TwoAndTwo == (n1 :> 2) @@ (n2 :> 2)
=============================================================================
