------------------------------ MODULE MCIdentity ------------------------------
(* Instances of Identity for model checking. *)
EXTENDS Identity, TLC

CONSTANTS n1, n2, n3

PairQuota == (n1 :> 4) @@ (n2 :> 2)
PairCalls == (n1 :> {"issue", "refresh", "subscribe"}) @@
             (n2 :> {"login", "logout", "withdraw", "remove"})

TrioQuota == (n1 :> 2) @@ (n2 :> 2) @@ (n3 :> 2)
NoCalls == [n \in {n1, n2, n3} |-> {}]
=============================================================================
