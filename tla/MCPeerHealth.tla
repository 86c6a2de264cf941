------------------------------ MODULE MCPeerHealth ------------------------------
(* Instances of PeerHealth for model checking. *)
EXTENDS PeerHealth

Limits == [cluster |-> 2, login |-> 1]

(* Two peers that fail and come back; one that also changes hands; one whose*)
(* limiter has more clients than buckets.                                   *)
Instances ==
  {[urls |-> <<"u1", "u2">>, nodes |-> {"x", "y"}, clients |-> {}, pages |-> 0,
    flaps |-> TRUE, moves |-> FALSE, limited |-> FALSE],
   [urls |-> <<"u1">>, nodes |-> {"x", "y"}, clients |-> {}, pages |-> 1,
    flaps |-> TRUE, moves |-> TRUE, limited |-> FALSE],
   [urls |-> <<"u1">>, nodes |-> {"x"}, clients |-> {"c1", "c2"}, pages |-> 3,
    flaps |-> FALSE, moves |-> FALSE, limited |-> TRUE]}
=============================================================================
