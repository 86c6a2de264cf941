------------------------ MODULE MCNotificationDelivery ------------------------
(* Instances of NotificationDelivery for model checking. *)
EXTENDS NotificationDelivery, TLC

CONSTANTS n1, n2, n3, t1, t2

Cluster(nodes, targets, order, known, intake, attempts, bound) ==
  [nodes |-> nodes, targets |-> targets, order |-> order, known |-> known,
   intake |-> intake, attempts |-> attempts, faults |-> bound]

Everyone   == [n \in Node |-> Node]
OneUnaware == [n \in Node |-> IF n = n1 THEN Node \ {n2} ELSE Node]

(* n1 owns both targets; n2 is a reserve for t1 and not eligible for t2.    *)
Pair ==
  Cluster({n1, n2}, {t1, t2}, (t1 :> <<n1, n2>>) @@ (t2 :> <<n1>>), Everyone, {n1}, 2, 1)

(* The source reports to both nodes.                                        *)
Twice == Cluster({n1, n2}, {t1}, (t1 :> <<n1, n2>>) @@ (t2 :> <<>>), Everyone, {n1, n2}, 2, 0)

(* n1 sends until it hears of n2, which knows that it comes first. *)
LateOwner == (t1 :> <<n2, n1>>) @@ (t2 :> <<>>)
Late    == Cluster({n1, n2, n3}, {t1}, LateOwner, OneUnaware, {n3}, 1, 0)
Regress == Cluster({n1, n2}, {t1}, LateOwner, OneUnaware, {n1}, 2, 0)

PairAndLate == {Pair, Twice, Late}
RegressOnly == {Regress}
=============================================================================
