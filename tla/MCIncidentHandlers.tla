-------------------------- MODULE MCIncidentHandlers --------------------------
(* Instances of IncidentHandlers for model checking. *)
EXTENDS IncidentHandlers

R(kind, occ, at) == [kind |-> kind, occ |-> occ, at |-> at, id |-> at]

(* Two occurrences of the alert and the end of the first. *)
Alerts == {R("firing", 1, 1), R("resolved", 1, 4), R("firing", 6, 6), R("resolved", 6, 9)}

(* Of these, some are reported here and the others come by replication. *)
Reported == {r \in Alerts : r.kind = "firing"}
Relayed == Alerts \ Reported

(* What operators have done on other nodes. *)
OtherOperators == {R("silenced", 0, 2), R("resolved", 1, 7)}
=============================================================================
