-------------------------- MODULE MCIncidentTimeline --------------------------
(* Instances of IncidentTimeline for model checking. *)
EXTENDS IncidentTimeline, TLC

CONSTANTS n1, n2, n3

Alert(kind, occ, at, label) == [kind |-> kind, occ |-> occ, at |-> at, label |-> label]

(* Two occurrences, the first reported twice with other annotations, and    *)
(* its resolution; no two reports of different kinds share an instant.      *)
TwoOccurrences ==
  {Alert("firing", 2, 2, "a"), Alert("firing", 2, 2, "b"), Alert("firing", 6, 6, "a")}
Recovery == {Alert("resolved", 2, 4, "a"), Alert("firing", 6, 6, "shadow")}

(* Operators act on both nodes of a pair; n3 is not there. *)
Pair ==
  [peers    |-> (n1 :> {n2}) @@ (n2 :> {n1}) @@ (n3 :> {}),
   quota    |-> (n1 :> 3) @@ (n2 :> 2) @@ (n3 :> 0),
   instants |-> {3, 7}]

(* n3 hears of n1 over the relay n2 only. *)
ChainPeers == (n1 :> {n2}) @@ (n2 :> {n1}) @@ (n3 :> {n2})
Chain ==
  [peers |-> ChainPeers, quota |-> (n1 :> 3) @@ (n2 :> 2) @@ (n3 :> 1), instants |-> {}]
Orphan ==
  [peers |-> ChainPeers, quota |-> (n1 :> 2) @@ (n2 :> 1) @@ (n3 :> 0), instants |-> {3}]

PairAndChain == {Pair, Chain}
OrphanOnly   == {Orphan}

EventIds ==
  (<<n1, 1>> :> 3) @@ (<<n1, 2>> :> 6) @@ (<<n1, 3>> :> 1) @@
  (<<n2, 1>> :> 4) @@ (<<n2, 2>> :> 2) @@ (<<n2, 3>> :> 5) @@
  (<<n3, 1>> :> 7) @@ (<<n3, 2>> :> 8) @@ (<<n3, 3>> :> 9)
=============================================================================
