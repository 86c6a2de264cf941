------------------------------ MODULE EventLog ------------------------------
(***************************************************************************)
(* What the replicated history of alert-hub promises, with everything about *)
(* how it is moved left out: every node keeps a log of cluster events, an   *)
(* event is numbered once by the node it originates at, without gaps, logs  *)
(* only grow, and they only ever learn events some node already holds.      *)
(* ClusterSync is the pull protocol that implements it.                     *)
(***************************************************************************)
EXTENDS Integers

CONSTANTS Node,     \* the nodes of the cluster
          Writer,   \* the handlers that append concurrently on a node
          Quota,    \* Quota[n]: bound on the events n originates
          MaxRun    \* bound on the restarts of a node

VARIABLE log        \* log[n]: the events node n holds

(* An event is identified by the node it originates at, its number there,   *)
(* and the process run and the handler that numbered it: event_id is a      *)
(* fresh UUID, so two events that share a number still differ.              *)
Event == [origin : Node, seq : Nat \ {0}, run : 0 .. MaxRun, by : Writer]

SeqsOf(L, o) == {e.seq : e \in {f \in L : f.origin = o}}

-----------------------------------------------------------------------------

Init == log = [n \in Node |-> {}]

(* A node numbers a new event with the successor of its last number. *)
Issue(n) ==
  \E s \in 1 .. Quota[n], r \in 0 .. MaxRun, w \in Writer :
     /\ SeqsOf(log[n], n) = 1 .. (s - 1)
     /\ log' = [log EXCEPT ![n] = @ \cup {[origin |-> n, seq |-> s, run |-> r, by |-> w]}]

(* A node learns events that are in the history of some node. *)
Learn(n) ==
  \E E \in SUBSET UNION {log[m] : m \in Node} :
     log' = [log EXCEPT ![n] = @ \cup E]

Next == \E n \in Node : Issue(n) \/ Learn(n)

Spec == Init /\ [][Next]_log

-----------------------------------------------------------------------------

(* docs/architecture.md: a pair (origin_node_id, origin_seq) is immutable:  *)
(* it never stands for two different events, wherever they are held.        *)
LogAgreement ==
  \A n, m \in Node : \A e \in log[n], f \in log[m] :
     (e.origin = f.origin /\ e.seq = f.seq) => e = f
=============================================================================
