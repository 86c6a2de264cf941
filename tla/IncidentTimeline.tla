--------------------------- MODULE IncidentTimeline ---------------------------
(***************************************************************************)
(* One incident on the replicated history: a source reports it to any node, *)
(* operators acknowledge, silence and resolve it on any node, and every     *)
(* node projects the events it holds onto its own timeline                  *)
(* (application/incidents.py, application/sync.py).                         *)
(*                                                                          *)
(* The module follows one configured source and one incident of it; a node  *)
(* knows the source once the event that created it is in its log. Requests  *)
(* and pages are single transactions here: how logs are numbered and moved  *)
(* is the matter of ClusterSync.                                            *)
(***************************************************************************)
EXTENDS Integers, FiniteSets, IncidentProjection

CONSTANTS Node,
          Reports,  \* alerts the source delivers to the intake endpoints
          Shadow,   \* alerts the secondary stream delivers to /recoveries
          Labels,   \* what their texts and labels can be
          Setups,   \* peers[n]: the nodes n pulls from, quota[n]: bound on the
                    \* events n originates, instants: when operators act
          MaxSeq,   \* bound on the events of a node
          Uuid      \* Uuid[n, s]: rank of the random event_id of event s of n

(* What event_key is a digest of. The label stands for the texts and labels *)
(* of an alert; configuration and operators' events have labels of their own.*)
Body == [kind : {"source", "firing", "resolved", "acknowledged", "silenced"},
         occ : Nat, at : Nat, label : Labels \cup {"config", "operator"}]

ASSUME TimelineAssumption ==
  /\ Reports \cup Shadow \subseteq Body
  /\ \A a \in Reports \cup Shadow :
       /\ a.kind \in {"firing", "resolved"} /\ a.occ > 0
       /\ a.label \notin {"config", "operator"}
       /\ a.kind = "firing" => a.at = a.occ
  /\ MaxSeq \in Nat
  /\ \A s \in Setups : /\ s.peers \in [Node -> SUBSET Node]
                       /\ s.quota \in [Node -> 0 .. MaxSeq]
                       /\ s.instants \subseteq Nat
  /\ Uuid \in [Node \X (1 .. MaxSeq) -> Nat]
  /\ \A x, y \in Node \X (1 .. MaxSeq) : Uuid[x] = Uuid[y] => x = y

VARIABLES
  setup,     \* the cluster: a member of Setups, which never changes
  log,       \* log[n]: table cluster_events of n
  timeline,  \* timeline[n]: the events whose rows table incident_events of n has
  outbox     \* outbox[n]: the rows with a notification work item on n

vars == <<setup, log, timeline, outbox>>

-----------------------------------------------------------------------------
(* Events *)

Config == [kind |-> "source", occ |-> 0, at |-> 0, label |-> "config"]

ByOperator(kind, occ, at) ==
  [kind |-> kind, occ |-> occ, at |-> at, label |-> "operator"]

(* Variant: the event id is part of the digest. *)
KeyWithId(e) == [kind |-> e.kind, occ |-> e.occ, at |-> e.at, label |-> e.label, id |-> e.id]

(* event_key: two events with one body are the same logical event. *)
Key(e) == [kind |-> e.kind, occ |-> e.occ, at |-> e.at, label |-> e.label]

Numbered(n, b) ==
  LET s == 1 + Cardinality({e \in log[n] : e.origin = n})
  IN  [origin |-> n, seq |-> s, id |-> Uuid[<<n, s>>],
       kind |-> b.kind, occ |-> b.occ, at |-> b.at, label |-> b.label]

MayAppend(n) == Cardinality({e \in log[n] : e.origin = n}) < setup.quota[n]

KnowsSource(L) == \E e \in L : e.kind = "source"

(* The events of the source, whose payload names the source and the         *)
(* fingerprint; those of operators name the incident only.                  *)
AlertsIn(L) == {e \in L : e.label \notin {"config", "operator"}}

Keys(R) == {Key(r) : r \in R}

Projection(n) == project_incident(timeline[n])
Status(n) == Projection(n).status

(* Operator resolutions produce no notification, and neither do other kinds.*)
ShouldDeliver(e) ==
  /\ e.kind \in {"firing", "resolved"}
  /\ ~ (e.kind = "resolved" /\ e.label = "operator")

-----------------------------------------------------------------------------

Init ==
  /\ setup \in Setups
  /\ log      = [n \in Node |-> {}]
  /\ timeline = [n \in Node |-> {}]
  /\ outbox   = [n \in Node |-> {}]

(* An operator configures the source on n. *)
CreateSource(n) ==
  /\ \A m \in Node : ~ KnowsSource(log[m])
  /\ MayAppend(n)
  /\ log' = [log EXCEPT ![n] = @ \cup {Numbered(n, Config)}]
  /\ UNCHANGED <<timeline, outbox>>

(* append_cluster_event, the row of the timeline and enqueue_notification_  *)
(* event in one transaction.                                                *)
Record(n, b) ==
  LET e == Numbered(n, b)
  IN  /\ MayAppend(n)
      /\ log'      = [log EXCEPT ![n] = @ \cup {e}]
      /\ timeline' = [timeline EXCEPT ![n] = @ \cup {e}]
      /\ outbox'   = [outbox EXCEPT ![n] = IF ShouldDeliver(e) THEN @ \cup {e} ELSE @]

(* An alert the node has a row for is a duplicate and changes nothing. *)
IngestNormalized(n, a) ==
  /\ KnowsSource(log[n])
  /\ a \notin Keys(timeline[n])
  /\ Record(n, a)

(* Variant: the secondary stream is taken like the primary one. *)
IngestAnyRecovery(n, a) == IngestNormalized(n, a)

(* Firing alerts, and recoveries of an incident that this node does not     *)
(* know or knows resolved, are ignored.                                     *)
IngestRecovery(n, a) ==
  /\ a.kind = "resolved"
  /\ timeline[n] # {}
  /\ Status(n) # "resolved"
  /\ IngestNormalized(n, a)

(* Acknowledging or silencing a resolved incident is refused, an action the *)
(* incident already had is a no-op, and a resolution names the occurrence   *)
(* the operator saw.                                                        *)
ActOnIncident(n, kind, t) ==
  /\ timeline[n] # {}
  /\ Status(n) \notin {"resolved", kind}
  /\ \A m \in Node : \A e \in log[m] : ~ (e.label = "operator" /\ e.at = t)
  /\ Record(n, ByOperator(kind, IF kind = "resolved" THEN Projection(n).starts ELSE 0, t))

(* Variant: a source does not bring back the alerts that came before it. *)
ProjectedOnce(L, E) ==
  IF KnowsSource(L) /\ AlertsIn(L) # {} THEN {e \in E : e.label # "config"} ELSE {}

(* The events of a page that can be projected in the log L that holds it:   *)
(* the source must be known, and an operator's event finds its incident     *)
(* only through an event of the source in the log. A page with the source   *)
(* replays the alerts that came before it.                                  *)
Projected(L, E) ==
  IF ~ KnowsSource(L) THEN {}
  ELSE {e \in E : e.label # "config" /\ AlertsIn(L) # {}}
         \cup (IF KnowsSource(E) THEN AlertsIn(L) ELSE {})

(* A key gets one row, that of the event projected first: page events in    *)
(* the order (occurred_at, event_id), replayed ones in no defined order.    *)
RowsFor(n, L, E, R) ==
  LET P == {e \in Projected(L, E) : Key(e) \notin Keys(timeline[n])}
  IN  /\ R \subseteq P
      /\ Keys(R) = Keys(P)
      /\ \A r, q \in R : Key(r) = Key(q) => r = q
      /\ ~ KnowsSource(E) => \A r \in R, e \in P : Key(r) = Key(e) => r.id <= e.id

(* The worker of n applies a page of what p has and n has not, in the order *)
(* of origin_seq, in one transaction.                                       *)
Learn(n, p) ==
  \E E \in (SUBSET (log[p] \ log[n])) \ {{}} :
     /\ \A e \in E, f \in (log[p] \ log[n]) \ E : e.seq <= f.seq
     /\ log' = [log EXCEPT ![n] = @ \cup E]
     /\ \E R \in SUBSET Projected(log[n] \cup E, E) :
          /\ RowsFor(n, log[n] \cup E, E, R)
          /\ timeline' = [timeline EXCEPT ![n] = @ \cup R]
          /\ outbox'   = [outbox EXCEPT ![n] = @ \cup {r \in R : ShouldDeliver(r)}]

Next ==
  /\ UNCHANGED setup
  /\ \E n \in Node :
     \/ CreateSource(n)
     \/ \E a \in Reports : IngestNormalized(n, a)
     \/ \E a \in Shadow : IngestRecovery(n, a)
     \/ \E kind \in {"acknowledged", "silenced", "resolved"}, t \in setup.instants :
          ActOnIncident(n, kind, t)
     \/ \E p \in setup.peers[n] : Learn(n, p)

Spec == Init /\ [][Next]_vars

-----------------------------------------------------------------------------
(* Properties *)

(* No report is lost on its way to the timeline: whatever order relays and  *)
(* pages bring the source and its alerts in, a node that knows the source   *)
(* has a row for every alert in its log ("An incident can arrive on a relay *)
(* before the source that owns it", sync.py).                               *)
AlertsProjected ==
  \A n \in Node :
     IF KnowsSource(log[n])
     THEN Keys(AlertsIn(log[n])) = Keys(AlertsIn(timeline[n]))
     ELSE timeline[n] = {}

(* enqueue_notification_event: exactly one work item for a logical alert,   *)
(* although the alert may be ingested on several nodes and its copies reach *)
(* a node under several event ids.                                          *)
OneNotificationPerAlert ==
  \A n \in Node :
     /\ \A r \in timeline[n] : r \in outbox[n] <=> r.label # "operator"
     /\ \A r, q \in outbox[n] :
          (r.kind = q.kind /\ r.occ = q.occ /\ r.at = q.at /\ r.label = q.label) => r = q

(* An incident shows as resolved exactly when a resolution follows its last *)
(* firing and is about that occurrence or a later one: a stale resolution   *)
(* must not close a newer occurrence, a late duplicate of a firing must not *)
(* reopen a closed one.                                                     *)
ResolvedWhenCovered ==
  \A n \in Node : timeline[n] # {} => (Status(n) = "resolved" <=> Covered(timeline[n]))

(* The secondary stream closes incidents but never creates one: wherever an *)
(* incident exists, some node got it from the intake (ingest_existing_      *)
(* resolutions).                                                            *)
ShadowNeverCreates ==
  \A n \in Node : timeline[n] # {} =>
     \E m \in Node : \E e \in AlertsIn(log[m]) : Key(e) \in Reports

(* docs/architecture.md: the current state is a deterministic projection of *)
(* the history: nodes with the same events show the same status.            *)
SameHistorySameStatus ==
  \A n, m \in Node : log[n] = log[m] => Status(n) = Status(m)
=============================================================================
