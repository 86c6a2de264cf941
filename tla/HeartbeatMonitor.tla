--------------------------- MODULE HeartbeatMonitor ---------------------------
(***************************************************************************)
(* A heartbeat source: somebody posts to any node at regular intervals; a   *)
(* node whose newest known heartbeat is older than interval + grace opens an*)
(* incident, and a newer heartbeat resolves it. Heartbeats, firings and     *)
(* resolutions are events of the cluster history, so every node knows what  *)
(* any of them has seen, in whatever order it arrives                       *)
(* (application/heartbeats.py, workers/heartbeat.py).                       *)
(*                                                                          *)
(* All of it runs on the event loop of a node between two awaits, hence one *)
(* action each. Time passes for all nodes alike; heartbeats come at even    *)
(* instants and deadlines are odd, as no two events of this incident bear   *)
(* the same microsecond.                                                    *)
(***************************************************************************)
EXTENDS Integers, FiniteSets, IncidentProjection

CONSTANTS Watcher,    \* the nodes
          Creator,    \* the node the source was created on
          Peers,      \* Peers[n]: nodes that n pulls pages from
          Window,     \* interval_seconds + grace_seconds
          LastBeat,   \* bound: the instant of the last heartbeat
          MaxBeats,   \* bound on the number of heartbeats
          EndOfTime   \* bound on the clock

ASSUME HeartbeatAssumption ==
  /\ Creator \in Watcher
  /\ Peers \in [Watcher -> SUBSET Watcher]
  /\ Window \in Nat /\ Window % 2 = 1
  /\ LastBeat \in Nat /\ MaxBeats \in Nat /\ EndOfTime \in Nat
  /\ LastBeat % 2 = 0 /\ EndOfTime % 2 = 0 /\ LastBeat + Window < EndOfTime

VARIABLES
  now,     \* utc_now
  node     \* node[n]: what n stores of the source

monitorVars == <<now, node>>

(* log: events of the source. known: n has the row of the source, and with  *)
(* it the HeartbeatState: last_received_at and missed. rows: the timeline of*)
(* the incident, which exists when there is one.                            *)
Stored(n) == [log |-> {}, known |-> FALSE, last |-> 0, missed |-> FALSE, rows |-> {}]

-----------------------------------------------------------------------------
(* Events and rows. A firing or resolution has the occurrence it is about;  *)
(* its key makes the same report of two nodes one row.                      *)

Report(kind, occ, at) == [kind |-> kind, occ |-> occ, at |-> at, id |-> 0]

RowOf(e) == Report(e.kind, e.occ, e.at)

(* append_cluster_event *)
Append(s, n, kind, occ, at) ==
  [s EXCEPT !.log = @ \cup
     {[origin |-> n, seq |-> 1 + Cardinality({e \in @ : e.origin = n}),
       kind |-> kind, occ |-> occ, at |-> at]}]

Later(t, u) == IF t < u THEN u ELSE t

Open(s) == s.rows # {} /\ project_incident(s.rows).status # "resolved"

LastEventAt(s) == CHOOSE t \in {r.at : r \in s.rows} : \A r \in s.rows : r.at <= t

(* ingest_normalized_events: a report that has its row already adds nothing.*)
Ingest(s, n, kind, occ, at) ==
  IF Report(kind, occ, at) \in s.rows THEN s
  ELSE [Append(s, n, kind, occ, at) EXCEPT !.rows = @ \cup {Report(kind, occ, at)}]

-----------------------------------------------------------------------------
(* application/heartbeats.py *)

(* _resolve_from_observation *)
Resolve(s, n, observed) ==
  IF Open(s) /\ observed >= LastEventAt(s)
  THEN [Ingest(s, n, "resolved", project_incident(s.rows).starts, observed)
          EXCEPT !.missed = FALSE]
  ELSE [s EXCEPT !.missed = Open(s)]

(* Variant: the last heartbeat to arrive is taken for the newest. *)
ObserveArrival(s, n, observed) ==
  IF ~ s.known THEN s ELSE Resolve([s EXCEPT !.last = observed], n, observed)

(* project_heartbeat_observation *)
Observe(s, n, observed) ==
  IF ~ s.known THEN s ELSE Resolve([s EXCEPT !.last = Later(@, observed)], n, observed)

(* Variant: a firing that arrives is taken at its word. *)
ReconcileBlindly(s, n, r) ==
  IF r.kind = "resolved" THEN [s EXCEPT !.last = Later(@, r.at), !.missed = FALSE]
  ELSE [s EXCEPT !.missed = TRUE]

(* reconcile_heartbeat_incident *)
Reconcile(s, n, r) ==
  IF r.kind = "resolved" THEN [s EXCEPT !.last = Later(@, r.at), !.missed = FALSE]
  ELSE IF s.last >= r.at THEN Resolve(s, n, s.last)
  ELSE [s EXCEPT !.missed = TRUE]

(* Variant: a source whose incident exists is never due again. *)
DueOnce(s) == s.known /\ s.rows = {} /\ now > s.last + Window

(* workers/heartbeat.py: evaluate_heartbeats *)
Due(s) == s.known /\ ~ s.missed /\ now > s.last + Window

Evaluate(s, n) ==
  IF Due(s)
  THEN [Ingest(s, n, "firing", s.last + Window, s.last + Window) EXCEPT !.missed = TRUE]
  ELSE s

-----------------------------------------------------------------------------
(* Projection of a page: application/sync.py *)

IsIncident(e) == e.kind \in {"firing", "resolved"}

(* _project_incident_event: without the source the event stays in the log.  *)
ProjectIncident(s, n, e) ==
  IF ~ s.known THEN s
  ELSE Reconcile([s EXCEPT !.rows = @ \cup {RowOf(e)}], n, RowOf(e))

ProjectEvent(s, n, e) == IF IsIncident(e) THEN ProjectIncident(s, n, e) ELSE Observe(s, n, e.at)

(* Incident events first, observations after them; each by time. *)
Comes(e, f) ==
  \/ IsIncident(e) /\ ~ IsIncident(f)
  \/ (IsIncident(e) <=> IsIncident(f)) /\ (e.at < f.at \/ (e.at = f.at /\ e.occ < f.occ))

Final(E) == CHOOSE e \in E : \A f \in E : ~ Comes(e, f)

(* The incident events and observations of E, one by one. *)
ProjectEvents(s, n, E) ==
  LET after[F \in SUBSET E] ==
        IF F = {} THEN s ELSE ProjectEvent(after[F \ {Final(F)}], n, Final(F))
  IN  after[E]

(* _project_source: the state starts at created_at, and incident events that*)
(* waited for the source are projected.                                     *)
ProjectSource(s, n) ==
  ProjectEvents([s EXCEPT !.known = TRUE], n, {e \in s.log : IsIncident(e)})

IsSource(e) == e.kind = "source"

(* apply_cluster_events: the log first, then each event of the page, the    *)
(* source before the others.                                                *)
ApplyPage(s, n, E) ==
  LET stored == [s EXCEPT !.log = @ \cup E]
      ready  == IF \E e \in E : IsSource(e) THEN ProjectSource(stored, n) ELSE stored
  IN  ProjectEvents(ready, n, {e \in E : ~ IsSource(e)})

-----------------------------------------------------------------------------

MonitorInit ==
  /\ now  = 0
  /\ node = [n \in Watcher |->
               IF n = Creator
               THEN [Append(Stored(n), n, "source", 0, 0) EXCEPT !.known = TRUE]
               ELSE Stored(n)]

Tick ==
  /\ now < EndOfTime
  /\ now' = now + 2
  /\ UNCHANGED node

Observations(L) == {e.at : e \in {f \in L : f.kind = "observed"}}
Everywhere == UNION {node[n].log : n \in Watcher}

(* ingest_heartbeat: the miss it may end is reported first. *)
Beat(n) ==
  /\ node[n].known
  /\ now \in 1 .. LastBeat
  /\ now \notin Observations(Everywhere)
  /\ Cardinality(Observations(Everywhere)) < MaxBeats
  /\ node' = [node EXCEPT ![n] =
       Observe(Append(Evaluate(@, n), n, "observed", 0, now), n, now)]
  /\ UNCHANGED now

(* One turn of heartbeat_loop that finds the source due. *)
Scan(n) ==
  /\ Due(node[n])
  /\ node' = [node EXCEPT ![n] = Evaluate(@, n)]
  /\ UNCHANGED now

(* A page of what p has and n has not, by origin_seq. *)
LearnFrom(n, p) ==
  \E E \in (SUBSET (node[p].log \ node[n].log)) \ {{}} :
     /\ \A e \in E, f \in (node[p].log \ node[n].log) \ E : e.origin = f.origin => e.seq < f.seq
     /\ node' = [node EXCEPT ![n] = ApplyPage(@, n, E)]
     /\ UNCHANGED now

MonitorNext ==
  \/ Tick
  \/ \E n \in Watcher : Beat(n) \/ Scan(n) \/ \E p \in Peers[n] : LearnFrom(n, p)

(* The clock goes on, heartbeat_loop wakes up every heartbeat_scan_seconds  *)
(* and whatever it raises, and so does the pull from each peer.             *)
MonitorFairness ==
  /\ WF_monitorVars(Tick)
  /\ \A n \in Watcher : WF_monitorVars(Scan(n)) /\ \A p \in Peers[n] : WF_monitorVars(LearnFrom(n, p))

MonitorSpec == MonitorInit /\ [][MonitorNext]_monitorVars
FairMonitorSpec == MonitorSpec /\ MonitorFairness

-----------------------------------------------------------------------------
(* Properties *)

(* A node never reports a miss in spite of what it knows: when it fires, no *)
(* heartbeat of its history is younger than the window, in whatever order   *)
(* heartbeats and reports came.                                             *)
NoFalseMiss ==
  [][\A n \in Watcher : \A e \in node'[n].log \ node[n].log :
       (e.kind = "firing" /\ e.origin = n) =>
          \A t \in Observations(node[n].log) : t + Window < now]_monitorVars

(* docs/source-integrations.md: a partitioned side may fire "and later      *)
(* converge to resolved". A node that holds a heartbeat later than every    *)
(* firing it holds does not show the incident open.                         *)
BeatResolves ==
  \A n \in Watcher : \A t \in Observations(node[n].log) :
     (node[n].known /\ \A e \in node[n].log : e.kind = "firing" => e.at < t) => ~ Open(node[n])

(* Heartbeats stop for good: every node ends with the incident open.        *)
SilenceIsReported == <>[](\A n \in Watcher : Open(node[n]))
=============================================================================
