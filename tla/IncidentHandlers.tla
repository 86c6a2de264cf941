--------------------------- MODULE IncidentHandlers ---------------------------
(***************************************************************************)
(* The stored columns of one incident on one node. Everybody who adds a row *)
(* to its timeline recomputes the state and writes it to the incident       *)
(* (reproject_incident), but through an ORM object loaded earlier: an UPDATE*)
(* names only the columns whose new value differs from the loaded one, and  *)
(* a SELECT takes no lock, because the sqlite3 driver begins a transaction  *)
(* with the first INSERT or UPDATE only.                                    *)
(*                                                                          *)
(* Intake and page application are coroutines without an await between load *)
(* and commit, so the event loop runs one at a time; endpoints for operators*)
(* run in threads next to it.                                               *)
(***************************************************************************)
EXTENDS Integers, FiniteSets, IncidentProjection

CONSTANTS Thread,   \* threads that run the endpoints for operators
          Loop,     \* the event loop
          Intake,  \* alerts the source reports to this node
          Remote,   \* rows of the source that replication brings
          Elsewhere, \* rows of operators on other nodes that replication brings
          Instant   \* wall-clock instants at which operators act here

Row == [kind : {"firing", "resolved", "acknowledged", "silenced", "commented"},
        occ : Nat, at : Nat, id : Nat]

ASSUME HandlersAssumption ==
  /\ Loop \notin Thread
  /\ Intake \cup Remote \cup Elsewhere \subseteq Row
  /\ \A r \in Intake : r.kind \in {"firing", "resolved"} /\ r.occ > 0
  /\ Instant \subseteq Nat

VARIABLES
  rows,     \* incident_events of the incident
  stored,   \* columns status and starts_at of the incident, or NoIncident
  handler   \* handler[h]: what h has loaded and the row it is about to insert

handlerVars == <<rows, stored, handler>>

NoIncident == [status |-> "none", starts |-> 0]
Idle == [seen |-> NoIncident, row |-> {}]

-----------------------------------------------------------------------------

HandlerInit ==
  /\ rows    = {}
  /\ stored  = NoIncident
  /\ handler = [h \in Thread \cup {Loop} |-> Idle]

(* Variant: the status that the new row asks for. *)
WrittenAsAsked(seen, r) ==
  [status |-> CASE r.kind = "firing" -> "open" [] r.kind = "commented" -> stored.status
                [] OTHER -> r.kind,
   starts |-> IF r.kind = "firing" \/ seen = NoIncident THEN r.occ ELSE stored.starts]

(* The columns after reproject_incident by one who has loaded seen: a column*)
(* is written when its attribute has changed, and starts_at only when some  *)
(* firing has set it.                                                       *)
Written(seen, r) ==
  LET p == project_incident(rows \cup {r})
  IN  [status |-> IF p.status # seen.status THEN p.status ELSE stored.status,
       starts |-> IF seen = NoIncident /\ p.starts = 0 THEN r.occ
                  ELSE IF p.starts # 0 /\ p.starts # seen.starts THEN p.starts
                  ELSE stored.starts]

(* ingest_normalized_events up to the SELECT of the incident. *)
LoadForReport(r) ==
  /\ handler[Loop] = Idle
  /\ r \notin rows
  /\ handler' = [handler EXCEPT ![Loop] = [seen |-> stored, row |-> {r}]]
  /\ UNCHANGED <<rows, stored>>

(* An endpoint for operators loads the incident and checks its status; a    *)
(* resolution names the occurrence that was loaded, a comment is always     *)
(* taken. No two operators act at the same microsecond.                     *)
LoadForOperator(h, kind, t) ==
  /\ handler[h] = Idle
  /\ stored # NoIncident
  /\ kind # "commented" => stored.status \notin {"resolved", kind}
  /\ \A r \in rows \cup UNION {handler[g].row : g \in Thread} : r.at # t
  /\ handler' = [handler EXCEPT ![h] =
                   [seen |-> stored,
                    row  |-> {[kind |-> kind, at |-> t, id |-> t,
                               occ |-> IF kind = "resolved" THEN stored.starts ELSE 0]}]]
  /\ UNCHANGED <<rows, stored>>

(* The INSERT takes the write lock; the rows are read again under it, the   *)
(* incident is not.                                                         *)
Commit(h) ==
  \E r \in handler[h].row :
     /\ rows'    = rows \cup {r}
     /\ stored'  = Written(handler[h].seen, r)
     /\ handler' = [handler EXCEPT ![h] = Idle]

(* The origin_seq or the key was taken meanwhile, or the process died.      *)
Abort(h) ==
  /\ handler[h] # Idle
  /\ handler' = [handler EXCEPT ![h] = Idle]
  /\ UNCHANGED <<rows, stored>>

(* apply_cluster_events inserts the page before it loads the incident, so   *)
(* it sees what is stored. The loop is between coroutines. An operator's    *)
(* event finds its incident only when the source has reported it.           *)
ApplyRemote(r) ==
  /\ handler[Loop] = Idle
  /\ r \notin rows
  /\ r \in Elsewhere => stored # NoIncident
  /\ rows'   = rows \cup {r}
  /\ stored' = Written(stored, r)
  /\ UNCHANGED handler

HandlerNext ==
  \/ \E r \in Intake : LoadForReport(r)
  \/ \E h \in Thread, kind \in {"acknowledged", "silenced", "resolved", "commented"},
        t \in Instant : LoadForOperator(h, kind, t)
  \/ \E h \in Thread \cup {Loop} : Commit(h) \/ Abort(h)
  \/ \E r \in Remote \cup Elsewhere : ApplyRemote(r)

HandlerSpec == HandlerInit /\ [][HandlerNext]_handlerVars

-----------------------------------------------------------------------------
(* Properties *)

(* docs/architecture.md: the current state is a deterministic projection of *)
(* the history: the columns that lists, badges and later requests read      *)
(* never disagree with the timeline of the incident.                        *)
StoredIsProjection ==
  LET p == project_incident(rows)
  IN  rows # {} => /\ stored.status = p.status
                   /\ p.starts # 0 => stored.starts = p.starts

(* Operators on two threads and the worker may act on stale loads and never *)
(* break that agreement, whatever order their timestamps come in: only the  *)
(* intake does, when the incident has changed since it was loaded.          *)
OnlyStaleReportsDiverge ==
  [][(rows' # rows /\ ~ StoredIsProjection' /\ StoredIsProjection)
        => (handler'[Loop] # handler[Loop] /\ handler[Loop].seen # stored)]_handlerVars

(* A lost update does not last: the next writer who has loaded what is      *)
(* stored, or applies a page, brings the columns back to the projection.    *)
FreshWriterRepairs ==
  [][(/\ rows' # rows
      /\ \A h \in Thread \cup {Loop} :
           handler'[h] # handler[h] => handler[h].seen = stored)
        => StoredIsProjection']_handlerVars
=============================================================================
