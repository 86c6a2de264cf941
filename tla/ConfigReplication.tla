--------------------------- MODULE ConfigReplication ---------------------------
(***************************************************************************)
(* Replicated configuration: sources, notification channels, routes,        *)
(* Prometheus data sources, monitoring settings and the API-down switch of a*)
(* node. Each is a row that administrators edit on any node: the endpoint   *)
(* changes the row, appends an event with the whole row and commits; a node *)
(* that learns events of the row rewrites it from the newest event it holds,*)
(* newest by (occurred_at, event_id) (application/sync.py).                 *)
(*                                                                          *)
(* The module follows one row. What kind of row it is is chosen in the      *)
(* initial state, because the kinds differ in how a row comes into being,   *)
(* how it is deleted and who may still edit it. Endpoints run on threads:   *)
(* the row they have loaded may be stale when they commit, and an UPDATE    *)
(* names only the columns that differ from what was loaded. Pages are       *)
(* applied on the event loop in one transaction.                            *)
(***************************************************************************)
EXTENDS Integers, FiniteSets

CONSTANTS Node,
          Thread,   \* threads that run endpoints on a node
          Kinds,    \* kinds of row to follow
          Value,    \* values of a column
          Quota,    \* Quota[n]: bound on the events n originates
          Slow      \* nodes whose clock may lag behind the others

Kind == {"source", "channel", "route", "datasource", "setting", "switch"}

ASSUME ConfigAssumption ==
  /\ Kinds \subseteq Kind
  /\ 0 \in Value /\ Value \subseteq Nat
  /\ Quota \in [Node -> Nat]
  /\ Slow \subseteq Node

VARIABLES
  kind,     \* what the row is
  log,      \* log[n]: its events in cluster_events of n
  row,      \* row[n]: the row on n
  handler   \* handler[n][t]: what the endpoint on thread t has loaded

vars == <<kind, log, row, handler>>

(* here: there is a row. gone: deleted_at is set. *)
Row == [here : BOOLEAN, config : Value, enabled : Value, gone : BOOLEAN]
NoRow == [here |-> FALSE, config |-> 0, enabled |-> 0, gone |-> FALSE]
NewRow == [NoRow EXCEPT !.here = TRUE]

Columns == {"config", "enabled"}

Idle == [phase |-> "idle"]

-----------------------------------------------------------------------------
(* Events of the row. No two are appended at the same microsecond, so the   *)
(* instant alone orders them. onto: operation of the newest event the author*)
(* held when it loaded the row; not part of the event in the code.          *)

Newest(L) == CHOOSE e \in L : \A f \in L : f.at <= e.at

NewestOp(L) == IF L = {} THEN "none" ELSE Newest(L).operation

Own(n) == {e \in log[n] : e.origin = n}

LastInstant == LET at == {e.at : e \in UNION {log[m] : m \in Node}}
               IN  CHOOSE t \in at \cup {0} : \A u \in at : u <= t

(* utc_now: the order of events, unless the clock of n lags behind; a clock *)
(* does not fall behind what its own node has stamped.                      *)
Now(n) ==
  {LastInstant + 2} \cup
    IF n \in Slow
    THEN {t \in 1 .. LastInstant : /\ \A e \in Own(n) : e.at < t
                                  /\ \A m \in Node : \A e \in log[m] : e.at # t}
    ELSE {}

Event(n, at, operation, r, onto) ==
  [origin |-> n, seq |-> 1 + Cardinality(Own(n)), at |-> at, operation |-> operation,
   config |-> r.config, enabled |-> r.enabled, onto |-> onto]

(* The row that an upsert carries, and the one that a deletion leaves. *)
Carried(e) == [here |-> TRUE, config |-> e.config, enabled |-> e.enabled, gone |-> FALSE]

(* Sources and channels keep a deleted row, which deleted_at marks. *)
Marked(r) == [r EXCEPT !.enabled = 0, !.gone = TRUE]

(* Routes keep a deleted row without a mark: it is disabled and has no      *)
(* channels.                                                                *)
Emptied(r) == [r EXCEPT !.enabled = 0, !.config = 0]

(* What the newest event of a row makes of it, whatever the row was. A      *)
(* rotated token comes with its row like any other change.                  *)
ProjectSource(e) ==
  IF e.operation = "tombstone" THEN Marked(Carried(e)) ELSE Carried(e)

ProjectChannel(e) ==
  IF e.operation = "tombstone" THEN Marked(Carried(e)) ELSE Carried(e)

ProjectRoute(e) ==
  IF e.operation = "tombstone" THEN Emptied(Carried(e)) ELSE Carried(e)

ProjectDatasource(e) ==
  IF e.operation = "tombstone" THEN NoRow ELSE Carried(e)

(* There is no way to delete the settings or a node. *)
ProjectSetting(e) == Carried(e)

ProjectSwitch(e) == [NewRow EXCEPT !.enabled = e.enabled]

FirstRow == IF kind = "switch" THEN NewRow ELSE NoRow

Projection(L) ==
  IF L = {} THEN FirstRow
  ELSE CASE kind = "source"     -> ProjectSource(Newest(L))
         [] kind = "channel"    -> ProjectChannel(Newest(L))
         [] kind = "route"      -> ProjectRoute(Newest(L))
         [] kind = "datasource" -> ProjectDatasource(Newest(L))
         [] kind = "setting"    -> ProjectSetting(Newest(L))
         [] kind = "switch"     -> ProjectSwitch(Newest(L))

-----------------------------------------------------------------------------
(* The lookups of the endpoints, which answer 404 otherwise. *)

ActiveSource(n) == row[n].here /\ ~ row[n].gone

Channel(n) == row[n].here /\ ~ row[n].gone

(* Variant: a route is looked up by its row alone. *)
RouteByRow(n) == row[n].here

(* A deleted route is recognised by its newest event. *)
Route(n) == row[n].here /\ NewestOp(log[n]) # "tombstone"

ActiveDatasource(n) == row[n].here

(* The columns in the table: those whose attribute differs from what was    *)
(* loaded are written, the others keep what is stored.                      *)
Stored(seen, new, stored) ==
  [here    |-> TRUE,
   config  |-> IF new.config  # seen.config  THEN new.config  ELSE stored.config,
   enabled |-> IF new.enabled # seen.enabled THEN new.enabled ELSE stored.enabled,
   gone    |-> IF new.gone    # seen.gone    THEN new.gone    ELSE stored.gone]

-----------------------------------------------------------------------------

Init ==
  /\ kind    \in Kinds
  /\ log     = [n \in Node |-> {}]
  /\ row     = [n \in Node |-> FirstRow]
  /\ handler = [n \in Node |-> [t \in Thread |-> Idle]]

(* A new row under a new id and its event, in one transaction. *)
Insert(n) ==
  /\ \A m \in Node : log[m] = {}
  /\ Quota[n] > 0
  /\ \E at \in Now(n) :
       log' = [log EXCEPT ![n] = {Event(n, at, "upsert", NewRow, "none")}]
  /\ row' = [row EXCEPT ![n] = NewRow]
  /\ UNCHANGED <<kind, handler>>

(* An endpoint has loaded the row, may go on, and sets attributes. *)
Load(n, t, operation, new) ==
  /\ handler[n][t] = Idle
  /\ handler' = [handler EXCEPT ![n][t] =
       [phase |-> "loaded", operation |-> operation, seen |-> row[n], new |-> new,
        onto |-> NewestOp(log[n])]]
  /\ UNCHANGED <<kind, log, row>>

CreateSource(n) == kind = "source" /\ Insert(n)

UpdateSource(n, t, column, v) ==
  kind = "source" /\ ActiveSource(n) /\ Load(n, t, "upsert", [row[n] EXCEPT ![column] = v])

DeleteSource(n, t) ==
  kind = "source" /\ ActiveSource(n) /\ Load(n, t, "tombstone", Marked(row[n]))

RotateToken(n, t, v) ==
  kind = "source" /\ ActiveSource(n) /\ Load(n, t, "rotate_token", [row[n] EXCEPT !.config = v])

CreateChannel(n) == kind = "channel" /\ Insert(n)

UpdateChannel(n, t, column, v) ==
  kind = "channel" /\ Channel(n) /\ Load(n, t, "upsert", [row[n] EXCEPT ![column] = v])

DeleteChannel(n, t) ==
  kind = "channel" /\ Channel(n) /\ Load(n, t, "tombstone", Marked(row[n]))

CreateRoute(n) == kind = "route" /\ Insert(n)

UpdateRoute(n, t, column, v) ==
  kind = "route" /\ Route(n) /\ Load(n, t, "upsert", [row[n] EXCEPT ![column] = v])

(* Variant: a deleted route keeps its channels. *)
DeleteRouteKeepingChannels(n, t) ==
  kind = "route" /\ Route(n) /\ Load(n, t, "tombstone", [row[n] EXCEPT !.enabled = 0])

DeleteRoute(n, t) ==
  kind = "route" /\ Route(n) /\ Load(n, t, "tombstone", Emptied(row[n]))

CreateDatasource(n) == kind = "datasource" /\ Insert(n)

UpdateDatasource(n, t, column, v) ==
  /\ kind = "datasource"
  /\ ActiveDatasource(n)
  /\ Load(n, t, "upsert", [row[n] EXCEPT ![column] = v])

(* The event carries the disabled row; the commit deletes it. *)
DeleteDatasource(n, t) ==
  /\ kind = "datasource"
  /\ ActiveDatasource(n)
  /\ Load(n, t, "tombstone", [row[n] EXCEPT !.enabled = 0])

(* The first edit of the settings starts from the defaults. *)
UpdateSettings(n, t, column, v) ==
  kind = "setting" /\ Load(n, t, "upsert", [row[n] EXCEPT !.here = TRUE, ![column] = v])

(* Setting the switch to what it shows is no change and appends nothing. *)
SetApiDownAlert(n, t, v) ==
  /\ kind = "switch"
  /\ row[n].enabled # v
  /\ Load(n, t, "upsert", [row[n] EXCEPT !.enabled = v])

(* The UPDATE finds the row it has loaded, the INSERT of the settings finds *)
(* none; otherwise the statement fails and the transaction with it.         *)
RowFits(n, t) == handler[n][t].seen.here = row[n].here

(* append_cluster_event and the commit: the row and its event, which carries*)
(* the row as the endpoint sees it.                                         *)
Commit(n, t) ==
  /\ handler[n][t] # Idle
  /\ RowFits(n, t)
  /\ Cardinality(Own(n)) < Quota[n]
  /\ LET h == handler[n][t]
     IN  /\ \E at \in Now(n) :
              log' = [log EXCEPT ![n] = @ \cup {Event(n, at, h.operation, h.new, h.onto)}]
         /\ row' = [row EXCEPT ![n] =
              IF kind = "datasource" /\ h.operation = "tombstone" THEN NoRow
              ELSE Stored(h.seen, h.new, @)]
  /\ handler' = [handler EXCEPT ![n][t] = Idle]
  /\ UNCHANGED kind

(* The row does not fit, the number is taken, or the process dies. *)
Abort(n, t) ==
  /\ handler[n][t] # Idle
  /\ handler' = [handler EXCEPT ![n][t] = Idle]
  /\ UNCHANGED <<kind, log, row>>

(* A page of what p has and n has not, in the order of origin_seq. The      *)
(* events are stored first, then each of them is projected from the whole   *)
(* log, on rows loaded under the write lock.                                *)
Learn(n, p) ==
  \E E \in (SUBSET (log[p] \ log[n])) \ {{}} :
     /\ \A e \in E, f \in (log[p] \ log[n]) \ E : e.seq <= f.seq
     /\ log' = [log EXCEPT ![n] = @ \cup E]
     /\ row' = [row EXCEPT ![n] = Projection(log[n] \cup E)]
     /\ UNCHANGED <<kind, handler>>

Create(n) == CreateSource(n) \/ CreateChannel(n) \/ CreateRoute(n) \/ CreateDatasource(n)

Update(n, t) ==
  \E v \in Value :
     \/ RotateToken(n, t, v)
     \/ SetApiDownAlert(n, t, v)
     \/ \E column \in Columns :
          \/ UpdateSource(n, t, column, v)
          \/ UpdateChannel(n, t, column, v)
          \/ UpdateRoute(n, t, column, v)
          \/ UpdateDatasource(n, t, column, v)
          \/ UpdateSettings(n, t, column, v)

Delete(n, t) ==
  DeleteSource(n, t) \/ DeleteChannel(n, t) \/ DeleteRoute(n, t) \/ DeleteDatasource(n, t)

Next ==
  \E n \in Node :
     \/ Create(n)
     \/ \E t \in Thread : Update(n, t) \/ Delete(n, t) \/ Commit(n, t) \/ Abort(n, t)
     \/ \E p \in Node \ {n} : Learn(n, p)

Spec == Init /\ [][Next]_vars

-----------------------------------------------------------------------------
(* Properties *)

(* docs/architecture.md: the current state is a deterministic projection of *)
(* the history. Whoever adds an event of the row leaves the row as its      *)
(* history projects it, pages of several authors and deletions included,    *)
(* except an endpoint that worked on a row others had changed since it was  *)
(* loaded, or whose clock lies behind an event it already holds.            *)
OnlyStaleOrLateWritesDiverge ==
  [][\A n \in Node :
       (log'[n] # log[n] /\ row'[n] # Projection(log'[n])) =>
          \E t \in Thread :
             /\ handler'[n][t] # handler[n][t]
             /\ \/ handler[n][t].seen # row[n]
                \/ Newest(log'[n]) \in log[n]]_vars

(* A deletion is undone only by an author that had not heard of it, or had  *)
(* heard of a later edit: nobody edits a row whose newest event, as far as  *)
(* its node knows when it loads the row, is a deletion, although rows can   *)
(* disagree with the history.                                               *)
NoEditOfKnownDeletion ==
  \A n \in Node : \A e \in log[n] : e.operation # "tombstone" => e.onto # "tombstone"
=============================================================================
