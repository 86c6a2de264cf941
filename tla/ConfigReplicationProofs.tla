------------------------ MODULE ConfigReplicationProofs ------------------------
(***************************************************************************)
(* Proofs about ConfigReplication, for any nodes, threads, quotas, values   *)
(* and any set of slow clocks.                                              *)
(***************************************************************************)
EXTENDS ConfigReplication, TLAPS, WellFoundedInduction

Operation == {"upsert", "rotate_token", "tombstone"}

Loaded ==
  [phase : {"loaded"}, operation : Operation, seen : Row, new : Row,
   onto : Operation \cup {"none"}]

TypeInv ==
  /\ kind \in Kind
  /\ row \in [Node -> Row]
  /\ handler \in [Node -> [Thread -> {Idle} \cup Loaded]]
  /\ DOMAIN log = Node
  /\ \A n \in Node : \A e \in log[n] :
        /\ e.at \in Nat /\ e.operation \in Operation
        /\ e.config \in Value /\ e.enabled \in Value

(* Logs are bounded in time and an instant names one event, so that there is*)
(* a newest event and only one.                                             *)
Bounded == \E bound \in Nat : \A n \in Node : \A e \in log[n] : e.at <= bound

OneEventAtATime ==
  \A n, m \in Node : \A e \in log[n], f \in log[m] : e.at = f.at => e = f

(* What rows of a kind never are. *)
Keeps(k, r) ==
  /\ k \notin {"source", "channel"} => ~ r.gone
  /\ k = "switch" => r.here /\ r.config = 0

RowsFit == \A n \in Node : Keeps(kind, row[n])

(* Settings and switches are never deleted. *)
NoDeletion ==
  kind \in {"setting", "switch"} => \A n \in Node : \A e \in log[n] : e.operation # "tombstone"

(* A node that knows a deletion as the newest event does not show the row.  *)
DeletionShows ==
  \A n \in Node : NewestOp(log[n]) = "tombstone" =>
     /\ kind \in {"source", "channel"} => row[n].gone
     /\ kind = "datasource" => ~ row[n].here

(* What the endpoints that have loaded a row may do to it. *)
Fits(k, h) ==
  /\ Keeps(k, h.seen) /\ ~ h.seen.gone
  /\ h.operation # "tombstone" =>
        /\ h.onto # "tombstone" /\ ~ h.new.gone
        /\ k = "switch" => h.new.config = 0
  /\ h.operation = "tombstone" =>
        /\ k \in {"source", "channel"} => h.new = Marked(h.seen)
        /\ k = "route" => h.new = Emptied(h.seen)
        /\ k \notin {"setting", "switch"}
  /\ k = "datasource" => h.seen.here /\ ~ h.new.gone

HandlersFit ==
  \A n \in Node, t \in Thread : handler[n][t] # Idle => Fits(kind, handler[n][t])

IndInv ==
  /\ TypeInv /\ Bounded /\ OneEventAtATime
  /\ RowsFit /\ NoDeletion /\ DeletionShows /\ HandlersFit
  /\ NoEditOfKnownDeletion
-----------------------------------------------------------------------------
(* A set of numbers with a bound has a largest one. *)
LEMMA LargestExists ==
  ASSUME NEW S \in SUBSET Nat, S # {}, NEW bound \in Nat, \A x \in S : x <= bound
  PROVE  \E m \in S : \A x \in S : x <= m
<1> DEFINE T == {z \in Nat : bound - z \in S}
<1>1. T \subseteq Nat /\ T # {}
  <2>1. PICK x \in S : TRUE
    OBVIOUS
  <2>2. bound - x \in Nat /\ bound - (bound - x) = x
    BY <2>1
  <2> QED BY <2>2
<1>2. PICK y \in T : \A z \in T : ~ (<<z, y>> \in OpToRel(<, Nat))
  <2> HIDE DEF T
  <2> QED BY <1>1, NatLessThanWellFounded, WFMin
<1>3. \A z \in T : ~ (z < y)
  BY <1>1, <1>2 DEF OpToRel
<1>4. y \in Nat /\ bound - y \in S
  BY <1>2
<1>5. \A x \in S : x <= bound - y
  <2> TAKE x \in S
  <2>1. bound - x \in T
    BY <1>1
  <2> QED BY <2>1, <1>3, <1>4
<1> QED BY <1>4, <1>5

(* The newest event of a set whose instants are bounded is one of them. *)
LEMMA NewestExists ==
  ASSUME NEW L, L # {}, NEW bound \in Nat, \A e \in L : e.at \in Nat /\ e.at <= bound
  PROVE  Newest(L) \in L /\ \A f \in L : f.at <= Newest(L).at
<1> DEFINE S == {e.at : e \in L}
<1>1. S \in SUBSET Nat /\ S # {} /\ \A x \in S : x <= bound
  OBVIOUS
<1>2. PICK m \in S : \A x \in S : x <= m
  <2> HIDE DEF S
  <2> QED BY <1>1, LargestExists
<1>3. PICK e \in L : e.at = m
  BY <1>2
<1>4. \A f \in L : f.at <= e.at
  BY <1>2, <1>3
<1> QED BY <1>3, <1>4 DEF Newest

(* The instants an event may be given: none that has been used. *)
LEMMA NowIsUnused ==
  ASSUME TypeInv, NEW bound \in Nat, \A n \in Node : \A e \in log[n] : e.at <= bound,
         NEW n \in Node, NEW at \in Now(n)
  PROVE  /\ at \in Nat /\ at <= bound + 2
         /\ \A m \in Node : \A e \in log[m] : e.at # at
<1> DEFINE S == {e.at : e \in UNION {log[m] : m \in Node}} \cup {0}
<1>1. S \in SUBSET Nat /\ S # {} /\ \A x \in S : x <= bound
  BY DEF TypeInv
<1>2. PICK m \in S : \A x \in S : x <= m
  <2> HIDE DEF S
  <2> QED BY <1>1, LargestExists
<1>3. LastInstant \in S /\ \A x \in S \ {0} : x <= LastInstant
  BY <1>2 DEF LastInstant
<1>4. LastInstant \in Nat /\ LastInstant <= bound
  BY <1>1, <1>3
<1>5. \A k \in Node : \A e \in log[k] : e.at <= LastInstant
  <2> SUFFICES ASSUME NEW k \in Node, NEW e \in log[k] PROVE e.at <= LastInstant
    OBVIOUS
  <2>1. e.at \in S /\ e.at \in Nat
    BY DEF TypeInv
  <2> QED BY <2>1, <1>3, <1>4
<1>6. CASE at = LastInstant + 2
  BY <1>4, <1>5, <1>6 DEF TypeInv
<1>7. CASE at # LastInstant + 2
  BY <1>4, <1>7 DEF Now
<1> QED BY <1>6, <1>7
-----------------------------------------------------------------------------
(* A new event is the newest, or the newest is what it was. *)
LEMMA AppendKeepsLogs ==
  ASSUME TypeInv, Bounded, OneEventAtATime, NEW n \in Node, NEW e, e.at \in Now(n),
         log' = [log EXCEPT ![n] = @ \cup {e}]
  PROVE  /\ Bounded' /\ OneEventAtATime'
         /\ Newest(log'[n]) = e \/ (log[n] # {} /\ Newest(log'[n]) = Newest(log[n]))
<1>1. PICK bound \in Nat : \A m \in Node : \A f \in log[m] : f.at <= bound
  BY DEF Bounded
<1>2. /\ e.at \in Nat /\ e.at <= bound + 2
      /\ \A m \in Node : \A f \in log[m] : f.at # e.at
  BY <1>1, NowIsUnused
<1>3. /\ DOMAIN log = Node /\ log'[n] = log[n] \cup {e}
      /\ \A m \in Node \ {n} : log'[m] = log[m]
      /\ \A m \in Node : \A f \in log[m] : f.at \in Nat
  BY DEF TypeInv
<1>4. \A m \in Node : \A f \in log'[m] : f.at \in Nat /\ f.at <= bound + 2
  BY <1>1, <1>2, <1>3
<1>5. Bounded'
  BY <1>1, <1>4 DEF Bounded
<1>6. OneEventAtATime'
  BY <1>2, <1>3 DEF OneEventAtATime
<1>7. /\ Newest(log'[n]) \in log[n] \cup {e}
      /\ \A f \in log[n] \cup {e} : f.at <= Newest(log'[n]).at
  BY <1>1, <1>3, <1>4, NewestExists
<1>8. ASSUME Newest(log'[n]) # e
      PROVE  log[n] # {} /\ Newest(log'[n]) = Newest(log[n])
  <2>1. log[n] # {} /\ Newest(log'[n]) \in log[n]
    BY <1>7, <1>8
  <2>2. Newest(log[n]) \in log[n] /\ \A f \in log[n] : f.at <= Newest(log[n]).at
    BY <1>1, <1>3, <2>1, NewestExists
  <2> DEFINE new == Newest(log'[n])
             old == Newest(log[n])
  <2>3. new.at = old.at
    <3>1. new \in log[n] /\ old \in log[n]
      BY <2>1, <2>2
    <3>2. new.at \in Nat /\ old.at \in Nat
      BY <3>1, <1>3
    <3>3. new.at <= old.at /\ old.at <= new.at
      BY <3>1, <1>7, <2>2
    <3> HIDE DEF new, old
    <3> QED BY <3>2, <3>3
  <2> QED BY <2>1, <2>2, <2>3 DEF OneEventAtATime
<1> QED BY <1>5, <1>6, <1>8

(* What a log says of the row is a row of its kind, and shows a deletion. *)
LEMMA ProjectionFits ==
  ASSUME kind \in Kind, NEW L, L # {}, NEW bound \in Nat,
         \A e \in L : /\ e.at \in Nat /\ e.at <= bound
                      /\ e.operation \in Operation /\ e.config \in Value /\ e.enabled \in Value
  PROVE  /\ Projection(L) \in Row
         /\ Keeps(kind, Projection(L))
         /\ NewestOp(L) = "tombstone" =>
               /\ kind \in {"source", "channel"} => Projection(L).gone
               /\ kind = "datasource" => ~ Projection(L).here
<1> DEFINE e == Newest(L)
<1>1. e \in L
  BY NewestExists
<1>2. e.config \in Value /\ e.enabled \in Value /\ 0 \in Value /\ NewestOp(L) = e.operation
  BY <1>1, ConfigAssumption DEF NewestOp
<1> HIDE DEF e
<1>3. Carried(e) \in Row /\ ~ Carried(e).gone /\ NoRow \in Row /\ NewRow \in Row
  BY <1>2 DEF Carried, Row, NoRow, NewRow
<1>4. CASE kind \in {"source", "channel"}
  <2>1. Projection(L) = IF e.operation = "tombstone" THEN Marked(Carried(e)) ELSE Carried(e)
    BY <1>4 DEF Projection, ProjectSource, ProjectChannel, e
  <2> QED BY <2>1, <1>2, <1>3, <1>4 DEF Marked, Row, Keeps, Carried
<1>5. CASE kind = "route"
  <2>1. Projection(L) = IF e.operation = "tombstone" THEN Emptied(Carried(e)) ELSE Carried(e)
    BY <1>5 DEF Projection, ProjectRoute, e
  <2> QED BY <2>1, <1>2, <1>3, <1>5 DEF Emptied, Row, Keeps, Carried
<1>6. CASE kind = "datasource"
  <2>1. Projection(L) = IF e.operation = "tombstone" THEN NoRow ELSE Carried(e)
    BY <1>6 DEF Projection, ProjectDatasource, e
  <2> QED BY <2>1, <1>2, <1>3, <1>6 DEF NoRow, Keeps, Carried
<1>7. CASE kind = "setting"
  <2>1. Projection(L) = Carried(e)
    BY <1>7 DEF Projection, ProjectSetting, e
  <2> QED BY <2>1, <1>3, <1>7 DEF Keeps
<1>8. CASE kind = "switch"
  <2>1. Projection(L) = [NewRow EXCEPT !.enabled = e.enabled]
    BY <1>8 DEF Projection, ProjectSwitch, e
  <2> QED BY <2>1, <1>2, <1>8 DEF NewRow, NoRow, Row, Keeps
<1> QED BY <1>4, <1>5, <1>6, <1>7, <1>8 DEF Kind
-----------------------------------------------------------------------------
(* There is no history yet, and the row is what an empty history makes it. *)
LEMMA InitEstablishesIndInv == Init => IndInv
<1> SUFFICES ASSUME Init PROVE IndInv
  OBVIOUS
<1>1. kind \in Kind /\ FirstRow \in Row /\ Keeps(kind, FirstRow)
  BY ConfigAssumption DEF Init, FirstRow, NewRow, NoRow, Row, Keeps
<1>2. TypeInv
  BY <1>1 DEF Init, TypeInv
<1>3. \A n \in Node : log[n] = {} /\ NewestOp(log[n]) = "none"
  BY DEF Init, NewestOp
<1>4. Bounded /\ OneEventAtATime /\ NoDeletion /\ DeletionShows /\ NoEditOfKnownDeletion
  BY <1>3 DEF Bounded, OneEventAtATime, NoDeletion, DeletionShows, NoEditOfKnownDeletion
<1>5. RowsFit /\ HandlersFit
  BY <1>1 DEF Init, RowsFit, HandlersFit
<1> QED BY <1>2, <1>4, <1>5 DEF IndInv

(* The operation of the newest event is that of an event. *)
LEMMA NewestOperation ==
  ASSUME TypeInv, Bounded, NEW n \in Node
  PROVE  \/ NewestOp(log[n]) = "none"
         \/ \E e \in log[n] : NewestOp(log[n]) = e.operation
<1>1. PICK bound \in Nat : \A m \in Node : \A e \in log[m] : e.at <= bound
  BY DEF Bounded
<1>2. CASE log[n] # {}
  <2>1. Newest(log[n]) \in log[n]
    BY <1>1, <1>2, NewestExists DEF TypeInv
  <2> QED BY <2>1, <1>2 DEF NewestOp
<1> QED BY <1>2 DEF NewestOp

(* Loading a row that the endpoint may go on with. *)
LEMMA LoadPreservesIndInv ==
  ASSUME IndInv, NEW n \in Node, NEW t \in Thread,
         NEW operation \in Operation, NEW new \in Row, Load(n, t, operation, new),
         Fits(kind, [phase |-> "loaded", operation |-> operation, seen |-> row[n],
                     new |-> new, onto |-> NewestOp(log[n])])
  PROVE  IndInv'
<1> DEFINE h == [phase |-> "loaded", operation |-> operation, seen |-> row[n],
                 new |-> new, onto |-> NewestOp(log[n])]
<1>1. UNCHANGED <<kind, log, row>> /\ handler' = [handler EXCEPT ![n][t] = h]
  BY DEF Load
<1>2. NewestOp(log[n]) \in Operation \cup {"none"}
  BY NewestOperation DEF IndInv, TypeInv
<1>3. h \in Loaded
  BY <1>2 DEF Loaded, IndInv, TypeInv
<1>4. Fits(kind, h)
  OBVIOUS
<1> HIDE DEF h
<1>5. TypeInv'
  BY <1>1, <1>3 DEF IndInv, TypeInv
<1>6. HandlersFit'
  <2> SUFFICES ASSUME NEW m \in Node, NEW u \in Thread, handler'[m][u] # Idle
               PROVE  Fits(kind, handler'[m][u])
    BY <1>1 DEF HandlersFit
  <2>1. handler'[m][u] = IF m = n /\ u = t THEN h ELSE handler[m][u]
    BY <1>1 DEF IndInv, TypeInv
  <2> QED BY <2>1, <1>4 DEF IndInv, HandlersFit
<1>7. Bounded' /\ OneEventAtATime' /\ RowsFit' /\ NoDeletion' /\ DeletionShows'
  BY <1>1 DEF IndInv, Bounded, OneEventAtATime, RowsFit, NoDeletion, DeletionShows
<1>8. NoEditOfKnownDeletion'
  BY <1>1 DEF IndInv, NoEditOfKnownDeletion
<1> QED BY <1>5, <1>6, <1>7, <1>8 DEF IndInv

(* Setting a column of a row. *)
LEMMA ColumnSet ==
  ASSUME NEW r \in Row, NEW column \in Columns, NEW v \in Value
  PROVE  /\ [r EXCEPT ![column] = v] \in Row
         /\ [r EXCEPT ![column] = v].gone = r.gone
         /\ [r EXCEPT ![column] = v].here = r.here
<1>1. CASE column = "config"
  BY <1>1 DEF Row
<1>2. CASE column = "enabled"
  BY <1>2 DEF Row
<1> QED BY <1>1, <1>2 DEF Columns

(* An endpoint goes on only with a row whose newest event is no deletion.   *)
LEMMA UpdatePreservesIndInv ==
  ASSUME IndInv, NEW n \in Node, NEW t \in Thread, Update(n, t)
  PROVE  IndInv'
<1>1. row[n] \in Row /\ Keeps(kind, row[n]) /\ kind \in Kind
  BY DEF IndInv, TypeInv, RowsFit
<1>2. kind \in {"setting", "switch"} => NewestOp(log[n]) # "tombstone"
  BY NewestOperation DEF IndInv, NoDeletion
<1>3. PICK v \in Value : \/ RotateToken(n, t, v)
                         \/ SetApiDownAlert(n, t, v)
                         \/ \E column \in Columns :
                              \/ UpdateSource(n, t, column, v)
                              \/ UpdateChannel(n, t, column, v)
                              \/ UpdateRoute(n, t, column, v)
                              \/ UpdateDatasource(n, t, column, v)
                              \/ UpdateSettings(n, t, column, v)
  BY DEF Update
<1>4. CASE RotateToken(n, t, v)
  <2> DEFINE new == [row[n] EXCEPT !.config = v]
  <2>1. new \in Row /\ new.gone = row[n].gone
    BY <1>1 DEF Row
  <2>2. kind = "source" /\ ~ row[n].gone /\ Load(n, t, "rotate_token", new)
    BY <1>4 DEF RotateToken, ActiveSource
  <2> HIDE DEF new
  <2> QED BY <1>1, <2>1, <2>2, LoadPreservesIndInv DEF Fits, Operation, IndInv, DeletionShows
<1>5. CASE SetApiDownAlert(n, t, v)
  <2> DEFINE new == [row[n] EXCEPT !.enabled = v]
  <2>1. new \in Row /\ new.gone = row[n].gone /\ new.config = row[n].config
    BY <1>1 DEF Row
  <2>2. kind = "switch" /\ Load(n, t, "upsert", new)
    BY <1>5 DEF SetApiDownAlert
  <2> HIDE DEF new
  <2> QED BY <1>1, <1>2, <2>1, <2>2, LoadPreservesIndInv DEF Fits, Keeps, Operation
<1>6. ASSUME NEW column \in Columns,
             \/ UpdateSource(n, t, column, v)
             \/ UpdateChannel(n, t, column, v)
             \/ UpdateRoute(n, t, column, v)
             \/ UpdateDatasource(n, t, column, v)
      PROVE  IndInv'
  <2> DEFINE new == [row[n] EXCEPT ![column] = v]
  <2>1. new \in Row /\ new.gone = row[n].gone
    BY <1>1, ColumnSet
  <2>2. /\ Load(n, t, "upsert", new)
        /\ row[n].here /\ ~ row[n].gone
        /\ kind \notin {"setting", "switch"}
        /\ kind = "route" => NewestOp(log[n]) # "tombstone"
    BY <1>1, <1>6 DEF UpdateSource, UpdateChannel, UpdateRoute, UpdateDatasource,
                      ActiveSource, Channel, Route, ActiveDatasource, Keeps
  <2>3. NewestOp(log[n]) # "tombstone"
    BY <1>1, <2>2 DEF IndInv, DeletionShows, Kind
  <2> HIDE DEF new
  <2> QED BY <1>1, <2>1, <2>2, <2>3, LoadPreservesIndInv DEF Fits, Operation
<1>7. ASSUME NEW column \in Columns, UpdateSettings(n, t, column, v)
      PROVE  IndInv'
  <2> DEFINE shown == [row[n] EXCEPT !.here = TRUE]
             new == [row[n] EXCEPT !.here = TRUE, ![column] = v]
  <2>1. shown \in Row /\ shown.gone = row[n].gone
    BY <1>1 DEF Row
  <2>2. new = [shown EXCEPT ![column] = v]
    OBVIOUS
  <2>3. kind = "setting" /\ Load(n, t, "upsert", new)
    BY <1>7 DEF UpdateSettings
  <2> HIDE DEF shown, new
  <2>4. new \in Row /\ new.gone = row[n].gone
    BY <2>1, <2>2, ColumnSet
  <2> QED BY <1>1, <1>2, <2>3, <2>4, LoadPreservesIndInv DEF Fits, Keeps, Operation
<1> QED BY <1>3, <1>4, <1>5, <1>6, <1>7

(* A deletion marks, empties or removes the row that was loaded.            *)
LEMMA DeletePreservesIndInv ==
  ASSUME IndInv, NEW n \in Node, NEW t \in Thread, Delete(n, t)
  PROVE  IndInv'
<1>1. row[n] \in Row /\ Keeps(kind, row[n]) /\ 0 \in Value
  BY ConfigAssumption DEF IndInv, TypeInv, RowsFit
<1>2. CASE DeleteSource(n, t) \/ DeleteChannel(n, t)
  <2> DEFINE new == Marked(row[n])
  <2>1. new \in Row
    BY <1>1 DEF Marked, Row
  <2>2. /\ Load(n, t, "tombstone", new) /\ ~ row[n].gone
        /\ kind \in {"source", "channel"}
    BY <1>2 DEF DeleteSource, DeleteChannel, ActiveSource, Channel
  <2>3. Fits(kind, [phase |-> "loaded", operation |-> "tombstone", seen |-> row[n],
                    new |-> new, onto |-> NewestOp(log[n])])
    BY <1>1, <2>2 DEF Fits
  <2> HIDE DEF new
  <2> QED BY <2>1, <2>2, <2>3, LoadPreservesIndInv DEF Operation
<1>3. CASE DeleteRoute(n, t)
  <2> DEFINE new == Emptied(row[n])
  <2>1. new \in Row
    BY <1>1 DEF Emptied, Row
  <2>2. Load(n, t, "tombstone", new) /\ ~ row[n].gone /\ kind = "route"
    BY <1>1, <1>3 DEF DeleteRoute, Keeps
  <2>3. Fits(kind, [phase |-> "loaded", operation |-> "tombstone", seen |-> row[n],
                    new |-> new, onto |-> NewestOp(log[n])])
    BY <1>1, <2>2 DEF Fits
  <2> HIDE DEF new
  <2> QED BY <2>1, <2>2, <2>3, LoadPreservesIndInv DEF Operation
<1>4. CASE DeleteDatasource(n, t)
  <2> DEFINE new == [row[n] EXCEPT !.enabled = 0]
  <2>1. new \in Row /\ new.gone = row[n].gone
    BY <1>1 DEF Row
  <2>2. /\ Load(n, t, "tombstone", new)
        /\ row[n].here /\ ~ row[n].gone /\ kind = "datasource"
    BY <1>1, <1>4 DEF DeleteDatasource, ActiveDatasource, Keeps
  <2> HIDE DEF new
  <2> QED BY <1>1, <2>1, <2>2, LoadPreservesIndInv DEF Fits, Operation
<1> QED BY <1>2, <1>3, <1>4 DEF Delete
-----------------------------------------------------------------------------
(* A new row is what its only event makes of it. *)
LEMMA InsertPreservesIndInv ==
  ASSUME IndInv, NEW n \in Node, Insert(n), kind \notin {"setting", "switch"}
  PROVE  IndInv' /\ row'[n] = Projection(log'[n])
<1>1. PICK at \in Now(n) :
        log' = [log EXCEPT ![n] = {Event(n, at, "upsert", NewRow, "none")}]
  BY DEF Insert
<1> DEFINE e == Event(n, at, "upsert", NewRow, "none")
<1>2. /\ e.at = at /\ e.operation = "upsert" /\ e.onto = "none"
      /\ e.config = 0 /\ e.enabled = 0
  BY DEF Event, NewRow, NoRow
<1> HIDE DEF e
<1>3. DOMAIN log = Node /\ \A m \in Node : log[m] = {}
  BY DEF Insert, IndInv, TypeInv
<1>4. log' = [log EXCEPT ![n] = @ \cup {e}]
  BY <1>1, <1>3 DEF e
<1>5. log'[n] = {e} /\ \A m \in Node \ {n} : log'[m] = {}
  BY <1>3, <1>4
<1>6. Bounded' /\ OneEventAtATime' /\ Newest(log'[n]) = e
  BY <1>2, <1>3, <1>4, AppendKeepsLogs DEF IndInv
<1>7. e.at \in Nat
  <2>1. PICK bound \in Nat : \A m \in Node : \A f \in log[m] : f.at <= bound
    BY DEF IndInv, Bounded
  <2> QED BY <2>1, <1>2, NowIsUnused DEF IndInv
<1>8. /\ row' = [row EXCEPT ![n] = NewRow] /\ UNCHANGED <<kind, handler>>
      /\ row \in [Node -> Row]
  BY DEF Insert, IndInv, TypeInv
<1>9. 0 \in Value /\ NewRow \in Row /\ ~ NewRow.gone
  BY ConfigAssumption DEF NewRow, NoRow, Row
<1>10. TypeInv'
  BY <1>2, <1>4, <1>5, <1>7, <1>8, <1>9 DEF IndInv, TypeInv, Operation
<1>11. RowsFit' /\ HandlersFit'
  BY <1>8, <1>9 DEF IndInv, RowsFit, HandlersFit, Keeps
<1>12. NoDeletion' /\ NoEditOfKnownDeletion'
  BY <1>2, <1>5 DEF NoDeletion, NoEditOfKnownDeletion
<1>13. DeletionShows'
  <2> SUFFICES ASSUME NEW m \in Node PROVE NewestOp(log'[m]) # "tombstone"
    BY DEF DeletionShows
  <2> QED BY <1>2, <1>5, <1>6 DEF NewestOp
<1>14. row'[n] = Projection(log'[n])
  <2>1. Carried(e) = NewRow
    <3>1. NoRow \in Row
      BY <1>9 DEF NoRow, Row
    <3>2. NoRow.config = 0 /\ NoRow.enabled = 0 /\ NoRow.gone = FALSE
      BY DEF NoRow
    <3>3. /\ NewRow.here = TRUE /\ NewRow.config = 0
          /\ NewRow.enabled = 0 /\ NewRow.gone = FALSE
      BY <3>1, <3>2 DEF NewRow, Row
    <3>4. Carried(e) \in Row
      BY <1>2, <1>9 DEF Carried, Row
    <3>5. /\ Carried(e).here = TRUE /\ Carried(e).config = 0
          /\ Carried(e).enabled = 0 /\ Carried(e).gone = FALSE
      BY <1>2 DEF Carried
    <3> HIDE DEF NewRow
    <3> QED BY <1>9, <3>3, <3>4, <3>5 DEF Row
  <2>2. Projection(log'[n]) = Carried(e)
    <3>1. kind \in {"source", "channel", "route", "datasource"}
      BY DEF IndInv, TypeInv, Kind
    <3> QED BY <3>1, <1>2, <1>5, <1>6
            DEF Projection, ProjectSource, ProjectChannel, ProjectRoute, ProjectDatasource
  <2> QED BY <2>1, <2>2, <1>8
<1> QED BY <1>6, <1>10, <1>11, <1>12, <1>13, <1>14 DEF IndInv

(* Settings and switches are not created.                                   *)
LEMMA CreatePreservesIndInv ==
  ASSUME IndInv, NEW n \in Node, Create(n)
  PROVE  IndInv' /\ row'[n] = Projection(log'[n])
BY InsertPreservesIndInv
   DEF Create, CreateSource, CreateChannel, CreateRoute, CreateDatasource

(* An endpoint that gives up leaves nothing.                                *)
LEMMA AbortPreservesIndInv ==
  ASSUME IndInv, NEW n \in Node, NEW t \in Thread, Abort(n, t)
  PROVE  IndInv'
<1>1. UNCHANGED <<kind, log, row>> /\ handler' = [handler EXCEPT ![n][t] = Idle]
  BY DEF Abort
<1>2. TypeInv' /\ HandlersFit'
  <2>1. TypeInv'
    BY <1>1 DEF IndInv, TypeInv
  <2>2. \A m \in Node, u \in Thread :
           handler'[m][u] = IF m = n /\ u = t THEN Idle ELSE handler[m][u]
    BY <1>1 DEF IndInv, TypeInv
  <2> QED BY <1>1, <2>1, <2>2 DEF IndInv, HandlersFit
<1>3. Bounded' /\ OneEventAtATime' /\ RowsFit' /\ NoDeletion' /\ DeletionShows'
  BY <1>1 DEF IndInv, Bounded, OneEventAtATime, RowsFit, NoDeletion, DeletionShows
<1>4. NoEditOfKnownDeletion'
  BY <1>1 DEF IndInv, NoEditOfKnownDeletion
<1> QED BY <1>2, <1>3, <1>4 DEF IndInv

(* A page rewrites the row from the log with the page, which shows the      *)
(* deletions in it.                                                         *)
LEMMA LearnPreservesIndInv ==
  ASSUME IndInv, NEW n \in Node, NEW p \in Node, Learn(n, p)
  PROVE  IndInv' /\ row'[n] = Projection(log'[n])
<1>1. PICK E \in (SUBSET (log[p] \ log[n])) \ {{}} :
        /\ log' = [log EXCEPT ![n] = @ \cup E]
        /\ row' = [row EXCEPT ![n] = Projection(log[n] \cup E)]
        /\ UNCHANGED <<kind, handler>>
  BY DEF Learn
<1>2. PICK bound \in Nat : \A m \in Node : \A e \in log[m] : e.at <= bound
  BY DEF IndInv, Bounded
<1> DEFINE L == log[n] \cup E
<1>3. /\ DOMAIN log = Node /\ log'[n] = L /\ L # {}
      /\ \A m \in Node \ {n} : log'[m] = log[m]
  BY <1>1 DEF IndInv, TypeInv
<1>4. \A m \in Node : \A e \in log'[m] : \E k \in Node : e \in log[k]
  BY <1>1, <1>3
<1>5. \A m \in Node : \A e \in log'[m] :
        /\ e.at \in Nat /\ e.at <= bound /\ e.operation \in Operation
        /\ e.config \in Value /\ e.enabled \in Value
  BY <1>2, <1>4 DEF IndInv, TypeInv
<1>6. /\ Projection(L) \in Row
      /\ Keeps(kind, Projection(L))
      /\ NewestOp(L) = "tombstone" =>
            /\ kind \in {"source", "channel"} => Projection(L).gone
            /\ kind = "datasource" => ~ Projection(L).here
  <2>1. kind \in Kind
    BY DEF IndInv, TypeInv
  <2> HIDE DEF L
  <2> QED BY <2>1, <1>3, <1>5, ProjectionFits
<1>7. /\ row' \in [Node -> Row] /\ row'[n] = Projection(L)
      /\ \A m \in Node \ {n} : row'[m] = row[m]
  BY <1>1, <1>6 DEF IndInv, TypeInv
<1> HIDE DEF L
<1>8. TypeInv'
  BY <1>1, <1>3, <1>5, <1>7 DEF IndInv, TypeInv
<1>9. Bounded' /\ OneEventAtATime'
  BY <1>4, <1>5 DEF IndInv, Bounded, OneEventAtATime
<1>10. RowsFit' /\ HandlersFit'
  BY <1>1, <1>6, <1>7 DEF IndInv, RowsFit, HandlersFit
<1>11. NoDeletion' /\ NoEditOfKnownDeletion'
  BY <1>1, <1>4 DEF IndInv, NoDeletion, NoEditOfKnownDeletion
<1>12. DeletionShows'
  BY <1>1, <1>3, <1>6, <1>7 DEF IndInv, DeletionShows
<1> QED BY <1>3, <1>7, <1>8, <1>9, <1>10, <1>11, <1>12 DEF IndInv
-----------------------------------------------------------------------------
(* Two rows with the same columns are one. *)
LEMMA SameRow ==
  ASSUME NEW r \in Row, NEW s \in Row,
         r.here = s.here, r.config = s.config, r.enabled = s.enabled, r.gone = s.gone
  PROVE  r = s
BY DEF Row

(* What an endpoint stores on the row it has loaded is what its event makes *)
(* of the row.                                                              *)
LEMMA FreshStoreIsProjection ==
  ASSUME kind \in Kind, NEW h \in Loaded, Fits(kind, h), NEW L, L # {},
         Newest(L).operation = h.operation,
         Newest(L).config = h.new.config, Newest(L).enabled = h.new.enabled
  PROVE  Projection(L) = IF kind = "datasource" /\ h.operation = "tombstone" THEN NoRow
                         ELSE Stored(h.seen, h.new, h.seen)
<1> DEFINE e == Newest(L)
           r == Stored(h.seen, h.new, h.seen)
           c == Carried(e)
<1>1. h.seen \in Row /\ h.new \in Row /\ h.operation \in Operation /\ 0 \in Value
  BY ConfigAssumption DEF Loaded
<1>2. /\ r \in Row /\ r.here
      /\ r.config = h.new.config /\ r.enabled = h.new.enabled /\ r.gone = h.new.gone
  BY <1>1 DEF Stored, Row
<1>3. /\ c \in Row /\ c.here /\ ~ c.gone
      /\ c.config = h.new.config /\ c.enabled = h.new.enabled
  BY <1>1 DEF Carried, Row
<1>4. e.operation = h.operation /\ e.enabled = h.new.enabled
  OBVIOUS
<1> HIDE DEF r, c
<1>5. CASE h.operation # "tombstone" /\ kind # "switch"
  <2>1. c = r
    <3>1. r.gone = FALSE
      BY <1>1, <1>2, <1>5 DEF Fits, Row
    <3> QED BY <1>2, <1>3, <3>1, SameRow DEF Row
  <2>2. Projection(L) = c
    BY <1>4, <1>5 DEF Kind, Projection, ProjectSource, ProjectChannel, ProjectRoute,
                      ProjectDatasource, ProjectSetting, c
  <2> QED BY <2>1, <2>2, <1>5 DEF r
<1>6. CASE h.operation # "tombstone" /\ kind = "switch"
  <2> DEFINE s == [NewRow EXCEPT !.enabled = h.new.enabled]
  <2>1. Projection(L) = s
    BY <1>4, <1>6 DEF Projection, ProjectSwitch
  <2>2. NoRow \in Row /\ NoRow.config = 0 /\ ~ NoRow.gone
    BY <1>1 DEF NoRow, Row
  <2>3. NewRow \in Row /\ NewRow.here /\ NewRow.config = 0 /\ ~ NewRow.gone
    BY <2>2 DEF NewRow, Row
  <2>4. s \in Row /\ s.here /\ s.config = 0 /\ ~ s.gone /\ s.enabled = h.new.enabled
    BY <1>1, <2>3 DEF Row
  <2> HIDE DEF s
  <2>5. r.config = 0 /\ ~ r.gone
    BY <1>2, <1>6 DEF Fits
  <2>6. s = r
    BY <1>2, <2>4, <2>5, SameRow DEF Row
  <2> QED BY <2>1, <2>6, <1>6 DEF r
<1>7. CASE h.operation = "tombstone" /\ kind \in {"source", "channel"}
  <2> DEFINE s == Marked(c)
  <2>1. Projection(L) = s
    BY <1>4, <1>7 DEF Projection, ProjectSource, ProjectChannel, c
  <2>2. s \in Row /\ s.here /\ s.gone /\ s.enabled = 0 /\ s.config = h.new.config
    BY <1>1, <1>3 DEF Marked, Row
  <2>3. r.gone /\ r.enabled = 0
    BY <1>1, <1>2, <1>7 DEF Fits, Marked, Row
  <2> HIDE DEF s
  <2>4. s = r
    BY <1>2, <2>2, <2>3, SameRow DEF Row
  <2> QED BY <2>1, <2>4, <1>7 DEF r
<1>8. CASE h.operation = "tombstone" /\ kind = "route"
  <2> DEFINE s == Emptied(c)
  <2>1. Projection(L) = s
    BY <1>4, <1>8 DEF Projection, ProjectRoute, c
  <2>2. s \in Row /\ s.here /\ ~ s.gone /\ s.enabled = 0 /\ s.config = 0
    BY <1>1, <1>3 DEF Emptied, Row
  <2>3. ~ r.gone /\ r.enabled = 0 /\ r.config = 0
    BY <1>1, <1>2, <1>8 DEF Fits, Emptied, Row
  <2> HIDE DEF s
  <2>4. s = r
    BY <1>2, <2>2, <2>3, SameRow DEF Row
  <2> QED BY <2>1, <2>4, <1>8 DEF r
<1>9. CASE h.operation = "tombstone" /\ kind = "datasource"
  BY <1>4, <1>9 DEF Projection, ProjectDatasource
<1> QED BY <1>5, <1>6, <1>7, <1>8, <1>9 DEF Fits, Kind

(* The row that a commit leaves is a row of its kind; it shows the deletion *)
(* that it makes, and the one that was there before.                        *)
LEMMA CommitPreservesIndInv ==
  ASSUME IndInv, NEW n \in Node, NEW t \in Thread, Commit(n, t)
  PROVE  /\ IndInv'
         /\ row'[n] = Projection(log'[n]) \/ handler[n][t].seen # row[n]
               \/ Newest(log'[n]) \in log[n]
<1> DEFINE h == handler[n][t]
           r == IF kind = "datasource" /\ h.operation = "tombstone" THEN NoRow
                ELSE Stored(h.seen, h.new, row[n])
<1>1. PICK at \in Now(n) :
        log' = [log EXCEPT ![n] = @ \cup {Event(n, at, h.operation, h.new, h.onto)}]
  BY DEF Commit
<1> DEFINE e == Event(n, at, h.operation, h.new, h.onto)
<1>2. /\ row' = [row EXCEPT ![n] = r] /\ UNCHANGED kind
      /\ handler' = [handler EXCEPT ![n][t] = Idle]
      /\ h.seen.here = row[n].here
  BY DEF Commit, RowFits, IndInv, TypeInv
<1>3. h \in Loaded /\ Fits(kind, h)
  BY DEF Commit, IndInv, TypeInv, HandlersFit
<1>4. /\ h.seen \in Row /\ h.new \in Row /\ h.operation \in Operation /\ 0 \in Value
      /\ row[n] \in Row /\ Keeps(kind, row[n])
  BY <1>3, ConfigAssumption DEF Loaded, IndInv, TypeInv, RowsFit
<1>5. /\ e.at = at /\ e.operation = h.operation /\ e.onto = h.onto
      /\ e.config = h.new.config /\ e.enabled = h.new.enabled
  BY DEF Event
<1> HIDE DEF e, r, h
<1>6. log' = [log EXCEPT ![n] = @ \cup {e}] /\ e.at \in Now(n)
  BY <1>1, <1>5 DEF e
<1>7. /\ DOMAIN log = Node /\ log'[n] = log[n] \cup {e}
      /\ \A m \in Node \ {n} : log'[m] = log[m]
  BY <1>6 DEF IndInv, TypeInv
<1>8. /\ Bounded' /\ OneEventAtATime'
      /\ Newest(log'[n]) = e \/ (log[n] # {} /\ Newest(log'[n]) = Newest(log[n]))
  BY <1>6, AppendKeepsLogs DEF IndInv
<1>9. PICK bound \in Nat : \A m \in Node : \A f \in log[m] : f.at <= bound
  BY DEF IndInv, Bounded
<1>10. e.at \in Nat
  BY <1>6, <1>9, NowIsUnused DEF IndInv
<1>11. r \in Row
  BY <1>4 DEF r, Stored, NoRow, Row
<1>12. Keeps(kind, r)
  <2>1. CASE kind = "datasource" /\ h.operation = "tombstone"
    BY <2>1 DEF r, NoRow, Keeps
  <2>2. CASE ~ (kind = "datasource" /\ h.operation = "tombstone")
    <3>1. /\ r.here
          /\ r.config = IF h.new.config # h.seen.config THEN h.new.config ELSE row[n].config
          /\ r.gone = IF h.new.gone # h.seen.gone THEN h.new.gone ELSE row[n].gone
      BY <2>2 DEF r, Stored
    <3>2. kind = "switch" => r.config = 0
      BY <1>3, <1>4, <3>1 DEF Fits, Keeps
    <3>3. ASSUME kind \notin {"source", "channel"} PROVE ~ r.gone
      <4>1. h.new.gone = FALSE
        <5>1. CASE h.operation # "tombstone"
          BY <1>3, <1>4, <5>1 DEF Fits, Row
        <5>2. CASE h.operation = "tombstone"
          <6>1. kind = "route" /\ h.new = Emptied(h.seen)
            BY <1>3, <2>2, <3>3, <5>2 DEF Fits, Kind, IndInv, TypeInv
          <6> QED BY <6>1, <1>3, <1>4 DEF Fits, Emptied, Row
        <5> QED BY <5>1, <5>2
      <4>2. h.seen.gone = FALSE /\ row[n].gone = FALSE
        BY <1>3, <1>4, <3>3 DEF Fits, Keeps, Row
      <4> QED BY <3>1, <4>1, <4>2
    <3> QED BY <3>1, <3>2, <3>3 DEF Keeps
  <2> QED BY <2>1, <2>2
<1>13. TypeInv'
  <2>1. \A m \in Node : \A f \in log'[m] :
          /\ f.at \in Nat /\ f.operation \in Operation
          /\ f.config \in Value /\ f.enabled \in Value
    BY <1>4, <1>5, <1>7, <1>10 DEF IndInv, TypeInv, Row
  <2> QED BY <2>1, <1>2, <1>6, <1>11 DEF IndInv, TypeInv
<1>14. RowsFit'
  BY <1>2, <1>12 DEF IndInv, TypeInv, RowsFit
<1>15. HandlersFit'
  <2>1. \A m \in Node, u \in Thread :
           handler'[m][u] = IF m = n /\ u = t THEN Idle ELSE handler[m][u]
    BY <1>2 DEF IndInv, TypeInv
  <2> QED BY <1>2, <2>1 DEF IndInv, HandlersFit
<1>16. NoDeletion' /\ NoEditOfKnownDeletion'
  BY <1>2, <1>3, <1>5, <1>7 DEF IndInv, NoDeletion, NoEditOfKnownDeletion, Fits
<1>17. DeletionShows'
  <2> SUFFICES ASSUME NEW m \in Node, NewestOp(log'[m]) = "tombstone"
               PROVE  /\ kind \in {"source", "channel"} => row'[m].gone
                      /\ kind = "datasource" => ~ row'[m].here
    BY <1>2 DEF DeletionShows
  <2>1. CASE m # n
    BY <1>2, <1>7, <2>1 DEF IndInv, DeletionShows, TypeInv
  <2>2. CASE m = n /\ Newest(log'[n]) = e
    <3>1. h.operation = "tombstone" /\ row'[m] = r
      BY <1>2, <1>5, <1>7, <2>2 DEF NewestOp, IndInv, TypeInv
    <3>2. CASE kind \in {"source", "channel"}
      <4>1. h.new.gone = TRUE /\ h.seen.gone = FALSE
        BY <1>3, <1>4, <3>1, <3>2 DEF Fits, Marked, Row
      <4>2. r = Stored(h.seen, h.new, row[n])
        BY <3>2 DEF r
      <4>3. r.gone
        BY <4>1, <4>2 DEF Stored
      <4> QED BY <3>1, <3>2, <4>3
    <3>3. CASE kind = "datasource"
      BY <3>1, <3>3 DEF r, NoRow
    <3> QED BY <3>2, <3>3
  <2>3. CASE m = n /\ log[n] # {} /\ Newest(log'[n]) = Newest(log[n])
    <3>1. NewestOp(log[n]) = "tombstone" /\ row'[m] = r
      BY <1>2, <1>7, <2>3 DEF NewestOp, IndInv, TypeInv
    <3>2. CASE kind \in {"source", "channel"}
      <4>1. row[n].gone /\ h.seen.gone = FALSE
        BY <1>3, <1>4, <3>1, <3>2 DEF Fits, IndInv, DeletionShows, Row
      <4> QED BY <1>4, <3>1, <3>2, <4>1 DEF r, Stored, Row
    <3>3. kind # "datasource"
      BY <1>2, <1>3, <3>1 DEF Fits, IndInv, DeletionShows
    <3> QED BY <3>2, <3>3
  <2> QED BY <1>8, <2>1, <2>2, <2>3
<1>18. ASSUME h.seen = row[n], Newest(log'[n]) \notin log[n]
       PROVE  row'[n] = Projection(log'[n])
  <2>1. Newest(log'[n]) = e
    <3>1. log[n] # {} => Newest(log[n]) \in log[n]
      BY <1>9, NewestExists DEF IndInv, TypeInv
    <3> QED BY <1>8, <1>18, <3>1
  <2>2. row'[n] = r
    BY <1>2 DEF IndInv, TypeInv
  <2>3. kind \in Kind /\ log'[n] # {}
    BY <1>7 DEF IndInv, TypeInv
  <2>4. Projection(log'[n]) = r
    BY <1>3, <1>5, <1>18, <2>1, <2>3, FreshStoreIsProjection DEF r
  <2> QED BY <2>2, <2>4
<1> QED BY <1>8, <1>13, <1>14, <1>15, <1>16, <1>17, <1>18 DEF IndInv, h
-----------------------------------------------------------------------------
(* IndInv is inductive: one lemma for each kind of step.                    *)
LEMMA StepPreservesIndInv == IndInv /\ [Next]_vars => IndInv'
<1> SUFFICES ASSUME IndInv, [Next]_vars PROVE IndInv'
  OBVIOUS
<1>1. CASE UNCHANGED vars
  BY <1>1 DEF vars, IndInv, TypeInv, Bounded, OneEventAtATime, RowsFit, NoDeletion,
              DeletionShows, HandlersFit, NoEditOfKnownDeletion
<1>2. CASE Next
  BY <1>2, CreatePreservesIndInv, UpdatePreservesIndInv, DeletePreservesIndInv,
     CommitPreservesIndInv, AbortPreservesIndInv, LearnPreservesIndInv DEF Next
<1> QED BY <1>1, <1>2

(* IndInv holds in every state that can be reached.                         *)
LEMMA IndInvHolds == Spec => []IndInv
BY InitEstablishesIndInv, StepPreservesIndInv, PTL DEF Spec

(* DeletionsAreNotUndone: a deletion is undone only by an author that had   *)
(* not heard of it (require_source, require_channel, route_deleted and the  *)
(* other lookups of the endpoints), for any set of slow clocks and however  *)
(* far the rows have drifted from their history.                            *)
THEOREM DeletionsAreNotUndone == Spec => []NoEditOfKnownDeletion
<1>1. IndInv => NoEditOfKnownDeletion
  BY DEF IndInv
<1> QED BY <1>1, IndInvHolds, PTL

(* OnlyStaleOrLateWritesDiverge: a transaction that adds events of a row    *)
(* leaves it as its history projects it (sync.py, the project_ functions),  *)
(* unless an endpoint worked on a row that others had changed, or its clock *)
(* lies behind.                                                             *)
THEOREM FreshWritesFollowHistory == Spec => OnlyStaleOrLateWritesDiverge
<1> DEFINE Diverges(n) == log'[n] # log[n] /\ row'[n] # Projection(log'[n])
           Excused(n) == \E t \in Thread :
                           /\ handler'[n][t] # handler[n][t]
                           /\ \/ handler[n][t].seen # row[n]
                              \/ Newest(log'[n]) \in log[n]
<1>1. ASSUME IndInv, Next PROVE \A n \in Node : Diverges(n) => Excused(n)
  <2> SUFFICES ASSUME NEW n \in Node, log'[n] # log[n], row'[n] # Projection(log'[n])
               PROVE  Excused(n)
    OBVIOUS
  <2>1. PICK m \in Node :
           \/ Create(m)
           \/ \E t \in Thread : Update(m, t) \/ Delete(m, t) \/ Commit(m, t) \/ Abort(m, t)
           \/ \E p \in Node \ {m} : Learn(m, p)
    BY <1>1 DEF Next
  <2>2. DOMAIN log = Node /\ DOMAIN handler = Node /\ \A k \in Node : DOMAIN handler[k] = Thread
    BY <1>1 DEF IndInv, TypeInv
  <2>3. CASE Create(m)
    <3>1. m = n
      BY <2>2, <2>3 DEF Create, CreateSource, CreateChannel, CreateRoute, CreateDatasource,
                        Insert
    <3> QED BY <1>1, <2>3, <3>1, CreatePreservesIndInv
  <2>4. ASSUME NEW t \in Thread, Update(m, t) \/ Delete(m, t) \/ Abort(m, t) PROVE FALSE
    <3>1. UNCHANGED log
      BY <2>4 DEF Update, Delete, Abort, Load, RotateToken, SetApiDownAlert, UpdateSource,
                  UpdateChannel, UpdateRoute, UpdateDatasource, UpdateSettings,
                  DeleteSource, DeleteChannel, DeleteRoute, DeleteDatasource
    <3> QED BY <3>1
  <2>5. ASSUME NEW t \in Thread, Commit(m, t) PROVE Excused(n)
    <3>1. m = n
      BY <2>2, <2>5 DEF Commit
    <3>2. handler'[n][t] # handler[n][t]
      BY <2>2, <2>5, <3>1 DEF Commit
    <3>3. handler[n][t].seen # row[n] \/ Newest(log'[n]) \in log[n]
      BY <1>1, <2>5, <3>1, CommitPreservesIndInv
    <3> QED BY <3>2, <3>3
  <2>6. ASSUME NEW p \in Node, Learn(m, p) PROVE FALSE
    <3>1. m = n
      BY <2>2, <2>6 DEF Learn
    <3> QED BY <1>1, <2>6, <3>1, LearnPreservesIndInv
  <2> QED BY <2>1, <2>3, <2>4, <2>5, <2>6
<1>2. IndInv /\ [Next]_vars => [\A n \in Node : Diverges(n) => Excused(n)]_vars
  BY <1>1
<1> QED BY <1>2, IndInvHolds, PTL DEF Spec, OnlyStaleOrLateWritesDiverge
=============================================================================
