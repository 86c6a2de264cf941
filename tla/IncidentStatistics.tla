-------------------------- MODULE IncidentStatistics --------------------------
(***************************************************************************)
(* What the statistics of a window are computed from (application/          *)
(* statistics.py): occurrences of an incident ("cohorts"), rebuilt from the *)
(* rows of its timeline that fall into the window, and receipts of          *)
(* deliveries. The module follows one incident.                             *)
(*                                                                          *)
(* A row of the timeline is as in IncidentProjection, with key: the rank of *)
(* its event_key, the same on every node, where the id is that of the event *)
(* a node has seen first.                                                   *)
(***************************************************************************)
EXTENDS IncidentProjection, FiniteSets

CONSTANTS Window,      \* length of the window
          BucketSize,  \* length of a bucket of its timeline
          TopLimit     \* places in a ranking

ASSUME WindowAssumption ==
  /\ BucketSize \in Nat \ {0}
  /\ Window \in Nat \ {0}
  /\ Window % BucketSize = 0
  /\ TopLimit \in Nat

None == -1

(* Variant: an event at the very end of the window is inside. *)
WithinClosed(x, ends) == ends - Window <= x /\ x <= ends

(* The window is half-open. *)
Within(x, ends) == ends - Window <= x /\ x < ends

BucketIndex(x, ends) ==
  IF Within(x, ends) THEN (x - (ends - Window)) \div BucketSize ELSE None

Buckets == 0 .. (Window \div BucketSize) - 1

(* The rows as they are put in order: by instant, then by event_key.        *)
ByKey(R) == {[r EXCEPT !.id = r.key] : r \in R}

LifecycleKinds == {"firing", "acknowledged", "resolved"}

LifecycleRows(R, ends) == {r \in R : r.kind \in LifecycleKinds /\ Within(r.at, ends)}

-----------------------------------------------------------------------------
(* Cohorts *)

(* Under the start of its occurrence: whether a report of it was seen, when *)
(* it was first acknowledged and first resolved.                            *)
NoCohort == [fired |-> FALSE, severity |-> "unknown", acked |-> None, resolved |-> None]

(* current: start of the occurrence the incident is in, 0 for none. *)
BeforeFirst == [cohorts |-> << >>, current |-> 0, resolved |-> FALSE]

WithCohort(s, k) ==
  [s EXCEPT !.cohorts = [c \in DOMAIN s.cohorts \cup {k} |->
                           IF c \in DOMAIN s.cohorts THEN s.cohorts[c] ELSE NoCohort]]

(* The first report of a cohort gives its severity. *)
Reported(c, r) == IF c.fired THEN c ELSE [c EXCEPT !.fired = TRUE, !.severity = r.severity]

(* A firing makes its cohort known, and the current one as project_incident *)
(* would: when it is newer, or the incident is resolved.                    *)
CountFiring(s, r) ==
  LET k == WithCohort(s, r.occ)
      o == [k EXCEPT !.cohorts[r.occ] = Reported(@, r)]
  IN  IF s.current = 0 \/ r.occ > s.current \/ s.resolved
      THEN [o EXCEPT !.current = r.occ, !.resolved = FALSE]
      ELSE o

(* Variant: also when the occurrence is over. *)
CountAnyAcknowledged(s, r) ==
  IF s.current = 0 \/ s.cohorts[s.current].acked # None THEN s
  ELSE [s EXCEPT !.cohorts[s.current].acked = r.at]

CountAcknowledged(s, r) ==
  IF s.current = 0 \/ s.resolved \/ s.cohorts[s.current].acked # None THEN s
  ELSE [s EXCEPT !.cohorts[s.current].acked = r.at]

(* A resolution is that of the occurrence it names, else of the current one;*)
(* without either it is a cohort of its own.                                *)
CountResolved(s, r) ==
  LET own == IF r.occ # 0 THEN r.occ
             ELSE IF s.current # 0 /\ ~ s.resolved THEN s.current ELSE - r.key
      k == WithCohort(s, own)
      o == [k EXCEPT !.cohorts[own].resolved = IF @ = None THEN r.at ELSE @]
  IN  IF r.occ = 0 \/ s.current = 0 \/ r.occ >= s.current
      THEN [o EXCEPT !.resolved = TRUE]
      ELSE o

CountRow(s, r) ==
  CASE r.kind = "firing"       -> CountFiring(s, r)
    [] r.kind = "acknowledged" -> CountAcknowledged(s, r)
    [] OTHER                   -> CountResolved(s, r)

(* The fold over rows, as that of project_incident.                         *)
CountedRows(L) ==
  LET after[S \in SUBSET L] ==
        IF S = {} THEN BeforeFirst ELSE CountRow(after[S \ {Latest(S)}], Latest(S))
  IN  after[L]

Counted(R, ends) == CountedRows(ByKey(LifecycleRows(R, ends)))

incident_cohorts(R, ends) == Counted(R, ends).cohorts

-----------------------------------------------------------------------------
(* The snapshot *)

Started(C, ends) == {k \in DOMAIN C : C[k].fired /\ Within(k, ends)}

Resolved(C, ends) ==
  {k \in DOMAIN C : C[k].resolved # None /\ Within(C[k].resolved, ends)}

Receipts(D, ends) == {d \in D : Within(d.at, ends)}

(* At most TopLimit channels, busier ones first, ties by id. *)
TopActivity(D) ==
  LET total(c) == Cardinality({d \in D : d.channel = c})
      ahead(c, e) == total(c) > total(e) \/ (total(c) = total(e) /\ c < e)
      used == {d.channel : d \in D}
  IN  {c \in used : Cardinality({e \in used : ahead(e, c)}) < TopLimit}

Timeline(R, D, ends) ==
  LET C == incident_cohorts(R, ends)
  IN  [b \in Buckets |->
        [started   |-> Cardinality({k \in Started(C, ends) : BucketIndex(k, ends) = b}),
         resolved  |-> Cardinality({k \in Resolved(C, ends) :
                                      BucketIndex(C[k].resolved, ends) = b}),
         delivered |-> Cardinality({d \in Receipts(D, ends) :
                                      d.succeeded /\ BucketIndex(d.at, ends) = b}),
         failed    |-> Cardinality({d \in Receipts(D, ends) :
                                      ~ d.succeeded /\ BucketIndex(d.at, ends) = b})]]

(* statistics_snapshot: the figures of one window, all read in one snapshot *)
(* of the database. Active is that of the stored incident, not of cohorts.  *)
Snapshot(R, D, ends) ==
  LET C == incident_cohorts(R, ends)
  IN  [ends         |-> ends,
       started      |-> Cardinality(Started(C, ends)),
       acknowledged |-> Cardinality({k \in Started(C, ends) : C[k].acked # None}),
       closed       |-> Cardinality({k \in Started(C, ends) : C[k].resolved # None}),
       resolved     |-> Cardinality(Resolved(C, ends)),
       active       |-> R # {} /\ project_incident(R).status # "resolved",
       delivered    |-> Cardinality({d \in Receipts(D, ends) : d.succeeded}),
       failed       |-> Cardinality({d \in Receipts(D, ends) : ~ d.succeeded}),
       channels     |-> TopActivity(Receipts(D, ends)),
       timeline     |-> Timeline(R, D, ends)]
=============================================================================
