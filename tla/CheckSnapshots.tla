---------------------------- MODULE CheckSnapshots ----------------------------
(***************************************************************************)
(* What Alert Hub makes of the metrics of one check: the samples of one     *)
(* refresh become results, one per executor and scenario, and the results   *)
(* become a status (application/checks.py, domain/checks.py). A scenario    *)
(* stands for the pair (scenario, variant), which the code treats alike.    *)
(* Names, groups, canaries, targets, egress assertions and durations are    *)
(* left out: none of them takes part in a status.                           *)
(***************************************************************************)
EXTENDS Integers, FiniteSets

CONSTANTS Executor,
          SourceOf,          \* SourceOf[e]: the logical source of an instance
          Scenario,
          Default,           \* DEFAULT_SCENARIO
          Labelled,          \* executors whose run samples carry the scenario
          Tolerance,         \* checks_future_tolerance_seconds
          StaleAfter,        \* checks_stale_after_seconds
          MinFailureSources  \* checks_min_failure_sources

ASSUME SnapshotAssumption ==
  /\ IsFiniteSet(Executor)
  /\ Labelled \subseteq Executor
  /\ Default \notin Scenario
  /\ Tolerance \in Nat /\ StaleAfter \in Nat \ {0} /\ MinFailureSources \in Nat \ {0}

(* A run as an executor exports it: its instant (0: none completed yet), how*)
(* it ended, and the scenario it was configured for. A run that neither     *)
(* succeeded nor failed has no binary status, only a state.                 *)
Outcome == {"success", "failure", "error"}

(* A refresh: the runs that the datasources report of each executor, the    *)
(* executors with an info row, those whose row has a value other than 1,    *)
(* those whose samples have a malformed label, and the optional queries     *)
(* that were answered. Replicas lag, hence several runs of one executor.    *)

NoTime == -1

-----------------------------------------------------------------------------
(* The dimensions of a sample *)

Only(S) == CHOOSE v \in S : TRUE

(* _build_info_hints: the scenarios that info rows declare of an executor.  *)
Declared(x, e) == IF x.infoOk /\ e \in x.info THEN {r.scen : r \in x.runs[e]} ELSE {}

HasRows(x) == \E e \in Executor : Declared(x, e) # {}

(* _build_previous_info_hints *)
DeclaredBefore(prev, e) ==
  {k[2] : k \in {q \in DOMAIN prev : q[1] = e /\ prev[q].known}}

(* When the info query failed, what was declared before stands in. *)
Hints(x, prev, e) ==
  IF x.infoOk THEN Declared(x, e) ELSE DeclaredBefore(prev, e)

(* _accept_sample: the key of a run sample, and whether its scenario comes  *)
(* from a hint or, with no hint or two of them, is the default.             *)
Accepted(x, prev, e, r) ==
  LET unique == Cardinality(Hints(x, prev, e)) = 1
      scen   == IF e \in Labelled THEN r.scen
                ELSE IF unique THEN Only(Hints(x, prev, e)) ELSE Default
  IN  [key |-> <<e, scen>>, run |-> r,
       hinted |-> e \notin Labelled /\ unique, defaulted |-> scen = Default]

Samples(x, prev) ==
  UNION {{Accepted(x, prev, e, r) : r \in x.runs[e]} : e \in Executor \ x.garbled}

InfoKeys(x) == UNION {{<<e, s>> : s \in Declared(x, e)} : e \in Executor}

-----------------------------------------------------------------------------
(* The value of a result *)

(* _binary_value and _one_hot_state, then _reconcile_success: B holds the   *)
(* binary values and S the active states of all replicas, which must agree. *)
(* The result is confirmed by a binary value only.                          *)
Reconcile(B, S) ==
  IF Cardinality(B) = 1 /\ S \in {{}, B} THEN Only(B) ELSE "none"

(* _last_run_value; and zero, without a confirmed result, means that no run *)
(* has completed yet.                                                       *)
LastRun(T, evaluated, success) ==
  IF \/ success = "none" /\ T = {0}
     \/ Cardinality(T) # 1
     \/ \E t \in T : t > evaluated + Tolerance
  THEN NoTime
  ELSE Only(T)

(* A wholly valid info response is the inventory. *)
Authoritative(x) == HasRows(x) /\ x.bad = {}

(* A primary key of the refresh with the samples S. *)
Result(x, prev, S, k) ==
  LET mine    == {s \in S : s.key = k}
      ended   == {s.run.result : s \in mine}
      success == Reconcile(ended \cap {"success", "failure"}, IF x.stateOk THEN ended ELSE {})
      kept    == k \in DOMAIN prev /\ ~ Authoritative(x)
  IN  [success |-> success,
       at      |-> LastRun({s.run.at : s \in mine}, x.evaluated, success),
       known   |-> (Authoritative(x) /\ k \in InfoKeys(x)) \/ (kept /\ prev[k].known),
       provisional |->
         (~ x.infoOk /\ \E s \in mine : s.defaulted) \/ (kept /\ prev[k].provisional)]

-----------------------------------------------------------------------------
(* normalize_check_metrics *)

(* The executor is still declared, for another scenario. *)
Superseded(x, prev, k) == prev[k].known /\ Declared(x, k[1]) # {}

(* Variant: a provisional key is never given up. *)
NeverRekeyed(x, prev, S, k) == FALSE

(* _matches_proven_info_rekey: a key that a refresh without info had to     *)
(* default, and samples that the info row now gives their one scenario.     *)
Rekeyed(x, prev, S, k) ==
  /\ prev[k].provisional
  /\ k[2] = Default
  /\ Cardinality(Declared(x, k[1])) = 1
  /\ \E s \in S : s.hinted /\ s.key = <<k[1], Only(Declared(x, k[1]))>>

(* Variant: what the refresh does not report is gone. *)
RetainedNone(x, prev, S, primary) == {}

(* Results that the refresh does not report: kept, or an executor that      *)
(* stops reporting would make the check look healthier.                     *)
Retained(x, prev, S, primary) ==
  {k \in DOMAIN prev \ primary :
     ~ (Authoritative(x) /\ (Superseded(x, prev, k) \/ Rekeyed(x, prev, S, k)))}

Missing(r) == [r EXCEPT !.success = "none"]

normalize(x, prev) ==
  LET S       == Samples(x, prev)
      primary == {s.key : s \in S} \cup InfoKeys(x)
  IN  [k \in primary \cup Retained(x, prev, S, primary) |->
         IF k \in primary THEN Result(x, prev, S, k) ELSE Missing(prev[k])]

-----------------------------------------------------------------------------
(* domain/checks.py: the status of results R at an instant *)

(* Variant: a result is taken for current whatever its age.                *)
ViewUnaged(r, now) ==
  IF r.at = NoTime THEN "unknown"
  ELSE CASE r.success = "success" -> "up"
         [] r.success = "failure" -> "down"
         [] OTHER                 -> "unknown"

(* _result_view *)
View(r, now) ==
  IF r.at = NoTime THEN "unknown"
  ELSE IF now - r.at > StaleAfter THEN "stale"
  ELSE CASE r.success = "success" -> "up"
         [] r.success = "failure" -> "down"
         [] OTHER                 -> "unknown"

Sources(V, status) == {SourceOf[k[1]] : k \in {q \in DOMAIN V : V[q] = status}}

(* _part_status: V[k] for the results k of one scenario. *)
PartStatus(V) ==
  CASE Sources(V, "up") # {} /\ Sources(V, "down") # {} -> "degraded"
    [] Sources(V, "up") = {} /\ Cardinality(Sources(V, "down")) >= MinFailureSources -> "down"
    [] \A k \in DOMAIN V : V[k] = "up"    -> "up"
    [] \A k \in DOMAIN V : V[k] = "stale" -> "stale"
    [] OTHER -> "unknown"

(* aggregate_check: malformed says that a sample was rejected for a label.  *)
Aggregate(R, malformed, now) ==
  LET V     == [k \in DOMAIN R |-> View(R[k], now)]
      parts == {PartStatus([k \in {q \in DOMAIN V : q[2] = s} |-> V[k]]) :
                  s \in {k[2] : k \in DOMAIN R}}
  IN  IF "down" \in parts THEN "down"
      ELSE IF "degraded" \in parts THEN "degraded"
      ELSE IF malformed THEN "unknown"
      ELSE CASE parts = {"up"}    -> "up"
             [] parts = {"stale"} -> "stale"
             [] OTHER             -> "unknown"
=============================================================================
