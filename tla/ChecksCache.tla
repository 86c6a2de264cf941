----------------------------- MODULE ChecksCache -----------------------------
(***************************************************************************)
(* The Checks screen of a node: requests share a snapshot of a few seconds  *)
(* and, when it has expired, one refresh of it from Prometheus, which keeps *)
(* what the snapshot before it knew (ChecksSnapshotCache and                *)
(* refresh_checks_snapshot in application/checks.py, api/checks.py).        *)
(*                                                                          *)
(* Executors run and may be reconfigured; a datasource may not have their   *)
(* last run yet, or nothing of them. A request may be cancelled while it    *)
(* waits. The end of a refresh and the wakeup of those that wait for it are *)
(* one step: the two turns of the event loop in between are left out.       *)
(***************************************************************************)
EXTENDS CheckSnapshots

CONSTANTS Caller,     \* requests
          Impatient,  \* those that may be cancelled
          Nobody,     \* no request
          Home,       \* Home[e]: the scenario an executor starts with
          Skew,       \* Skew[e]: how far its clock is ahead
          Movable,    \* executors that may be given another scenario
          Described,  \* executors that may have an info row
          Replicated, \* executors that several datasources report
          Faulty,     \* executors that may export what is rejected
          TTL,        \* checks_cache_ttl_seconds
          Ends,       \* bound: how runs end
          MaxRuns,    \* MaxRuns[e]: bound on its runs
          EndOfTime   \* bound on the clock

ASSUME CacheAssumption ==
  /\ Impatient \subseteq Caller /\ Nobody \notin Caller
  /\ Home \in [Executor -> Scenario]
  /\ Skew \in [Executor -> Nat] /\ MaxRuns \in [Executor -> Nat]
  /\ Ends \subseteq Outcome
  /\ TTL \in Nat \ {0} /\ EndOfTime \in Nat

VARIABLES
  now,       \* the clock
  runs,      \* runs[e]: runs of an executor; made is the true instant
  snapshot,  \* _snapshot
  expires,   \* _expires_monotonic
  refresh,   \* _refresh_task: the request that created the task, or Nobody
  task,      \* task[c]: the task c has created
  waits      \* waits[c]: the creator of the task c awaits, or Nobody

vars == <<now, runs, snapshot, expires, refresh, task, waits>>

(* evaluated: evaluated_at, 0 when there is no snapshot; fetched: fetched_at*)
(* malformed: the check has the diagnostic invalid_identifier. inventory:   *)
(* the keys that an authoritative info response declared.                   *)
NoSnapshot == [evaluated |-> 0, fetched |-> 0, results |-> <<>>, malformed |-> FALSE, inventory |-> {}]

NoTask == [state |-> "none", evaluated |-> 0, previous |-> NoSnapshot, result |-> NoSnapshot]

-----------------------------------------------------------------------------
(* Executors and datasources *)

Last(S) == CHOOSE r \in S : \A q \in S : q.made <= r.made

(* What replicas may have of e at an instant: its last run or the one       *)
(* before; before its first run an executor exports an unknown state at 0.  *)
Exported(e, t, which) ==
  LET past == {r \in runs[e] : r.made <= t}
      lag  == IF e \in Replicated THEN past \ {Last(past)} ELSE {}
  IN  (IF "last" \in which THEN {Last(past)} ELSE {})
      \cup {r \in lag : "before" \in which /\ \A q \in lag : q.made <= r.made}

(* Everything the datasources may answer at instant t; the rows of an       *)
(* optional query that failed are dropped.                                  *)
Answers(t) ==
  {[evaluated |-> t, runs |-> [e \in Executor |-> Exported(e, t, which[e])],
    infoOk |-> infoOk, info |-> info, bad |-> bad, garbled |-> garbled, stateOk |-> stateOk] :
     which \in {f \in [Executor -> SUBSET {"last", "before"}] :
                 \A e \in Executor \ Replicated : "before" \notin f[e]},
     infoOk \in BOOLEAN, info \in SUBSET Described, bad \in SUBSET Faulty,
     garbled \in SUBSET Faulty, stateOk \in BOOLEAN}

-----------------------------------------------------------------------------
(* refresh_checks_snapshot: every query at the evaluation time of the task. *)

Refreshed(x, prev) ==
  [evaluated |-> x.evaluated,
   fetched   |-> now,
   results   |-> normalize(x, prev.results),
   malformed |-> \E e \in x.garbled : x.runs[e] # {},
   inventory |-> IF Authoritative(x) THEN InfoKeys(x) ELSE {}]

Init ==
  /\ now = 1
  /\ runs = [e \in Executor |-> {[made |-> 0, at |-> 0, result |-> "error", scen |-> Home[e]]}]
  /\ snapshot = NoSnapshot
  /\ expires = 0
  /\ refresh = Nobody
  /\ task = [c \in Caller |-> NoTask]
  /\ waits = [c \in Caller |-> Nobody]

Tick ==
  /\ now < EndOfTime
  /\ now' = now + 1
  /\ UNCHANGED <<runs, snapshot, expires, refresh, task, waits>>

(* An executor ends a run, possibly the first under a new configuration.    *)
Run(e, result, scen) ==
  /\ Cardinality(runs[e]) <= MaxRuns[e]
  /\ Last(runs[e]).made < now
  /\ e \in Movable \/ scen = Last(runs[e]).scen
  /\ runs' = [runs EXCEPT ![e] = @ \cup
                {[made |-> now, at |-> now + Skew[e], result |-> result, scen |-> scen]}]
  /\ UNCHANGED <<now, snapshot, expires, refresh, task, waits>>

Stale == now >= expires

(* Variant: every request has a task of its own. *)
CreatesTaskAlways(c) == task[c] = NoTask

(* A task is created unless there is one that was not cancelled itself. *)
CreatesTask(c) == refresh = Nobody /\ task[c] = NoTask

(* get_or_refresh up to the await. A request that finds a fresh snapshot    *)
(* changes nothing.                                                         *)
Ask(c) ==
  /\ waits[c] = Nobody /\ Stale /\ CreatesTask(c)
  /\ task' = [task EXCEPT ![c] =
                [NoTask EXCEPT !.state = "running", !.evaluated = now, !.previous = snapshot]]
  /\ refresh' = c
  /\ waits' = [waits EXCEPT ![c] = c]
  /\ UNCHANGED <<now, runs, snapshot, expires>>

Join(c) ==
  /\ waits[c] = Nobody /\ Stale /\ ~ CreatesTask(c)
  /\ refresh # Nobody /\ task[refresh].state = "running"
  /\ waits' = [waits EXCEPT ![c] = refresh]
  /\ UNCHANGED <<now, runs, snapshot, expires, refresh, task>>

(* A request gets the outcome of task o: its snapshot becomes the shared one*)
(* for TTL, or the answer is 503 with the shared one as last known. The     *)
(* finally clause forgets the task.                                         *)
Deliver(o, outcome) ==
  /\ IF outcome.state = "done"
     THEN snapshot' = outcome.result /\ expires' = now + TTL
     ELSE UNCHANGED <<snapshot, expires>>
  /\ refresh' = IF refresh = o THEN Nobody ELSE refresh
  /\ task' = [task EXCEPT ![o] = NoTask]

(* It was created by a request that did not live to see it finish. *)
Collect(c) ==
  /\ waits[c] = Nobody /\ Stale
  /\ refresh # Nobody /\ task[refresh].state \in {"done", "failed"}
  /\ Deliver(refresh, task[refresh])
  /\ UNCHANGED <<now, runs, waits>>

Outcomes(c) ==
  {[NoTask EXCEPT !.state = "done", !.result = Refreshed(x, task[c].previous)] :
     x \in {y \in Answers(task[c].evaluated) :
              y.bad \subseteq y.info /\ (y.info = {} \/ y.infoOk)}}
  \cup {[NoTask EXCEPT !.state = "failed"]}

(* The datasources have answered: status, last run and the limits allow a   *)
(* snapshot, or raise ChecksDataError. Those that wait get it.              *)
Finish(c) ==
  /\ task[c].state = "running"
  /\ \E outcome \in Outcomes(c) :
        IF \E d \in Caller : waits[d] = c
        THEN Deliver(c, outcome)
        ELSE /\ task' = [task EXCEPT ![c] = outcome]
             /\ UNCHANGED <<snapshot, expires, refresh>>
  /\ waits' = [d \in Caller |-> IF waits[d] = c THEN Nobody ELSE waits[d]]
  /\ UNCHANGED <<now, runs>>

(* The await is shielded: the task goes on. *)
Cancel(c) ==
  /\ c \in Impatient /\ waits[c] # Nobody
  /\ waits' = [waits EXCEPT ![c] = Nobody]
  /\ UNCHANGED <<now, runs, snapshot, expires, refresh, task>>

Next ==
  \/ Tick
  \/ \E e \in Executor, o \in Ends, s \in Scenario : Run(e, o, s)
  \/ \E c \in Caller : Ask(c) \/ Join(c) \/ Collect(c) \/ Finish(c) \/ Cancel(c)

Spec == Init /\ [][Next]_vars

-----------------------------------------------------------------------------
(* What the API says of the check, now, whether the refresh succeeded or    *)
(* not: api/checks.py.                                                      *)

Known == {k[1] : k \in DOMAIN snapshot.results}

Status == Aggregate(snapshot.results, snapshot.malformed, now)

-----------------------------------------------------------------------------
(* Properties *)

Fresh(e, result) ==
  \E r \in runs[e] : r.made > 0 /\ r.result = result /\ now - r.at <= StaleAfter

(* docs/operations.md, the ordered rules of a status, against what the      *)
(* executors have done: "up" says that every executor ever seen has a recent*)
(* success, also when replicas lag, info rows come and go and executors     *)
(* disappear; "down" that enough sources have a recent failure; "stale" that*)
(* every executor has an expired run.                                       *)
StatusIsEarned ==
  CASE Status = "up"    -> \A e \in Known : Fresh(e, "success")
    [] Status = "down"  ->
         Cardinality({SourceOf[e] : e \in {f \in Known : Fresh(f, "failure")}}) >= MinFailureSources
    [] Status = "stale" ->
         \A e \in Known : \E r \in runs[e] : r.made > 0 /\ now - r.at > StaleAfter
    [] OTHER -> TRUE

(* "hiding the tuple would make coverage look healthier precisely when a    *)
(* region stopped reporting": an executor once shown is never lost.         *)
ExecutorsStay == [][Known \subseteq Known']_vars

(* The shared snapshot never goes back in time nor goes away, whichever     *)
(* request creates, awaits, abandons and stores a refresh.                  *)
Shared == INSTANCE SharedSnapshot WITH
            held <- snapshot.evaluated, Absent <- 0, Droppable <- FALSE
ImplementsSharedSnapshot == Shared!Spec

(* docs/operations.md: "When current authoritative `info` returns, it       *)
(* replaces any provisional default-dimension tuple created during a cold   *)
(* failed refresh."                                                         *)
ProvisionalReplaced ==
  \A k \in snapshot.inventory :
     (snapshot.results[k].at # NoTime /\ \A q \in snapshot.inventory : q[1] = k[1] => q = k)
       => \A q \in DOMAIN snapshot.results :
             q = <<k[1], Default>> => ~ snapshot.results[q].provisional

(* docs/operations.md: "The default cache TTL is five seconds and cannot be *)
(* configured above five seconds." What is served without a refresh has been*)
(* fetched within the TTL.                                                  *)
ServedWithinTTL == ~ Stale => now <= snapshot.fetched + TTL
=============================================================================
