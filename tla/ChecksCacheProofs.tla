--------------------------- MODULE ChecksCacheProofs ---------------------------
(***************************************************************************)
(* Proofs about ChecksCache: requests never run two refreshes at once, so   *)
(* that the shared snapshot implements SharedSnapshot, and no refresh loses *)
(* an executor; what a snapshot says of an executor is what it has done, so *)
(* that statuses are earned and provisional results replaced.               *)
(***************************************************************************)
EXTENDS ChecksCache, FiniteSetTheorems, WellFoundedInduction, TLAPS

KnownIn(s) == {k[1] : k \in DOMAIN s.results}

(* A result that may be published: of an instant between that of the shared *)
(* snapshot and now, and of no fewer executors.                             *)
Follows(s) ==
  /\ s.evaluated \in Nat
  /\ snapshot.evaluated <= s.evaluated /\ s.evaluated <= now
  /\ KnownIn(snapshot) \subseteq KnownIn(s)
  /\ KnownIn(s) \subseteq Executor

TaskStates == {"none", "running", "done", "failed"}

TypeInv ==
  /\ now \in Nat
  /\ refresh \in Caller \cup {Nobody}
  /\ DOMAIN task = Caller
  /\ waits \in [Caller -> Caller \cup {Nobody}]
  /\ Follows(snapshot)

(* One task at most is under way, and requests wait for that one only, and  *)
(* only while it runs.                                                      *)
SingleFlight ==
  /\ \A c \in Caller : task[c].state # "none" => refresh = c
  /\ \A c \in Caller : task[c].state \in TaskStates
  /\ \A c \in Caller : task[c].state = "none" => task[c] = NoTask
  /\ \A c \in Caller : waits[c] # Nobody => waits[c] = refresh /\ task[refresh].state = "running"

(* A running task began from the shared snapshot, a finished one has a      *)
(* result that may replace it.                                              *)
TasksFollow ==
  \A c \in Caller :
    /\ task[c].state = "running" =>
         /\ task[c].previous = snapshot
         /\ task[c].evaluated \in Nat
         /\ snapshot.evaluated <= task[c].evaluated /\ task[c].evaluated <= now
    /\ task[c].state = "done" => Follows(task[c].result)

IndInv == TypeInv /\ SingleFlight /\ TasksFollow
-----------------------------------------------------------------------------
(* Whatever the datasources answer, the results of a refresh are of every   *)
(* executor that the results before were of.                                *)
LEMMA NormalizeKeepsExecutors ==
  ASSUME NEW x, NEW prev, NEW k \in DOMAIN prev, k[1] \in Executor
  PROVE  \E q \in DOMAIN normalize(x, prev) : q[1] = k[1]
<1> DEFINE S == Samples(x, prev)
           primary == {s.key : s \in S} \cup InfoKeys(x)
<1>1. DOMAIN normalize(x, prev) = primary \cup Retained(x, prev, S, primary)
  BY DEF normalize
<1>2. CASE k \in primary \cup Retained(x, prev, S, primary)
  BY <1>1, <1>2
<1>3. CASE k \notin primary \cup Retained(x, prev, S, primary)
  <2>1. Superseded(x, prev, k) \/ Rekeyed(x, prev, S, k)
    BY <1>3 DEF Retained
  <2>2. CASE Superseded(x, prev, k)
    <3>1. PICK s : s \in Declared(x, k[1])
      BY <2>2 DEF Superseded
    <3>2. <<k[1], s>> \in {<<k[1], d>> : d \in Declared(x, k[1])}
      BY <3>1
    <3>3. <<k[1], s>> \in InfoKeys(x)
      BY <3>2 DEF InfoKeys
    <3> QED BY <1>1, <3>3
  <2>3. CASE Rekeyed(x, prev, S, k)
    <3>1. PICK s \in S : s.key = <<k[1], Only(Declared(x, k[1]))>>
      BY <2>3 DEF Rekeyed
    <3>2. <<k[1], Only(Declared(x, k[1]))>> \in primary
      BY <3>1
    <3> QED BY <1>1, <3>2
  <2> QED BY <2>1, <2>2, <2>3
<1> QED BY <1>2, <1>3

(* And of no others but those that the datasources report. *)
LEMMA NormalizeNamesExecutors ==
  ASSUME NEW x, NEW prev, \A k \in DOMAIN prev : k[1] \in Executor
  PROVE  \A q \in DOMAIN normalize(x, prev) : q[1] \in Executor
<1> DEFINE S == Samples(x, prev)
           primary == {s.key : s \in S} \cup InfoKeys(x)
<1>1. DOMAIN normalize(x, prev) = primary \cup Retained(x, prev, S, primary)
  BY DEF normalize
<1>2. \A q \in InfoKeys(x) : q[1] \in Executor
  BY DEF InfoKeys
<1>3. \A s \in S : s.key[1] \in Executor
  <2>1. TAKE s \in S
  <2>2. PICK e \in Executor : s \in {Accepted(x, prev, e, r) : r \in x.runs[e]}
    BY DEF Samples
  <2>3. PICK r : s = Accepted(x, prev, e, r)
    BY <2>2
  <2>4. s.key[1] = e
    BY <2>3 DEF Accepted
  <2> QED BY <2>4
<1>4. \A q \in Retained(x, prev, S, primary) : q[1] \in Executor
  BY DEF Retained
<1> QED BY <1>1, <1>2, <1>3, <1>4
-----------------------------------------------------------------------------
(* A refresh that began from the shared snapshot may replace it.            *)
LEMMA RefreshFollows ==
  ASSUME TypeInv, NEW t \in Nat, snapshot.evaluated <= t, t <= now,
         NEW x \in Answers(t)
  PROVE  Follows(Refreshed(x, snapshot))
<1> DEFINE new == Refreshed(x, snapshot)
<1>1. x.evaluated = t
  BY DEF Answers
<1>2. new.evaluated = t
  BY <1>1 DEF Refreshed
<1>3. new.results = normalize(x, snapshot.results)
  BY DEF Refreshed
<1>4. \A k \in DOMAIN snapshot.results : k[1] \in Executor
  BY DEF TypeInv, Follows, KnownIn
<1>5. KnownIn(snapshot) \subseteq KnownIn(new)
  <2>1. SUFFICES ASSUME NEW k \in DOMAIN snapshot.results
                 PROVE  k[1] \in KnownIn(new)
    BY DEF KnownIn
  <2>2. PICK q \in DOMAIN new.results : q[1] = k[1]
    BY <1>3, <1>4, NormalizeKeepsExecutors
  <2> QED BY <2>2 DEF KnownIn
<1>6. \A q \in DOMAIN new.results : q[1] \in Executor
  BY <1>3, <1>4, NormalizeNamesExecutors
<1>7. KnownIn(new) \subseteq Executor
  BY <1>6 DEF KnownIn
<1> QED BY <1>2, <1>5, <1>7 DEF Follows

(* There is nothing to follow yet, and no task.                             *)
LEMMA InitEstablishesIndInv == Init => IndInv
<1> SUFFICES ASSUME Init PROVE IndInv
  OBVIOUS
<1>1. KnownIn(snapshot) = {}
  <2>1. snapshot.results = <<>>
    BY DEF Init, NoSnapshot
  <2>2. DOMAIN snapshot.results = {}
    BY <2>1
  <2> QED BY <2>2 DEF KnownIn
<1>2. TypeInv
  BY <1>1, CacheAssumption DEF Init, TypeInv, Follows, NoSnapshot
<1>3. SingleFlight
  BY CacheAssumption DEF Init, SingleFlight, NoTask, TaskStates
<1>4. TasksFollow
  BY DEF Init, TasksFollow, NoTask
<1> QED BY <1>2, <1>3, <1>4 DEF IndInv

(* A refresh task o that was under way is delivered: it is the only one, so *)
(* that nothing is left that follows the snapshot before.                   *)
LEMMA DeliverPreserves ==
  ASSUME IndInv, NEW o \in Caller, NEW outcome, refresh = o, UNCHANGED now,
         Deliver(o, outcome),
         outcome.state = "done" => Follows(outcome.result),
         waits' \in [Caller -> Caller \cup {Nobody}],
         \A d \in Caller : waits'[d] = Nobody
  PROVE  /\ IndInv'
         /\ Follows(snapshot')
<1>1. Follows(snapshot') /\ Follows(snapshot)'
  <2>1. CASE outcome.state = "done"
    BY <2>1 DEF Deliver, Follows, IndInv, TypeInv
  <2>2. CASE outcome.state # "done"
    BY <2>2 DEF Deliver, Follows, IndInv, TypeInv
  <2> QED BY <2>1, <2>2
<1>2. refresh' = Nobody
  BY DEF Deliver
<1>3. \A c \in Caller : task'[c] = NoTask
  BY DEF Deliver, IndInv, TypeInv, SingleFlight
<1>4. TypeInv'
  BY <1>1, <1>2 DEF TypeInv, IndInv, Deliver
<1>5. SingleFlight'
  BY <1>3 DEF SingleFlight, TaskStates, NoTask
<1>6. TasksFollow'
  BY <1>3 DEF TasksFollow, NoTask
<1> QED BY <1>1, <1>4, <1>5, <1>6 DEF IndInv

(* Whatever the datasources answer, the outcome of a task may be published. *)
LEMMA OutcomesFollow ==
  ASSUME IndInv, NEW c \in Caller, task[c].state = "running", NEW outcome \in Outcomes(c)
  PROVE  /\ outcome.state \in {"done", "failed"}
         /\ outcome.state = "done" => Follows(outcome.result)
<1>1. /\ task[c].previous = snapshot /\ task[c].evaluated \in Nat
      /\ snapshot.evaluated <= task[c].evaluated /\ task[c].evaluated <= now
  BY DEF IndInv, TasksFollow
<1>2. CASE outcome = [NoTask EXCEPT !.state = "failed"]
  BY <1>2 DEF NoTask
<1>3. CASE outcome # [NoTask EXCEPT !.state = "failed"]
  <2>1. PICK x \in Answers(task[c].evaluated) :
          outcome = [NoTask EXCEPT !.state = "done", !.result = Refreshed(x, task[c].previous)]
    BY <1>3 DEF Outcomes
  <2>2. Follows(Refreshed(x, task[c].previous))
    BY <1>1, RefreshFollows DEF IndInv
  <2> QED BY <2>1, <2>2 DEF NoTask
<1> QED BY <1>2, <1>3

(* What a step does to the shared snapshot is what an outcome may do. *)
LEMMA StepPreservesIndInv ==
  ASSUME IndInv, [Next]_vars
  PROVE  IndInv' /\ Follows(snapshot')
<1> USE DEF IndInv
<1>1. CASE UNCHANGED vars
  BY <1>1 DEF vars, TypeInv, SingleFlight, TasksFollow, Follows
<1>2. CASE Tick
  BY <1>2 DEF Tick, TypeInv, SingleFlight, TasksFollow, Follows
<1>3. ASSUME NEW e \in Executor, NEW r \in Ends, NEW s \in Scenario, Run(e, r, s)
      PROVE  IndInv' /\ Follows(snapshot')
  BY <1>3 DEF Run, TypeInv, SingleFlight, TasksFollow, Follows
<1>4. ASSUME NEW c \in Caller, Ask(c)
      PROVE  IndInv' /\ Follows(snapshot')
  <2>1. Follows(snapshot')
    BY <1>4 DEF Ask, TypeInv
  <2>2. TypeInv'
    BY <1>4 DEF Ask, TypeInv, Follows
  <2>3. \A d \in Caller : task[d].state = "none"
    BY <1>4, CacheAssumption DEF Ask, CreatesTask, SingleFlight
  <2>4. task'[c] = [NoTask EXCEPT !.state = "running", !.evaluated = now, !.previous = snapshot]
    BY <1>4 DEF Ask, TypeInv
  <2>5. \A d \in Caller \ {c} : task'[d] = task[d] /\ waits'[d] = waits[d]
    BY <1>4 DEF Ask, TypeInv
  <2>6. \A d \in Caller : waits[d] = Nobody
    BY <1>4, CacheAssumption DEF Ask, CreatesTask, SingleFlight, TypeInv
  <2>7. SingleFlight'
    BY <1>4, <2>3, <2>4, <2>5, <2>6 DEF Ask, SingleFlight, TypeInv, NoTask, TaskStates
  <2>8. TasksFollow'
    BY <1>4, <2>3, <2>4, <2>5 DEF Ask, TasksFollow, TypeInv, Follows, NoTask
  <2> QED BY <2>1, <2>2, <2>7, <2>8
<1>5. ASSUME NEW c \in Caller, Join(c)
      PROVE  IndInv' /\ Follows(snapshot')
  BY <1>5 DEF Join, TypeInv, SingleFlight, TasksFollow, Follows
<1>6. ASSUME NEW c \in Caller, Collect(c)
      PROVE  IndInv' /\ Follows(snapshot')
  <2>1. refresh \in Caller
    BY <1>6 DEF Collect, TypeInv
  <2>2. task[refresh].state = "done" => Follows(task[refresh].result)
    BY <2>1 DEF TasksFollow
  <2>3. \A d \in Caller : waits'[d] = Nobody
    BY <1>6 DEF Collect, SingleFlight
  <2> QED BY <1>6, <2>1, <2>2, <2>3, DeliverPreserves DEF Collect, TypeInv
<1>7. ASSUME NEW c \in Caller, Finish(c)
      PROVE  IndInv' /\ Follows(snapshot')
  <2>1. refresh = c
    BY <1>7 DEF Finish, SingleFlight
  <2>2. \A d \in Caller : waits'[d] = Nobody
    BY <1>7, <2>1 DEF Finish, SingleFlight
  <2>3. waits' \in [Caller -> Caller \cup {Nobody}]
    BY <1>7 DEF Finish, TypeInv
  <2>4. PICK outcome \in Outcomes(c) :
          IF \E d \in Caller : waits[d] = c
          THEN Deliver(c, outcome)
          ELSE /\ task' = [task EXCEPT ![c] = outcome]
               /\ UNCHANGED <<snapshot, expires, refresh>>
    BY <1>7 DEF Finish
  <2>5. /\ outcome.state \in {"done", "failed"}
        /\ outcome.state = "done" => Follows(outcome.result)
    BY <1>7, OutcomesFollow DEF Finish
  <2>6. CASE \E d \in Caller : waits[d] = c
    BY <1>7, <2>1, <2>2, <2>3, <2>4, <2>5, <2>6, DeliverPreserves DEF Finish
  <2>7. CASE ~ \E d \in Caller : waits[d] = c
    <3>1. /\ task' = [task EXCEPT ![c] = outcome]
          /\ UNCHANGED <<now, snapshot, expires, refresh>>
      BY <1>7, <2>4, <2>7 DEF Finish
    <3>2. TypeInv'
      BY <2>3, <3>1 DEF TypeInv, Follows
    <3>3. SingleFlight'
      BY <2>1, <2>2, <2>5, <3>1 DEF SingleFlight, TypeInv, TaskStates
    <3>4. TasksFollow'
      BY <2>5, <3>1 DEF TasksFollow, TypeInv, Follows
    <3> QED BY <3>1, <3>2, <3>3, <3>4 DEF TypeInv
  <2> QED BY <2>6, <2>7
<1>8. ASSUME NEW c \in Caller, Cancel(c)
      PROVE  IndInv' /\ Follows(snapshot')
  BY <1>8 DEF Cancel, TypeInv, SingleFlight, TasksFollow, Follows
<1> QED BY <1>1, <1>2, <1>3, <1>4, <1>5, <1>6, <1>7, <1>8 DEF Next

(* One task at a time, and each from the snapshot that is shared meanwhile. *)
LEMMA IndInvHolds == Spec => []IndInv
<1>1. IndInv /\ [Next]_vars => IndInv'
  BY StepPreservesIndInv
<1> QED BY <1>1, InitEstablishesIndInv, PTL DEF Spec
-----------------------------------------------------------------------------
(* An executor once shown is never lost, whatever datasources answer, which *)
(* replicas lag, and whichever requests are cancelled: the code's "hiding   *)
(* the tuple would make coverage look healthier".                           *)
THEOREM ExecutorsAreNeverLost == Spec => ExecutorsStay
<1>1. IndInv /\ [Next]_vars => [Known \subseteq Known']_vars
  <2> SUFFICES ASSUME IndInv, [Next]_vars PROVE Known \subseteq Known'
    OBVIOUS
  <2>1. Follows(snapshot')
    BY StepPreservesIndInv
  <2> QED BY <2>1 DEF Follows, KnownIn, Known
<1> QED BY <1>1, IndInvHolds, PTL DEF Spec, ExecutorsStay

(* The shared snapshot of the Checks screen is a SharedSnapshot: however    *)
(* requests create, join, abandon and collect refreshes, a result is stored *)
(* only over one that was evaluated before it.                              *)
THEOREM ChecksImplementSharedSnapshot == Spec => ImplementsSharedSnapshot
<1>1. Init => Shared!Init
  BY DEF Init, Shared!Init, NoSnapshot
<1>2. IndInv /\ [Next]_vars => [Shared!Next]_<<now, snapshot.evaluated>>
  <2> SUFFICES ASSUME IndInv, [Next]_vars
               PROVE  Shared!Next \/ UNCHANGED <<now, snapshot.evaluated>>
    OBVIOUS
  <2>1. Follows(snapshot') /\ IndInv'
    BY StepPreservesIndInv
  <2>2. CASE UNCHANGED vars
    BY <2>2 DEF vars
  <2>3. CASE Tick
    BY <2>3 DEF Tick, Shared!Next, Shared!Tick
  <2>4. CASE ~ Tick /\ ~ UNCHANGED vars
    <3>1. UNCHANGED now
      BY <2>4 DEF Next, Run, Ask, Join, Collect, Finish, Cancel
    <3>2. Shared!Publish
      BY <2>1, <3>1 DEF Shared!Publish, Follows, IndInv, TypeInv
    <3> QED BY <3>2 DEF Shared!Next
  <2> QED BY <2>2, <2>3, <2>4
<1> QED BY <1>1, <1>2, IndInvHolds, PTL DEF Spec, ImplementsSharedSnapshot, Shared!Spec
-----------------------------------------------------------------------------
(* What is shown is what executors have done                                *)

RunsInv ==
  /\ DOMAIN runs = Executor
  /\ \A e \in Executor :
       /\ IsFiniteSet(runs[e])
       /\ \A r \in runs[e] :
            /\ r.made \in Nat /\ r.at \in Nat /\ r.made <= now
            /\ r.scen \in Scenario /\ r.result \in Outcome
            /\ r.made = 0 => r.result = "error" /\ r.at = 0
       /\ \E r \in runs[e] : r.made = 0

(* The value v of key k is that of a run; a time stays when the result of   *)
(* its run is no longer known. Who labels the scenario of his runs is never *)
(* given the default one.                                                   *)
Honest(k, v) ==
  /\ v.at # NoTime => \E r \in runs[k[1]] : r.made > 0 /\ r.at = v.at
  /\ v.at # NoTime /\ v.success # "none" =>
       \E r \in runs[k[1]] : r.made > 0 /\ r.at = v.at /\ r.result = v.success
  /\ v.provisional => k[1] \notin Labelled

HonestResults(R) == \A k \in DOMAIN R : k[1] \in Executor /\ Honest(k, R[k])

(* ProvisionalReplaced of a snapshot. *)
Replaced(s) ==
  \A k \in s.inventory :
     (s.results[k].at # NoTime /\ \A q \in s.inventory : q[1] = k[1] => q = k)
       => \A q \in DOMAIN s.results :
             q = <<k[1], Default>> => ~ s.results[q].provisional

HonestSnapshot(s) == HonestResults(s.results) /\ Replaced(s)

HonestInv ==
  /\ RunsInv
  /\ HonestSnapshot(snapshot)
  /\ \A c \in Caller : task[c].state = "done" => HonestSnapshot(task[c].result)

(* Some run is the last one. *)
LEMMA LastExists ==
  ASSUME NEW N \in Nat, NEW S, S # {}, \A r \in S : r.made \in Nat /\ r.made <= N
  PROVE  Last(S) \in S /\ \A q \in S : q.made <= Last(S).made
<1> DEFINE D == {N - r.made : r \in S}
<1>1. D \subseteq Nat /\ D # {}
  OBVIOUS
<1>2. PICK x \in D : \A y \in D : ~ (<<y, x>> \in OpToRel(<, Nat))
  <2> HIDE DEF D
  <2> QED BY <1>1, NatLessThanWellFounded, WFMin
<1>3. PICK r \in S : x = N - r.made
  OBVIOUS
<1>4. ASSUME NEW q \in S
      PROVE  q.made <= r.made
  <2>1. N - q.made \in D /\ N - q.made \in Nat /\ x \in Nat
    BY <1>1
  <2>2. ~ (N - q.made < x)
    BY <1>2, <2>1 DEF OpToRel
  <2>3. q.made \in Int /\ r.made \in Int
    OBVIOUS
  <2> QED BY <1>3, <2>2, <2>3
<1> QED BY <1>4 DEF Last

(* Datasources report runs that have been. *)
LEMMA AnswersAreRuns ==
  ASSUME RunsInv, now \in Nat, NEW t \in Nat, NEW x \in Answers(t)
  PROVE  /\ x.evaluated = t /\ x.infoOk \in BOOLEAN
         /\ \A e \in Executor : x.runs[e] \subseteq runs[e]
<1>1. x.evaluated = t /\ x.infoOk \in BOOLEAN
  BY DEF Answers
<1>2. PICK which : x.runs = [e \in Executor |-> Exported(e, t, which[e])]
  BY DEF Answers
<1>3. ASSUME NEW e \in Executor, NEW w
      PROVE  Exported(e, t, w) \subseteq runs[e]
  <2> DEFINE past == {r \in runs[e] : r.made <= t}
  <2>1. past # {} /\ \A r \in past : r.made \in Nat /\ r.made <= now
    BY DEF RunsInv
  <2>2. Last(past) \in past
    <3> HIDE DEF past
    <3> QED BY <2>1, LastExists
  <2> QED BY <2>2 DEF Exported
<1> QED BY <1>1, <1>2, <1>3

(* One of a set that has one. *)
LEMMA OnlyOne ==
  ASSUME NEW S, IsFiniteSet(S), Cardinality(S) = 1
  PROVE  S = {Only(S)}
<1>1. PICK v : S = {v}
  BY FS_Singleton
<1> QED BY <1>1 DEF Only

(* What a finite set of runs has for a field is finite. *)
LEMMA FiniteTimes ==
  ASSUME NEW S, IsFiniteSet(S)
  PROVE  IsFiniteSet({r.at : r \in S}) /\ IsFiniteSet({r.scen : r \in S})
<1> DEFINE f == [r \in S |-> r.at]
           g == [r \in S |-> r.scen]
<1>1. f \in Surjection(S, {r.at : r \in S}) /\ g \in Surjection(S, {r.scen : r \in S})
  BY DEF Surjection
<1> HIDE DEF f, g
<1> QED BY <1>1, FS_Surjection

(* The samples of a key are runs of its executor. *)
LEMMA SamplesOfKey ==
  ASSUME NEW x, NEW prev, NEW k, NEW s \in Samples(x, prev), s.key = k
  PROVE  /\ k[1] \in Executor /\ s.run \in x.runs[k[1]]
         /\ s = Accepted(x, prev, k[1], s.run)
<1>1. PICK e \in Executor : s \in {Accepted(x, prev, e, r) : r \in x.runs[e]}
  BY DEF Samples
<1>2. PICK r \in x.runs[e] : s = Accepted(x, prev, e, r)
  BY <1>1
<1>3. s.key[1] = e /\ s.run = r
  BY <1>2 DEF Accepted
<1> QED BY <1>2, <1>3

(* A result that is computed is honest. *)
LEMMA ResultIsHonest ==
  ASSUME RunsInv, NEW x, \A e \in Executor : x.runs[e] \subseteq runs[e],
         NEW prev, HonestResults(prev),
         NEW k, k[1] \in Executor
  PROVE  Honest(k, Result(x, prev, Samples(x, prev), k))
<1> DEFINE S       == Samples(x, prev)
           mine    == {s \in S : s.key = k}
           ended   == {s.run.result : s \in mine}
           times   == {s.run.at : s \in mine}
           success == Reconcile(ended \cap {"success", "failure"}, IF x.stateOk THEN ended ELSE {})
           at      == LastRun(times, x.evaluated, success)
           v       == Result(x, prev, S, k)
           kept    == k \in DOMAIN prev /\ ~ Authoritative(x)
<1>1. /\ v.success = success /\ v.at = at
      /\ v.provisional <=> \/ (~ x.infoOk /\ \E s \in mine : s.defaulted)
                           \/ (kept /\ prev[k].provisional)
  BY DEF Result
<1>2. \A s \in mine : /\ s.run \in x.runs[k[1]] /\ s.run \in runs[k[1]]
                      /\ s = Accepted(x, prev, k[1], s.run)
  BY SamplesOfKey
<1>3. IsFiniteSet(runs[k[1]])
  BY DEF RunsInv
<1>4. IsFiniteSet(times)
  <2> DEFINE T == {r.at : r \in runs[k[1]]}
  <2>1. IsFiniteSet(T)
    BY <1>3, FiniteTimes
  <2>2. times \subseteq T
    BY <1>2
  <2> QED BY <2>1, <2>2, FS_Subset
<1>5. ASSUME at # NoTime
      PROVE  times = {at} /\ ~ (success = "none" /\ times = {0})
  <2>1. Cardinality(times) = 1 /\ at = Only(times) /\ ~ (success = "none" /\ times = {0})
    BY <1>5 DEF LastRun
  <2> QED BY <1>4, <2>1, OnlyOne
<1>6. ASSUME success # "none"
      PROVE  /\ success \in {"success", "failure"}
             /\ \E s \in mine : s.run.result = success
  <2> DEFINE B == ended \cap {"success", "failure"}
  <2>1. Cardinality(B) = 1 /\ success = Only(B)
    BY <1>6 DEF Reconcile
  <2>2. IsFiniteSet(B)
    <3>1. IsFiniteSet({"success"} \cup {"failure"})
      BY FS_Singleton, FS_Union
    <3> QED BY <3>1, FS_Subset
  <2>3. success \in B
    BY <2>1, <2>2, OnlyOne
  <2> QED BY <2>3
<1>7. \A r \in runs[k[1]] : r.result \in {"success", "failure"} \/ r.at # 0 => r.made > 0
  BY DEF RunsInv
<1> HIDE DEF success, at, v
<1>8. v.at # NoTime /\ v.success # "none" =>
        \E r \in runs[k[1]] : r.made > 0 /\ r.at = v.at /\ r.result = v.success
  <2> SUFFICES ASSUME at # NoTime, success # "none"
               PROVE  \E r \in runs[k[1]] : r.made > 0 /\ r.at = at /\ r.result = success
    BY <1>1
  <2>1. PICK s \in mine : s.run.result = success
    BY <1>6
  <2>2. s.run.at \in times
    BY <2>1
  <2>3. s.run.at = at
    BY <1>5, <2>2
  <2> QED BY <1>2, <1>6, <1>7, <2>1, <2>3
<1>9. v.at # NoTime => \E r \in runs[k[1]] : r.made > 0 /\ r.at = v.at
  <2> SUFFICES ASSUME at # NoTime, success = "none"
               PROVE  \E r \in runs[k[1]] : r.made > 0 /\ r.at = at
    BY <1>1, <1>8
  <2>1. at # 0 /\ times = {at}
    BY <1>5
  <2>2. PICK s \in mine : s.run.at = at
    BY <2>1
  <2> QED BY <1>2, <1>7, <2>1, <2>2
<1>10. v.provisional => k[1] \notin Labelled
  <2> SUFFICES ASSUME v.provisional, k[1] \in Labelled PROVE FALSE
    OBVIOUS
  <2>1. CASE \E s \in mine : s.defaulted
    <3>1. PICK s \in mine : s.defaulted
      BY <2>1
    <3>2. s.defaulted <=> s.run.scen = Default
      <4>1. s = Accepted(x, prev, k[1], s.run)
        BY <1>2
      <4>2. Accepted(x, prev, k[1], s.run).defaulted <=> s.run.scen = Default
        BY DEF Accepted
      <4> QED BY <4>1, <4>2
    <3>3. s.run.scen \in Scenario
      BY <1>2 DEF RunsInv
    <3> QED BY <3>1, <3>2, <3>3, SnapshotAssumption
  <2>2. CASE kept /\ prev[k].provisional
    BY <2>2 DEF HonestResults, Honest
  <2> QED BY <1>1, <2>1, <2>2
<1> QED BY <1>8, <1>9, <1>10 DEF v, Honest

(* So are those of a refresh: what it does not report stays, without its    *)
(* result.                                                                  *)
LEMMA NormalizeIsHonest ==
  ASSUME RunsInv, NEW x, \A e \in Executor : x.runs[e] \subseteq runs[e],
         NEW prev, HonestResults(prev)
  PROVE  HonestResults(normalize(x, prev))
<1> DEFINE S       == Samples(x, prev)
           primary == {s.key : s \in S} \cup InfoKeys(x)
           kept    == Retained(x, prev, S, primary)
           new     == normalize(x, prev)
<1>1. /\ DOMAIN new = primary \cup kept
      /\ \A k \in primary \cup kept :
           new[k] = IF k \in primary THEN Result(x, prev, S, k) ELSE Missing(prev[k])
  BY DEF normalize
<1>2. \A k \in DOMAIN new : k[1] \in Executor
  <2>1. \A k \in DOMAIN prev : k[1] \in Executor
    BY DEF HonestResults
  <2> QED BY <2>1, NormalizeNamesExecutors
<1>3. ASSUME NEW k \in DOMAIN new
      PROVE  Honest(k, new[k])
  <2>1. CASE k \in primary
    <3>1. new[k] = Result(x, prev, S, k)
      BY <1>1, <2>1
    <3> HIDE DEF new
    <3> QED BY <1>2, <3>1, ResultIsHonest
  <2>2. CASE k \notin primary
    <3>1. new[k] = Missing(prev[k]) /\ k \in DOMAIN prev
      BY <1>1, <2>2 DEF Retained
    <3>2. Honest(k, prev[k])
      BY <3>1 DEF HonestResults
    <3> QED BY <3>1, <3>2 DEF Missing, Honest
  <2> QED BY <2>1, <2>2
<1> HIDE DEF new
<1>4. HonestResults(new)
  BY <1>2, <1>3 DEF HonestResults
<1> QED BY <1>4 DEF new

(* An authoritative info row that is alone for its executor and has a time  *)
(* takes the place of what was provisional.                                 *)
LEMMA RefreshReplaces ==
  ASSUME RunsInv, NEW x, x.infoOk \in BOOLEAN,
         \A e \in Executor : x.runs[e] \subseteq runs[e],
         NEW prev, HonestResults(prev.results)
  PROVE  Replaced(Refreshed(x, prev))
<1> DEFINE old     == prev.results
           S       == Samples(x, old)
           primary == {s.key : s \in S} \cup InfoKeys(x)
           new     == Refreshed(x, prev)
<1>1. /\ DOMAIN new.results = primary \cup Retained(x, old, S, primary)
      /\ \A k \in primary : new.results[k] = Result(x, old, S, k)
      /\ \A k \in Retained(x, old, S, primary) :
           k \notin primary /\ k \in DOMAIN old /\ new.results[k] = Missing(old[k])
      /\ new.inventory = IF Authoritative(x) THEN InfoKeys(x) ELSE {}
  <2>1. new.results = normalize(x, old) /\ new.inventory = IF Authoritative(x) THEN InfoKeys(x) ELSE {}
    BY DEF Refreshed
  <2>2. \A k \in Retained(x, old, S, primary) : k \notin primary /\ k \in DOMAIN old
    BY DEF Retained
  <2>3. normalize(x, old) = [k \in primary \cup Retained(x, old, S, primary) |->
           IF k \in primary THEN Result(x, old, S, k) ELSE Missing(old[k])]
    BY DEF normalize
  <2> HIDE DEF primary, S, new
  <2> QED BY <2>1, <2>2, <2>3
<1> HIDE DEF new
<1> SUFFICES ASSUME NEW k \in new.inventory, new.results[k].at # NoTime,
                    \A q \in new.inventory : q[1] = k[1] => q = k,
                    NEW q \in DOMAIN new.results, q = <<k[1], Default>>,
                    new.results[q].provisional
             PROVE  FALSE
  BY DEF Replaced, new
<1>2. Authoritative(x) /\ k \in InfoKeys(x) /\ x.infoOk
  <2>1. Authoritative(x) /\ k \in InfoKeys(x)
    BY <1>1
  <2>2. x.infoOk
    BY <2>1 DEF Authoritative, HasRows, Declared
  <2> QED BY <2>1, <2>2
<1>3. Declared(x, k[1]) = {k[2]} /\ k = <<k[1], k[2]>>
  <2>1. PICK e \in Executor : k \in {<<e, s>> : s \in Declared(x, e)}
    BY <1>2 DEF InfoKeys
  <2>2. PICK s \in Declared(x, e) : k = <<e, s>>
    BY <2>1
  <2>3. k[1] = e /\ k[2] = s
    BY <2>2
  <2>4. ASSUME NEW t \in Declared(x, e)
        PROVE  t = s
    <3>1. <<e, t>> \in InfoKeys(x)
      BY DEF InfoKeys
    <3>2. <<e, t>> = k
      BY <1>1, <1>2, <2>3, <3>1
    <3> QED BY <2>2, <3>2
  <2> QED BY <2>2, <2>3, <2>4
<1>4. CASE q \in primary
  <2>1. new.results[q] = Result(x, old, S, q)
    BY <1>1, <1>4
  <2>2. ~ Result(x, old, S, q).provisional
    BY <1>2 DEF Result
  <2> QED BY <2>1, <2>2
<1>5. CASE q \notin primary
  <2>1. q \in Retained(x, old, S, primary)
    BY <1>1, <1>5
  <2>2. q \in DOMAIN old /\ new.results[q] = Missing(old[q])
    BY <1>1, <2>1
  <2>3. old[q].provisional
    BY <2>2 DEF Missing
  <2>4. ~ Rekeyed(x, old, S, q)
    BY <1>2, <2>1 DEF Retained
  <2>5. k[1] \notin Labelled
    BY <2>2, <2>3 DEF HonestResults, Honest
  <2>6. Cardinality(Declared(x, k[1])) = 1 /\ Only(Declared(x, k[1])) = k[2]
    <3>1. Cardinality({k[2]}) = 1
      BY FS_Singleton
    <3>2. Only({k[2]}) = k[2]
      BY DEF Only
    <3> QED BY <1>3, <3>1, <3>2
  <2>7. PICK s \in S : s.key = k
    <3> DEFINE mine  == {s \in S : s.key = k}
               times == {s.run.at : s \in mine}
    <3>1. new.results[k] = Result(x, old, S, k)
      BY <1>1, <1>2
    <3>2. Result(x, old, S, k).at # NoTime
      BY <3>1
    <3>3. Cardinality(times) = 1
      BY <3>2 DEF Result, LastRun
    <3>4. Cardinality({}) = 0
      BY FS_EmptySet
    <3>5. ASSUME times = {}
          PROVE  FALSE
      <4>1. Cardinality(times) = 0
        BY <3>4, <3>5, Zenon
      <4> HIDE DEF times
      <4> QED BY <3>3, <4>1
    <3> QED BY <3>5
  <2>8. s.hinted
    <3>1. s = Accepted(x, old, k[1], s.run)
      BY <2>7, SamplesOfKey
    <3>2. Hints(x, old, k[1]) = Declared(x, k[1])
      BY <1>2 DEF Hints
    <3>3. Accepted(x, old, k[1], s.run).hinted <=>
            k[1] \notin Labelled /\ Cardinality(Hints(x, old, k[1])) = 1
      BY DEF Accepted
    <3> QED BY <2>5, <2>6, <3>1, <3>2, <3>3
  <2>9. s.key = <<q[1], Only(Declared(x, q[1]))>> /\ q[1] = k[1] /\ q[2] = Default
    BY <1>3, <2>6, <2>7
  <2> QED BY <2>3, <2>4, <2>6, <2>7, <2>8, <2>9 DEF Rekeyed
<1> QED BY <1>4, <1>5

-----------------------------------------------------------------------------
(* What has run stays, and runs that are added keep results honest. *)
LEMMA RunsStay ==
  ASSUME RunsInv, now \in Nat, [Next]_vars
  PROVE  /\ RunsInv'
         /\ \A e \in Executor : runs[e] \subseteq runs'[e]
<1>1. CASE UNCHANGED runs /\ (now' = now \/ Tick)
  <2>1. now' \in Nat /\ now <= now'
    BY <1>1 DEF Tick
  <2> QED BY <1>1, <2>1 DEF RunsInv
<1>2. ASSUME NEW e \in Executor, NEW o \in Ends, NEW s \in Scenario, Run(e, o, s)
      PROVE  /\ RunsInv'
             /\ \A f \in Executor : runs[f] \subseteq runs'[f]
  <2> DEFINE r == [made |-> now, at |-> now + Skew[e], result |-> o, scen |-> s]
  <2>1. now > 0
    <3>1. runs[e] # {} /\ \A q \in runs[e] : q.made \in Nat /\ q.made <= now
      BY DEF RunsInv
    <3>2. Last(runs[e]) \in runs[e]
      BY <3>1, LastExists
    <3> QED BY <1>2, <3>1, <3>2 DEF Run
  <2>2. now' = now /\ runs' = [runs EXCEPT ![e] = @ \cup {r}]
    BY <1>2 DEF Run
  <2>3. /\ DOMAIN runs' = Executor /\ runs'[e] = runs[e] \cup {r}
        /\ \A f \in Executor \ {e} : runs'[f] = runs[f]
    BY <2>2 DEF RunsInv
  <2>4. /\ r.made \in Nat /\ r.at \in Nat /\ r.made <= now' /\ r.made # 0
        /\ r.scen \in Scenario /\ r.result \in Outcome
    BY <2>1, <2>2, CacheAssumption
  <2> HIDE DEF r
  <2>5. IsFiniteSet(runs'[e])
    BY <2>3, FS_AddElement DEF RunsInv
  <2> QED BY <2>2, <2>3, <2>4, <2>5 DEF RunsInv
<1>3. CASE ~ (UNCHANGED runs /\ (now' = now \/ Tick))
  BY <1>2, <1>3 DEF Next, Tick, Ask, Join, Collect, Deliver, Finish, Cancel, vars
<1> QED BY <1>1, <1>3

(* Nothing that runs are added to becomes dishonest by it. *)
LEMMA HonestyStays ==
  ASSUME \A e \in Executor : runs[e] \subseteq runs'[e],
         NEW s, HonestSnapshot(s)
  PROVE  HonestSnapshot(s)'
BY DEF HonestSnapshot, HonestResults, Honest, Replaced

(* What a refresh that is under way may come to. *)
LEMMA OutcomesHonest ==
  ASSUME IndInv, HonestInv, NEW c \in Caller, task[c].state = "running",
         NEW outcome \in Outcomes(c)
  PROVE  outcome.state = "done" => HonestSnapshot(outcome.result)
<1>1. task[c].previous = snapshot /\ task[c].evaluated \in Nat /\ now \in Nat
  BY DEF IndInv, TasksFollow, TypeInv
<1>2. CASE outcome = [NoTask EXCEPT !.state = "failed"]
  BY <1>2 DEF NoTask
<1>3. CASE outcome # [NoTask EXCEPT !.state = "failed"]
  <2>1. PICK x \in Answers(task[c].evaluated) :
          outcome = [NoTask EXCEPT !.state = "done", !.result = Refreshed(x, snapshot)]
    BY <1>1, <1>3 DEF Outcomes
  <2>2. outcome.result = Refreshed(x, snapshot)
    BY <2>1 DEF NoTask
  <2>3. x.infoOk \in BOOLEAN /\ \A e \in Executor : x.runs[e] \subseteq runs[e]
    BY <1>1, AnswersAreRuns DEF HonestInv
  <2>4. HonestResults(normalize(x, snapshot.results))
    BY <2>3, NormalizeIsHonest DEF HonestInv, HonestSnapshot
  <2>5. Refreshed(x, snapshot).results = normalize(x, snapshot.results)
    BY DEF Refreshed
  <2>6. Replaced(Refreshed(x, snapshot))
    BY <2>3, RefreshReplaces DEF HonestInv, HonestSnapshot
  <2> QED BY <2>2, <2>4, <2>5, <2>6 DEF HonestSnapshot
<1> QED BY <1>2, <1>3

(* Executors begin with a run that nothing is concluded from. *)
LEMMA InitEstablishesHonestInv == Init => HonestInv
<1> SUFFICES ASSUME Init PROVE HonestInv
  OBVIOUS
<1>1. DOMAIN snapshot.results = {} /\ snapshot.inventory = {}
  BY DEF Init, NoSnapshot
<1>2. HonestSnapshot(snapshot)
  BY <1>1 DEF HonestSnapshot, HonestResults, Replaced
<1>3. RunsInv
  <2>1. \A e \in Executor :
          runs[e] = {[made |-> 0, at |-> 0, result |-> "error", scen |-> Home[e]]}
    BY DEF Init
  <2>2. \A e \in Executor : IsFiniteSet(runs[e])
    BY <2>1, FS_Singleton
  <2>3. \A e \in Executor : Home[e] \in Scenario
    BY CacheAssumption
  <2>4. DOMAIN runs = Executor /\ now = 1
    BY DEF Init
  <2>5. \A e \in Executor : \A r \in runs[e] :
          r.made = 0 /\ r.at = 0 /\ r.result = "error" /\ r.scen \in Scenario
    BY <2>1, <2>3
  <2>6. \A e \in Executor : \E r \in runs[e] : r.made = 0
    <3>1. TAKE e \in Executor
    <3>2. [made |-> 0, at |-> 0, result |-> "error", scen |-> Home[e]] \in runs[e]
      BY <2>1
    <3> QED BY <3>2
  <2> QED BY <2>2, <2>4, <2>5, <2>6 DEF RunsInv, Outcome
<1>4. \A c \in Caller : task[c].state # "done"
  BY DEF Init, NoTask
<1> QED BY <1>2, <1>3, <1>4 DEF HonestInv

(* What is stored, and what a task keeps for a request that comes later, is *)
(* an honest outcome.                                                       *)
LEMMA StepPreservesHonestInv ==
  ASSUME IndInv, HonestInv, [Next]_vars
  PROVE  HonestInv'
<1>1. RunsInv' /\ \A e \in Executor : runs[e] \subseteq runs'[e]
  BY RunsStay DEF IndInv, TypeInv, HonestInv
<1>2. /\ HonestSnapshot(snapshot)
      /\ \A c \in Caller : task[c].state = "done" => HonestSnapshot(task[c].result)
  BY DEF HonestInv
<1>3. SUFFICES /\ HonestSnapshot(snapshot')
               /\ \A c \in Caller : task'[c].state = "done" => HonestSnapshot(task'[c].result)
  <2>1. HonestSnapshot(snapshot)'
    BY <1>1, <1>3, HonestyStays
  <2> QED BY <1>1, <1>3, <2>1, HonestyStays DEF HonestInv
<1> USE DEF IndInv, TypeInv
<1>4. CASE UNCHANGED <<snapshot, task>>
  BY <1>2, <1>4
<1>5. ASSUME NEW c \in Caller, Ask(c)
      PROVE  /\ HonestSnapshot(snapshot')
             /\ \A d \in Caller : task'[d].state = "done" => HonestSnapshot(task'[d].result)
  <2>1. snapshot' = snapshot /\ task'[c].state = "running"
    BY <1>5 DEF Ask, NoTask
  <2>2. \A d \in Caller \ {c} : task'[d] = task[d]
    BY <1>5 DEF Ask
  <2> QED BY <1>2, <2>1, <2>2
<1>6. ASSUME NEW o \in Caller, NEW outcome, Deliver(o, outcome),
             outcome.state = "done" => HonestSnapshot(outcome.result)
      PROVE  /\ HonestSnapshot(snapshot')
             /\ \A d \in Caller : task'[d].state = "done" => HonestSnapshot(task'[d].result)
  <2>1. HonestSnapshot(snapshot')
    BY <1>2, <1>6 DEF Deliver
  <2>2. \A d \in Caller : task'[d] = IF d = o THEN NoTask ELSE task[d]
    BY <1>6 DEF Deliver
  <2> QED BY <1>2, <2>1, <2>2 DEF NoTask
<1>7. ASSUME NEW c \in Caller, Collect(c)
      PROVE  /\ HonestSnapshot(snapshot')
             /\ \A d \in Caller : task'[d].state = "done" => HonestSnapshot(task'[d].result)
  <2>1. refresh \in Caller /\ Deliver(refresh, task[refresh])
    BY <1>7 DEF Collect
  <2> QED BY <1>2, <1>6, <2>1
<1>8. ASSUME NEW c \in Caller, Finish(c)
      PROVE  /\ HonestSnapshot(snapshot')
             /\ \A d \in Caller : task'[d].state = "done" => HonestSnapshot(task'[d].result)
  <2>1. PICK outcome \in Outcomes(c) :
          IF \E d \in Caller : waits[d] = c
          THEN Deliver(c, outcome)
          ELSE /\ task' = [task EXCEPT ![c] = outcome]
               /\ UNCHANGED <<snapshot, expires, refresh>>
    BY <1>8 DEF Finish
  <2>2. outcome.state = "done" => HonestSnapshot(outcome.result)
    BY <1>8, OutcomesHonest DEF Finish
  <2>3. CASE \E d \in Caller : waits[d] = c
    BY <1>6, <2>1, <2>2, <2>3
  <2>4. CASE ~ \E d \in Caller : waits[d] = c
    BY <1>2, <2>1, <2>2, <2>4
  <2> QED BY <2>3, <2>4
<1>9. CASE ~ UNCHANGED <<snapshot, task>>
  BY <1>5, <1>7, <1>8, <1>9 DEF Next, vars, Tick, Run, Join, Cancel
<1> QED BY <1>4, <1>9

(* Snapshots are honest in every reachable state. *)
LEMMA HonestInvHolds == Spec => [](IndInv /\ HonestInv)
<1>1. IndInv /\ HonestInv /\ [Next]_vars => IndInv' /\ HonestInv'
  BY StepPreservesIndInv, StepPreservesHonestInv
<1> QED BY <1>1, InitEstablishesIndInv, InitEstablishesHonestInv, PTL DEF Spec
-----------------------------------------------------------------------------
(* An authoritative info row replaces what a refresh without info had to    *)
(* call the default scenario, whatever happened in between: the rule of     *)
(* docs/operations.md for provisional tuples.                               *)
THEOREM ProvisionalsAreReplaced == Spec => []ProvisionalReplaced
<1>1. HonestInv => ProvisionalReplaced
  BY DEF HonestInv, HonestSnapshot, Replaced, ProvisionalReplaced
<1> QED BY <1>1, HonestInvHolds, PTL

(* A scenario is up or stale only if all of its results are, and down only  *)
(* if enough sources are.                                                   *)
LEMMA PartIsJustified ==
  ASSUME NEW V
  PROVE  /\ PartStatus(V) = "up" => \A k \in DOMAIN V : V[k] = "up"
         /\ PartStatus(V) = "stale" => \A k \in DOMAIN V : V[k] = "stale"
         /\ PartStatus(V) = "down" => Cardinality(Sources(V, "down")) >= MinFailureSources
BY DEF PartStatus

(* A check is up or stale only if all of its results are, and down only if  *)
(* a scenario is down at enough sources, of which DownIn are those.         *)
DownIn(V, s) == {SourceOf[k[1]] : k \in {q \in DOMAIN V : q[2] = s /\ V[q] = "down"}}

LEMMA StatusIsJustified ==
  ASSUME NEW R, NEW malformed, NEW t,
         NEW V, V = [k \in DOMAIN R |-> View(R[k], t)]
  PROVE  /\ Aggregate(R, malformed, t) = "up" => \A k \in DOMAIN R : V[k] = "up"
         /\ Aggregate(R, malformed, t) = "stale" => \A k \in DOMAIN R : V[k] = "stale"
         /\ Aggregate(R, malformed, t) = "down" =>
              \E s : Cardinality(DownIn(V, s)) >= MinFailureSources
<1> DEFINE Part(s) == [k \in {q \in DOMAIN V : q[2] = s} |-> V[k]]
           parts   == {PartStatus(Part(s)) : s \in {k[2] : k \in DOMAIN R}}
           status  == Aggregate(R, malformed, t)
<1>1. status = IF "down" \in parts THEN "down"
               ELSE IF "degraded" \in parts THEN "degraded"
               ELSE IF malformed THEN "unknown"
               ELSE CASE parts = {"up"}    -> "up"
                      [] parts = {"stale"} -> "stale"
                      [] OTHER             -> "unknown"
  BY DEF Aggregate
<1>2. \A k \in DOMAIN R : PartStatus(Part(k[2])) \in parts
  OBVIOUS
<1>3. \A k \in DOMAIN R : k \in DOMAIN Part(k[2]) /\ Part(k[2])[k] = V[k]
  OBVIOUS
<1>4. ASSUME "down" \in parts
      PROVE  \E s : Cardinality(DownIn(V, s)) >= MinFailureSources
  <2>1. PICK s : PartStatus(Part(s)) = "down"
    BY <1>4
  <2>2. Cardinality(Sources(Part(s), "down")) >= MinFailureSources
    <3> HIDE DEF Part
    <3> QED BY <2>1, PartIsJustified
  <2>3. {q \in DOMAIN Part(s) : Part(s)[q] = "down"} = {q \in DOMAIN V : q[2] = s /\ V[q] = "down"}
    OBVIOUS
  <2>4. Sources(Part(s), "down") = DownIn(V, s)
    <3> HIDE DEF Part
    <3> QED BY <2>3 DEF Sources, DownIn
  <2> QED BY <2>2, <2>4
<1>5. ASSUME parts = {"up"}
      PROVE  \A k \in DOMAIN R : V[k] = "up"
  <2>1. TAKE k \in DOMAIN R
  <2>2. PartStatus(Part(k[2])) = "up"
    BY <1>2, <1>5
  <2> QED
    <3> HIDE DEF Part
    <3> QED BY <1>3, <2>2, PartIsJustified
<1>6. ASSUME parts = {"stale"}
      PROVE  \A k \in DOMAIN R : V[k] = "stale"
  <2>1. TAKE k \in DOMAIN R
  <2>2. PartStatus(Part(k[2])) = "stale"
    BY <1>2, <1>6
  <2> QED
    <3> HIDE DEF Part
    <3> QED BY <1>3, <2>2, PartIsJustified
<1>7. /\ status = "up" => parts = {"up"}
      /\ status = "stale" => parts = {"stale"}
      /\ status = "down" => "down" \in parts
  <2> HIDE DEF parts, status
  <2> QED BY <1>1
<1> HIDE DEF parts
<1> QED BY <1>4, <1>5, <1>6, <1>7

(* A result is shown for what it is and for as long as it is current. *)
LEMMA ViewIsJustified ==
  ASSUME NEW v, NEW t
  PROVE  /\ View(v, t) = "up" =>
              v.at # NoTime /\ ~ (t - v.at > StaleAfter) /\ v.success = "success"
         /\ View(v, t) = "down" =>
              v.at # NoTime /\ ~ (t - v.at > StaleAfter) /\ v.success = "failure"
         /\ View(v, t) = "stale" => v.at # NoTime /\ t - v.at > StaleAfter
BY DEF View

(* A check is up only if every executor it has ever shown has had a success *)
(* that is recent, down only if enough sources have had a recent failure,   *)
(* and stale only if each has an expired run: the rules of                  *)
(* docs/operations.md, against the runs themselves.                         *)
THEOREM StatusesAreEarned == Spec => []StatusIsEarned
<1>1. ASSUME IndInv, HonestInv
      PROVE  StatusIsEarned
  <2> DEFINE R == snapshot.results
             V == [k \in DOMAIN R |-> View(R[k], now)]
  <2>1. /\ Status = "up" => \A k \in DOMAIN R : V[k] = "up"
        /\ Status = "stale" => \A k \in DOMAIN R : V[k] = "stale"
        /\ Status = "down" =>
             \E s : Cardinality(DownIn(V, s)) >= MinFailureSources
    <3> HIDE DEF V
    <3>1. V = [k \in DOMAIN R |-> View(R[k], now)]
      BY DEF V
    <3> QED BY <3>1, StatusIsJustified DEF Status
  <2>2. /\ now \in Nat /\ StaleAfter \in Nat /\ MinFailureSources \in Nat
        /\ \A e \in Executor : \A r \in runs[e] : r.at \in Nat
    BY <1>1, SnapshotAssumption DEF IndInv, TypeInv, HonestInv, RunsInv
  <2>3. \A k \in DOMAIN R : k[1] \in Executor /\ Honest(k, R[k]) /\ V[k] = View(R[k], now)
    BY <1>1 DEF HonestInv, HonestSnapshot, HonestResults
  <2> HIDE DEF V
  <2>4. ASSUME NEW k \in DOMAIN R
        PROVE  /\ V[k] = "up" => Fresh(k[1], "success")
               /\ V[k] = "down" => Fresh(k[1], "failure")
               /\ V[k] = "stale" => \E r \in runs[k[1]] : r.made > 0 /\ now - r.at > StaleAfter
    <3>1. k[1] \in Executor /\ Honest(k, R[k]) /\ V[k] = View(R[k], now)
      BY <2>3
    <3>2. CASE V[k] \in {"up", "down"}
      <4>1. /\ R[k].at # NoTime /\ ~ (now - R[k].at > StaleAfter) /\ R[k].success # "none"
            /\ V[k] = "up" => R[k].success = "success"
            /\ V[k] = "down" => R[k].success = "failure"
        BY <3>1, <3>2, ViewIsJustified
      <4>2. PICK r \in runs[k[1]] : r.made > 0 /\ r.at = R[k].at /\ r.result = R[k].success
        BY <3>1, <4>1 DEF Honest
      <4>3. now - r.at <= StaleAfter
        BY <2>2, <3>1, <4>1, <4>2
      <4> QED BY <3>2, <4>1, <4>2, <4>3 DEF Fresh
    <3>3. CASE V[k] = "stale"
      BY <3>1, <3>3, ViewIsJustified DEF Honest
    <3> QED BY <3>2, <3>3
  <2>5. \A e \in Known : \E k \in DOMAIN R : k[1] = e
    BY DEF Known
  <2>6. CASE Status = "up"
    BY <2>1, <2>4, <2>5, <2>6 DEF StatusIsEarned
  <2>7. CASE Status = "stale"
    BY <2>1, <2>4, <2>5, <2>7 DEF StatusIsEarned
  <2>8. CASE Status = "down"
    <3> DEFINE F == {f \in Known : Fresh(f, "failure")}
               Z == {SourceOf[e] : e \in F}
    <3>1. PICK s : Cardinality(DownIn(V, s)) >= MinFailureSources
      BY <2>1, <2>8
    <3> DEFINE Y == DownIn(V, s)
    <3>2. Y \subseteq Z
      <4>1. \A k \in DOMAIN R : V[k] = "down" => k[1] \in F
        BY <2>4 DEF Known
      <4>2. DOMAIN V = DOMAIN R
        BY DEF V
      <4> HIDE DEF F
      <4> QED BY <4>1, <4>2 DEF DownIn
    <3>3. IsFiniteSet(Z)
      <4>1. Known \subseteq Executor
        BY <2>3 DEF Known
      <4>2. IsFiniteSet(F)
        BY <4>1, SnapshotAssumption, FS_Subset
      <4> DEFINE f == [e \in F |-> SourceOf[e]]
      <4>3. f \in Surjection(F, Z)
        <5> HIDE DEF F
        <5> QED BY DEF Surjection
      <4> HIDE DEF f, F, Z
      <4> QED BY <4>2, <4>3, FS_Surjection
    <3>4. Cardinality(Y) <= Cardinality(Z) /\ Cardinality(Y) \in Nat /\ Cardinality(Z) \in Nat
      <4> HIDE DEF Y, Z
      <4> QED BY <3>2, <3>3, FS_Subset, FS_CardinalityType
    <3>5. Cardinality(Y) >= MinFailureSources
      BY <3>1
    <3>6. Cardinality(Z) >= MinFailureSources
      <4> HIDE DEF Y, Z
      <4> QED BY <2>2, <3>4, <3>5
    <3> QED BY <2>8, <3>6 DEF StatusIsEarned
  <2> QED BY <2>6, <2>7, <2>8 DEF StatusIsEarned
<1> QED BY <1>1, HonestInvHolds, PTL
=============================================================================
