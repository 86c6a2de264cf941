-------------------------- MODULE NotificationDelivery --------------------------
(***************************************************************************)
(* Dispatch of the notification for one logical alert to its targets        *)
(* (workers/notifications.py, application/notifications.py): every node     *)
(* keeps a durable work item, one worker coroutine per node claims it, only *)
(* the node that ranks first for a target calls the provider, and attempts  *)
(* and results are receipts in the replicated history, from which the other *)
(* nodes learn that their own item is settled.                              *)
(*                                                                          *)
(* A step is a transaction of the worker or of the replication, which share *)
(* one event loop: they interleave where the worker awaits, that is while a *)
(* provider call is out, before the calls of an old backlog and between     *)
(* targets. Clocks are not modelled: a retry, a poll or the expiry of a     *)
(* lock may come at any time.                                               *)
(***************************************************************************)
EXTENDS Integers, Sequences, FiniteSets

CONSTANTS Node,
          Target,       \* channels, with a subscription for web push
          Setups        \* clusters to look at, see Setup

(* nodes and targets: those that are there. order[t]: the eligible nodes of *)
(* t in the order of their rank. known[n]: the nodes n can rank at the      *)
(* start. intake: the nodes the source reports the alert to. attempts:      *)
(* Settings.notification_max_attempts. faults: bound on the crashes and     *)
(* errors of a node.                                                        *)
Setup ==
  [nodes : SUBSET Node, targets : SUBSET Target, order : [Target -> Seq(Node)],
   known : [Node -> SUBSET Node], intake : SUBSET Node, attempts : Nat \ {0}, faults : Nat]

ASSUME DeliveryAssumption ==
  \A s \in Setups :
     /\ s \in Setup
     /\ \A t \in Target : \A i, j \in DOMAIN s.order[t] : s.order[t][i] = s.order[t][j] => i = j
     /\ \A n \in Node : n \in s.known[n]

VARIABLES
  setup,     \* a member of Setups, which never changes
  log,       \* log[n]: alert and receipts in cluster_events of n, as inserted
  item,      \* item[n]: the outbox row of the alert on n
  delivery,  \* delivery[n][t]: the deliveries row of t on n
  worker,    \* worker[n]: the coroutine of NotificationOutboxProcessor
  view,      \* view[n]: the nodes n ranks, itself included
  calls,     \* calls[n][t]: provider calls n has made for t
  faults     \* faults[n]: crashes and errors of n so far

vars == <<setup, log, item, delivery, worker, view, calls, faults>>

Terminal == {"succeeded", "failed"}
NoDelivery == [status |-> "none", attempt |-> 0]
Resting == [phase |-> "rest"]
Working(T, p) == [phase |-> "targets", todo |-> T, pending |-> p]

-----------------------------------------------------------------------------
(* Ranks and receipts *)

Ranked(n, t) == {i \in DOMAIN setup.order[t] : setup.order[t][i] \in view[n]}

Eligible(n, t) == \E i \in Ranked(n, t) : setup.order[t][i] = n

(* Variant: every reserve may send. *)
RankAny(n, t) == Eligible(n, t)

RankZero(n, t) ==
  \E i \in Ranked(n, t) : setup.order[t][i] = n /\ \A j \in Ranked(n, t) : i <= j

Entries(L) == {L[i] : i \in DOMAIN L}

NextSeq(n) == 1 + Cardinality({e \in Entries(log[n]) : e.origin = n})

AlertBy(n) == [kind |-> "alert", origin |-> n, seq |-> NextSeq(n)]

Receipt(n, t, d) ==
  [kind |-> "receipt", origin |-> n, seq |-> NextSeq(n),
   target |-> t, status |-> d.status, attempt |-> d.attempt]

(* Variant: the receipt that comes last counts. *)
AppliedAsIs(d, r) == [status |-> r.status, attempt |-> r.attempt]

(* apply_delivery_receipt: late failures must not regress success. *)
Applied(d, r) ==
  IF d.status = "succeeded" /\ r.status # "succeeded" THEN d
  ELSE [status  |-> r.status,
        attempt |-> IF d.attempt > r.attempt THEN d.attempt ELSE r.attempt]

(* _replay_delivery_receipts: the receipts of t in the order of the log. *)
Replayed(L, t, d) ==
  LET after[i \in 0 .. Len(L)] ==
        IF i = 0 THEN d
        ELSE IF L[i].kind = "receipt" /\ L[i].target = t THEN Applied(after[i - 1], L[i])
        ELSE after[i - 1]
  IN  after[Len(L)]

(* Variant: receipts that came before the alert are not replayed. *)
ProjectedOnce(n, L, e) ==
  [t \in Target |->
     IF e.kind = "receipt" /\ item[n] # "none" /\ e.target = t
     THEN Applied(delivery[n][t], e) ELSE delivery[n][t]]

(* The deliveries of n after event e is projected in the log L: a receipt   *)
(* waits for the alert it is about, the alert replays the receipts.         *)
Projected(n, L, e) ==
  [t \in Target |->
     IF e.kind = "alert" THEN Replayed(L, t, delivery[n][t])
     ELSE IF item[n] # "none" /\ e.target = t THEN Applied(delivery[n][t], e)
     ELSE delivery[n][t]]

(* A delivery row changes and its receipt is appended, once for an attempt  *)
(* and status.                                                              *)
SaveDelivery(n, t, d) ==
  /\ delivery' = [delivery EXCEPT ![n][t] = d]
  /\ log' = [log EXCEPT ![n] =
               IF \E e \in Entries(@) : /\ e.kind = "receipt" /\ e.origin = n
                                        /\ e.target = t /\ e.status = d.status
                                        /\ e.attempt = d.attempt
               THEN @ ELSE Append(@, Receipt(n, t, d))]

-----------------------------------------------------------------------------

Init ==
  /\ setup \in Setups
  /\ log      = [n \in Node |-> <<>>]
  /\ item     = [n \in Node |-> "none"]
  /\ delivery = [n \in Node |-> [t \in Target |-> NoDelivery]]
  /\ worker   = [n \in Node |-> Resting]
  /\ view     = setup.known
  /\ calls    = [n \in Node |-> [t \in Target |-> 0]]
  /\ faults   = [n \in Node |-> 0]

(* The source reports the alert: event, timeline row and work item. *)
Ingest(n) ==
  /\ item[n] = "none"
  /\ log'  = [log EXCEPT ![n] = Append(@, AlertBy(n))]
  /\ item' = [item EXCEPT ![n] = "queued"]
  /\ UNCHANGED <<delivery, worker, view, calls, faults>>

(* Replication brings an event, those of an origin in their order. A page   *)
(* of several is several such steps.                                        *)
Learn(n, m) ==
  \E e \in Entries(log[m]) \ Entries(log[n]) :
     LET L == Append(log[n], e)
     IN  /\ \A f \in Entries(log[m]) \ Entries(log[n]) : f.origin = e.origin => e.seq <= f.seq
         /\ log'      = [log EXCEPT ![n] = L]
         /\ item'     = [item EXCEPT ![n] =
                           IF e.kind = "alert" /\ @ = "none" THEN "queued" ELSE @]
         /\ delivery' = [delivery EXCEPT ![n] = Projected(n, L, e)]
         /\ UNCHANGED <<worker, view, calls, faults>>

(* Replication brings the row of a node. *)
LearnNode(n, m) ==
  /\ m \notin view[n]
  /\ view' = [view EXCEPT ![n] = @ \cup {m}]
  /\ UNCHANGED <<log, item, delivery, worker, calls, faults>>

(* Variant: a lock never gets stale. *)
ClaimQueued(n) ==
  /\ worker[n] = Resting
  /\ item[n] = "queued"
  /\ item'   = [item EXCEPT ![n] = "locked"]
  /\ worker' = [worker EXCEPT ![n] = Working(setup.targets, FALSE)]
  /\ UNCHANGED <<log, delivery, view, calls, faults>>

(* _claim_batch: an item that is due and unlocked, or locked by a worker    *)
(* that is gone.                                                            *)
Claim(n) ==
  /\ worker[n] = Resting
  /\ item[n] \in {"queued", "locked"}
  /\ item'   = [item EXCEPT ![n] = "locked"]
  /\ worker' = [worker EXCEPT ![n] = Working(setup.targets, FALSE)]
  /\ UNCHANGED <<log, delivery, view, calls, faults>>

AtTarget(n, t) == worker[n].phase = "targets" /\ t \in worker[n].todo

(* The worker is busy with t; k is the number of the attempt that is out.   *)
Busy(n, phase, t, k) ==
  [phase |-> phase, todo |-> worker[n].todo, pending |-> worker[n].pending,
   target |-> t, attempt |-> k]

(* Variant: the last target decides whether the item is finished. *)
PassedLast(n, t, p) == Working(worker[n].todo \ {t}, p)

(* The worker goes on to the next target; p: this one is to be tried again. *)
Passed(n, t, p) == Working(worker[n].todo \ {t}, worker[n].pending \/ p)

(* _process_target: a settled delivery and a target of other nodes need     *)
(* nothing, a reserve waits for the receipt of the owner.                   *)
PassTarget(n, t) ==
  /\ AtTarget(n, t)
  /\ delivery[n][t].status \in Terminal \/ ~ RankZero(n, t)
  /\ worker' = [worker EXCEPT ![n] =
                  Passed(n, t, delivery[n][t].status \notin Terminal /\ Eligible(n, t))]
  /\ UNCHANGED <<log, item, delivery, view, calls, faults>>

(* The owner of an unsettled delivery goes on, after a pause when the alert *)
(* is old.                                                                  *)
Own(n, t) ==
  /\ AtTarget(n, t)
  /\ delivery[n][t].status \notin Terminal
  /\ RankZero(n, t)
  /\ worker' = [worker EXCEPT ![n] = Busy(n, "owner", t, 0)]
  /\ UNCHANGED <<log, item, delivery, view, calls, faults>>

(* _skip_historical_delivery: an old alert that a later one supersedes, or  *)
(* an old recovery, is settled without a call.                              *)
SkipHistorical(n) ==
  /\ worker[n].phase = "owner"
  /\ LET t == worker[n].target
         d == delivery[n][t]
     IN  /\ IF d.status \in Terminal
            THEN UNCHANGED <<log, delivery>>
            ELSE SaveDelivery(n, t, [d EXCEPT !.status = "failed"])
         /\ worker' = [worker EXCEPT ![n] = Passed(n, t, FALSE)]
  /\ UNCHANGED <<item, view, calls, faults>>

(* Variant: the delivery is not looked at again after the pause. *)
BeginUnchecked(n) ==
  /\ worker[n].phase = "owner"
  /\ LET t == worker[n].target
         d == [status |-> "sending", attempt |-> delivery[n][t].attempt + 1]
     IN  /\ SaveDelivery(n, t, d)
         /\ worker' = [worker EXCEPT ![n] = Busy(n, "sending", t, d.attempt)]
         /\ calls' = [calls EXCEPT ![n][t] = @ + 1]
  /\ UNCHANGED <<item, view, faults>>

(* _begin_delivery: the attempt is on record before the provider is called; *)
(* what has been settled during the pause is left alone. The call follows   *)
(* without an await in between.                                             *)
BeginDelivery(n) ==
  /\ worker[n].phase = "owner"
  /\ LET t == worker[n].target
         d == [status |-> "sending", attempt |-> delivery[n][t].attempt + 1]
     IN  IF delivery[n][t].status \in Terminal
         THEN /\ worker' = [worker EXCEPT ![n] = Passed(n, t, FALSE)]
              /\ UNCHANGED <<log, delivery, calls>>
         ELSE /\ SaveDelivery(n, t, d)
              /\ worker' = [worker EXCEPT ![n] = Busy(n, "sending", t, d.attempt)]
              /\ calls' = [calls EXCEPT ![n][t] = @ + 1]
  /\ UNCHANGED <<item, view, faults>>

(* A retryable outcome is tried again until the last attempt. *)
Retry(n, outcome) == outcome = "retryable" /\ worker[n].attempt < setup.attempts

(* _record_result: the outcome of the call, whatever the row says by now.   *)
RecordResult(n, outcome) ==
  /\ worker[n].phase = "sending"
  /\ LET t == worker[n].target
         status == CASE outcome = "succeeded" -> "succeeded"
                     [] Retry(n, outcome) -> "retrying"
                     [] OTHER -> "failed"
     IN  /\ SaveDelivery(n, t, [delivery[n][t] EXCEPT !.status = status])
         /\ worker' = [worker EXCEPT ![n] = Passed(n, t, Retry(n, outcome))]
  /\ UNCHANGED <<item, view, calls, faults>>

(* _complete_item or _release_item. *)
FinishItem(n) ==
  /\ worker[n].phase = "targets"
  /\ worker[n].todo = {}
  /\ item'   = [item EXCEPT ![n] = IF worker[n].pending THEN "queued" ELSE "done"]
  /\ worker' = [worker EXCEPT ![n] = Resting]
  /\ UNCHANGED <<log, delivery, view, calls, faults>>

(* An exception anywhere in the item: run_once releases it. *)
ItemError(n) ==
  /\ worker[n] # Resting
  /\ faults[n] < setup.faults
  /\ item'   = [item EXCEPT ![n] = "queued"]
  /\ worker' = [worker EXCEPT ![n] = Resting]
  /\ faults' = [faults EXCEPT ![n] = @ + 1]
  /\ UNCHANGED <<log, delivery, view, calls>>

(* The process dies; the item stays locked until the lock is stale. *)
Crash(n) ==
  /\ worker[n] # Resting
  /\ faults[n] < setup.faults
  /\ worker' = [worker EXCEPT ![n] = Resting]
  /\ faults' = [faults EXCEPT ![n] = @ + 1]
  /\ UNCHANGED <<log, item, delivery, view, calls>>

Work(n) ==
  \/ Claim(n)
  \/ \E t \in setup.targets : PassTarget(n, t) \/ Own(n, t)
  \/ SkipHistorical(n)
  \/ BeginDelivery(n)
  \/ \E outcome \in {"succeeded", "retryable", "permanent"} : RecordResult(n, outcome)
  \/ FinishItem(n)

Next ==
  /\ UNCHANGED setup
  /\ \E n \in setup.nodes :
     \/ n \in setup.intake /\ Ingest(n)
     \/ \E m \in setup.nodes : Learn(n, m) \/ LearnNode(n, m)
     \/ Work(n)
     \/ ItemError(n)
     \/ Crash(n)

Spec == Init /\ [][Next]_vars

Present(n) == n \in setup.nodes /\ UNCHANGED setup

(* The worker loop never stops for good, every provider call is answered or *)
(* times out, and replication gets through (ClusterSync, NodeRecovery).     *)
FairSpec ==
  Spec /\ \A n \in Node : /\ WF_vars(Present(n) /\ Work(n))
                          /\ \A m \in Node : WF_vars(Present(n) /\ Present(m) /\ Learn(n, m))

-----------------------------------------------------------------------------
(* Properties *)

(* Every node knew every other when the alert came. *)
Converged == \A n \in setup.nodes : setup.nodes \subseteq setup.known[n]

(* docs/architecture.md: no concurrent cross-node provider calls for a      *)
(* converged topology: crashes, stale locks, missing receipts and repeated  *)
(* reports included, one node at most ever calls the provider of a target.  *)
SingleCaller ==
  Converged =>
     \A t \in Target : \A n, m \in Node :
        (calls[n][t] > 0 /\ calls[m][t] > 0) => n = m

(* An item is completed only when nothing is left to do for it: every target*)
(* this node is eligible for has a final result. (When nodes take each other*)
(* for absent, a second caller reopens what a failure had settled.)         *)
DoneMeansSettled ==
  \A n \in Node, t \in setup.targets :
     (Converged /\ item[n] = "done" /\ Eligible(n, t)) => delivery[n][t].status \in Terminal

ReceiptsOn(n, t) == {e \in Entries(log[n]) : e.kind = "receipt" /\ e.target = t}

(* Nodes that have heard of the same receipts of one owner, and of the      *)
(* reports of the alert which the owner knows, agree on the delivery,       *)
(* whichever of alert and receipts came first and over whatever relays they *)
(* came. (A report by the source itself does not replay the receipts that   *)
(* were there before it; the same report from another node does.)           *)
ReceiptsConverge ==
  \A t \in Target : \A n, m \in Node :
     (/\ Entries(log[n]) = Entries(log[m])
      /\ \A e, f \in ReceiptsOn(n, t) : e.origin = f.origin
      /\ \A e \in ReceiptsOn(n, t) : \A a \in Entries(log[e.origin]) :
            a.kind = "alert" => a \in Entries(log[n])
      /\ item[n] # "none")
       => delivery[n][t] = delivery[m][t]

(* A provider is not called for a delivery that the node knows to be        *)
(* settled, though it may have been settled after the node decided to send. *)
NoCallWhenSettled ==
  [][\A n \in Node, t \in Target :
        calls'[n][t] # calls[n][t] => delivery[n][t].status \notin Terminal]_vars

(* apply_delivery_receipt: "without allowing late failures to regress       *)
(* success", whatever order the receipts of two owners arrive in.           *)
ReceiptsKeepSuccess ==
  [][\A n \in Node, t \in Target :
        (worker'[n] = worker[n] /\ delivery[n][t].status = "succeeded")
          => delivery'[n][t].status = "succeeded"]_vars

(* The same of every step: a delivery that succeeded stays so.              *)
SuccessIsFinal ==
  [][\A n \in Node, t \in Target :
        delivery[n][t].status = "succeeded" => delivery'[n][t].status = "succeeded"]_vars

(* "Do not lose an alert": a work item is completed at last on every node,  *)
(* on the owner by results, on a reserve by the receipts of the owner: time *)
(* and again no node has anything left to do.                               *)
EveryItemCompletes == []<>(\A n \in Node : item[n] \in {"none", "done"})
=============================================================================
