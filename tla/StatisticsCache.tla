---------------------------- MODULE StatisticsCache ----------------------------
(***************************************************************************)
(* The statistics endpoint of a node (api/statistics.py, application/       *)
(* statistics.py): requests on threads share one snapshot per window, held  *)
(* in the memory of the process. A snapshot is fresh for a while, and may be*)
(* served a while longer when another thread is computing the next one or   *)
(* computing failed. A thread never waits for another. The module follows   *)
(* one window; the rows arrive from intake, operators and replication, in   *)
(* any order.                                                               *)
(***************************************************************************)
EXTENDS IncidentStatistics

CONSTANTS Thread,      \* threads that serve requests
          Setups,      \* which threads and rows there are, and until when
          Ttl,         \* how long a snapshot is fresh
          StaleTtl,    \* how long it may be served
          MaxCompute   \* bound on the time a computation takes

ReceiptKinds == {"delivery_succeeded", "delivery_failed"}
Nobody == "nobody"

ASSUME CacheAssumption ==
  /\ Nobody \notin Thread
  /\ Ttl \in Nat \ {0}
  /\ StaleTtl \in Nat /\ StaleTtl >= Ttl
  /\ MaxCompute \in Nat
  /\ \A s \in Setups :
       /\ s.threads \subseteq Thread /\ s.until \in Nat /\ IsFiniteSet(s.rows)
       /\ \A r \in s.rows :
            /\ "id" \in DOMAIN r
            /\ r.at \in Nat /\ r.occ \in Nat /\ r.key \in Nat \ {0}
            /\ r.kind = "firing" => r.at = r.occ /\ r.occ # 0
       /\ \A r, q \in s.rows : r.key = q.key => r = q

VARIABLES
  setup,    \* the threads and rows of this behaviour
  now,      \* the clock
  rows,     \* the tables incident_events and cluster_events (receipts)
  entry,    \* the cached snapshot: when it was taken, until when it serves
  owner,    \* the thread that holds the refresh lock
  thread,   \* thread[t]: where the request of t is
  answer    \* the last snapshot given: how old it was by then

vars == <<setup, now, rows, entry, owner, thread, answer>>

Lifecycle == {r \in rows : r.kind \notin ReceiptKinds}

Delivered == {[at |-> r.at, succeeded |-> r.kind = "delivery_succeeded", channel |-> r.occ] :
                r \in {q \in rows : q.kind \in ReceiptKinds}}

NoEntry == [taken |-> None, fresh |-> None, stale |-> None]

(* stale: the snapshot found past its freshness. taken: when the            *)
(* computation read the database.                                           *)
Idle == [pc |-> "idle", stale |-> None, taken |-> None]

At(t, pc) == t \in setup.threads /\ thread[t].pc = pc

Goto(t, pc) == thread' = [thread EXCEPT ![t].pc = pc]

Answer(t, taken) ==
  /\ answer' = now - taken
  /\ thread' = [thread EXCEPT ![t] = Idle]

-----------------------------------------------------------------------------
(* The cache *)

Alive == entry # NoEntry /\ entry.stale > now
Fresh == Alive /\ entry.fresh > now

(* _get drops an entry that is too old, whoever asks. *)
Kept == IF Alive THEN entry ELSE NoEntry

Init ==
  /\ setup  \in Setups
  /\ now    = 0
  /\ rows   = {}
  /\ entry  = NoEntry
  /\ owner  = Nobody
  /\ thread = [t \in Thread |-> Idle]
  /\ answer = 0

(* A request begins with get: a fresh snapshot is the answer. *)
Request(t) ==
  /\ At(t, "idle")
  /\ entry' = Kept
  /\ IF Fresh
     THEN /\ answer' = now - entry.taken
          /\ UNCHANGED thread
     ELSE /\ thread' = [thread EXCEPT ![t] = [Idle EXCEPT !.pc = "missed"]]
          /\ UNCHANGED answer
  /\ UNCHANGED <<setup, now, rows, owner>>

(* The second look, which takes an older snapshot as well. *)
LookForStale(t) ==
  /\ At(t, "missed")
  /\ entry' = Kept
  /\ thread' = [thread EXCEPT ![t].pc = "looked", ![t].stale = Kept.taken]
  /\ UNCHANGED <<setup, now, rows, owner, answer>>

(* Variant: the lock is not tried. *)
RefreshUnlocked(t) ==
  /\ At(t, "looked")
  /\ owner' = t
  /\ Goto(t, "owner")
  /\ UNCHANGED <<setup, now, rows, entry, answer>>

(* The refresh lock is free. *)
AcquireRefresh(t) ==
  /\ At(t, "looked")
  /\ owner = Nobody
  /\ owner' = t
  /\ Goto(t, "owner")
  /\ UNCHANGED <<setup, now, rows, entry, answer>>

(* It is not: the older snapshot is the answer, or the thread computes for  *)
(* itself alone.                                                            *)
Follow(t) ==
  /\ At(t, "looked")
  /\ owner # Nobody
  /\ IF thread[t].stale # None
     THEN Answer(t, thread[t].stale)
     ELSE Goto(t, "cold") /\ UNCHANGED answer
  /\ UNCHANGED <<setup, now, rows, entry, owner>>

(* Someone else may have refreshed between the first look and the lock. *)
LookAgain(t) ==
  /\ At(t, "owner")
  /\ entry' = Kept
  /\ IF Fresh
     THEN Answer(t, entry.taken) /\ owner' = Nobody
     ELSE Goto(t, "refresh") /\ UNCHANGED <<answer, owner>>
  /\ UNCHANGED <<setup, now, rows>>

(* The reads of a computation are one snapshot of the database, pinned when *)
(* the first of them begins.                                                *)
BeginCompute(t) ==
  /\ thread[t].pc \in {"refresh", "cold"}
  /\ thread[t].taken = None
  /\ thread' = [thread EXCEPT ![t].taken = now]
  /\ UNCHANGED <<setup, now, rows, entry, owner, answer>>

(* put, and the lock is released. *)
Put(t) ==
  /\ At(t, "refresh")
  /\ thread[t].taken # None
  /\ entry' = [taken |-> thread[t].taken, fresh |-> now + Ttl, stale |-> now + StaleTtl]
  /\ owner' = Nobody
  /\ Answer(t, thread[t].taken)
  /\ UNCHANGED <<setup, now, rows>>

(* Variant: the snapshot found at the beginning is still good. *)
FallBackToSeen(t) ==
  /\ At(t, "refresh")
  /\ thread[t].taken # None
  /\ entry' = Kept
  /\ owner' = Nobody
  /\ IF thread[t].stale # None
     THEN Answer(t, thread[t].stale)
     ELSE thread' = [thread EXCEPT ![t] = Idle] /\ UNCHANGED answer
  /\ UNCHANGED <<setup, now, rows>>

(* The computation of the owner fails, for instance on a window with too    *)
(* many rows: what the cache still has is the answer, or there is none.     *)
FailRefresh(t) ==
  /\ At(t, "refresh")
  /\ thread[t].taken # None
  /\ entry' = Kept
  /\ owner' = Nobody
  /\ IF Alive
     THEN Answer(t, entry.taken)
     ELSE thread' = [thread EXCEPT ![t] = Idle] /\ UNCHANGED answer
  /\ UNCHANGED <<setup, now, rows>>

FinishCold(t) ==
  /\ At(t, "cold")
  /\ thread[t].taken # None
  /\ \/ Answer(t, thread[t].taken)
     \/ thread' = [thread EXCEPT ![t] = Idle] /\ UNCHANGED answer
  /\ UNCHANGED <<setup, now, rows, entry, owner>>

(* A row is committed, at whatever instant it is about. *)
Arrive(r) ==
  /\ r \in setup.rows \ rows
  /\ rows' = rows \cup {r}
  /\ UNCHANGED <<setup, now, entry, owner, thread, answer>>

(* A thread that has looked goes on before the clock does. *)
Tick ==
  /\ now < setup.until
  /\ \A t \in Thread : ~ At(t, "looked")
  /\ \A t \in Thread : thread[t].taken # None => now < thread[t].taken + MaxCompute
  /\ now' = now + 1
  /\ UNCHANGED <<setup, rows, entry, owner, thread, answer>>

Step(t) ==
  \/ LookForStale(t)
  \/ AcquireRefresh(t)
  \/ Follow(t)
  \/ LookAgain(t)
  \/ BeginCompute(t)
  \/ Put(t)
  \/ FailRefresh(t)
  \/ FinishCold(t)

Next ==
  \/ Tick
  \/ \E r \in setup.rows : Arrive(r)
  \/ \E t \in Thread : Request(t) \/ Step(t)

Spec == Init /\ [][Next]_vars

(* Threads run to the end of their request: nobody waits, and queries end.  *)
FairSpec == Spec /\ \A t \in Thread : WF_vars(Step(t))

-----------------------------------------------------------------------------
(* Properties *)

(* A refresh puts a snapshot that was read from the database after the one  *)
(* it replaces, whatever threads miss, compute and fail meanwhile: followers*)
(* compute for themselves and do not replace the entry of the owner.        *)
Shared == INSTANCE SharedSnapshot WITH
            held <- entry.taken, Absent <- None, Droppable <- TRUE
ImplementsSharedSnapshot == Shared!Spec

(* docs/source-integrations.md: a snapshot is served for at most StaleTtl   *)
(* while another request refreshes it or a refresh fails. What a request    *)
(* gets was complete no longer than that before, even if its own refresh    *)
(* takes until everything cached has become too old, and fails.             *)
AnswersAreRecent ==
  answer <= StaleTtl + MaxCompute

UpTo(R, r) == {q \in R : q = r \/ Before(q, r)}

(* "Mirror project_incident": on the rows of a window the cohorts agree with*)
(* the projection of the same rows, in the order of the keys: the occurrence*)
(* the incident is in, whether it is over, and which occurrences have been  *)
(* acknowledged while they were current.                                    *)
CohortsMirrorProjection ==
  \A ends \in 1 .. now :
     LET R == ByKey(LifecycleRows(Lifecycle, ends))
         s == Counted(Lifecycle, ends)
         P(r) == project_incident(UpTo(R, r))
     IN  R # {} =>
           /\ s.current = project_incident(R).starts
           /\ s.resolved <=> project_incident(R).status = "resolved"
           /\ \A k \in DOMAIN s.cohorts :
                s.cohorts[k].acked # None <=>
                  \E r \in R : r.kind = "acknowledged" /\ P(r).starts = k
                                 /\ P(r).status = "acknowledged"

(* An occurrence that begins within a window is counted as the whole history*)
(* would count it: rows before the window change nothing, although the fold *)
(* does not see them. Resolutions dated before their own occurrence, which  *)
(* a slow clock can produce, are left out.                                  *)
WindowLosesNothing ==
  (\A r \in Lifecycle : r.kind = "resolved" => r.at >= r.occ) =>
  \A ends \in 1 .. now :
     LET C == incident_cohorts(Lifecycle, ends)
         All == CountedRows(ByKey({r \in Lifecycle : r.kind \in LifecycleKinds /\ r.at < ends})).cohorts
     IN  Started(All, ends) = Started(C, ends) /\ \A k \in Started(C, ends) : C[k] = All[k]

(* A figure of the timeline, over all buckets. *)
Total(T, f) ==
  LET upTo[b \in Buckets] == T[b][f] + IF b = 0 THEN 0 ELSE upTo[b - 1]
  IN  upTo[(Window \div BucketSize) - 1]

(* The buckets add up to the totals, so that what is counted is counted in  *)
(* one bucket, also at the edges of the window and of its buckets.          *)
BucketsAddUp ==
  \A ends \in 0 .. now :
     LET S == Snapshot(Lifecycle, Delivered, ends)
     IN  \A f \in {"started", "resolved", "delivered", "failed"} : Total(S.timeline, f) = S[f]
=============================================================================
