----------------------------- MODULE ClusterSync -----------------------------
(***************************************************************************)
(* The replication core: every node appends cluster events to its own       *)
(* SQLite file (application/incidents.py), serves pages of its history to   *)
(* peers (api/cluster.py), and one worker coroutine per node pulls pages    *)
(* from the configured peers, persists them and advances a persisted vector *)
(* cursor (workers/sync.py, application/sync.py).                           *)
(*                                                                          *)
(* An action is one database transaction or one answered HTTP request; the  *)
(* awaits and transaction boundaries of the code are the boundaries between *)
(* actions, so handlers of the node, the worker of the node and the handlers*)
(* of its peers interleave as the event loop and the thread pool allow.     *)
(* Committed rows survive a process crash; coroutines do not.               *)
(***************************************************************************)
EXTENDS Integers, FiniteSets

CONSTANTS Node,      \* node identifiers (Settings.node_id)
          Peers,     \* Peers[n]: the nodes behind Settings.peer_urls of n
          Writer,    \* request handlers that may append concurrently on a node
          Quota,     \* Quota[n]: bound on the events n originates
          PageSize,  \* Settings.sync_page_size
          MaxPages,  \* Settings.sync_max_pages_per_cycle
          MaxRun     \* bound on the restarts of a node

ASSUME SyncAssumption ==
  /\ Peers \in [Node -> SUBSET Node]
  /\ \A n \in Node : n \notin Peers[n]
  /\ Quota \in [Node -> Nat]
  /\ PageSize \in Nat \ {0}
  /\ MaxPages \in Nat \ {0}
  /\ MaxRun \in Nat

VARIABLES
  log,      \* log[n]: table cluster_events of n
  cursor,   \* cursor[n][p][o]: row of sync_cursors of n, 0 when there is none
  run,      \* run[n]: how often the process of n has been restarted
  append,   \* append[n][w]: the origin_seq handler w has read, 0 when it has not
  pull      \* pull[n]: the _sync_peer coroutine of the worker of n

vars == <<log, cursor, run, append, pull>>

(* event_id is a UUID. A handler does not insert a number twice in a run of *)
(* the process, so the run and the handler tell apart what UUIDs do.        *)
Event == [origin : Node, seq : Nat \ {0}, run : 0 .. MaxRun, by : Writer]

Idle == [phase |-> "idle"]
Query(p, k) == [phase |-> "query", peer |-> p, pages |-> k]
Page(p, k, E, m) ==
  [phase |-> "page", peer |-> p, pages |-> k, events |-> E, more |-> m]

-----------------------------------------------------------------------------
(* Reading a log *)

Holds(L, o, s) == \E e \in L : e.origin = o /\ e.seq = s

SeqsOf(L, o) == {e.seq : e \in {f \in L : f.origin = o}}

(* max(origin_seq) of an origin, 0 when the log has none of it. *)
LastSeq(L, o) ==
  CHOOSE s \in SeqsOf(L, o) \cup {0} : \A t \in SeqsOf(L, o) : t <= s

(* The events a cursor has not covered; an origin that the cursor does not  *)
(* name is as good as one at 0.                                             *)
Beyond(L, c) == {e \in L : e.seq > c[e.origin]}

(* Variant: the newest events make the page. *)
IsPageNewestFirst(E, B) ==
  /\ E \subseteq B
  /\ IF Cardinality(B) <= PageSize THEN E = B ELSE Cardinality(E) = PageSize
  /\ \A e \in E, f \in B \ E : e.seq >= f.seq

(* The first PageSize events in the order origin_seq, origin, event_id. The *)
(* names behind Node are not modelled: ties are broken either way.          *)
IsPage(E, B) ==
  /\ E \subseteq B
  /\ IF Cardinality(B) <= PageSize THEN E = B ELSE Cardinality(E) = PageSize
  /\ \A e \in E, f \in B \ E : e.seq <= f.seq

(* Variant: only a known event_id counts as present. *)
PersistById(L, E) == L \cup E

(* apply_cluster_events skips what is present by event_id or by number. *)
Persist(L, E) == L \cup {e \in E : ~ Holds(L, e.origin, e.seq)}

(* Variant: the page alone says how far the cursor goes. *)
AdvanceUncounted(L, c, E) ==
  [o \in Node |-> IF LastSeq(E, o) > c[o] THEN LastSeq(E, o) ELSE c[o]]

(* advance_peer_cursor: cross only a history that is complete in the log L. *)
Advance(L, c, E) ==
  [o \in Node |->
     LET candidate == LastSeq(E, o)
         present   == {e \in L : e.origin = o /\ e.seq > c[o] /\ e.seq <= candidate}
     IN  IF candidate > c[o] /\ Cardinality(present) = candidate - c[o]
         THEN candidate ELSE c[o]]

(* A cycle asks for MaxPages pages. *)
PagesLeft(k) == k < MaxPages

-----------------------------------------------------------------------------

Init ==
  /\ log    = [n \in Node |-> {}]
  /\ cursor = [n \in Node |-> [p \in Node |-> [o \in Node |-> 0]]]
  /\ run    = [n \in Node |-> 0]
  /\ append = [n \in Node |-> [w \in Writer |-> 0]]
  /\ pull   = [n \in Node |-> Idle]

(* Variant: numbers that other handlers have read are skipped. *)
ReadSeqReserving(n, w) ==
  /\ append[n][w] = 0
  /\ LastSeq(log[n], n) < Quota[n]
  /\ append' = [append EXCEPT ![n][w] =
                  LastSeq(log[n], n) + Cardinality({v \in Writer : append[n][v] # 0}) + 1]
  /\ UNCHANGED <<log, cursor, run, pull>>

(* next_origin_seq: a plain SELECT, which takes no lock. *)
ReadSeq(n, w) ==
  /\ append[n][w] = 0
  /\ LastSeq(log[n], n) < Quota[n]
  /\ append' = [append EXCEPT ![n][w] = LastSeq(log[n], n) + 1]
  /\ UNCHANGED <<log, cursor, run, pull>>

(* Variant: without the unique constraint. *)
CommitUnchecked(n, w) ==
  /\ append[n][w] # 0
  /\ log' = [log EXCEPT ![n] =
               @ \cup {[origin |-> n, seq |-> append[n][w], run |-> run[n], by |-> w]}]
  /\ append' = [append EXCEPT ![n][w] = 0]
  /\ UNCHANGED <<cursor, run, pull>>

(* The INSERT and the commit. Another handler may have taken the number in  *)
(* between: the unique constraint then fails the whole transaction.         *)
CommitAppend(n, w) ==
  /\ append[n][w] # 0
  /\ log' = [log EXCEPT ![n] =
               IF Holds(@, n, append[n][w]) THEN @
               ELSE @ \cup {[origin |-> n, seq |-> append[n][w], run |-> run[n], by |-> w]}]
  /\ append' = [append EXCEPT ![n][w] = 0]
  /\ UNCHANGED <<cursor, run, pull>>

(* The peer answered its health request with status ok and an identity that *)
(* is not ours; the stored cursor of that identity is read.                 *)
StartCycle(n, p) ==
  /\ pull[n] = Idle
  /\ p \in Peers[n]
  /\ pull' = [pull EXCEPT ![n] = Query(p, 0)]
  /\ UNCHANGED <<log, cursor, run, append>>

(* The peer answers the query from what it holds now. *)
ServeQuery(n, p) ==
  /\ pull[n].phase = "query"
  /\ pull[n].peer = p
  /\ LET B == Beyond(log[p], cursor[n][p])
     IN  \E E \in SUBSET B :
           /\ IsPage(E, B)
           /\ pull' = [pull EXCEPT ![n] = Page(p, pull[n].pages, E, E # B)]
  /\ UNCHANGED <<log, cursor, run, append>>

(* One transaction: persist the page, advance the cursor. Then the next     *)
(* page, or the end of the cycle: the history is exhausted, the cursor did  *)
(* not move although the peer has more, or the page limit is reached.       *)
ApplyPage(n, p) ==
  /\ pull[n].phase = "page"
  /\ pull[n].peer = p
  /\ LET L == Persist(log[n], pull[n].events)
         c == Advance(L, cursor[n][p], pull[n].events)
         k == pull[n].pages + 1
     IN  /\ log' = [log EXCEPT ![n] = L]
         /\ cursor' = [cursor EXCEPT ![n][p] = c]
         /\ pull' = [pull EXCEPT ![n] =
                       IF pull[n].more /\ c # cursor[n][p] /\ PagesLeft(k)
                       THEN Query(p, k) ELSE Idle]
  /\ UNCHANGED <<run, append>>

(* A timeout, a refused or malformed answer, or a failed transaction at any *)
(* point of the cycle: the exception ends it and nothing more is written.   *)
FailCycle(n) ==
  /\ pull[n] # Idle
  /\ pull' = [pull EXCEPT ![n] = Idle]
  /\ UNCHANGED <<log, cursor, run, append>>

(* POST /internal/v1/sync/events/apply: history pushed outside the worker,  *)
(* one event at a time, repeated and in any order.                          *)
PushEvent(n) ==
  \E m \in Node \ {n} : \E e \in log[m] :
     /\ log' = [log EXCEPT ![n] = Persist(@, {e})]
     /\ UNCHANGED <<cursor, run, append, pull>>

(* The process of n dies and is started again on the same database. *)
Crash(n) ==
  /\ run[n] < MaxRun
  /\ run'    = [run EXCEPT ![n] = @ + 1]
  /\ append' = [append EXCEPT ![n] = [w \in Writer |-> 0]]
  /\ pull'   = [pull EXCEPT ![n] = Idle]
  /\ UNCHANGED <<log, cursor>>

Next ==
  \E n \in Node :
     \/ \E w \in Writer : ReadSeq(n, w) \/ CommitAppend(n, w)
     \/ \E p \in Peers[n] : StartCycle(n, p) \/ ServeQuery(n, p) \/ ApplyPage(n, p)
     \/ FailCycle(n)
     \/ PushEvent(n)
     \/ Crash(n)

Spec == Init /\ [][Next]_vars

-----------------------------------------------------------------------------
(* Properties *)

(* A coroutine is idle, waits for a page, or holds one its peer has served. *)
PullFits(n) ==
  \/ pull[n] = Idle
  \/ \E p \in Peers[n], k \in 0 .. MaxPages - 1 :
        \/ pull[n] = Query(p, k)
        \/ \E E \in SUBSET log[p], m \in BOOLEAN : pull[n] = Page(p, k, E, m)

(* Every variable keeps its shape: rows are well formed and finitely many,  *)
(* cursors are naturals, a coroutine is in one of its three phases.         *)
TypeOK ==
  /\ log \in [Node -> SUBSET Event]
  /\ \A n \in Node : IsFiniteSet(log[n])
  /\ cursor \in [Node -> [Node -> [Node -> Nat]]]
  /\ run \in [Node -> 0 .. MaxRun]
  /\ append \in [Node -> [Writer -> Nat]]
  /\ DOMAIN pull = Node
  /\ \A n \in Node : PullFits(n)

(* docs/architecture.md: (origin_node_id, origin_seq) is immutable. No two  *)
(* logs, and no two rows of one log, hold different events under a number,  *)
(* although handlers read the next number without a lock and event copies   *)
(* arrive over several paths.                                               *)
LogAgreement ==
  \A n, m \in Node : \A e \in log[n], f \in log[m] :
     (e.origin = f.origin /\ e.seq = f.seq) => e = f

(* advance_peer_cursor promises "never across a missing sequence": a number *)
(* that a cursor of n covers is in the log of n, whatever gaps pushes and   *)
(* relays have left, so nothing below a cursor is ever skipped for good.    *)
CursorContiguous ==
  \A n, p, o \in Node : \A s \in 1 .. cursor[n][p][o] : Holds(log[n], o, s)

(* An origin numbers its events 1, 2, 3 ... without a hole: a hole would be *)
(* a sequence no peer could ever cross.                                     *)
OriginGapFree ==
  \A n \in Node : \A s \in SeqsOf(log[n], n) : \A t \in 1 .. s : Holds(log[n], n, t)

(* What makes the three invariants inductive. A log is fed by its own       *)
(* handlers and by copies: a copied event is held where it originates, the  *)
(* origin holds exactly 1 .. k of its own, a number a handler has read is   *)
(* at most k + 1, and no log uses a number twice.                           *)
HeldAtOrigin == \A n \in Node : \A e \in log[n] : e \in log[e.origin]

NumberedByOrigin ==
  \A n \in Node : \E k \in 0 .. Quota[n] : SeqsOf(log[n], n) = 1 .. k

ReadsNext ==
  \A n \in Node, w \in Writer :
     /\ append[n][w] <= Quota[n]
     /\ \A t \in 1 .. append[n][w] - 1 : Holds(log[n], n, t)

UniqueNumbers ==
  \A n \in Node : \A e, f \in log[n] :
     (e.origin = f.origin /\ e.seq = f.seq) => e = f

IndInv ==
  /\ TypeOK
  /\ HeldAtOrigin
  /\ NumberedByOrigin
  /\ ReadsNext
  /\ UniqueNumbers
  /\ CursorContiguous

(* History is append-only and cursors never move back, in any step, a       *)
(* crash, a failed cycle and a late page included.                          *)
HistoryMonotone ==
  [][\A n \in Node :
        /\ log[n] \subseteq log'[n]
        /\ \A p, o \in Node : cursor[n][p][o] <= cursor'[n][p][o]]_vars

(* The protocol implements the replicated history it promises. *)
History == INSTANCE EventLog WITH log <- log
ImplementsEventLog == History!Spec
=============================================================================
