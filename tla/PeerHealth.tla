------------------------------- MODULE PeerHealth -------------------------------
(***************************************************************************)
(* When a node calls its peers, and what it says of them (workers/sync.py,  *)
(* api/cluster.py). The worker passes over the peers that are due, one      *)
(* after the other, and sleeps. A peer that failed is left alone for longer *)
(* each time. A peer answers health, which tells who it is, and pages,      *)
(* through the rate limiter it shares with other clients (RateLimiter). A   *)
(* peer's URL may be given to another node.                                 *)
(*                                                                          *)
(* Time is kept in countdowns, so that the worker can go on for ever.       *)
(***************************************************************************)
EXTENDS RateLimiter, FiniteSets, SequencesExt, FiniteSetsExt

CONSTANTS Setups,       \* which urls, nodes and other clients there are
          Interval,     \* sync_interval_seconds
          Initial,      \* sync_backoff_initial_seconds
          MaxBackoff,   \* sync_backoff_max_seconds
          Jitter,       \* bound on what jitter adds or takes
          MaxPages,     \* sync_max_pages_per_cycle
          MaxAttempt,   \* bound on the time an attempt takes
          MaxFailures   \* failures are counted up to here

OfflineThreshold == 3   \* PEER_OFFLINE_FAILURE_THRESHOLD

ASSUME HealthAssumption ==
  /\ {Interval, Initial, MaxBackoff, MaxPages, MaxAttempt, MaxFailures} \subseteq Nat \ {0}
  /\ Jitter \in Nat /\ Initial <= MaxBackoff
  /\ MaxFailures >= OfflineThreshold /\ Initial * 2 ^ (MaxFailures - 1) >= MaxBackoff
  /\ DOMAIN Limit = {"cluster", "login"}
  /\ \A s \in Setups : s.urls \in Seq(ToSet(s.urls))

VARIABLES
  setup,     \* the urls, in the order of the settings, what they host, clients
  host,      \* host[u]: the node at u, whether it answers, and its limiter
  peer,      \* peer[u]: PeerState of the worker
  identity,  \* identity[u]: the table peer_endpoint_identities
  loop,      \* where the worker is
  backlog,   \* backlog[u]: pages of u's history that this node still lacks
  proven     \* proven[u]: who answered the last successful attempt; not in the program

vars == <<setup, host, peer, identity, loop, backlog, proven>>

None == "none"
Urls == ToSet(setup.urls)

Caller == <<"cluster", "caller">>

-----------------------------------------------------------------------------
(* PeerState *)

(* due: time until next_attempt_at, negative when that has passed. *)
NewPeer(node) == [node |-> node, failures |-> 0, due |-> 0, succeeded |-> FALSE]

Least(i, j) == IF i < j THEN i ELSE j

(* The values of backoff_delay. *)
Backoff(failures) ==
  LET base == Least(Initial * 2 ^ (failures - 1), MaxBackoff)
  IN  {d \in (base - Jitter) .. (base + Jitter) : d >= 0}

(* Variant: the interval does not bound the sleep. *)
WakeupUnbounded ==
  LET positive == {peer[u].due : u \in Urls} \cap (Nat \ {0})
  IN  IF positive = {} THEN Interval ELSE Min(positive)

(* _next_wakeup_delay: peers that are due already do not count. *)
Wakeup ==
  LET positive == {peer[u].due : u \in Urls} \cap (Nat \ {0})
  IN  IF positive = {} THEN Interval ELSE Min(positive \cup {Interval})

(* todo: the peers that the pass has still to call. url: the one it calls.  *)
Asleep(time) ==
  [pc |-> "asleep", left |-> time, todo |-> {}, url |-> None, spent |-> 0, pages |-> 0]

Attempting == {"asking", "touching", "paging"}
Url == loop.url

(* The attempt is over. *)
NextUrl == loop' = [loop EXCEPT !.pc = "passing", !.url = None, !.spent = 0, !.pages = 0]

(* Variant: only peers that could not be reached count as failed. *)
MarkUnreached ==
  /\ \E d \in Backoff(Least(peer[Url].failures + 1, MaxFailures)) :
       peer' = [peer EXCEPT ![Url].failures = IF loop.pc = "asking" THEN Least(@ + 1, MaxFailures) ELSE @,
                            ![Url].due = d]
  /\ NextUrl

MarkFailure ==
  LET failures == Least(peer[Url].failures + 1, MaxFailures)
  IN  /\ \E d \in Backoff(failures) :
           peer' = [peer EXCEPT ![Url].failures = failures, ![Url].due = d]
      /\ NextUrl

MarkSuccess ==
  /\ peer'   = [peer EXCEPT ![Url].failures = 0, ![Url].due = Interval, ![Url].succeeded = TRUE]
  /\ proven' = [proven EXCEPT ![Url] = peer[Url].node]
  /\ NextUrl

-----------------------------------------------------------------------------
(* Peers and their clients *)

Init ==
  /\ setup    \in Setups
  /\ host     \in [Urls -> [node : setup.nodes, up : BOOLEAN, table : {<<>>}]]
  /\ identity = [u \in Urls |-> None]
  /\ peer     = [u \in Urls |-> NewPeer(None)]
  /\ loop     = Asleep(0)
  /\ backlog  = [u \in Urls |-> setup.pages]
  /\ proven   = [u \in Urls |-> None]

(* A peer fails or comes back: it, the network, or its database. *)
Flap(u) ==
  /\ setup.flaps
  /\ host' = [host EXCEPT ![u].up = ~ @]
  /\ UNCHANGED <<setup, peer, identity, loop, backlog, proven>>

(* The url is given to another node, which has all its history to tell.     *)
Reprovision(u, node) ==
  /\ setup.moves
  /\ node # host[u].node
  /\ host'    = [host EXCEPT ![u].node = node, ![u].table = <<>>]
  /\ backlog' = [backlog EXCEPT ![u] = setup.pages]
  /\ UNCHANGED <<setup, peer, identity, loop, proven>>

(* The limiter of u judges a request. Whether its periodic cleanup is due is*)
(* left open.                                                               *)
Asked(u, key, allowed) ==
  IF setup.limited
  THEN \E T \in {host[u].table, Unexpired(host[u].table)} :
          /\ Allowed(T, key) = allowed
          /\ host' = [host EXCEPT ![u].table = Check(T, key)]
  ELSE allowed /\ UNCHANGED host

(* Another client posts a login to u. *)
LoginRequest(u, c) ==
  /\ \E allowed \in BOOLEAN : Asked(u, <<"login", c>>, allowed)
  /\ UNCHANGED <<setup, peer, identity, loop, backlog, proven>>

-----------------------------------------------------------------------------
(* The worker *)

(* A pass takes the peers that are due when it begins. *)
Wake ==
  /\ loop.pc = "asleep" /\ loop.left = 0
  /\ loop' = [loop EXCEPT !.pc = "passing", !.todo = {u \in Urls : peer[u].due <= 0}]
  /\ UNCHANGED <<setup, host, peer, identity, backlog, proven>>

Sleep ==
  /\ loop.pc = "passing" /\ loop.todo = {}
  /\ loop' = Asleep(Wakeup)
  /\ UNCHANGED <<setup, host, peer, identity, backlog, proven>>

(* One peer after the other, in any order. *)
Begin ==
  /\ loop.pc = "passing"
  /\ \E u \in loop.todo :
       loop' = [loop EXCEPT !.pc = "asking", !.url = u, !.todo = @ \ {u}]
  /\ UNCHANGED <<setup, host, peer, identity, backlog, proven>>

(* The health request: who answers is set before it is stored. *)
Handshake ==
  /\ loop.pc = "asking" /\ host[Url].up
  /\ Asked(Url, Caller, TRUE)
  /\ peer' = [peer EXCEPT ![Url].node = host[Url].node]
  /\ loop' = [loop EXCEPT !.pc = "touching"]
  /\ UNCHANGED <<setup, identity, backlog, proven>>

(* _touch_peer_node commits. *)
Touch ==
  /\ loop.pc = "touching"
  /\ identity' = [identity EXCEPT ![Url] = peer[Url].node]
  /\ loop' = [loop EXCEPT !.pc = "paging"]
  /\ UNCHANGED <<setup, host, peer, backlog, proven>>

(* A page is applied, if the peer has one. It may be the last, or one more  *)
(* than a cycle may take.                                                   *)
Page ==
  /\ loop.pc = "paging" /\ host[Url].up
  /\ Asked(Url, Caller, TRUE)
  /\ backlog' = [backlog EXCEPT ![Url] = IF @ = 0 THEN 0 ELSE @ - 1]
  /\ \/ backlog[Url] <= 1 /\ MarkSuccess
     \/ backlog[Url] > 1 /\ loop.pages + 1 < MaxPages
          /\ loop' = [loop EXCEPT !.pages = @ + 1] /\ UNCHANGED <<peer, proven>>
     \/ backlog[Url] > 1 /\ loop.pages + 1 = MaxPages
          /\ MarkFailure /\ UNCHANGED proven
  /\ UNCHANGED <<setup, identity>>

(* 429 is an error like any other. *)
Rejected ==
  /\ loop.pc \in {"asking", "paging"} /\ host[Url].up
  /\ Asked(Url, Caller, FALSE)
  /\ MarkFailure
  /\ UNCHANGED <<setup, identity, backlog, proven>>

(* No answer, a refused one, or an error of the database of either side.    *)
Fail ==
  /\ loop.pc \in Attempting /\ ~ host[Url].up
  /\ MarkFailure
  /\ UNCHANGED <<setup, host, identity, backlog, proven>>

(* The process starts again: the identities are restored in the first pass. *)
Restart ==
  /\ setup.flaps
  /\ peer' = [u \in Urls |-> NewPeer(identity[u])]
  /\ loop' = Asleep(0)
  /\ UNCHANGED <<setup, host, identity, backlog, proven>>

Overdue == Interval + (2 * Len(setup.urls) - 1) * MaxAttempt

(* Only sleeping and attempts take time. A peer that is overdue for more    *)
(* than it should be is not counted on.                                     *)
Tick ==
  /\ loop.pc = "asleep" => loop.left > 0
  /\ loop.pc # "asleep" => loop.pc \in Attempting /\ loop.spent < MaxAttempt
  /\ loop' = IF loop.pc = "asleep" THEN [loop EXCEPT !.left = @ - 1]
             ELSE [loop EXCEPT !.spent = @ + 1]
  /\ peer' = [u \in Urls |-> [peer[u] EXCEPT !.due = IF @ > 0 - Overdue - 1 THEN @ - 1 ELSE @]]
  /\ host' = [u \in Urls |-> [host[u] EXCEPT !.table = Aged(@)]]
  /\ UNCHANGED <<setup, identity, backlog, proven>>

Worker == Wake \/ Sleep \/ Begin \/ Handshake \/ Touch \/ Page \/ Rejected \/ Fail

Next ==
  \/ Worker
  \/ Tick
  \/ Restart
  \/ \E u \in Urls :
       \/ Flap(u)
       \/ \E node \in setup.nodes : Reprovision(u, node)
       \/ \E c \in setup.clients : LoginRequest(u, c)

Spec == Init /\ [][Next]_vars

(* The loop goes on and time passes, whatever the others do. *)
FairSpec == Spec /\ WF_vars(Worker) /\ WF_vars(Tick)

-----------------------------------------------------------------------------
(* Properties *)

(* A due peer is called within an interval, once the calls that are under   *)
(* way or before it in the pass are over, however long other peers are to be*)
(* left alone and however often it has failed itself.                       *)
NoPeerForgotten == \A u \in Urls : peer[u].due >= 0 - Overdue

(* status_snapshot and _node_response: of several urls that the same node   *)
(* answered at, the last decides what is said of it.                        *)
Speaks(u, node) ==
  \E i \in DOMAIN setup.urls :
     /\ setup.urls[i] = u /\ peer[u].node = node
     /\ \A j \in DOMAIN setup.urls : j > i => peer[setup.urls[j]].node # node

Health(p) ==
  CASE p.failures = 0 /\ p.succeeded     -> "healthy"
    [] p.failures >= OfflineThreshold    -> "offline"
    [] p.failures \in 1 .. OfflineThreshold - 1 -> "degraded"
    [] p.failures = 0 /\ ~ p.succeeded   -> "unknown"

(* api/cluster.py: a url that was given to another node proves nothing until*)
(* that node has answered. When no attempt is under way, a node that is     *)
(* shown healthy has itself answered a whole cycle at the url, and no later *)
(* cycle there has failed or was another node's.                            *)
HealthIsEarned ==
  \A node \in setup.nodes, u \in Urls :
     (Speaks(u, node) /\ Health(peer[u]) = "healthy" /\ loop.pc \notin Attempting)
       => proven[u] = node

(* The limiter keeps no more buckets than it may, one for each key.         *)
TableBounded ==
  \A u \in Urls : /\ Len(host[u].table) <= MaxKeys
                  /\ IsInjective([i \in DOMAIN host[u].table |-> host[u].table[i].key])

(* A peer that answers from some point on is caught up with: rejections by  *)
(* its limiter end, though the worker goes on calling and other clients fill*)
(* the limiter's table, and cycles that are cut short keep their pages. The *)
(* worker does not restart, nor the url change hands, for ever.             *)
CaughtUp ==
  <>[][~ Restart /\ \A u \in Urls : host'[u].node = host[u].node]_vars =>
  \A u \in UNION {ToSet(s.urls) : s \in Setups} :
     <>[](u \in Urls /\ host[u].up) => <>(u \in Urls /\ backlog[u] = 0)
=============================================================================
