------------------------------- MODULE Identity -------------------------------
(***************************************************************************)
(* Administrators, login sessions, service tokens and Web Push              *)
(* subscriptions, replicated through the cluster history.                   *)
(*                                                                          *)
(* A node without users accepts a bootstrap, which creates its              *)
(* administrator; sessions and tokens hang on a user, subscriptions on a    *)
(* session. Endpoints change rows and append events; a node that learns     *)
(* events projects them, each when the rows it hangs on are there, and      *)
(* replays what was waiting. The endpoints of a node run on threads, the    *)
(* rows they have loaded may be stale when they commit, and an UPDATE names *)
(* only the columns they changed. Pages are applied in one transaction.     *)
(***************************************************************************)
EXTENDS Integers, FiniteSets

CONSTANTS Node,
          Thread,   \* threads that run endpoints on a node
          Quota,    \* Quota[n]: bound on the events n originates
          Calls     \* Calls[n]: the endpoints that clients use on n

Call == {"login", "issue", "refresh", "logout", "subscribe", "withdraw", "remove"}

ASSUME IdentityAssumption ==
  /\ IsFiniteSet(Node)
  /\ Quota \in [Node -> Nat]
  /\ Calls \in [Node -> SUBSET Call]

VARIABLES
  log,      \* log[n]: the users', sessions', tokens' and subscriptions' events on n
  rows,     \* rows[n]: the rows of n
  handler   \* handler[n][t]: what the endpoint on thread t has loaded

vars == <<log, rows, handler>>

(* A row is a user, a session, a token or a sub(scription), named by the    *)
(* number of the event that created it. user: whose it is, a user is named  *)
(* by the node it was bootstrapped on. session: what a subscription is bound*)
(* to. live: neither disabled_at nor revoked_at is set. hash: the refresh   *)
(* token, named by the event that issued it.                                *)
Idle == [call |-> "idle"]

-----------------------------------------------------------------------------
(* Helpers *)

Own(n) == {e \in log[n] : e.origin = n}
Room(n, k) == Cardinality(Own(n)) + k <= Quota[n]

Live(R, kind) == {r \in R : r.kind = kind /\ r.live}
Same(x, y) == x.kind = y.kind /\ x.id = y.id

(* Users are disabled with the rows that hang on them still live. *)
UserLive(R, u) == \E r \in Live(R, "user") : r.user = u

(* The k-th number n hands out from here; the row it creates bears it.      *)
NextId(n, k) == <<n, Cardinality(Own(n)) + k>>

(* No two events bear the same microsecond.                                 *)
Now == 1 + Cardinality(UNION {log[n] : n \in Node})

(* An event carries its row. dead: it says that the row was revoked or      *)
(* disabled, as its payload or as its operation.                            *)
Event(n, k, r, operation) ==
  [origin |-> n, seq |-> NextId(n, k)[2], at |-> Now + k, operation |-> operation,
   kind |-> r.kind, id |-> r.id, user |-> r.user, session |-> r.session, hash |-> r.hash,
   dead |-> ~ r.live \/ operation \in {"revoke", "tombstone"}]

NewUser(n, id) ==
  [kind |-> "user", id |-> id, user |-> n, session |-> id, live |-> TRUE, hash |-> id]
NewRow(kind, id, user, session) ==
  [kind |-> kind, id |-> id, user |-> user, session |-> session, live |-> TRUE, hash |-> id]

(* The rows R after the rows of S were written over those they replace. *)
Over(R, S) == S \cup {r \in R : ~ \E s \in S : Same(r, s)}

-----------------------------------------------------------------------------
(* Projection *)

Events(L, kind, id) == {e \in L : e.kind = kind /\ e.id = id}

(* Variant: the oldest payload stays. *)
Oldest(E) == CHOOSE e \in E : \A f \in E : e.at <= f.at

Newest(E) == CHOOSE e \in E : \A f \in E : f.at <= e.at

(* Variant: the newest event of a row decides alone. *)
RowOfNewest(L, kind, id) ==
  LET e == Newest(Events(L, kind, id))
  IN  [kind |-> kind, id |-> id, user |-> e.user, session |-> e.session,
       live |-> ~ e.dead, hash |-> e.hash]

(* The row the events ask for: the newest says what it holds, any of them   *)
(* may have ended it.                                                       *)
RowOf(L, kind, id) ==
  LET e == Newest(Events(L, kind, id))
  IN  [kind |-> kind, id |-> id, user |-> e.user, session |-> e.session,
       live |-> \A f \in Events(L, kind, id) : ~ f.dead, hash |-> e.hash]

Bootstraps(L) == {e \in L : e.kind = "user"}

Conflict(L) == Cardinality(Bootstraps(L)) > 1

(* Variant: a conflict keeps the newcomer out, users that have a row stay.  *)
ProjectUsersKeeping(R, L, new) ==
  IF Bootstraps(new) = {} \/ Conflict(L) THEN R
  ELSE Over(R, {NewUser(e.user, e.id) : e \in Bootstraps(new)})

(* _project_user, called for each user event of the page: the conflict      *)
(* disables the users of all bootstraps that have a row and creates none.   *)
ProjectUsers(R, L, new) ==
  IF Bootstraps(new) = {} THEN R
  ELSE IF Conflict(L)
       THEN {IF r.kind = "user" THEN [r EXCEPT !.live = FALSE] ELSE r : r \in R}
       ELSE Over(R, {NewUser(e.user, e.id) : e \in Bootstraps(new)})

(* _replay_user_dependencies runs where a user was projected. *)
Touched(L, new) == IF Conflict(L) THEN {} ELSE {e.user : e \in Bootstraps(new)}

(* Variant: nothing waits for its user. *)
DueNew(L, new, kind) == {e \in new : e.kind = kind}

(* Events of the page and those that were waiting for a user. *)
Due(L, new, kind) ==
  {e \in L : e.kind = kind /\ (e \in new \/ e.user \in Touched(L, new))}

HasUser(R, u) == \E r \in R : r.kind = "user" /\ r.user = u

(* _project_session, _project_service_token *)
ProjectKind(R, L, new, kind) ==
  Over(R, {RowOf(L, kind, e.id) : e \in {f \in Due(L, new, kind) : HasUser(R, f.user)}})

(* _project_push_subscription: for its own events, those of its user and,   *)
(* from _project_session, those of its session. A revoked session disables. *)
ProjectSubs(R, L, new) ==
  LET due   == {e \in L : e.kind = "sub" /\
                  \/ e \in Due(L, new, "sub")
                  \/ \E f \in Due(L, new, "session") : f.id = e.session /\ HasUser(R, f.user)}
      bound == {e \in due : \E s \in R : s.kind = "session" /\ s.id = e.session
                                         /\ s.user = e.user}
      ended(e) == \E s \in R : s.kind = "session" /\ s.id = e.session /\ ~ s.live
  IN  Over(R, {LET r == RowOf(L, "sub", e.id)
               IN  [r EXCEPT !.live = @ /\ ~ ended(e)] : e \in bound})

(* apply_cluster_events: by priority, users, then sessions and tokens, then *)
(* subscriptions.                                                           *)
Project(R, L, new) ==
  LET users    == ProjectUsers(R, L, new)
      sessions == ProjectKind(users, L, new, "session")
      tokens   == ProjectKind(sessions, L, new, "token")
  IN  ProjectSubs(tokens, L, new)

-----------------------------------------------------------------------------
(* Endpoints *)

Init ==
  /\ log     = [n \in Node |-> {}]
  /\ rows    = [n \in Node |-> {}]
  /\ handler = [n \in Node |-> [t \in Thread |-> Idle]]

(* bootstrap: under BEGIN IMMEDIATE, on a node without users. The session   *)
(* is issued first.                                                         *)
Bootstrap(n) ==
  /\ Room(n, 2)
  /\ ~ \E r \in rows[n] : r.kind = "user"
  /\ LET user    == NewUser(n, NextId(n, 2))
         session == NewRow("session", NextId(n, 1), n, NextId(n, 1))
     IN  /\ rows' = [rows EXCEPT ![n] = @ \cup {user, session}]
         /\ log'  = [log EXCEPT ![n] = @ \cup {Event(n, 1, session, "issued"),
                                               Event(n, 2, user, "bootstrap")}]
  /\ UNCHANGED handler

(* Each endpoint loads the row it is about and finds that it may go on:     *)
(* login and token creation a live user; refresh the session of the refresh *)
(* token, whatever its state; a subscription a live session of a live user  *)
(* (current_session); the others the row that they end.                     *)
LoadedBy(n) ==
  [login     |-> Live(rows[n], "user"),
   issue     |-> Live(rows[n], "user"),
   refresh   |-> {r \in rows[n] : r.kind = "session"},
   logout    |-> {r \in rows[n] : r.kind = "session"},
   subscribe |-> {r \in Live(rows[n], "session") : UserLive(rows[n], r.user)},
   withdraw  |-> Live(rows[n], "token"),
   remove    |-> Live(rows[n], "sub")]

Load(n, t, call) ==
  /\ handler[n][t] = Idle
  /\ \E r \in LoadedBy(n)[call] :
       handler' = [handler EXCEPT ![n][t] =
         [call |-> call, seen |-> r, owned |-> UserLive(rows[n], r.user),
          subs |-> {s \in Live(rows[n], "sub") : s.user = r.user}]]
  /\ UNCHANGED <<log, rows>>

Done(n, t) == handler' = [handler EXCEPT ![n][t] = Idle]

(* disable_push_subscription for each of S: row and tombstone. The events   *)
(* follow the first k of the transaction.                                   *)
Tombstones(n, k, S) ==
  LET nth == CHOOSE f \in [S -> 1 .. Cardinality(S)] : \A x, y \in S : f[x] = f[y] => x = y
  IN  {Event(n, k + nth[s], [s EXCEPT !.live = FALSE], "tombstone") : s \in S}

Ended(R, S) == {IF \E s \in S : Same(r, s) THEN [r EXCEPT !.live = FALSE] ELSE r : r \in R}

(* disable_session_push_subscriptions reads them in the same transaction. *)
SubsOf(n, session) == {s \in Live(rows[n], "sub") : s.session = session}

(* A new row on the user that was loaded. *)
AddRow(n, t, kind, operation) ==
  /\ Room(n, 1)
  /\ LET r == NewRow(kind, NextId(n, 1), handler[n][t].seen.user, NextId(n, 1))
     IN  /\ rows' = [rows EXCEPT ![n] = @ \cup {r}]
         /\ log'  = [log EXCEPT ![n] = @ \cup {Event(n, 1, r, operation)}]
  /\ Done(n, t)

LogIn(n, t) == handler[n][t].call = "login" /\ AddRow(n, t, "session", "issued")
IssueToken(n, t) == handler[n][t].call = "issue" /\ AddRow(n, t, "token", "upsert")

(* rotate_session where the session looks usable: a new refresh token. The  *)
(* row keeps its revoked_at, whatever was loaded.                           *)
Rotate(n, t) ==
  /\ handler[n][t].call = "refresh" /\ Room(n, 1)
  /\ handler[n][t].seen.live /\ handler[n][t].owned
  /\ LET new == [handler[n][t].seen EXCEPT !.hash = NextId(n, 1)]
     IN  /\ rows' = [rows EXCEPT ![n] =
              {IF Same(r, new) THEN [r EXCEPT !.hash = new.hash] ELSE r : r \in @}]
         /\ log'  = [log EXCEPT ![n] = @ \cup {Event(n, 1, new, "rotate")}]
  /\ Done(n, t)

(* revoke_device_session: revoked unless it was, its subscriptions disabled. *)
RevokeSession(n, t) ==
  /\ LET s    == handler[n][t].seen
         subs == SubsOf(n, s.id)
         one  == IF s.live THEN {[s EXCEPT !.live = FALSE]} ELSE {}
     IN  /\ Room(n, Cardinality(one) + Cardinality(subs))
         /\ rows' = [rows EXCEPT ![n] = Ended(@, one \cup subs)]
         /\ log'  = [log EXCEPT ![n] = @ \cup {Event(n, 1, r, "revoke") : r \in one}
                                         \cup Tombstones(n, Cardinality(one), subs)]
  /\ Done(n, t)

(* Logout does the same, and so does a refresh of a session that is revoked,*)
(* has expired (at any time, as far as this module goes) or belongs to a    *)
(* disabled user.                                                           *)
Logout(n, t) == handler[n][t].call = "logout" /\ RevokeSession(n, t)
RefuseRefresh(n, t) == handler[n][t].call = "refresh" /\ RevokeSession(n, t)

(* create_push_subscription: all sessions of a user are of one browser, so  *)
(* every live subscription that was loaded has the endpoint. The one of the *)
(* session is kept if its keys are the same, and then disabled_at, loaded as*)
(* null and set to null, is not written. The others are disabled.           *)
CommitSubscribe(n, t) ==
  /\ handler[n][t].call = "subscribe"
  /\ \E kept \in SUBSET {s \in handler[n][t].subs : s.session = handler[n][t].seen.id} :
       LET k     == Cardinality(handler[n][t].subs \ kept)
           stale == handler[n][t].subs \ kept
           new   == NewRow("sub", NextId(n, k + 1), handler[n][t].seen.user,
                           handler[n][t].seen.id)
           bound == IF kept = {} THEN {new} ELSE kept
       IN  /\ Cardinality(kept) <= 1 /\ Room(n, k + 1)
           /\ rows' = [rows EXCEPT ![n] =
                Ended(@, stale) \cup (IF kept = {} THEN {new} ELSE {})]
           /\ log'  = [log EXCEPT ![n] = @ \cup Tombstones(n, 0, stale)
                                           \cup {Event(n, k + 1, r, "upsert") : r \in bound}]
  /\ Done(n, t)

(* The token or subscription that was loaded is ended. *)
EndRow(n, t) ==
  /\ Room(n, 1)
  /\ LET r == [handler[n][t].seen EXCEPT !.live = FALSE]
     IN  /\ rows' = [rows EXCEPT ![n] = Ended(@, {r})]
         /\ log'  = [log EXCEPT ![n] = @ \cup {Event(n, 1, r, "tombstone")}]
  /\ Done(n, t)

RevokeToken(n, t) == handler[n][t].call = "withdraw" /\ EndRow(n, t)
Unsubscribe(n, t) == handler[n][t].call = "remove" /\ EndRow(n, t)

(* eligible_push_subscriptions, before a push is sent: bindings to a revoked*)
(* session or a disabled user are removed, with all of their session.       *)
Sweep(n) ==
  LET dead == {s \in Live(rows[n], "sub") :
                 \/ ~ UserLive(rows[n], s.user)
                 \/ \A r \in Live(rows[n], "session") : r.id # s.session}
      subs == {s \in Live(rows[n], "sub") : \E d \in dead : d.session = s.session}
  IN  /\ subs # {} /\ Room(n, Cardinality(subs))
      /\ rows' = [rows EXCEPT ![n] = Ended(@, subs)]
      /\ log'  = [log EXCEPT ![n] = @ \cup Tombstones(n, 0, subs)]
      /\ UNCHANGED handler

(* The number is taken, the statement fails or the process dies. *)
Abort(n, t) ==
  /\ handler[n][t] # Idle
  /\ Done(n, t)
  /\ UNCHANGED <<log, rows>>

(* A page of what p has and n has not, by origin_seq. *)
Learn(n, p) ==
  \E E \in (SUBSET (log[p] \ log[n])) \ {{}} :
     /\ \A e \in E, f \in (log[p] \ log[n]) \ E : e.origin = f.origin => e.seq < f.seq
     /\ log'  = [log EXCEPT ![n] = @ \cup E]
     /\ rows' = [rows EXCEPT ![n] = Project(@, log[n] \cup E, E)]
     /\ UNCHANGED handler

Next ==
  \E n \in Node :
     \/ Bootstrap(n)
     \/ \E t \in Thread :
          \/ \E call \in Calls[n] : Load(n, t, call)
          \/ LogIn(n, t) \/ IssueToken(n, t)
          \/ Rotate(n, t)
          \/ Logout(n, t) \/ RefuseRefresh(n, t)
          \/ CommitSubscribe(n, t)
          \/ RevokeToken(n, t) \/ Unsubscribe(n, t)
          \/ Abort(n, t)
     \/ Sweep(n)
     \/ \E p \in Node \ {n} : Learn(n, p)

Spec == Init /\ [][Next]_vars

-----------------------------------------------------------------------------
(* Properties *)

(* A node that holds an event ending a row does not have that row live.     *)
KnownEndHolds ==
  \A n \in Node : \A e \in log[n] : e.dead => \A r \in Live(rows[n], e.kind) : r.id # e.id

(* An event whose user and session the node has is not left waiting.        *)
NothingLeftWaiting ==
  \A n \in Node : \A e \in log[n] :
     (/\ e.kind # "user" /\ HasUser(rows[n], e.user)
      /\ e.kind = "sub" => \E s \in rows[n] : s.kind = "session" /\ s.id = e.session)
     => \E r \in rows[n] : Same(r, e)

(* What opens a door on n: live sessions with their refresh token, live     *)
(* tokens, subscriptions of live sessions, all of a live user.              *)
Usable(n) ==
  LET own == {r \in rows[n] : r.kind # "user" /\ r.live /\ UserLive(rows[n], r.user)}
  IN  {r \in own : r.kind = "sub" => \E s \in own : s.kind = "session" /\ s.id = r.session}

(* Nodes with the same history grant the same access, although users and    *)
(* rows may have come in another order.                                     *)
SameHistorySameAccess ==
  \A n, m \in Node : log[n] = log[m] => Usable(n) = Usable(m)

(* application/sync.py: "A split-brain bootstrap must stop authentication   *)
(* until an operator resolves it." No user logs in on a node that holds two *)
(* bootstraps.                                                              *)
ConflictStopsLogins ==
  \A n \in Node : Conflict(log[n]) => Live(rows[n], "user") = {}
=============================================================================
