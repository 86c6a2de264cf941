----------------------------- MODULE IdentityProofs -----------------------------
(***************************************************************************)
(* Proofs about Identity, for any finite set of nodes and any threads,      *)
(* quotas and clients: of IndInv, which says what rows and events are of,   *)
(* that nothing that has ended is live; of WaitInv, which needs it, that    *)
(* nothing waits for what is there; and of AccessInv, which needs both, that*)
(* equal histories grant equal access and that a conflict stops logins. The *)
(* last two hold where every node at odds has a user, as on any pair.       *)
(***************************************************************************)
EXTENDS Identity, TLAPS, FiniteSetTheorems

RowKind == {"user", "session", "token", "sub"}
Operation == {"issued", "bootstrap", "upsert", "rotate", "revoke", "tombstone"}
Id == Node \X (Nat \ {0})

Row == [kind : RowKind, id : Id, user : Node, session : Id, live : BOOLEAN, hash : Id]
Entry == [origin : Node, seq : Nat, at : Nat, operation : Operation, kind : RowKind, id : Id,
          user : Node, session : Id, hash : Id, dead : BOOLEAN]
Task == [call : Call, seen : Row, owned : BOOLEAN, subs : SUBSET Row]

(* Rows and events of one thing agree on whose it is. *)
Kin(x, y) == Same(x, y) /\ x.user = y.user /\ x.session = y.session

(* What a history of events is, on one node or on several. *)
History(L) ==
  /\ L \in SUBSET Entry
  /\ \A e, f \in L : Same(e, f) => Kin(e, f)
  /\ \A e \in L : e.kind = "user" => ~ e.dead /\ e.session = e.id

Everything == UNION {log[n] : n \in Node}
Count(n) == Cardinality(Own(n))

(* A node holds what it has originated, in as many numbers as it holds. *)
Numbered ==
  \A n \in Node :
     /\ \A e \in Everything : e.origin = n => e \in log[n]
     /\ \A e \in Own(n) : e.seq <= Count(n)

(* Rows are named by numbers that have been given. *)
Named ==
  \A e \in Everything : e.id[2] <= Count(e.id[1])

LogInv ==
  /\ log \in [Node -> SUBSET Entry]
  /\ \A n \in Node : IsFiniteSet(log[n])
  /\ History(Everything) /\ Numbered /\ Named

(* What a row of R hangs on is in R. *)
Hangs(R, r) ==
  /\ r.kind # "user" => HasUser(R, r.user)
  /\ r.kind = "sub" => \E s \in R : s.kind = "session" /\ s.id = r.session /\ s.user = r.user

(* A table of rows that a history has made. *)
Table(R, L) ==
  /\ R \in SUBSET Row /\ IsFiniteSet(R)
  /\ \A r \in R : Hangs(R, r) /\ \E e \in L : Kin(r, e)

(* What endpoints have loaded is on the node, whatever has become of it. *)
Fits(R, h) ==
  /\ \E r \in R : Kin(r, h.seen)
  /\ IsFiniteSet(h.subs)
  /\ \A s \in h.subs : s.kind = "sub" /\ s.live /\ \E r \in R : Kin(r, s)
  /\ h.call \in {"login", "issue"} => h.seen.kind = "user"
  /\ h.call \in {"refresh", "logout", "subscribe"} => h.seen.kind = "session"
  /\ h.call \in {"withdraw", "remove"} => h.seen.kind # "user"

RowInv ==
  /\ rows \in [Node -> SUBSET Row]
  /\ \A n \in Node : Table(rows[n], log[n])
  /\ handler \in [Node -> [Thread -> {Idle} \cup Task]]
  /\ \A n \in Node, t \in Thread : handler[n][t] # Idle => Fits(rows[n], handler[n][t])

IndInv == LogInv /\ RowInv /\ KnownEndHolds

(* What nodes tell of a user, its own node has the row for, and what they   *)
(* tell of a subscription, some node tells of its session.                  *)
UsersRooted == \A e \in Everything : HasUser(rows[e.user], e.user)

SubsRooted ==
  \A e \in Everything : e.kind = "sub" =>
     \E f \in Everything : f.kind = "session" /\ f.id = e.session /\ f.user = e.user

WaitInv == UsersRooted /\ SubsRooted /\ NothingLeftWaiting
-----------------------------------------------------------------------------
(* Finite sets *)

(* A finite set of numbers has a largest one: a smallest set without one    *)
(* would have a smaller one.                                                *)
LEMMA LargestExists ==
  ASSUME NEW S \in SUBSET Nat, S # {}, IsFiniteSet(S)
  PROVE  \E m \in S : \A x \in S : x <= m
<1> DEFINE Has(X) == \E m \in X : \A x \in X : x <= m
           T == {k \in Nat : \E X \in SUBSET S : X # {} /\ Cardinality(X) = k /\ ~ Has(X)}
<1> SUFFICES ASSUME ~ Has(S) PROVE FALSE
  OBVIOUS
<1>1. Cardinality(S) \in T
  BY FS_CardinalityType
<1>2. PICK k \in T : \A j \in T : ~ (<<j, k>> \in OpToRel(<, Nat))
  <2> HIDE DEF T
  <2>1. T \subseteq Nat
    BY DEF T
  <2> QED BY <1>1, <2>1, NatLessThanWellFounded, WFMin
<1>3. PICK X \in SUBSET S : X # {} /\ Cardinality(X) = k /\ ~ Has(X)
  BY <1>2
<1>4. PICK x \in X : TRUE
  BY <1>3
<1> DEFINE Y == X \ {x}
<1>5. IsFiniteSet(X)
  BY FS_Subset
<1>6. Y \in SUBSET S /\ Cardinality(Y) = k - 1 /\ k \in Nat /\ Cardinality(Y) \in Nat
  BY <1>2, <1>3, <1>4, <1>5, FS_RemoveElement, FS_CardinalityType
<1>7. k - 1 \notin T
  <2> HIDE DEF T
  <2>1. \A j \in T : j \in Nat => ~ (j < k)
    BY <1>2, <1>6 DEF OpToRel
  <2> QED BY <2>1, <1>6
<1>8. CASE Y = {}
  BY <1>3, <1>4, <1>8
<1>9. CASE Y # {}
  <2>1. PICK m \in Y : \A y \in Y : y <= m
    BY <1>6, <1>7, <1>9
  <2>2. m \in Nat /\ x \in Nat /\ \A y \in X : y = x \/ y \in Y
    BY <1>4
  <2>3. X \subseteq Nat
    OBVIOUS
  <2>4. CASE x <= m
    BY <1>3, <2>1, <2>2, <2>4
  <2>5. CASE m <= x
    <3>1. \A y \in X : y <= x
      BY <2>1, <2>2, <2>3, <2>5
    <3> QED BY <3>1, <1>3, <1>4
  <2> QED BY <2>2, <2>4, <2>5
<1> QED BY <1>8, <1>9

(* The values of a function on a finite set. *)
LEMMA ImageFinite ==
  ASSUME NEW S, IsFiniteSet(S), NEW f, DOMAIN f = S, f = [x \in S |-> f[x]]
  PROVE  IsFiniteSet({f[x] : x \in S})
<1> DEFINE T == {f[x] : x \in S}
<1>1. f \in Surjection(S, T)
  BY DEF Surjection
<1> HIDE DEF T
<1>2. IsFiniteSet(T)
  BY <1>1, FS_Surjection
<1> QED BY <1>2 DEF T
-----------------------------------------------------------------------------
(* Histories *)

(* What a node has originated can be counted. *)
LEMMA CountNat ==
  ASSUME LogInv, NEW n \in Node
  PROVE  IsFiniteSet(Own(n)) /\ Count(n) \in Nat
<1>1. IsFiniteSet(Own(n))
  BY FS_Subset DEF LogInv, Own
<1> QED BY <1>1, FS_CardinalityType DEF Count

(* All nodes together hold finitely many events. *)
LEMMA EverythingFinite == LogInv => IsFiniteSet(Everything)
<1> SUFFICES ASSUME LogInv PROVE IsFiniteSet(Everything)
  OBVIOUS
<1>1. log = [n \in Node |-> log[n]] /\ DOMAIN log = Node
  BY DEF LogInv
<1>2. IsFiniteSet({log[n] : n \in Node})
  BY <1>1, ImageFinite, IdentityAssumption
<1> QED BY <1>2, FS_UNION DEF LogInv, Everything

(* An event carries its row and the next numbers. *)
LEMMA EventFacts ==
  ASSUME LogInv, NEW n \in Node, NEW k \in Nat \ {0}, NEW r \in Row,
         NEW operation \in Operation
  PROVE  /\ NextId(n, k) = <<n, Count(n) + k>> /\ NextId(n, k) \in Id
         /\ Event(n, k, r, operation) \in Entry
         /\ Event(n, k, r, operation).origin = n
         /\ Event(n, k, r, operation).seq = Count(n) + k
         /\ Kin(Event(n, k, r, operation), r)
         /\ Event(n, k, r, operation).dead <=>
               (~ r.live \/ operation \in {"revoke", "tombstone"})
<1>1. Count(n) \in Nat
  BY CountNat
<1>2. NextId(n, k) = <<n, Count(n) + k>> /\ NextId(n, k) \in Id /\ NextId(n, k)[2] = Count(n) + k
  BY <1>1 DEF NextId, Count, Id
<1>3. Now + k \in Nat
  <2>1. Cardinality(Everything) \in Nat
    BY EverythingFinite, FS_CardinalityType
  <2> QED BY <2>1 DEF Now, Everything
<1> HIDE DEF Id
<1>4. /\ Event(n, k, r, operation).origin = n
      /\ Event(n, k, r, operation).seq = Count(n) + k
      /\ Event(n, k, r, operation).dead =
            (~ r.live \/ operation \in {"revoke", "tombstone"})
  BY <1>2 DEF Event
<1>5. Kin(Event(n, k, r, operation), r)
  BY DEF Event, Kin, Same
<1>6. Event(n, k, r, operation) \in Entry
  BY <1>1, <1>2, <1>3 DEF Event, Entry, Row
<1> QED BY <1>2, <1>4, <1>5, <1>6

(* A node adds events that bear the next numbers, about rows it holds or    *)
(* that bear these numbers too.                                             *)
LEMMA AppendKeepsLog ==
  ASSUME LogInv, NEW n \in Node, NEW New \in SUBSET Entry, IsFiniteSet(New),
         \A e \in New :
            /\ e.origin = n /\ Count(n) < e.seq /\ e.seq <= Count(n) + Cardinality(New)
            /\ \/ \E f \in log[n] : Kin(e, f)
               \/ e.id[1] = n /\ Count(n) < e.id[2] /\ e.id[2] <= Count(n) + Cardinality(New)
            /\ e.kind = "user" => ~ e.dead /\ e.session = e.id,
         \A e, f \in New : Same(e, f) => Kin(e, f),
         log' = [log EXCEPT ![n] = @ \cup New]
  PROVE  LogInv'
<1> DEFINE K == Cardinality(New)
<1>1. Count(n) \in Nat /\ IsFiniteSet(Own(n)) /\ K \in Nat
  BY CountNat, FS_CardinalityType
<1>2. /\ log' \in [Node -> SUBSET Entry] /\ log'[n] = log[n] \cup New
      /\ \A m \in Node \ {n} : log'[m] = log[m]
  BY DEF LogInv
<1>3. \A m \in Node : IsFiniteSet(log'[m])
  <2>1. IsFiniteSet(log[n] \cup New)
    BY FS_Union DEF LogInv
  <2> QED BY <1>2, <2>1 DEF LogInv
<1>4. Everything' = Everything \cup New
  BY <1>2 DEF Everything
<1>5. Own(n)' = Own(n) \cup New /\ \A m \in Node \ {n} : Own(m)' = Own(m)
  BY <1>2 DEF Own
<1>6. Count(n)' = Count(n) + K /\ \A m \in Node \ {n} : Count(m)' = Count(m)
  <2>1. Own(n) \cap New = {}
    <3> SUFFICES ASSUME NEW e \in Own(n), e \in New PROVE FALSE
      OBVIOUS
    <3>1. e.seq \in Nat
      BY DEF Entry
    <3>2. e.seq <= Count(n) /\ Count(n) < e.seq
      BY DEF LogInv, Numbered
    <3> QED BY <1>1, <3>1, <3>2
  <2>2. Cardinality(Own(n) \cup New) = Cardinality(Own(n)) + K - 0
    BY <1>1, <2>1, FS_Union, FS_EmptySet
  <2> QED BY <1>1, <1>5, <2>2 DEF Count
<1>7. Numbered'
  <2>1. \A m \in Node : \A e \in Everything' : e.origin = m => e \in log'[m]
    BY <1>2, <1>4 DEF LogInv, Numbered
  <2>2. \A m \in Node : \A e \in Own(m)' : e.seq <= Count(m)'
    <3> SUFFICES ASSUME NEW e \in Own(n)' PROVE e.seq <= Count(n)'
      BY <1>5, <1>6 DEF LogInv, Numbered
    <3>1. CASE e \in Own(n)
      <4>1. e.seq <= Count(n) /\ e.seq \in Nat
        BY <3>1 DEF LogInv, Numbered, Own, Entry
      <4> QED BY <1>1, <1>6, <4>1
    <3>2. CASE e \in New
      BY <1>6, <3>2
    <3> QED BY <1>5, <3>1, <3>2
  <2> QED BY <2>1, <2>2 DEF Numbered
<1>8. \A e \in Everything : e \in Entry /\ e.id[1] \in Node /\ e.id[2] \in Nat
  BY DEF LogInv, History, Entry, Id
<1>9. Named'
  <2> SUFFICES ASSUME NEW e \in Everything' PROVE e.id[2] <= Count(e.id[1])'
    BY DEF Named
  <2>1. ASSUME NEW f \in Everything PROVE f.id[2] <= Count(f.id[1])'
    <3>1. f.id[2] <= Count(f.id[1]) /\ f.id[1] \in Node /\ f.id[2] \in Nat
      BY <1>8, <2>1 DEF LogInv, Named
    <3>2. CASE f.id[1] = n
      BY <3>1, <3>2, <1>1, <1>6
    <3>3. CASE f.id[1] # n
      BY <3>1, <3>3, <1>6
    <3> QED BY <3>2, <3>3
  <2>2. CASE e \in New /\ e.id[1] = n /\ e.id[2] <= Count(n) + K
    BY <2>2, <1>6
  <2>3. CASE e \in New /\ \E f \in log[n] : Kin(e, f)
    <3>1. PICK f \in log[n] : e.id = f.id
      BY <2>3 DEF Kin, Same
    <3>2. f \in Everything
      BY DEF Everything
    <3> QED BY <2>1, <3>1, <3>2
  <2> QED BY <1>4, <2>1, <2>2, <2>3
<1>10. History(Everything)'
  <2>1. Everything' \in SUBSET Entry
    BY <1>4, <1>8
  <2>2. \A e \in Everything' : e.kind = "user" => ~ e.dead /\ e.session = e.id
    BY <1>4 DEF LogInv, History
  <2>3. ASSUME NEW e \in New, NEW f \in Everything, Same(e, f) PROVE Kin(e, f) /\ Kin(f, e)
    <3>1. PICK g \in log[n] : Kin(e, g)
      <4>1. f.id[2] <= Count(f.id[1]) /\ f.id = e.id
        BY <2>3 DEF LogInv, Named, Same
      <4>2. ~ (e.id[1] = n /\ Count(n) < e.id[2])
        <5>1. e.id[2] \in Nat
          BY <1>8, <4>1
        <5> QED BY <1>1, <4>1, <5>1
      <4> QED BY <4>2
    <3>2. g \in Everything /\ Same(g, f)
      BY <3>1, <2>3 DEF Everything, Kin, Same
    <3>3. Kin(g, f)
      BY <3>2 DEF LogInv, History
    <3> QED BY <3>1, <3>3 DEF Kin, Same
  <2>4. \A e, f \in Everything' : Same(e, f) => Kin(e, f)
    <3> SUFFICES ASSUME NEW e \in Everything', NEW f \in Everything', Same(e, f)
                 PROVE  Kin(e, f)
      OBVIOUS
    <3>1. CASE e \in New /\ f \in Everything
      BY <2>3, <3>1
    <3>2. CASE f \in New /\ e \in Everything
      BY <2>3, <3>2 DEF Same
    <3>3. CASE e \in Everything /\ f \in Everything
      BY <3>3 DEF LogInv, History
    <3> QED BY <1>4, <3>1, <3>2, <3>3
  <2> QED BY <2>1, <2>2, <2>4 DEF History
<1> QED BY <1>2, <1>3, <1>7, <1>9, <1>10 DEF LogInv

(* A node that learns has all it has originated already. *)
LEMMA LearnKeepsLog ==
  ASSUME LogInv, NEW n \in Node, NEW p \in Node, NEW E \in SUBSET log[p],
         log' = [log EXCEPT ![n] = @ \cup E]
  PROVE  LogInv' /\ Everything' = Everything
<1>1. /\ log' \in [Node -> SUBSET Entry] /\ log'[n] = log[n] \cup E
      /\ \A m \in Node \ {n} : log'[m] = log[m]
  BY DEF LogInv
<1>2. \A m \in Node : IsFiniteSet(log'[m])
  <2>1. IsFiniteSet(log[n] \cup E)
    BY FS_Union, FS_Subset DEF LogInv
  <2> QED BY <1>1, <2>1 DEF LogInv
<1>3. Everything' = Everything
  BY <1>1 DEF Everything
<1>4. \A m \in Node : Own(m)' = Own(m)
  <2> SUFFICES ASSUME NEW m \in Node PROVE Own(m)' = Own(m)
    OBVIOUS
  <2>1. \A e \in log'[m] : e \in Everything
    BY <1>3 DEF Everything
  <2>2. log[m] \subseteq log'[m]
    BY <1>1
  <2> QED BY <2>1, <2>2 DEF Own, LogInv, Numbered
<1>5. \A m \in Node : Count(m)' = Count(m)
  BY <1>4 DEF Count
<1>6. Numbered'
  <2>1. \A m \in Node : log[m] \subseteq log'[m]
    BY <1>1
  <2> QED BY <2>1, <1>3, <1>4, <1>5 DEF LogInv, Numbered
<1>7. Named'
  BY <1>3, <1>5 DEF LogInv, Named, History, Entry, Id
<1>8. History(Everything)'
  BY <1>3 DEF LogInv, History
<1> QED BY <1>1, <1>2, <1>3, <1>6, <1>7, <1>8 DEF LogInv

(* The rows of a finite set can be numbered. *)
LEMMA NumberingExists ==
  ASSUME NEW S, IsFiniteSet(S)
  PROVE  LET c   == Cardinality(S)
             nth == CHOOSE f \in [S -> 1 .. c] : \A x, y \in S : f[x] = f[y] => x = y
         IN  nth \in [S -> 1 .. c] /\ \A x, y \in S : nth[x] = nth[y] => x = y
<1> DEFINE c == Cardinality(S)
<1>1. ExistsBijection(1 .. c, S)
  BY FS_CardinalityType
<1>2. PICK g \in Bijection(1 .. c, S) : TRUE
  BY <1>1 DEF ExistsBijection
<1>3. \A x \in S : \E i \in 1 .. c : g[i] = x
  BY <1>2 DEF Bijection, Surjection
<1> DEFINE f == [x \in S |-> CHOOSE i \in 1 .. c : g[i] = x]
<1>4. \A x \in S : f[x] \in 1 .. c /\ g[f[x]] = x
  BY <1>3
<1>5. f \in [S -> 1 .. c] /\ \A x, y \in S : f[x] = f[y] => x = y
  BY <1>4
<1> HIDE DEF f, c
<1> QED BY <1>5 DEF c

(* As many tombstones as subscriptions, with the numbers after the first k. *)
LEMMA TombstonesFacts ==
  ASSUME LogInv, NEW n \in Node, NEW k \in Nat, NEW S \in SUBSET Row, IsFiniteSet(S)
  PROVE  /\ Tombstones(n, k, S) \in SUBSET Entry /\ IsFiniteSet(Tombstones(n, k, S))
         /\ Cardinality(Tombstones(n, k, S)) = Cardinality(S) /\ Cardinality(S) \in Nat
         /\ \A e \in Tombstones(n, k, S) :
               /\ e.origin = n
               /\ Count(n) + k < e.seq /\ e.seq <= Count(n) + k + Cardinality(S)
               /\ \E s \in S : Kin(e, s)
<1> DEFINE c == Cardinality(S)
           Fine(f) == f \in [S -> 1 .. c] /\ \A x, y \in S : f[x] = f[y] => x = y
           nth == CHOOSE f \in [S -> 1 .. c] : \A x, y \in S : f[x] = f[y] => x = y
           gone(s) == [s EXCEPT !.live = FALSE]
           T == {Event(n, k + nth[s], gone(s), "tombstone") : s \in S}
<1>1. c \in Nat /\ Count(n) \in Nat
  BY FS_CardinalityType, CountNat
<1>3. Fine(nth)
  BY NumberingExists
<1> HIDE DEF nth
<1>4. \A s \in S : /\ nth[s] \in 1 .. c /\ k + nth[s] \in Nat \ {0}
                   /\ gone(s) \in Row /\ Kin(gone(s), s)
  <2> SUFFICES ASSUME NEW s \in S
               PROVE  /\ nth[s] \in 1 .. c /\ k + nth[s] \in Nat \ {0}
                      /\ gone(s) \in Row /\ Kin(gone(s), s)
    OBVIOUS
  <2>1. nth[s] \in 1 .. c
    BY <1>3
  <2>2. k + nth[s] \in Nat \ {0}
    <3> HIDE DEF c
    <3> QED BY <1>1, <2>1
  <2>3. gone(s) \in Row
    BY DEF Row
  <2>4. Kin(gone(s), s)
    BY DEF Row, Kin, Same
  <2> QED BY <2>1, <2>2, <2>3, <2>4
<1> HIDE DEF gone
<1> DEFINE event(s) == Event(n, k + nth[s], gone(s), "tombstone")
<1>5. \A s \in S : /\ event(s) \in Entry /\ event(s).origin = n
                   /\ event(s).seq = Count(n) + (k + nth[s])
                   /\ Kin(event(s), gone(s))
  BY <1>4, EventFacts DEF Operation
<1> HIDE DEF event
<1>6. T = {event(s) : s \in S} /\ Tombstones(n, k, S) = T
  BY DEF Tombstones, event, nth, gone
<1>7. IsFiniteSet(T) /\ Cardinality(T) = c
  <2> DEFINE b == [s \in S |-> event(s)]
  <2>1. ASSUME NEW x \in S, NEW y \in S, event(x) = event(y) PROVE x = y
    <3>1. Count(n) + (k + nth[x]) = Count(n) + (k + nth[y])
      BY <1>5, <2>1
    <3>2. nth[x] = nth[y]
      BY <1>1, <1>4, <3>1
    <3> QED BY <1>3, <3>2
  <2>2. b \in Bijection(S, T)
    BY <1>6, <2>1 DEF Bijection, Injection, Surjection, IsInjective
  <2> QED BY <2>2, FS_Bijection DEF ExistsBijection
<1>8. \A e \in T : /\ e.origin = n
                   /\ Count(n) + k < e.seq /\ e.seq <= Count(n) + k + c
                   /\ \E s \in S : Kin(e, s)
  <2> SUFFICES ASSUME NEW s \in S
               PROVE  /\ event(s).origin = n
                      /\ Count(n) + k < event(s).seq /\ event(s).seq <= Count(n) + k + c
                      /\ Kin(event(s), s)
    BY <1>6
  <2>1. Kin(event(s), s)
    BY <1>4, <1>5 DEF Kin, Same
  <2>2. nth[s] \in Nat /\ 1 <= nth[s] /\ nth[s] <= c
    BY <1>1, <1>4
  <2> QED BY <1>1, <1>5, <2>1, <2>2
<1>9. T \in SUBSET Entry
  BY <1>5, <1>6
<1> QED BY <1>1, <1>6, <1>7, <1>8, <1>9
-----------------------------------------------------------------------------
(* Tables *)

(* What a row hangs on stays when rows only change. *)
LEMMA HangsKept ==
  ASSUME NEW R \in SUBSET Row, NEW Q \in SUBSET Row, \A r \in R : \E q \in Q : Kin(q, r),
         NEW x, NEW y, Hangs(R, x), Kin(y, x)
  PROVE  Hangs(Q, y)
<1>1. y.kind = x.kind /\ y.user = x.user /\ y.session = x.session
  BY DEF Kin, Same
<1>2. HasUser(R, x.user) => HasUser(Q, y.user)
  BY <1>1 DEF HasUser, Kin, Same
<1>3. ASSUME NEW s \in R, s.kind = "session", s.id = x.session, s.user = x.user
      PROVE  \E q \in Q : q.kind = "session" /\ q.id = y.session /\ q.user = y.user
  BY <1>1, <1>3 DEF Kin, Same
<1> QED BY <1>1, <1>2, <1>3 DEF Hangs

(* A step of node n on its rows and its log. *)
LEMMA RowsStep ==
  ASSUME IndInv, LogInv', NEW n \in Node, NEW R \in SUBSET Row, IsFiniteSet(R),
         log[n] \subseteq log'[n], \A m \in Node \ {n} : log'[m] = log[m],
         rows' = [rows EXCEPT ![n] = R],
         \/ handler' = handler
         \/ \E t \in Thread : handler' = [handler EXCEPT ![n][t] = Idle],
         \A q \in rows[n] : \E r \in R : Kin(r, q),
         \A r \in R : \/ \E q \in rows[n] : Kin(r, q)
                      \/ Hangs(R, r) /\ \E e \in log'[n] : Kin(r, e),
         \A r \in R : r.live => \A e \in log'[n] : Same(e, r) => ~ e.dead
  PROVE  IndInv'
<1>1. /\ rows' \in [Node -> SUBSET Row] /\ rows'[n] = R
      /\ \A m \in Node \ {n} : rows'[m] = rows[m]
  BY DEF IndInv, RowInv
<1>2. Table(R, log'[n])
  <2> SUFFICES ASSUME NEW r \in R PROVE Hangs(R, r) /\ \E e \in log'[n] : Kin(r, e)
    BY DEF Table
  <2>1. ASSUME NEW q \in rows[n], Kin(r, q)
        PROVE  Hangs(R, r) /\ \E e \in log'[n] : Kin(r, e)
    <3>1. Hangs(rows[n], q) /\ rows[n] \in SUBSET Row /\ \E e \in log[n] : Kin(q, e)
      BY DEF IndInv, RowInv, Table
    <3>2. Hangs(R, r)
      BY <2>1, <3>1, HangsKept
    <3> QED BY <2>1, <3>1, <3>2 DEF Kin, Same
  <2> QED BY <2>1
<1>3. \A m \in Node : Table(rows'[m], log'[m])
  BY <1>1, <1>2 DEF IndInv, RowInv
<1>4. /\ handler' \in [Node -> [Thread -> {Idle} \cup Task]]
      /\ \A m \in Node, t \in Thread : handler'[m][t] \in {Idle, handler[m][t]}
  <2>1. CASE handler' = handler
    BY <2>1 DEF IndInv, RowInv
  <2>2. ASSUME NEW t \in Thread, handler' = [handler EXCEPT ![n][t] = Idle]
        PROVE  /\ handler' \in [Node -> [Thread -> {Idle} \cup Task]]
               /\ \A m \in Node, u \in Thread : handler'[m][u] \in {Idle, handler[m][u]}
    BY <2>2 DEF IndInv, RowInv
  <2> QED BY <2>1, <2>2
<1>5. ASSUME NEW m \in Node, NEW t \in Thread, handler'[m][t] # Idle
      PROVE  Fits(rows'[m], handler'[m][t])
  <2>1. handler'[m][t] = handler[m][t] /\ Fits(rows[m], handler[m][t])
    BY <1>4, <1>5 DEF IndInv, RowInv
  <2>2. \A x : (\E r \in rows[m] : Kin(r, x)) => \E r \in rows'[m] : Kin(r, x)
    BY <1>1 DEF Kin, Same
  <2> QED BY <2>1, <2>2 DEF Fits
<1>6. RowInv'
  BY <1>1, <1>3, <1>4, <1>5 DEF RowInv
<1>7. KnownEndHolds'
  <2> SUFFICES ASSUME NEW m \in Node, NEW e \in log'[m], e.dead,
                      NEW r \in Live(rows'[m], e.kind), r.id = e.id
               PROVE  FALSE
    BY DEF KnownEndHolds
  <2>1. CASE m = n
    BY <1>1, <2>1 DEF Live, Same
  <2>2. CASE m # n
    BY <1>1, <2>2 DEF Live, IndInv, KnownEndHolds
  <2> QED BY <2>1, <2>2
<1> QED BY <1>6, <1>7 DEF IndInv

(* Rows and events of what the node knows, and of what it creates. *)
Known(n, x) == \E f \in log[n] : Kin(x, f)
Created(n, x) == x.id[1] = n /\ Count(n) < x.id[2]

(* What a node knows bears a number that was given before. *)
LEMMA KnownIsNotCreated ==
  ASSUME LogInv, NEW n \in Node, NEW x, Known(n, x)
  PROVE  ~ Created(n, x)
<1>1. PICK f \in log[n] : x.id = f.id
  BY DEF Known, Kin, Same
<1>2. f \in Everything
  BY DEF Everything
<1>3. f.id[2] <= Count(f.id[1]) /\ f.id[2] \in Nat
  BY <1>2 DEF LogInv, Named, History, Entry, Id
<1> QED BY <1>1, <1>3, CountNat DEF Created

(* What the events that a node appends in one transaction are. *)
Appended(n, New) ==
  /\ New \in SUBSET Entry /\ IsFiniteSet(New)
  /\ \A e \in New :
        /\ e.origin = n /\ Count(n) < e.seq /\ e.seq <= Count(n) + Cardinality(New)
        /\ Known(n, e) \/ (Created(n, e) /\ e.id[2] <= Count(n) + Cardinality(New))
        /\ e.kind = "user" => e.session = e.id
        /\ e.dead => Known(n, e) /\ e.kind # "user"
  /\ \A e, f \in New : (Created(n, e) /\ Created(n, f) /\ Same(e, f)) => Kin(e, f)

(* An endpoint changes, ends and adds rows, and appends their events. *)
LEMMA LocalStep ==
  ASSUME IndInv, NEW n \in Node, NEW New, Appended(n, New),
         log' = [log EXCEPT ![n] = @ \cup New],
         NEW R \in SUBSET Row, IsFiniteSet(R), rows' = [rows EXCEPT ![n] = R],
         \/ handler' = handler
         \/ \E t \in Thread : handler' = [handler EXCEPT ![n][t] = Idle],
         \A q \in rows[n] : \E r \in R : Kin(r, q),
         \A r \in R :
            \/ \E q \in rows[n] :
                 Kin(r, q) /\ (r.live => q.live /\ \A e \in New : Same(e, r) => ~ e.dead)
            \/ Created(n, r) /\ Hangs(R, r) /\ \E e \in New : Kin(r, e)
  PROVE  IndInv'
<1>1. LogInv /\ \A e \in New : e \in Entry
  BY DEF IndInv, Appended
<1>2. LogInv'
  <2>1. \A e, f \in New : Same(e, f) => Kin(e, f)
    <3> SUFFICES ASSUME NEW e \in New, NEW f \in New, Same(e, f) PROVE Kin(e, f)
      OBVIOUS
    <3>0. Same(e, f)
      OBVIOUS
    <3>1. CASE Known(n, e) /\ Known(n, f)
      <4>1. PICK g \in Everything, h \in Everything : Kin(e, g) /\ Kin(f, h)
        BY <3>1 DEF Known, Everything
      <4>2. Same(g, h)
        BY <3>0, <4>1 DEF Kin, Same
      <4>3. Kin(g, h)
        BY <1>1, <4>2 DEF LogInv, History
      <4> QED BY <4>1, <4>3 DEF Kin, Same
    <3>2. CASE Created(n, e) /\ Created(n, f)
      BY <3>2 DEF Appended
    <3>3. Created(n, e) <=> Created(n, f)
      BY DEF Created, Same
    <3> QED BY <1>1, <3>1, <3>2, <3>3, KnownIsNotCreated DEF Appended
  <2>2. \A e \in New :
          /\ e.origin = n /\ Count(n) < e.seq /\ e.seq <= Count(n) + Cardinality(New)
          /\ \/ \E f \in log[n] : Kin(e, f)
             \/ e.id[1] = n /\ Count(n) < e.id[2] /\ e.id[2] <= Count(n) + Cardinality(New)
          /\ e.kind = "user" => ~ e.dead /\ e.session = e.id
    BY DEF Appended, Known, Created
  <2> QED BY <1>1, <2>1, <2>2, AppendKeepsLog DEF Appended
<1>3. log'[n] = log[n] \cup New /\ \A m \in Node \ {n} : log'[m] = log[m]
  BY <1>1 DEF LogInv
<1>4. ASSUME NEW r \in R, r.live, NEW e \in log'[n], Same(e, r)
      PROVE  ~ e.dead
  <2>1. CASE \E q \in rows[n] :
               Kin(r, q) /\ q.live /\ \A f \in New : Same(f, r) => ~ f.dead
    <3>1. e \in log[n] => ~ e.dead
      BY <1>4, <2>1 DEF IndInv, KnownEndHolds, Live, Kin, Same
    <3> QED BY <1>3, <1>4, <2>1, <3>1
  <2>2. CASE Created(n, r)
    <3>1. Created(n, e)
      BY <1>4, <2>2 DEF Created, Same
    <3>2. ~ Known(n, e)
      BY <1>1, <3>1, KnownIsNotCreated
    <3>3. e \notin log[n]
      BY <3>2 DEF Known, Kin, Same
    <3> QED BY <1>3, <3>2, <3>3 DEF Appended
  <2> QED BY <1>4, <2>1, <2>2
<1>5. \A r \in R : \/ \E q \in rows[n] : Kin(r, q)
                   \/ Hangs(R, r) /\ \E e \in log'[n] : Kin(r, e)
  BY <1>3
<1>6. log[n] \subseteq log'[n]
  BY <1>3
<1> QED BY <1>2, <1>3, <1>4, <1>5, <1>6, RowsStep

(* What an endpoint leaves: what it tells of is known or has a new row, and *)
(* the only user it creates is that of a node without users.                *)
Recorded(n) ==
  /\ log[n] \subseteq log'[n]
  /\ \A m \in Node \ {n} : log'[m] = log[m] /\ rows'[m] = rows[m]
  /\ \A e \in log'[n] : Known(n, e) \/ \E r \in rows'[n] : Created(n, r) /\ Kin(r, e)
  /\ \A q \in rows[n] : \E r \in rows'[n] : Kin(r, q)
  /\ \A r \in rows'[n] :
        \/ \E q \in rows[n] : Kin(r, q)
        \/ Created(n, r) /\ (r.kind = "user" => r.user = n /\ ~ HasUser(rows[n], n))

(* The same of the rows R and the events New that it writes. *)
LEMMA RecordedStep ==
  ASSUME IndInv, NEW n \in Node, NEW New, log' = [log EXCEPT ![n] = @ \cup New],
         NEW R, rows' = [rows EXCEPT ![n] = R],
         \A e \in New : Known(n, e) \/ \E r \in R : Created(n, r) /\ Kin(r, e),
         \A q \in rows[n] : \E r \in R : Kin(r, q),
         \A r \in R :
            \/ \E q \in rows[n] : Kin(r, q)
            \/ Created(n, r) /\ (r.kind = "user" => r.user = n /\ ~ HasUser(rows[n], n))
  PROVE  Recorded(n)
<1>1. log'[n] = log[n] \cup New /\ \A m \in Node \ {n} : log'[m] = log[m]
  BY DEF IndInv, LogInv
<1>2. rows'[n] = R /\ \A m \in Node \ {n} : rows'[m] = rows[m]
  BY DEF IndInv, RowInv
<1>3. \A e \in log[n] : Known(n, e)
  BY DEF Known, Kin, Same
<1>4. \A e \in log'[n] : Known(n, e) \/ \E r \in R : Created(n, r) /\ Kin(r, e)
  BY <1>1, <1>3
<1> QED BY <1>1, <1>2, <1>4 DEF Recorded

(* Ending rows changes nothing else of a table. *)
LEMMA EndedFacts ==
  ASSUME NEW R \in SUBSET Row, IsFiniteSet(R), NEW S
  PROVE  /\ Ended(R, S) \in SUBSET Row /\ IsFiniteSet(Ended(R, S))
         /\ \A r \in R : \E q \in Ended(R, S) : Kin(q, r)
         /\ \A q \in Ended(R, S) : \E r \in R :
               Kin(q, r) /\ (q.live => r.live /\ ~ \E s \in S : Same(q, s))
<1> DEFINE over(r) == IF \E s \in S : Same(r, s) THEN [r EXCEPT !.live = FALSE] ELSE r
           f == [r \in R |-> over(r)]
<1>1. ASSUME NEW r \in R
      PROVE  /\ over(r) \in Row /\ Kin(over(r), r)
             /\ over(r).live => r.live /\ ~ \E s \in S : Same(over(r), s)
  <2>1. CASE \E s \in S : Same(r, s)
    <3>1. over(r) = [r EXCEPT !.live = FALSE] /\ r \in Row
      BY <2>1
    <3>2. over(r) \in Row /\ Kin(over(r), r) /\ ~ over(r).live
      BY <3>1 DEF Row, Kin, Same
    <3> QED BY <3>2
  <2>2. CASE ~ \E s \in S : Same(r, s)
    <3>1. over(r) = r /\ r \in Row
      BY <2>2
    <3> HIDE DEF over
    <3> QED BY <3>1, <2>2 DEF Kin, Same
  <2> QED BY <2>1, <2>2
<1>2. Ended(R, S) = {over(r) : r \in R}
  BY DEF Ended
<1> HIDE DEF over
<1>3. IsFiniteSet({f[r] : r \in R})
  BY ImageFinite
<1>4. {f[r] : r \in R} = {over(r) : r \in R}
  OBVIOUS
<1>5. IsFiniteSet(Ended(R, S))
  BY <1>2, <1>3, <1>4
<1> HIDE DEF f
<1>6. Ended(R, S) \in SUBSET Row /\ \A r \in R : over(r) \in Ended(R, S)
  BY <1>1, <1>2
<1>7. ASSUME NEW q \in Ended(R, S)
      PROVE  \E r \in R : Kin(q, r) /\ (q.live => r.live /\ ~ \E s \in S : Same(q, s))
  <2>1. PICK r \in R : q = over(r)
    BY <1>2
  <2> QED BY <2>1, <1>1
<1> QED BY <1>1, <1>5, <1>6, <1>7

(* Rows that are ended, as LocalStep asks for them. *)
LEMMA EndedKeepsTable ==
  ASSUME IndInv, NEW n \in Node, NEW New, NEW S,
         \A e \in New : e.dead => \E s \in S : Same(e, s)
  PROVE  /\ Ended(rows[n], S) \in SUBSET Row /\ IsFiniteSet(Ended(rows[n], S))
         /\ \A q \in rows[n] : \E r \in Ended(rows[n], S) : Kin(r, q)
         /\ \A r \in Ended(rows[n], S) : \E q \in rows[n] :
               Kin(r, q) /\ (r.live => q.live /\ \A e \in New : Same(e, r) => ~ e.dead)
<1> DEFINE Q == Ended(rows[n], S)
<1>1. rows[n] \in SUBSET Row /\ IsFiniteSet(rows[n])
  BY DEF IndInv, RowInv, Table
<1>2. /\ Q \in SUBSET Row /\ IsFiniteSet(Q)
      /\ \A r \in rows[n] : \E q \in Q : Kin(q, r)
      /\ \A q \in Q : \E r \in rows[n] :
            Kin(q, r) /\ (q.live => r.live /\ ~ \E s \in S : Same(q, s))
  BY <1>1, EndedFacts
<1> HIDE DEF Q
<1>3. ASSUME NEW r \in Q
      PROVE  \E q \in rows[n] :
               Kin(r, q) /\ (r.live => q.live /\ \A e \in New : Same(e, r) => ~ e.dead)
  <2>1. PICK q \in rows[n] : Kin(r, q) /\ (r.live => q.live /\ ~ \E s \in S : Same(r, s))
    BY <1>2
  <2>2. ASSUME r.live, NEW e \in New, Same(e, r) PROVE ~ e.dead
    BY <2>1, <2>2 DEF Same
  <2> QED BY <2>1, <2>2
<1>4. \A r \in Q : \E q \in rows[n] :
         Kin(r, q) /\ (r.live => q.live /\ \A e \in New : Same(e, r) => ~ e.dead)
  BY <1>3
<1> QED BY <1>2, <1>4 DEF Q

(* An endpoint that ends rows. *)
LEMMA EndingStep ==
  ASSUME IndInv, NEW n \in Node, NEW New, Appended(n, New),
         log' = [log EXCEPT ![n] = @ \cup New],
         NEW S, NEW R, R = Ended(rows[n], S), rows' = [rows EXCEPT ![n] = R],
         \/ handler' = handler
         \/ \E t \in Thread : handler' = [handler EXCEPT ![n][t] = Idle],
         \A e \in New : Known(n, e) /\ (e.dead => \E s \in S : Same(e, s))
  PROVE  IndInv' /\ Recorded(n)
<1>1. /\ R \in SUBSET Row /\ IsFiniteSet(R)
      /\ \A q \in rows[n] : \E r \in R : Kin(r, q)
      /\ \A r \in R : \E q \in rows[n] :
            Kin(r, q) /\ (r.live => q.live /\ \A e \in New : Same(e, r) => ~ e.dead)
  BY EndedKeepsTable
<1>2. \A r \in R :
        \/ \E q \in rows[n] :
             Kin(r, q) /\ (r.live => q.live /\ \A e \in New : Same(e, r) => ~ e.dead)
        \/ Created(n, r) /\ Hangs(R, r) /\ \E e \in New : Kin(r, e)
  BY <1>1
<1>3. IndInv'
  BY <1>1, <1>2, LocalStep
<1>4. Recorded(n)
  BY <1>1, RecordedStep
<1> QED BY <1>3, <1>4

(* All events of New that n does not know are about the row x. *)
OnlyAbout(n, New, x) == \A e \in New : Known(n, e) \/ Kin(x, e)

(* An endpoint that ends rows and adds one. *)
LEMMA AddingStep ==
  ASSUME IndInv, NEW n \in Node, NEW New, Appended(n, New),
         log' = [log EXCEPT ![n] = @ \cup New],
         NEW S, NEW x \in Row, NEW R,
         R = Ended(rows[n], S) \cup {x}, rows' = [rows EXCEPT ![n] = R],
         \/ handler' = handler
         \/ \E t \in Thread : handler' = [handler EXCEPT ![n][t] = Idle],
         \A e \in New : e.dead => \E s \in S : Same(e, s),
         OnlyAbout(n, New, x),
         Created(n, x), x.kind # "user", Hangs(R, x), \E e \in New : Kin(x, e)
  PROVE  IndInv' /\ Recorded(n)
<1> DEFINE Q == Ended(rows[n], S)
<1>1. /\ Q \in SUBSET Row /\ IsFiniteSet(Q)
      /\ \A q \in rows[n] : \E r \in Q : Kin(r, q)
      /\ \A r \in Q : \E q \in rows[n] :
            Kin(r, q) /\ (r.live => q.live /\ \A e \in New : Same(e, r) => ~ e.dead)
  BY EndedKeepsTable
<1>2. R = Q \cup {x}
  OBVIOUS
<1> HIDE DEF Q
<1>3. R \in SUBSET Row /\ IsFiniteSet(R)
  BY <1>1, <1>2, FS_AddElement
<1>4. \A q \in rows[n] : \E r \in R : Kin(r, q)
  BY <1>1, <1>2
<1>5. \A r \in R :
        \/ \E q \in rows[n] :
             Kin(r, q) /\ (r.live => q.live /\ \A e \in New : Same(e, r) => ~ e.dead)
        \/ Created(n, r) /\ Hangs(R, r) /\ \E e \in New : Kin(r, e)
  BY <1>1, <1>2
<1>6. IndInv'
  BY <1>3, <1>4, <1>5, LocalStep
<1>7. \A e \in New : Known(n, e) \/ \E r \in R : Created(n, r) /\ Kin(r, e)
  BY <1>2 DEF OnlyAbout
<1>8. \A r \in R :
        \/ \E q \in rows[n] : Kin(r, q)
        \/ Created(n, r) /\ (r.kind = "user" => r.user = n /\ ~ HasUser(rows[n], n))
  BY <1>1, <1>2
<1>9. Recorded(n)
  BY <1>4, <1>7, <1>8, RecordedStep
<1> QED BY <1>6, <1>9
-----------------------------------------------------------------------------
(* Endpoints *)

(* A row of a node, and anything kin to it, is in its history. *)
LEMMA RowsKnown ==
  ASSUME IndInv, NEW n \in Node, NEW x, \E r \in rows[n] : Kin(r, x)
  PROVE  Known(n, x)
<1>1. PICK r \in rows[n] : Kin(r, x)
  OBVIOUS
<1>2. PICK e \in log[n] : Kin(r, e)
  BY DEF IndInv, RowInv, Table
<1> QED BY <1>1, <1>2 DEF Known, Kin, Same

(* What an endpoint has loaded has the shape of a task. *)
LEMMA LoadedFacts ==
  ASSUME IndInv, NEW n \in Node, NEW t \in Thread, handler[n][t] # Idle
  PROVE  /\ handler[n][t] \in Task /\ Fits(rows[n], handler[n][t])
         /\ handler[n][t].seen \in Row /\ Known(n, handler[n][t].seen)
<1>1. handler[n][t] \in Task /\ Fits(rows[n], handler[n][t])
  BY DEF IndInv, RowInv
<1>2. Known(n, handler[n][t].seen)
  BY <1>1, RowsKnown DEF Fits
<1> QED BY <1>1, <1>2 DEF Task

(* An endpoint loads rows of its node. *)
LEMMA LoadPreservesIndInv ==
  ASSUME IndInv, NEW n \in Node, NEW t \in Thread, NEW call \in Calls[n], Load(n, t, call)
  PROVE  IndInv'
<1> DEFINE h(r) == [call |-> call, seen |-> r, owned |-> UserLive(rows[n], r.user),
                    subs |-> {s \in Live(rows[n], "sub") : s.user = r.user}]
<1>1. PICK r \in LoadedBy(n)[call] : handler' = [handler EXCEPT ![n][t] = h(r)]
  BY DEF Load
<1>2. UNCHANGED <<log, rows>> /\ call \in Call
  BY IdentityAssumption DEF Load
<1>3. rows[n] \in SUBSET Row /\ IsFiniteSet(rows[n])
  BY DEF IndInv, RowInv, Table
<1>4. /\ r \in rows[n]
      /\ call \in {"login", "issue"} => r.kind = "user"
      /\ call \in {"refresh", "logout", "subscribe"} => r.kind = "session"
      /\ call \in {"withdraw", "remove"} => r.kind # "user"
  BY <1>1, <1>2 DEF Call, LoadedBy, Live
<1>5. h(r).subs \in SUBSET rows[n] /\ h(r).subs \in SUBSET Row /\ h(r).owned \in BOOLEAN
  BY <1>3 DEF Live, UserLive
<1>6. /\ h(r).call = call /\ h(r).seen = r
      /\ \A s \in h(r).subs : s.kind = "sub" /\ s.live
  BY DEF Live
<1>7. h(r) \in Task
  BY <1>2, <1>3, <1>4, <1>5 DEF Task
<1> HIDE DEF h
<1>8. Fits(rows[n], h(r))
  <2>1. IsFiniteSet(h(r).subs)
    BY <1>3, <1>5, FS_Subset
  <2>2. \A x : Kin(x, x)
    BY DEF Kin, Same
  <2> QED BY <2>1, <2>2, <1>4, <1>5, <1>6 DEF Fits
<1>9. RowInv'
  <2>1. handler' \in [Node -> [Thread -> {Idle} \cup Task]]
    BY <1>1, <1>7 DEF IndInv, RowInv
  <2>2. \A m \in Node, u \in Thread :
           handler'[m][u] = IF m = n /\ u = t THEN h(r) ELSE handler[m][u]
    BY <1>1 DEF IndInv, RowInv
  <2> QED BY <2>1, <2>2, <1>2, <1>8 DEF IndInv, RowInv
<1>10. LogInv' /\ KnownEndHolds'
  BY <1>2 DEF IndInv, LogInv, Everything, Numbered, Named, Own, Count, KnownEndHolds
<1> QED BY <1>9, <1>10 DEF IndInv

(* A transaction with one event. *)
LEMMA AppendsOne ==
  ASSUME IndInv, NEW n \in Node, NEW r \in Row, NEW operation \in Operation,
         r.kind # "user",
         Known(n, r) \/ (r.id = NextId(n, 1) /\ r.live /\ operation \notin {"revoke", "tombstone"})
  PROVE  Appended(n, {Event(n, 1, r, operation)})
<1> DEFINE e == Event(n, 1, r, operation)
<1>1. Count(n) \in Nat
  BY CountNat DEF IndInv
<1>2. /\ NextId(n, 1) = <<n, Count(n) + 1>>
      /\ e \in Entry /\ e.origin = n /\ e.seq = Count(n) + 1 /\ Kin(e, r)
      /\ e.dead <=> (~ r.live \/ operation \in {"revoke", "tombstone"})
  BY EventFacts DEF IndInv
<1> HIDE DEF e
<1>3. IsFiniteSet({e}) /\ Cardinality({e}) = 1
  BY FS_Singleton
<1>4. e.kind = r.kind /\ e.id = r.id
  BY <1>2 DEF Kin, Same
<1>5. Known(n, r) => Known(n, e)
  BY <1>2 DEF Known, Kin, Same
<1>6. Known(n, e) \/ (Created(n, e) /\ e.id[2] <= Count(n) + 1 /\ ~ e.dead)
  BY <1>1, <1>2, <1>4, <1>5 DEF Created
<1>7. Kin(e, e)
  BY DEF Kin, Same
<1>8. e.dead => Known(n, e)
  BY <1>6
<1>9. /\ Count(n) < Count(n) + 1 /\ Count(n) + 1 <= Count(n) + 1
      /\ e.seq = Count(n) + 1
  BY <1>1, <1>2
<1> DEFINE New == {e}
<1>10. \A f \in New : f = e
  OBVIOUS
<1>11. New \in SUBSET Entry /\ IsFiniteSet(New) /\ Cardinality(New) = 1
  BY <1>2, <1>3
<1> HIDE DEF New
<1>12. Appended(n, New)
  <2>1. /\ e.origin = n /\ Count(n) < e.seq /\ e.seq <= Count(n) + Cardinality(New)
        /\ Known(n, e) \/ (Created(n, e) /\ e.id[2] <= Count(n) + Cardinality(New))
        /\ e.kind # "user" /\ (e.dead => Known(n, e))
    BY <1>2, <1>4, <1>6, <1>8, <1>9, <1>11
  <2> QED BY <2>1, <1>7, <1>10, <1>11 DEF Appended
<1> QED BY <1>12 DEF e, New

(* A login and a new token hang on the user that was loaded, which stays. *)
LEMMA AddRowPreservesIndInv ==
  ASSUME IndInv, NEW n \in Node, NEW t \in Thread, LogIn(n, t) \/ IssueToken(n, t)
  PROVE  IndInv' /\ Recorded(n)
<1>1. PICK kind \in {"session", "token"}, operation \in {"issued", "upsert"} :
        AddRow(n, t, kind, operation)
  BY DEF LogIn, IssueToken
<1> DEFINE h == handler[n][t]
           r == NewRow(kind, NextId(n, 1), h.seen.user, NextId(n, 1))
           e == Event(n, 1, r, operation)
<1>2. h.call \in {"login", "issue"} /\ h # Idle
  BY DEF LogIn, IssueToken, Idle
<1>3. /\ h.seen \in Row /\ h.seen.kind = "user"
      /\ \E q \in rows[n] : q.kind = "user" /\ q.user = h.seen.user
  BY <1>2, LoadedFacts DEF Fits, Kin, Same
<1>4. Count(n) \in Nat /\ NextId(n, 1) = <<n, Count(n) + 1>> /\ NextId(n, 1) \in Id
  BY CountNat DEF IndInv, NextId, Count, Id
<1>5. /\ r \in Row /\ r.kind = kind /\ r.id = NextId(n, 1) /\ r.live
      /\ r.user = h.seen.user
  BY <1>3, <1>4 DEF NewRow, Row, RowKind
<1>6. /\ rows' = [rows EXCEPT ![n] = rows[n] \cup {r}]
      /\ log'  = [log EXCEPT ![n] = @ \cup {e}]
      /\ handler' = [handler EXCEPT ![n][t] = Idle]
  BY <1>1 DEF AddRow, Done
<1> HIDE DEF r
<1>7. Kin(e, r) /\ ~ e.dead
  BY <1>5, EventFacts DEF IndInv, Operation
<1>8. Appended(n, {e})
  BY <1>5, AppendsOne DEF Operation
<1> HIDE DEF e
<1>9. Ended(rows[n], {}) = rows[n]
  BY DEF Ended
<1>10. Created(n, r)
  BY <1>4, <1>5 DEF Created
<1>11. Hangs(rows[n] \cup {r}, r)
  BY <1>3, <1>5 DEF Hangs, HasUser
<1>12. Kin(r, e)
  BY <1>7 DEF Kin, Same
<1> DEFINE R == rows[n] \cup {r}
<1> DEFINE New == {e}
<1>13. R = Ended(rows[n], {}) \cup {r}
  BY <1>9
<1>14. \A f \in New : f.dead => \E s \in {} : Same(f, s)
  BY <1>7
<1>15. /\ rows' = [rows EXCEPT ![n] = R] /\ log' = [log EXCEPT ![n] = @ \cup New]
       /\ Appended(n, New) /\ Hangs(R, r) /\ \E f \in New : Kin(r, f)
       /\ OnlyAbout(n, New, r)
  BY <1>6, <1>8, <1>11, <1>12 DEF OnlyAbout
<1>16. r.kind # "user"
  BY <1>5
<1> HIDE DEF R, New, h
<1> QED BY <1>5, <1>6, <1>10, <1>13, <1>14, <1>15, <1>16, AddingStep

(* A token and a subscription are ended, and their tombstone says so. *)
LEMMA EndRowPreservesIndInv ==
  ASSUME IndInv, NEW n \in Node, NEW t \in Thread, RevokeToken(n, t) \/ Unsubscribe(n, t)
  PROVE  IndInv' /\ Recorded(n)
<1> DEFINE h == handler[n][t]
           r == [h.seen EXCEPT !.live = FALSE]
           New == {Event(n, 1, r, "tombstone")}
           S == {r}
           R == Ended(rows[n], S)
<1>1. EndRow(n, t) /\ h.call \in {"withdraw", "remove"} /\ h # Idle
  BY DEF RevokeToken, Unsubscribe, Idle
<1>2. h.seen \in Row /\ h.seen.kind # "user" /\ Known(n, h.seen)
  BY <1>1, LoadedFacts DEF Fits
<1>3. r \in Row /\ Kin(r, h.seen) /\ r.kind # "user"
  BY <1>2 DEF Row, Kin, Same
<1>4. /\ rows' = [rows EXCEPT ![n] = R] /\ log' = [log EXCEPT ![n] = @ \cup New]
      /\ handler' = [handler EXCEPT ![n][t] = Idle]
  BY <1>1 DEF EndRow, Done
<1> HIDE DEF h, r
<1>5. Known(n, r)
  BY <1>2, <1>3 DEF Known, Kin, Same
<1>6. Appended(n, New)
  BY <1>3, <1>5, AppendsOne DEF Operation
<1>7. \A e \in New : Known(n, e) /\ \E s \in S : Same(e, s)
  <2> SUFFICES Known(n, Event(n, 1, r, "tombstone")) /\ Same(Event(n, 1, r, "tombstone"), r)
    OBVIOUS
  <2>1. Kin(Event(n, 1, r, "tombstone"), r)
    BY <1>3, EventFacts DEF IndInv, Operation
  <2> QED BY <1>5, <2>1 DEF Known, Kin, Same
<1>8. R = Ended(rows[n], S)
  OBVIOUS
<1> HIDE DEF New, S, R
<1> QED BY <1>4, <1>6, <1>7, <1>8, EndingStep

(* The tombstones of subscriptions, with at most one other event before or  *)
(* after them.                                                              *)
LEMMA AppendsTombstones ==
  ASSUME IndInv, NEW n \in Node, NEW S \in SUBSET Row, IsFiniteSet(S),
         \A s \in S : Known(n, s) /\ s.kind = "sub",
         NEW k \in Nat, NEW One \in SUBSET Entry, IsFiniteSet(One), Cardinality(One) \in Nat,
         k <= Cardinality(One), \A e, f \in One : e = f,
         \A e \in One :
            /\ e.origin = n
            /\ e.seq = Count(n) + (IF k = 0 THEN Cardinality(S) + 1 ELSE k)
            /\ Count(n) < e.seq /\ e.seq <= Count(n) + Cardinality(One) + Cardinality(S)
            /\ \/ Known(n, e)
               \/ /\ Created(n, e) /\ ~ e.dead
                  /\ e.id[2] <= Count(n) + Cardinality(One) + Cardinality(S)
            /\ e.kind # "user"
  PROVE  /\ Appended(n, One \cup Tombstones(n, k, S))
         /\ \A e \in Tombstones(n, k, S) : Known(n, e) /\ \E s \in S : Same(e, s)
<1> DEFINE T == Tombstones(n, k, S)
           a == Cardinality(One)
           c == Cardinality(S)
           New == One \cup T
<1>1. /\ T \in SUBSET Entry /\ IsFiniteSet(T) /\ Cardinality(T) = c /\ c \in Nat
      /\ \A e \in T : /\ e.origin = n
                      /\ Count(n) + k < e.seq /\ e.seq <= Count(n) + k + c
                      /\ \E s \in S : Kin(e, s)
  BY TombstonesFacts DEF IndInv
<1> HIDE DEF T
<1>2. Count(n) \in Nat
  BY CountNat DEF IndInv
<1>3. One \cap T = {}
  <2> SUFFICES ASSUME NEW e \in One, e \in T PROVE FALSE
    OBVIOUS
  <2>1. Count(n) + k < e.seq /\ e.seq <= Count(n) + k + c
    BY <1>1
  <2>2. e.seq = Count(n) + (IF k = 0 THEN c + 1 ELSE k)
    OBVIOUS
  <2> HIDE DEF c
  <2> QED BY <1>1, <1>2, <2>1, <2>2
<1>4. New \in SUBSET Entry /\ IsFiniteSet(New) /\ Cardinality(New) = a + c
  <2>1. IsFiniteSet(New) /\ Cardinality(New) = a + Cardinality(T) - 0
    BY <1>1, <1>3, FS_Union, FS_EmptySet
  <2>2. New \in SUBSET Entry
    BY <1>1
  <2> HIDE DEF New, c
  <2> QED BY <1>1, <2>1, <2>2
<1>5. ASSUME NEW e \in T
      PROVE  /\ e.origin = n /\ Count(n) < e.seq /\ e.seq <= Count(n) + (a + c)
             /\ Known(n, e) /\ e.kind # "user" /\ \E s \in S : Same(e, s)
  <2>1. e.seq \in Nat /\ Count(n) + k < e.seq /\ e.seq <= Count(n) + k + c /\ k <= a
    BY <1>1 DEF Entry
  <2>2. PICK s \in S : Kin(e, s)
    BY <1>1
  <2>3. Known(n, e) /\ e.kind # "user" /\ Same(e, s)
    BY <2>2 DEF Known, Kin, Same
  <2>4. Count(n) < e.seq /\ e.seq <= Count(n) + (a + c)
    <3> HIDE DEF a, c
    <3> QED BY <1>1, <1>2, <2>1, a \in Nat DEF a
  <2> QED BY <1>1, <2>3, <2>4
<1>6. ASSUME NEW e \in One
      PROVE  /\ e.origin = n /\ Count(n) < e.seq /\ e.seq <= Count(n) + (a + c)
             /\ \/ Known(n, e)
                \/ Created(n, e) /\ ~ e.dead /\ e.id[2] <= Count(n) + (a + c)
             /\ e.kind # "user"
  <2>1. Count(n) + a + c = Count(n) + (a + c)
    BY <1>1, <1>2
  <2> QED BY <2>1
<1> HIDE DEF a, c
<1>7. ASSUME NEW e \in New, NEW f \in New, Created(n, e), Created(n, f)
      PROVE  Kin(e, f)
  <2>1. e \in One /\ f \in One
    BY <1>5, <1>7, KnownIsNotCreated DEF IndInv
  <2>2. e = f
    BY <2>1
  <2> QED BY <2>2 DEF Kin, Same
<1>8. \A e \in New : e \in One \/ e \in T
  OBVIOUS
<1> HIDE DEF New
<1>9. Appended(n, New)
  BY <1>4, <1>5, <1>6, <1>7, <1>8 DEF Appended
<1> QED BY <1>5, <1>9 DEF New, T

(* A transaction of tombstones alone. *)
LEMMA AppendsOnlyTombstones ==
  ASSUME IndInv, NEW n \in Node, NEW S \in SUBSET Row, IsFiniteSet(S),
         \A s \in S : Known(n, s) /\ s.kind = "sub"
  PROVE  /\ Appended(n, Tombstones(n, 0, S))
         /\ \A e \in Tombstones(n, 0, S) : Known(n, e) /\ \E s \in S : Same(e, s)
<1> DEFINE One == {}
           T == Tombstones(n, 0, S)
<1>1. One \in SUBSET Entry /\ IsFiniteSet(One) /\ Cardinality(One) = 0 /\ \A e \in One : FALSE
  BY FS_EmptySet
<1>2. T = One \cup T
  OBVIOUS
<1> HIDE DEF One
<1>3. Cardinality(One) \in Nat /\ 0 <= Cardinality(One) /\ \A e, f \in One : e = f
  BY <1>1
<1>4. Appended(n, One \cup T) /\ \A e \in T : Known(n, e) /\ \E s \in S : Same(e, s)
  BY <1>1, <1>3, AppendsTombstones
<1> QED BY <1>2, <1>4

(* The sweep before a push ends subscriptions with their tombstones. *)
LEMMA SweepPreservesIndInv ==
  ASSUME IndInv, NEW n \in Node, Sweep(n)
  PROVE  IndInv' /\ Recorded(n)
<1>1. PICK S \in SUBSET Live(rows[n], "sub") :
        /\ rows' = [rows EXCEPT ![n] = Ended(@, S)]
        /\ log'  = [log EXCEPT ![n] = @ \cup Tombstones(n, 0, S)]
        /\ UNCHANGED handler
  BY DEF Sweep
<1>2. S \in SUBSET Row /\ IsFiniteSet(S) /\ \A s \in S : Known(n, s) /\ s.kind = "sub"
  <2>1. S \in SUBSET rows[n] /\ \A s \in S : s.kind = "sub"
    BY DEF Live
  <2>2. S \in SUBSET Row /\ IsFiniteSet(S)
    BY <2>1, FS_Subset DEF IndInv, RowInv, Table
  <2>3. \A s \in S : Kin(s, s)
    BY DEF Kin, Same
  <2> QED BY <2>1, <2>2, <2>3, RowsKnown
<1>3. Appended(n, Tombstones(n, 0, S))
  BY <1>2, AppendsOnlyTombstones
<1>4. \A e \in Tombstones(n, 0, S) : Known(n, e) /\ \E s \in S : Same(e, s)
  BY <1>2, AppendsOnlyTombstones
<1> DEFINE R == Ended(rows[n], S)
           New == Tombstones(n, 0, S)
<1>5. rows' = [rows EXCEPT ![n] = R] /\ log' = [log EXCEPT ![n] = @ \cup New]
  BY <1>1
<1>6. R = Ended(rows[n], S)
  OBVIOUS
<1> HIDE DEF R, New
<1> QED BY <1>1, <1>3, <1>4, <1>5, <1>6, EndingStep DEF New

(* A revocation ends the session with its subscriptions. *)
LEMMA RevokeSessionPreservesIndInv ==
  ASSUME IndInv, NEW n \in Node, NEW t \in Thread, Logout(n, t) \/ RefuseRefresh(n, t)
  PROVE  IndInv' /\ Recorded(n)
<1> DEFINE s == handler[n][t].seen
           subs == SubsOf(n, s.id)
           r == [s EXCEPT !.live = FALSE]
           one == IF s.live THEN {r} ELSE {}
           One == {Event(n, 1, x, "revoke") : x \in one}
           New == One \cup Tombstones(n, Cardinality(one), subs)
           S == one \cup subs
           R == Ended(rows[n], S)
<1>1. /\ RevokeSession(n, t)
      /\ handler[n][t].call \in {"logout", "refresh"} /\ handler[n][t] # Idle
  BY DEF Logout, RefuseRefresh, Idle
<1>2. /\ rows' = [rows EXCEPT ![n] = R]
      /\ log'  = [log EXCEPT ![n] = @ \cup One \cup Tombstones(n, Cardinality(one), subs)]
      /\ handler' = [handler EXCEPT ![n][t] = Idle]
  BY <1>1 DEF RevokeSession, Done
<1>3. s \in Row /\ s.kind = "session" /\ Known(n, s)
  BY <1>1, LoadedFacts DEF Fits
<1>4. subs \in SUBSET Row /\ IsFiniteSet(subs) /\ \A x \in subs : Known(n, x) /\ x.kind = "sub"
  <2>1. subs \in SUBSET rows[n] /\ \A x \in subs : x.kind = "sub"
    BY DEF SubsOf, Live
  <2> HIDE DEF subs
  <2>2. subs \in SUBSET Row /\ IsFiniteSet(subs)
    BY <2>1, FS_Subset DEF IndInv, RowInv, Table
  <2>3. \A x \in subs : Kin(x, x)
    BY DEF Kin, Same
  <2> QED BY <2>1, <2>2, <2>3, RowsKnown
<1>5. r \in Row /\ Kin(r, s) /\ r.kind = "session"
  BY <1>3 DEF Row, Kin, Same
<1>6. Known(n, r)
  BY <1>3, <1>5 DEF Known, Kin, Same
<1> DEFINE e == Event(n, 1, r, "revoke")
<1>7. e \in Entry /\ e.origin = n /\ e.seq = Count(n) + 1 /\ Kin(e, r)
  BY <1>5, EventFacts DEF IndInv, Operation
<1> HIDE DEF e, r, s, subs
<1>8. Known(n, e) /\ e.kind # "user" /\ Same(e, r)
  BY <1>5, <1>6, <1>7 DEF Known, Kin, Same
<1>9. Count(n) \in Nat /\ Cardinality(subs) \in Nat
  BY <1>4, CountNat, FS_CardinalityType DEF IndInv
<1>10. Appended(n, New) /\ \A f \in New : Known(n, f) /\ \E x \in S : Same(f, x)
  <2>1. CASE s.live
    <3>1. one = {r} /\ One = {e}
      BY <2>1 DEF e
    <3>2. Cardinality(one) = 1 /\ Cardinality(One) = 1 /\ IsFiniteSet(One)
      BY <3>1, FS_Singleton
    <3>3. One \in SUBSET Entry /\ \A f \in One : f = e
      BY <3>1, <1>7
    <3> HIDE DEF One, one
    <3>4. /\ e.seq = Count(n) + (IF 1 = 0 THEN Cardinality(subs) + 1 ELSE 1)
          /\ Count(n) < e.seq /\ e.seq <= Count(n) + 1 + Cardinality(subs)
      BY <1>7, <1>9
    <3>5. /\ Appended(n, One \cup Tombstones(n, 1, subs))
          /\ \A f \in Tombstones(n, 1, subs) : Known(n, f) /\ \E x \in subs : Same(f, x)
      BY <1>4, <1>7, <1>8, <3>2, <3>3, <3>4, AppendsTombstones
    <3>6. New = One \cup Tombstones(n, 1, subs)
      BY <3>2
    <3>7. r \in S /\ subs \subseteq S
      BY <3>1
    <3> HIDE DEF New, S
    <3> QED BY <1>8, <3>3, <3>5, <3>6, <3>7
  <2>2. CASE ~ s.live
    <3>1. one = {} /\ One = {}
      BY <2>2
    <3>2. Cardinality(one) = 0
      BY <3>1, FS_EmptySet
    <3>3. New = Tombstones(n, 0, subs) /\ S = subs
      BY <3>1, <3>2
    <3> HIDE DEF New, S
    <3> QED BY <1>4, <3>3, AppendsOnlyTombstones
  <2> QED BY <2>1, <2>2
<1>11. log' = [log EXCEPT ![n] = @ \cup New]
  <2>1. log[n] \cup One \cup Tombstones(n, Cardinality(one), subs) = log[n] \cup New
    OBVIOUS
  <2> HIDE DEF New, One, one
  <2> QED BY <1>2, <2>1
<1>12. R = Ended(rows[n], S)
  OBVIOUS
<1> HIDE DEF New, S, R
<1>13. /\ rows' = [rows EXCEPT ![n] = R]
       /\ handler' = [handler EXCEPT ![n][t] = Idle]
  BY <1>2
<1> HIDE DEF One, one
<1> QED BY <1>10, <1>11, <1>12, <1>13, EndingStep

(* A subscription is added or kept; the kept row is not written, so that it *)
(* stays ended if it was ended meanwhile.                                   *)
LEMMA SubscribePreservesIndInv ==
  ASSUME IndInv, NEW n \in Node, NEW t \in Thread, CommitSubscribe(n, t)
  PROVE  IndInv' /\ Recorded(n)
<1> DEFINE h == handler[n][t]
<1>1. h.call = "subscribe" /\ h # Idle /\ handler' = [handler EXCEPT ![n][t] = Idle]
  BY DEF CommitSubscribe, Done, Idle
<1>2. PICK kept \in SUBSET {s \in h.subs : s.session = h.seen.id} :
        LET k     == Cardinality(h.subs \ kept)
            stale == h.subs \ kept
            new   == NewRow("sub", NextId(n, k + 1), h.seen.user, h.seen.id)
            bound == IF kept = {} THEN {new} ELSE kept
        IN  /\ Cardinality(kept) <= 1
            /\ rows' = [rows EXCEPT ![n] =
                 Ended(@, stale) \cup (IF kept = {} THEN {new} ELSE {})]
            /\ log'  = [log EXCEPT ![n] = @ \cup Tombstones(n, 0, stale)
                                            \cup {Event(n, k + 1, r, "upsert") : r \in bound}]
  BY DEF CommitSubscribe
<1> DEFINE stale == h.subs \ kept
           k == Cardinality(stale)
           new == NewRow("sub", NextId(n, k + 1), h.seen.user, h.seen.id)
<1>3. /\ h.seen \in Row /\ h.seen.kind = "session"
      /\ h.subs \in SUBSET Row /\ IsFiniteSet(h.subs)
      /\ \E q \in rows[n] : Kin(q, h.seen)
      /\ \A s \in h.subs : s.kind = "sub" /\ s.live /\ \E r \in rows[n] : Kin(r, s)
  BY <1>1, LoadedFacts DEF Fits, Task
<1>4. /\ stale \in SUBSET Row /\ IsFiniteSet(stale)
      /\ kept \in SUBSET h.subs /\ IsFiniteSet(kept)
      /\ \A s \in h.subs : Known(n, s) /\ s.kind = "sub"
  BY <1>3, FS_Subset, RowsKnown
<1>5. k \in Nat /\ Count(n) \in Nat
  BY <1>4, FS_CardinalityType, CountNat DEF IndInv
<1> HIDE DEF k
<1>6. NextId(n, k + 1) = <<n, Count(n) + (k + 1)>> /\ NextId(n, k + 1) \in Id
  BY <1>5 DEF NextId, Count, Id
<1>7. /\ new \in Row /\ new.kind = "sub" /\ new.live /\ new.id = NextId(n, k + 1)
      /\ new.user = h.seen.user /\ new.session = h.seen.id
  BY <1>3, <1>6 DEF NewRow, Row, RowKind
<1> HIDE DEF h, new, stale
<1>8. Created(n, new)
  BY <1>5, <1>6, <1>7 DEF Created
<1> DEFINE event(r) == Event(n, k + 1, r, "upsert")
           One(x) == {event(x)}
           New(x) == One(x) \cup Tombstones(n, 0, stale)
<1>9. ASSUME NEW x \in Row, x.live, x.kind = "sub", Known(n, x) \/ x = new
      PROVE  /\ Appended(n, New(x)) /\ Kin(x, event(x))
             /\ \A e \in New(x) : e.dead => \E s \in stale : Same(e, s)
             /\ \A e \in New(x) : Known(n, e) \/ Kin(x, e)
  <2> DEFINE e == event(x)
             O == One(x)
             T == Tombstones(n, 0, stale)
  <2>1. /\ e \in Entry /\ e.origin = n /\ e.seq = Count(n) + (k + 1) /\ Kin(e, x)
        /\ ~ e.dead
    BY <1>5, <1>9, EventFacts DEF IndInv, Operation
  <2> HIDE DEF e
  <2>2. e.kind = "sub" /\ e.id = x.id
    BY <1>9, <2>1 DEF Kin, Same
  <2>3. O \in SUBSET Entry /\ IsFiniteSet(O) /\ Cardinality(O) = 1 /\ \A f \in O : f = e
    BY <2>1, FS_Singleton DEF e
  <2>4. /\ e.seq = Count(n) + (IF 0 = 0 THEN k + 1 ELSE 0)
        /\ Count(n) < e.seq /\ e.seq <= Count(n) + 1 + k
    BY <1>5, <2>1
  <2>5. Known(n, e) \/ (Created(n, e) /\ ~ e.dead /\ e.id[2] <= Count(n) + 1 + k)
    <3>1. CASE Known(n, x)
      BY <3>1, <2>1 DEF Known, Kin, Same
    <3>2. CASE x = new
      BY <1>5, <1>6, <1>7, <1>8, <2>1, <2>2, <3>2 DEF Created
    <3> QED BY <1>9, <3>1, <3>2
  <2> HIDE DEF O
  <2>6. Appended(n, O \cup T) /\ \A f \in T : Known(n, f) /\ \E s \in stale : Same(f, s)
    <3>1. \A s \in stale : Known(n, s) /\ s.kind = "sub"
      BY <1>4 DEF stale
    <3>2. \A f, g \in O : f = g
      BY <2>3
    <3>3. 0 <= Cardinality(O) /\ Cardinality(O) \in Nat
      BY <2>3
    <3>4. \A f \in O :
            /\ f.origin = n
            /\ f.seq = Count(n) + (IF 0 = 0 THEN Cardinality(stale) + 1 ELSE 0)
            /\ Count(n) < f.seq /\ f.seq <= Count(n) + Cardinality(O) + Cardinality(stale)
            /\ \/ Known(n, f)
               \/ /\ Created(n, f) /\ ~ f.dead
                  /\ f.id[2] <= Count(n) + Cardinality(O) + Cardinality(stale)
            /\ f.kind # "user"
      BY <2>1, <2>2, <2>3, <2>4, <2>5 DEF k
    <3> QED BY <1>4, <2>3, <3>1, <3>2, <3>3, <3>4, AppendsTombstones
  <2>7. New(x) = O \cup T
    BY DEF O
  <2>8. Kin(x, e)
    BY <2>1 DEF Kin, Same
  <2> QED BY <2>1, <2>3, <2>6, <2>7, <2>8 DEF e
<1>10. CASE kept = {}
  <2> DEFINE N == New(new)
             R == Ended(rows[n], stale) \cup {new}
  <2>1. log' = [log EXCEPT ![n] = @ \cup N]
    <3>1. log' = [log EXCEPT ![n] = @ \cup Tombstones(n, 0, stale)
                                      \cup {event(r) : r \in {new}}]
      BY <1>2, <1>10 DEF stale, k, new
    <3>2. log[n] \cup Tombstones(n, 0, stale) \cup {event(r) : r \in {new}} = log[n] \cup N
      OBVIOUS
    <3> HIDE DEF N, event
    <3> QED BY <3>1, <3>2
  <2>2. rows' = [rows EXCEPT ![n] = R]
    BY <1>2, <1>10 DEF stale, k, new
  <2>3. /\ Appended(n, N) /\ OnlyAbout(n, N, new)
        /\ \A e \in N : e.dead => \E s \in stale : Same(e, s)
    BY <1>7, <1>9 DEF OnlyAbout
  <2>4. Kin(new, event(new))
    BY <1>7, <1>9
  <2>5. \E e \in N : Kin(new, e)
    BY <2>4
  <2>6. Hangs(R, new)
    <3>1. PICK q \in rows[n] : Kin(q, h.seen)
      BY <1>3
    <3>2. Hangs(rows[n], q) /\ rows[n] \in SUBSET Row /\ IsFiniteSet(rows[n])
      BY DEF IndInv, RowInv, Table
    <3>3. q.kind = "session" /\ q.id = new.session /\ q.user = new.user
      BY <1>3, <1>7, <3>1 DEF Kin, Same
    <3>4. Hangs(rows[n], new)
      BY <1>7, <3>2, <3>3 DEF Hangs
    <3>5. R \in SUBSET Row /\ \A r \in rows[n] : \E x \in R : Kin(x, r)
      <4>1. /\ Ended(rows[n], stale) \in SUBSET Row
            /\ \A r \in rows[n] : \E x \in Ended(rows[n], stale) : Kin(x, r)
        BY <3>2, EndedFacts
      <4> QED BY <4>1, <1>7
    <3>6. Kin(new, new)
      BY DEF Kin, Same
    <3> HIDE DEF R
    <3> QED BY <3>2, <3>4, <3>5, <3>6, HangsKept
  <2>7. R = Ended(rows[n], stale) \cup {new}
    OBVIOUS
  <2> HIDE DEF N, R, event, New, One
  <2> QED BY <1>1, <1>7, <1>8, <2>1, <2>2, <2>3, <2>5, <2>6, <2>7, AddingStep
<1>11. CASE kept # {}
  <2>1. PICK x : kept = {x}
    <3>1. Cardinality(kept) # 0 /\ Cardinality(kept) \in Nat /\ Cardinality(kept) <= 1
      BY <1>2, <1>4, <1>11, FS_EmptySet, FS_CardinalityType
    <3>2. Cardinality(kept) = 1
      BY <3>1
    <3> QED BY <1>4, <3>2, FS_Singleton
  <2>2. x \in h.subs
    BY <1>4, <2>1
  <2>3. x \in Row /\ x.live /\ x.kind = "sub" /\ Known(n, x)
    BY <1>3, <1>4, <2>2
  <2> DEFINE N == New(x)
             R == Ended(rows[n], stale)
  <2>4. log' = [log EXCEPT ![n] = @ \cup N]
    <3>1. log' = [log EXCEPT ![n] = @ \cup Tombstones(n, 0, stale)
                                      \cup {event(r) : r \in {x}}]
      BY <1>2, <1>11, <2>1 DEF stale, k, new
    <3>2. log[n] \cup Tombstones(n, 0, stale) \cup {event(r) : r \in {x}} = log[n] \cup N
      OBVIOUS
    <3> HIDE DEF N, event
    <3> QED BY <3>1, <3>2
  <2>5. rows' = [rows EXCEPT ![n] = R]
    <3>1. rows' = [rows EXCEPT ![n] = Ended(@, stale) \cup {}]
      BY <1>2, <1>11 DEF stale, k, new
    <3> QED BY <3>1
  <2>6. /\ Appended(n, N)
        /\ \A e \in N : Known(n, e) /\ (e.dead => \E s \in stale : Same(e, s))
    <3>1. /\ Appended(n, N) /\ \A e \in N : Known(n, e) \/ Kin(x, e)
          /\ \A e \in N : e.dead => \E s \in stale : Same(e, s)
      BY <1>9, <2>3
    <3>2. \A e : Kin(x, e) => Known(n, e)
      BY <2>3 DEF Known, Kin, Same
    <3> QED BY <3>1, <3>2
  <2>7. R = Ended(rows[n], stale)
    OBVIOUS
  <2> HIDE DEF N, R, event, New, One
  <2> QED BY <1>1, <2>4, <2>5, <2>6, <2>7, EndingStep
<1> QED BY <1>10, <1>11

(* A rotation keeps the row as ended as it was. *)
LEMMA RotatePreservesIndInv ==
  ASSUME IndInv, NEW n \in Node, NEW t \in Thread, Rotate(n, t)
  PROVE  IndInv' /\ Recorded(n)
<1> DEFINE h == handler[n][t]
           new == [h.seen EXCEPT !.hash = NextId(n, 1)]
           over(r) == IF Same(r, new) THEN [r EXCEPT !.hash = new.hash] ELSE r
           f == [r \in rows[n] |-> over(r)]
           R == {over(r) : r \in rows[n]}
           e == Event(n, 1, new, "rotate")
           New == {e}
<1>1. /\ h.call = "refresh" /\ h # Idle /\ h.seen.live
      /\ rows' = [rows EXCEPT ![n] = R] /\ log' = [log EXCEPT ![n] = @ \cup New]
      /\ handler' = [handler EXCEPT ![n][t] = Idle]
  BY DEF Rotate, Done, Idle
<1>2. h.seen \in Row /\ h.seen.kind = "session" /\ Known(n, h.seen)
  BY <1>1, LoadedFacts DEF Fits
<1> HIDE DEF h
<1>3. NextId(n, 1) \in Id
  BY <1>2, EventFacts DEF IndInv, Operation
<1>4. new \in Row /\ Kin(new, h.seen) /\ new.live /\ new.kind = "session" /\ new.hash \in Id
  BY <1>1, <1>2, <1>3 DEF Row, Kin, Same
<1> HIDE DEF new
<1>5. Known(n, new)
  BY <1>2, <1>4 DEF Known, Kin, Same
<1>6. Appended(n, New)
  BY <1>4, <1>5, AppendsOne DEF Operation
<1>7. \A x \in New : ~ x.dead /\ Known(n, x)
  <2> SUFFICES ~ e.dead /\ Known(n, e)
    OBVIOUS
  <2>1. ~ e.dead /\ Kin(e, new)
    BY <1>4, EventFacts DEF IndInv, Operation
  <2> QED BY <1>5, <2>1 DEF Known, Kin, Same
<1>8. rows[n] \in SUBSET Row /\ IsFiniteSet(rows[n])
  BY DEF IndInv, RowInv, Table
<1>9. ASSUME NEW r \in rows[n]
      PROVE  over(r) \in Row /\ Kin(over(r), r) /\ (over(r).live => r.live)
  <2>1. CASE Same(r, new)
    <3>1. over(r) = [r EXCEPT !.hash = new.hash] /\ r \in Row
      BY <1>8, <2>1
    <3> HIDE DEF over
    <3> QED BY <1>4, <3>1 DEF Row, Kin, Same
  <2>2. CASE ~ Same(r, new)
    <3>1. over(r) = r /\ r \in Row
      BY <1>8, <2>2
    <3> HIDE DEF over
    <3> QED BY <3>1 DEF Kin, Same
  <2> QED BY <2>1, <2>2
<1> HIDE DEF over
<1>10. IsFiniteSet(R)
  <2>1. IsFiniteSet({f[r] : r \in rows[n]})
    BY <1>8, ImageFinite
  <2>2. {f[r] : r \in rows[n]} = R
    OBVIOUS
  <2> QED BY <2>1, <2>2
<1>11. /\ R \in SUBSET Row
       /\ \A q \in rows[n] : \E r \in R : Kin(r, q)
       /\ \A r \in R : \E q \in rows[n] : Kin(r, q) /\ (r.live => q.live)
  BY <1>9
<1> HIDE DEF R, New, f
<1>12. \A r \in R :
         \/ \E q \in rows[n] :
              Kin(r, q) /\ (r.live => q.live /\ \A x \in New : Same(x, r) => ~ x.dead)
         \/ Created(n, r) /\ Hangs(R, r) /\ \E x \in New : Kin(r, x)
  BY <1>7, <1>11
<1>13. IndInv'
  BY <1>1, <1>6, <1>10, <1>11, <1>12, LocalStep
<1>14. Recorded(n)
  BY <1>1, <1>7, <1>11, RecordedStep
<1> QED BY <1>13, <1>14

(* An aborted transaction leaves rows and history alone. *)
LEMMA AbortPreservesIndInv ==
  ASSUME IndInv, NEW n \in Node, NEW t \in Thread, Abort(n, t)
  PROVE  IndInv'
<1>1. UNCHANGED <<log, rows>> /\ handler' = [handler EXCEPT ![n][t] = Idle]
  BY DEF Abort, Done
<1>2. LogInv' /\ KnownEndHolds'
  BY <1>1 DEF IndInv, LogInv, Everything, Numbered, Named, Own, Count, KnownEndHolds
<1>3. RowInv'
  <2>1. handler' \in [Node -> [Thread -> {Idle} \cup Task]]
    BY <1>1 DEF IndInv, RowInv
  <2>2. \A m \in Node, u \in Thread :
           handler'[m][u] = IF m = n /\ u = t THEN Idle ELSE handler[m][u]
    BY <1>1 DEF IndInv, RowInv
  <2> QED BY <2>1, <2>2, <1>1 DEF IndInv, RowInv
<1> QED BY <1>2, <1>3 DEF IndInv

(* A bootstrap adds a user and its session, both with new numbers. *)
LEMMA BootstrapPreservesIndInv ==
  ASSUME IndInv, NEW n \in Node, Bootstrap(n)
  PROVE  IndInv' /\ Recorded(n)
<1> DEFINE user == NewUser(n, NextId(n, 2))
           session == NewRow("session", NextId(n, 1), n, NextId(n, 1))
           R == rows[n] \cup {user, session}
           e1 == Event(n, 1, session, "issued")
           e2 == Event(n, 2, user, "bootstrap")
           New == {e1, e2}
<1>1. /\ rows' = [rows EXCEPT ![n] = R] /\ log' = [log EXCEPT ![n] = @ \cup New]
      /\ handler' = handler /\ ~ HasUser(rows[n], n)
  BY DEF Bootstrap, HasUser
<1>2. Count(n) \in Nat
  BY CountNat DEF IndInv
<1>3. /\ NextId(n, 1) = <<n, Count(n) + 1>> /\ NextId(n, 1) \in Id
      /\ NextId(n, 2) = <<n, Count(n) + 2>> /\ NextId(n, 2) \in Id
  BY <1>2 DEF NextId, Count, Id
<1>4. /\ user \in Row /\ user.kind = "user" /\ user.id = NextId(n, 2) /\ user.live
      /\ user.user = n /\ user.session = user.id
  BY <1>3 DEF NewUser, Row, RowKind
<1>5. /\ session \in Row /\ session.kind = "session" /\ session.id = NextId(n, 1)
      /\ session.live /\ session.user = n
  BY <1>3 DEF NewRow, Row, RowKind
<1> HIDE DEF user, session
<1>6. e1 \in Entry /\ e1.origin = n /\ e1.seq = Count(n) + 1 /\ Kin(e1, session) /\ ~ e1.dead
  BY <1>5, EventFacts DEF IndInv, Operation
<1>7. e2 \in Entry /\ e2.origin = n /\ e2.seq = Count(n) + 2 /\ Kin(e2, user) /\ ~ e2.dead
  BY <1>4, EventFacts DEF IndInv, Operation
<1> HIDE DEF e1, e2
<1>8. New \in SUBSET Entry /\ IsFiniteSet(New) /\ Cardinality(New) = 2
  <2>1. e1 # e2
    BY <1>2, <1>6, <1>7
  <2>2. New = {e1} \cup {e2} /\ e2 \notin {e1}
    BY <2>1
  <2>3. IsFiniteSet({e1}) /\ Cardinality({e1}) = 1
    BY FS_Singleton
  <2>4. IsFiniteSet({e1} \cup {e2}) /\ Cardinality({e1} \cup {e2}) = 1 + 1
    BY <2>2, <2>3, FS_AddElement
  <2> QED BY <1>6, <1>7, <2>2, <2>4
<1>9. /\ e1.kind = "session" /\ e1.id = <<n, Count(n) + 1>>
      /\ e2.kind = "user" /\ e2.id = <<n, Count(n) + 2>> /\ e2.session = e2.id
  BY <1>3, <1>4, <1>5, <1>6, <1>7 DEF Kin, Same
<1>10. \A e \in New :
         /\ e.origin = n /\ Count(n) < e.seq /\ e.seq <= Count(n) + 2
         /\ Created(n, e) /\ e.id[2] <= Count(n) + 2
         /\ e.kind = "user" => e.session = e.id
         /\ ~ e.dead
  BY <1>2, <1>6, <1>7, <1>9 DEF Created
<1>11. \A e, f \in New : Same(e, f) => Kin(e, f)
  BY <1>9 DEF Same, Kin
<1>12. /\ R \in SUBSET Row /\ IsFiniteSet(R)
       /\ \A r \in R : r \in rows[n] \/ r = user \/ r = session
       /\ rows[n] \subseteq R /\ user \in R /\ session \in R
  <2>1. rows[n] \in SUBSET Row /\ IsFiniteSet(rows[n])
    BY DEF IndInv, RowInv, Table
  <2>2. R = (rows[n] \cup {user}) \cup {session}
    OBVIOUS
  <2>3. IsFiniteSet(rows[n] \cup {user})
    BY <2>1, FS_AddElement
  <2>4. IsFiniteSet(R)
    BY <2>2, <2>3, FS_AddElement
  <2> QED BY <1>4, <1>5, <2>1, <2>4
<1>13. /\ Created(n, user) /\ Hangs(R, user) /\ \E e \in New : Kin(user, e)
       /\ Created(n, session) /\ Hangs(R, session) /\ \E e \in New : Kin(session, e)
  <2>1. Created(n, user) /\ Created(n, session)
    BY <1>2, <1>3, <1>4, <1>5 DEF Created
  <2>2. Hangs(R, user) /\ Hangs(R, session)
    BY <1>4, <1>5, <1>12 DEF Hangs, HasUser
  <2>3. Kin(user, e2) /\ Kin(session, e1)
    BY <1>6, <1>7 DEF Kin, Same
  <2> QED BY <2>1, <2>2, <2>3
<1>14. \A r \in rows[n] : Kin(r, r)
  BY DEF Kin, Same
<1>18. \A e \in New : \E r \in R : Created(n, r) /\ Kin(r, e)
  BY <1>6, <1>7, <1>12, <1>13 DEF Kin, Same
<1> HIDE DEF New, R
<1>15. Appended(n, New)
  BY <1>8, <1>10, <1>11 DEF Appended
<1>16. \A r \in R :
         \/ \E q \in rows[n] :
              Kin(r, q) /\ (r.live => q.live /\ \A x \in New : Same(x, r) => ~ x.dead)
         \/ Created(n, r) /\ Hangs(R, r) /\ \E x \in New : Kin(r, x)
  BY <1>10, <1>12, <1>13, <1>14
<1>17. \A q \in rows[n] : \E r \in R : Kin(r, q)
  BY <1>12, <1>14
<1>19. IndInv'
  BY <1>1, <1>12, <1>15, <1>16, <1>17, LocalStep
<1>20. \A r \in R :
         \/ \E q \in rows[n] : Kin(r, q)
         \/ Created(n, r) /\ (r.kind = "user" => r.user = n /\ ~ HasUser(rows[n], n))
  BY <1>1, <1>4, <1>5, <1>12, <1>13, <1>14
<1>21. Recorded(n)
  BY <1>1, <1>17, <1>18, <1>20, RecordedStep
<1> QED BY <1>19, <1>21
-----------------------------------------------------------------------------
(* Pages *)

(* Of the events of one thing one is the newest. *)
LEMMA NewestExists ==
  ASSUME NEW L, History(L), IsFiniteSet(L), NEW e \in L
  PROVE  Newest(Events(L, e.kind, e.id)) \in Events(L, e.kind, e.id)
<1> DEFINE E == Events(L, e.kind, e.id)
           at == [f \in E |-> f.at]
           S == {at[f] : f \in E}
<1>1. E \in SUBSET L /\ e \in E
  BY DEF Events
<1>2. IsFiniteSet(E) /\ \A f \in E : f \in Entry /\ f.at \in Nat
  BY <1>1, FS_Subset DEF History, Entry
<1>3. IsFiniteSet(S)
  <2>1. DOMAIN at = E /\ at = [f \in E |-> at[f]]
    OBVIOUS
  <2> HIDE DEF at, E
  <2> QED BY <1>2, <2>1, ImageFinite
<1>4. S \in SUBSET Nat /\ S # {}
  BY <1>1, <1>2
<1>5. PICK m \in S : \A x \in S : x <= m
  <2> HIDE DEF S
  <2> QED BY <1>3, <1>4, LargestExists
<1>6. PICK f \in E : f.at = m
  BY <1>5
<1>7. \A g \in E : g.at <= f.at
  BY <1>5, <1>6
<1> QED BY <1>6, <1>7 DEF Newest

(* The row that a finite history asks for is of the events it comes from,   *)
(* and is live only if none of them ended it.                               *)
LEMMA RowOfFacts ==
  ASSUME NEW L, History(L), IsFiniteSet(L), NEW e \in L
  PROVE  /\ RowOf(L, e.kind, e.id) \in Row
         /\ Kin(RowOf(L, e.kind, e.id), e)
         /\ RowOf(L, e.kind, e.id).live => \A f \in L : Same(f, e) => ~ f.dead
<1> DEFINE E == Events(L, e.kind, e.id)
           top == Newest(E)
<1>1. E \in SUBSET L /\ e \in E /\ \A f \in L : f \in E <=> Same(f, e)
  BY DEF Events, Same
<1>2. IsFiniteSet(E) /\ \A f \in E : f \in Entry /\ f.at \in Nat
  BY <1>1, FS_Subset DEF History, Entry
<1>8. top \in E
  BY NewestExists
<1>9. top \in Entry /\ Kin(top, e)
  BY <1>1, <1>2, <1>8 DEF History
<1>10. e \in Entry
  BY <1>1, <1>2
<1> DEFINE r == RowOf(L, e.kind, e.id)
<1>11. r = [kind |-> e.kind, id |-> e.id, user |-> top.user, session |-> top.session,
            live |-> \A x \in E : ~ x.dead, hash |-> top.hash]
  BY DEF RowOf
<1> HIDE DEF r, E, top
<1>12. r \in Row
  BY <1>9, <1>10, <1>11 DEF Entry, Row
<1>13. Kin(r, e)
  BY <1>9, <1>11 DEF Kin, Same
<1>14. r.live => \A x \in L : Same(x, e) => ~ x.dead
  BY <1>1, <1>11
<1> QED BY <1>12, <1>13, <1>14 DEF r

(* A table and what becomes of it. *)
Grows(R, Q, L) ==
  /\ Q \in SUBSET Row /\ IsFiniteSet(Q)
  /\ \A r \in R : \E q \in Q : Kin(q, r)
  /\ \A q \in Q : \E e \in L : Kin(q, e)

Made(R, L) ==
  /\ R \in SUBSET Row /\ IsFiniteSet(R)
  /\ \A r \in R : \E e \in L : Kin(r, e)

(* Rows written over a table. *)
LEMMA OverFacts ==
  ASSUME NEW L, History(L), NEW R, Made(R, L), NEW S, Made(S, L)
  PROVE  /\ Grows(R, Over(R, S), L)
         /\ \A q \in Over(R, S) : q \in S \/ (q \in R /\ ~ \E s \in S : Same(q, s))
         /\ \A r \in R : (~ \E s \in S : Same(r, s)) => r \in Over(R, S)
<1> DEFINE Q == Over(R, S)
<1>1. Q = S \cup {r \in R : ~ \E s \in S : Same(r, s)}
  BY DEF Over
<1>2. IsFiniteSet(Q)
  BY <1>1, FS_Union, FS_Subset DEF Made
<1>3. ASSUME NEW r \in R PROVE \E q \in Q : Kin(q, r)
  <2>1. CASE \E s \in S : Same(r, s)
    <3>1. PICK s \in S : Same(r, s)
      BY <2>1
    <3>2. PICK e \in L, f \in L : Kin(r, e) /\ Kin(s, f)
      BY DEF Made
    <3>3. Same(e, f)
      BY <3>1, <3>2 DEF Kin, Same
    <3>4. Kin(e, f)
      BY <3>3 DEF History
    <3>5. Kin(s, r)
      BY <3>2, <3>4 DEF Kin, Same
    <3> QED BY <1>1, <3>5
  <2>2. CASE ~ \E s \in S : Same(r, s)
    BY <1>1, <2>2 DEF Kin, Same
  <2> QED BY <2>1, <2>2
<1>4. Q \in SUBSET Row /\ \A q \in Q : \E e \in L : Kin(q, e)
  BY <1>1 DEF Made
<1>5. /\ \A q \in Q : q \in S \/ (q \in R /\ ~ \E s \in S : Same(q, s))
      /\ \A r \in R : (~ \E s \in S : Same(r, s)) => r \in Q
  BY <1>1
<1> HIDE DEF Q
<1> QED BY <1>2, <1>3, <1>4, <1>5 DEF Grows, Q

(* Growth composes. *)
LEMMA GrowsTwice ==
  ASSUME NEW L, NEW R, NEW Q, NEW P, Grows(R, Q, L), Grows(Q, P, L)
  PROVE  Grows(R, P, L)
BY DEF Grows, Kin, Same

(* Rows asked for by some of the events of a kind. *)
LEMMA AskedFor ==
  ASSUME NEW L, History(L), IsFiniteSet(L), NEW kind \in RowKind, NEW D \in SUBSET L,
         \A e \in D : e.kind = kind, NEW f, DOMAIN f = D, f = [e \in D |-> f[e]],
         \A e \in D : f[e] \in Row /\ Kin(f[e], e)
  PROVE  /\ Made({f[e] : e \in D}, L)
         /\ \A s \in {f[e] : e \in D} : s.kind = kind
<1> DEFINE S == {f[e] : e \in D}
<1>1. IsFiniteSet(S)
  BY FS_Subset, ImageFinite
<1>2. S \in SUBSET Row /\ \A s \in S : \E e \in L : Kin(s, e)
  OBVIOUS
<1>3. \A s \in S : s.kind = kind
  BY DEF Kin, Same
<1> QED BY <1>1, <1>2, <1>3 DEF Made

(* Sessions, and tokens: of the events that are due, those of a user that   *)
(* has a row.                                                               *)
LEMMA ProjectKindFacts ==
  ASSUME NEW L, History(L), IsFiniteSet(L), NEW new \in SUBSET L, NEW R, Made(R, L),
         NEW kind \in RowKind
  PROVE  LET Q == ProjectKind(R, L, new, kind) IN
         /\ Grows(R, Q, L)
         /\ \A q \in Q : q.kind # kind => q \in R
         /\ \A r \in R : r.kind # kind => r \in Q
         /\ \A q \in Q : q.kind = kind =>
               \/ /\ HasUser(R, q.user)
                  /\ q.live => \A e \in L : Same(e, q) => ~ e.dead
               \/ /\ q \in R
                  /\ \A e \in new : Same(e, q) => ~ HasUser(R, e.user)
<1> DEFINE D == {e \in Due(L, new, kind) : HasUser(R, e.user)}
           f == [e \in D |-> RowOf(L, kind, e.id)]
           S == {f[e] : e \in D}
           Q == ProjectKind(R, L, new, kind)
<1>1. /\ D \in SUBSET L /\ \A e \in D : e.kind = kind /\ HasUser(R, e.user)
      /\ \A e \in new : e.kind = kind /\ HasUser(R, e.user) => e \in D
  BY DEF Due
<1>2. S = {RowOf(L, kind, e.id) : e \in D} /\ Q = Over(R, S)
  BY DEF ProjectKind
<1> HIDE DEF D, Q
<1>3. \A e \in D : /\ f[e] \in Row /\ Kin(f[e], e)
                   /\ f[e].live => \A x \in L : Same(x, e) => ~ x.dead
  BY <1>1, RowOfFacts
<1>4. DOMAIN f = D /\ f = [e \in D |-> f[e]]
  OBVIOUS
<1> HIDE DEF f
<1>5. Made(S, L) /\ \A s \in S : s.kind = kind
  BY <1>1, <1>3, <1>4, AskedFor
<1>6. \A s \in S : \E e \in D : s = f[e]
  OBVIOUS
<1>7. \A e \in D : f[e] \in S
  OBVIOUS
<1> HIDE DEF S
<1>8. /\ Grows(R, Q, L)
      /\ \A q \in Q : q \in S \/ (q \in R /\ ~ \E s \in S : Same(q, s))
      /\ \A r \in R : (~ \E s \in S : Same(r, s)) => r \in Q
  <2>1. /\ Grows(R, Over(R, S), L)
        /\ \A q \in Over(R, S) : q \in S \/ (q \in R /\ ~ \E s \in S : Same(q, s))
        /\ \A r \in R : (~ \E s \in S : Same(r, s)) => r \in Over(R, S)
    BY <1>5, OverFacts
  <2> QED BY <1>2, <2>1
<1>9. ASSUME NEW q \in S
      PROVE  HasUser(R, q.user) /\ (q.live => \A e \in L : Same(e, q) => ~ e.dead)
  <2>1. PICK e \in D : q = f[e]
    BY <1>6
  <2>2. Kin(q, e) /\ (q.live => \A x \in L : Same(x, e) => ~ x.dead) /\ HasUser(R, e.user)
    BY <1>1, <1>3, <2>1
  <2>3. q.user = e.user /\ \A x : Same(x, q) => Same(x, e)
    BY <2>2 DEF Kin, Same
  <2> QED BY <2>2, <2>3
<1>10. ASSUME NEW q \in Q, ~ \E s \in S : Same(q, s), NEW e \in new, Same(e, q)
       PROVE  ~ (e.kind = kind /\ HasUser(R, e.user))
  <2> SUFFICES ASSUME e.kind = kind, HasUser(R, e.user) PROVE FALSE
    OBVIOUS
  <2>1. e \in D /\ f[e] \in S /\ Kin(f[e], e)
    BY <1>1, <1>3, <1>7
  <2>2. Same(q, f[e])
    BY <1>10, <2>1 DEF Kin, Same
  <2> QED BY <1>10, <2>1, <2>2
<1>11. \A q \in Q : q.kind # kind => q \in R
  BY <1>5, <1>8
<1>12. \A r \in R : r.kind # kind => r \in Q
  BY <1>5, <1>8 DEF Same
<1>13. ASSUME NEW q \in Q, q.kind = kind
       PROVE  \/ /\ HasUser(R, q.user)
                 /\ q.live => \A e \in L : Same(e, q) => ~ e.dead
              \/ /\ q \in R
                 /\ \A e \in new : Same(e, q) => ~ HasUser(R, e.user)
  <2>1. CASE q \in S
    BY <1>9, <2>1
  <2>2. CASE q \in R /\ ~ \E s \in S : Same(q, s)
    <3>1. \A e \in new : Same(e, q) => e.kind = kind
      BY <1>13 DEF Same
    <3> QED BY <1>10, <2>2, <3>1
  <2> QED BY <1>8, <2>1, <2>2
<1> QED BY <1>8, <1>11, <1>12, <1>13 DEF Q

(* Users. *)
LEMMA ProjectUsersFacts ==
  ASSUME NEW L, History(L), IsFiniteSet(L), NEW new \in SUBSET L, NEW R, Made(R, L)
  PROVE  LET Q == ProjectUsers(R, L, new) IN
         /\ Grows(R, Q, L)
         /\ \A q \in Q : q.kind # "user" => q \in R
         /\ \A r \in R : r.kind # "user" => r \in Q
<1> DEFINE Q == ProjectUsers(R, L, new)
<1>1. CASE Bootstraps(new) = {}
  <2>1. Q = R
    BY <1>1 DEF ProjectUsers
  <2> QED BY <2>1 DEF Grows, Made, Kin, Same
<1>2. CASE Bootstraps(new) # {} /\ Conflict(L)
  <2> DEFINE over(r) == IF r.kind = "user" THEN [r EXCEPT !.live = FALSE] ELSE r
             f == [r \in R |-> over(r)]
  <2>1. Q = {over(r) : r \in R}
    BY <1>2 DEF ProjectUsers
  <2>2. ASSUME NEW r \in R
        PROVE  over(r) \in Row /\ Kin(over(r), r) /\ (r.kind # "user" => over(r) = r)
    <3>1. CASE r.kind = "user"
      <4>1. over(r) = [r EXCEPT !.live = FALSE] /\ r \in Row
        BY <3>1 DEF Made
      <4> HIDE DEF over
      <4> QED BY <3>1, <4>1 DEF Row, Kin, Same
    <3>2. CASE r.kind # "user"
      <4>1. over(r) = r /\ r \in Row
        BY <3>2 DEF Made
      <4> HIDE DEF over
      <4> QED BY <4>1 DEF Kin, Same
    <3> QED BY <3>1, <3>2
  <2> HIDE DEF over, Q
  <2>3. IsFiniteSet(Q)
    <3>1. IsFiniteSet({f[r] : r \in R})
      BY ImageFinite DEF Made
    <3>2. {f[r] : r \in R} = Q
      BY <2>1
    <3> QED BY <3>1, <3>2
  <2> HIDE DEF f
  <2>4. Q \in SUBSET Row /\ \A r \in R : \E q \in Q : Kin(q, r)
    BY <2>1, <2>2
  <2>5. ASSUME NEW q \in Q PROVE (\E e \in L : Kin(q, e)) /\ (q.kind # "user" => q \in R)
    <3>1. PICK r \in R : q = over(r)
      BY <2>1
    <3>2. PICK e \in L : Kin(r, e)
      BY DEF Made
    <3> QED BY <2>2, <3>1, <3>2 DEF Kin, Same
  <2>6. \A r \in R : r.kind # "user" => r \in Q
    BY <2>1, <2>2
  <2> QED BY <2>3, <2>4, <2>5, <2>6 DEF Grows, Q
<1>3. CASE Bootstraps(new) # {} /\ ~ Conflict(L)
  <2> DEFINE D == Bootstraps(new)
             f == [e \in D |-> NewUser(e.user, e.id)]
             S == {f[e] : e \in D}
  <2>1. D \in SUBSET L /\ \A e \in D : e.kind = "user"
    BY DEF Bootstraps
  <2>2. Q = Over(R, S)
    <3>1. S = {NewUser(e.user, e.id) : e \in D}
      OBVIOUS
    <3> QED BY <1>3, <3>1 DEF ProjectUsers
  <2> HIDE DEF D, Q
  <2>3. \A e \in D : f[e] \in Row /\ Kin(f[e], e)
    <3> SUFFICES ASSUME NEW e \in D PROVE f[e] \in Row /\ Kin(f[e], e)
      OBVIOUS
    <3>1. e \in Entry /\ e.kind = "user" /\ e.session = e.id
      BY <2>1 DEF History
    <3>2. f[e] = [kind |-> "user", id |-> e.id, user |-> e.user, session |-> e.id,
                  live |-> TRUE, hash |-> e.id]
      BY DEF NewUser
    <3> HIDE DEF f
    <3>3. f[e] \in Row
      BY <3>1, <3>2 DEF Entry, Row, RowKind
    <3> QED BY <3>1, <3>2, <3>3 DEF Kin, Same
  <2>4. DOMAIN f = D /\ f = [e \in D |-> f[e]]
    OBVIOUS
  <2> HIDE DEF f
  <2>5. Made(S, L) /\ \A s \in S : s.kind = "user"
    BY <2>1, <2>3, <2>4, AskedFor DEF RowKind
  <2> HIDE DEF S
  <2>6. /\ Grows(R, Over(R, S), L)
        /\ \A q \in Over(R, S) : q \in S \/ (q \in R /\ ~ \E s \in S : Same(q, s))
        /\ \A r \in R : (~ \E s \in S : Same(r, s)) => r \in Over(R, S)
    BY <2>5, OverFacts
  <2>7. /\ \A q \in Over(R, S) : q.kind # "user" => q \in R
        /\ \A r \in R : r.kind # "user" => r \in Over(R, S)
    BY <2>5, <2>6 DEF Same
  <2> QED BY <2>2, <2>6, <2>7 DEF Q
<1> QED BY <1>1, <1>2, <1>3

(* The session that a subscription is bound to. *)
HasSession(R, x) == \E s \in R : s.kind = "session" /\ s.id = x.session /\ s.user = x.user

(* Subscriptions: of those that are due, those whose session has a row. *)
LEMMA ProjectSubsFacts ==
  ASSUME NEW L, History(L), IsFiniteSet(L), NEW new \in SUBSET L, NEW R, Made(R, L)
  PROVE  LET Q == ProjectSubs(R, L, new) IN
         /\ Grows(R, Q, L)
         /\ \A q \in Q : q.kind # "sub" => q \in R
         /\ \A r \in R : r.kind # "sub" => r \in Q
         /\ \A q \in Q : q.kind = "sub" =>
               \/ /\ HasSession(R, q)
                  /\ q.live => \A e \in L : Same(e, q) => ~ e.dead
               \/ /\ q \in R
                  /\ \A e \in new : Same(e, q) => ~ HasSession(R, e)
<1> DEFINE due == {e \in L : e.kind = "sub" /\
                     \/ e \in Due(L, new, "sub")
                     \/ \E f \in Due(L, new, "session") : f.id = e.session /\ HasUser(R, f.user)}
           D == {e \in due : \E s \in R : s.kind = "session" /\ s.id = e.session
                                           /\ s.user = e.user}
           ended(e) == \E s \in R : s.kind = "session" /\ s.id = e.session /\ ~ s.live
           row(e) == LET r == RowOf(L, "sub", e.id)
                     IN  [r EXCEPT !.live = @ /\ ~ ended(e)]
           f == [e \in D |-> row(e)]
           S == {f[e] : e \in D}
           Q == ProjectSubs(R, L, new)
<1>1. /\ D \in SUBSET L /\ \A e \in D : e.kind = "sub" /\ HasSession(R, e)
      /\ \A e \in new : e.kind = "sub" /\ HasSession(R, e) => e \in D
  BY DEF Due, HasSession
<1>2. Q = Over(R, S)
  <2>1. S = {row(e) : e \in D}
    OBVIOUS
  <2>2. Q = Over(R, {row(e) : e \in D})
    BY DEF ProjectSubs
  <2> QED BY <2>1, <2>2
<1> HIDE DEF D, Q, ended
<1>3. ASSUME NEW e \in D
      PROVE  /\ f[e] \in Row /\ Kin(f[e], e)
             /\ f[e].live => \A x \in L : Same(x, e) => ~ x.dead
  <2> DEFINE r == RowOf(L, "sub", e.id)
  <2>1. /\ r \in Row /\ Kin(r, e)
        /\ r.live => \A x \in L : Same(x, e) => ~ x.dead
    BY <1>1, RowOfFacts
  <2>2. f[e] = [r EXCEPT !.live = @ /\ ~ ended(e)]
    OBVIOUS
  <2>3. ended(e) \in BOOLEAN
    BY DEF ended
  <2> HIDE DEF f, r
  <2>4. f[e] \in Row /\ Kin(f[e], r) /\ (f[e].live => r.live)
    BY <2>1, <2>2, <2>3 DEF Row, Kin, Same
  <2> QED BY <2>1, <2>4 DEF Kin, Same
<1>4. DOMAIN f = D /\ f = [e \in D |-> f[e]]
  OBVIOUS
<1> HIDE DEF f
<1>5. Made(S, L) /\ \A s \in S : s.kind = "sub"
  BY <1>1, <1>3, <1>4, AskedFor DEF RowKind
<1>6. \A s \in S : \E e \in D : s = f[e]
  OBVIOUS
<1>7. \A e \in D : f[e] \in S
  OBVIOUS
<1> HIDE DEF S
<1>8. /\ Grows(R, Q, L)
      /\ \A q \in Q : q \in S \/ (q \in R /\ ~ \E s \in S : Same(q, s))
      /\ \A r \in R : (~ \E s \in S : Same(r, s)) => r \in Q
  <2>1. /\ Grows(R, Over(R, S), L)
        /\ \A q \in Over(R, S) : q \in S \/ (q \in R /\ ~ \E s \in S : Same(q, s))
        /\ \A r \in R : (~ \E s \in S : Same(r, s)) => r \in Over(R, S)
    BY <1>5, OverFacts
  <2> QED BY <1>2, <2>1
<1>9. ASSUME NEW q \in S
      PROVE  HasSession(R, q) /\ (q.live => \A e \in L : Same(e, q) => ~ e.dead)
  <2>1. PICK e \in D : q = f[e]
    BY <1>6
  <2>2. Kin(q, e) /\ (q.live => \A x \in L : Same(x, e) => ~ x.dead) /\ HasSession(R, e)
    BY <1>1, <1>3, <2>1
  <2>3. q.user = e.user /\ q.session = e.session /\ \A x : Same(x, q) => Same(x, e)
    BY <2>2 DEF Kin, Same
  <2> QED BY <2>2, <2>3 DEF HasSession
<1>10. ASSUME NEW q \in Q, ~ \E s \in S : Same(q, s), NEW e \in new, Same(e, q),
              e.kind = "sub", HasSession(R, e)
       PROVE  FALSE
  <2>1. e \in D /\ f[e] \in S /\ Kin(f[e], e)
    BY <1>1, <1>3, <1>7, <1>10
  <2>2. Same(q, f[e])
    BY <1>10, <2>1 DEF Kin, Same
  <2> QED BY <1>10, <2>1, <2>2
<1>11. \A q \in Q : q.kind # "sub" => q \in R
  BY <1>5, <1>8
<1>12. \A r \in R : r.kind # "sub" => r \in Q
  BY <1>5, <1>8 DEF Same
<1>13. ASSUME NEW q \in Q, q.kind = "sub"
       PROVE  \/ /\ HasSession(R, q)
                 /\ q.live => \A e \in L : Same(e, q) => ~ e.dead
              \/ /\ q \in R
                 /\ \A e \in new : Same(e, q) => ~ HasSession(R, e)
  <2>1. CASE q \in S
    BY <1>9, <2>1
  <2>2. CASE q \in R /\ ~ \E s \in S : Same(q, s)
    <3>1. \A e \in new : Same(e, q) => e.kind = "sub"
      BY <1>13 DEF Same
    <3> QED BY <1>10, <2>2, <3>1
  <2> QED BY <1>8, <2>1, <2>2
<1> QED BY <1>8, <1>11, <1>12, <1>13 DEF Q

(* What is in a table stays as the table grows. *)
LEMMA Carried ==
  ASSUME NEW L, NEW R, NEW Q, Grows(R, Q, L)
  PROVE  /\ \A u : HasUser(R, u) => HasUser(Q, u)
         /\ \A x : HasSession(R, x) => HasSession(Q, x)
<1>1. ASSUME NEW u, HasUser(R, u) PROVE HasUser(Q, u)
  BY <1>1 DEF HasUser, Grows, Kin, Same
<1>2. ASSUME NEW x, HasSession(R, x) PROVE HasSession(Q, x)
  BY <1>2 DEF HasSession, Grows, Kin, Same
<1> QED BY <1>1, <1>2

(* A row that a page leaves alone is one that no event of the page is about:*)
(* what the row hangs on is there.                                          *)
LEMMA NotAsked ==
  ASSUME NEW L, History(L), NEW R, Made(R, L), NEW Q, Grows(R, Q, L), NEW new \in SUBSET L,
         NEW r \in R, Hangs(R, r), r.kind # "user",
         \/ \A e \in new : Same(e, r) => ~ HasUser(Q, e.user)
         \/ r.kind = "sub" /\ \A e \in new : Same(e, r) => ~ HasSession(Q, e)
  PROVE  \A e \in new : ~ Same(e, r)
<1> SUFFICES ASSUME NEW e \in new, Same(e, r) PROVE FALSE
  OBVIOUS
<1>0. Same(e, r)
  OBVIOUS
<1>1. PICK f \in L : Kin(r, f)
  BY DEF Made
<1>2. Same(e, f)
  BY <1>0, <1>1 DEF Kin, Same
<1>3. Kin(e, f)
  BY <1>2 DEF History
<1>4. e.user = r.user /\ e.session = r.session
  BY <1>1, <1>3 DEF Kin
<1>5. HasUser(R, e.user) /\ (r.kind = "sub" => HasSession(R, e))
  BY <1>4 DEF Hangs, HasSession
<1>6. HasUser(Q, e.user) /\ (r.kind = "sub" => HasSession(Q, e))
  BY <1>5, Carried
<1> QED BY <1>0, <1>6

(* A page applied to a table of rows that hang on rows. *)
LEMMA ProjectFacts ==
  ASSUME NEW L, History(L), IsFiniteSet(L), NEW new \in SUBSET L,
         NEW R, Made(R, L), \A r \in R : Hangs(R, r)
  PROVE  LET Q == Project(R, L, new) IN
         /\ Grows(R, Q, L)
         /\ \A q \in Q : q.kind # "user" =>
               \/ Hangs(Q, q) /\ (q.live => \A e \in L : Same(e, q) => ~ e.dead)
               \/ q \in R /\ \A e \in new : ~ Same(e, q)
<1> DEFINE U == ProjectUsers(R, L, new)
           S == ProjectKind(U, L, new, "session")
           T == ProjectKind(S, L, new, "token")
           Q == ProjectSubs(T, L, new)
<1>1. Q = Project(R, L, new)
  BY DEF Project
<1>2. /\ Grows(R, U, L)
      /\ \A q \in U : q.kind # "user" => q \in R
      /\ \A r \in R : r.kind # "user" => r \in U
  BY ProjectUsersFacts
<1> HIDE DEF U
<1>3. Made(U, L)
  BY <1>2 DEF Grows, Made
<1>4. /\ Grows(U, S, L)
      /\ \A q \in S : q.kind # "session" => q \in U
      /\ \A r \in U : r.kind # "session" => r \in S
      /\ \A q \in S : q.kind = "session" =>
            \/ /\ HasUser(U, q.user)
               /\ q.live => \A e \in L : Same(e, q) => ~ e.dead
            \/ /\ q \in U
               /\ \A e \in new : Same(e, q) => ~ HasUser(U, e.user)
  BY <1>3, ProjectKindFacts DEF RowKind
<1> HIDE DEF S
<1>5. Made(S, L)
  BY <1>4 DEF Grows, Made
<1>6. /\ Grows(S, T, L)
      /\ \A q \in T : q.kind # "token" => q \in S
      /\ \A r \in S : r.kind # "token" => r \in T
      /\ \A q \in T : q.kind = "token" =>
            \/ /\ HasUser(S, q.user)
               /\ q.live => \A e \in L : Same(e, q) => ~ e.dead
            \/ /\ q \in S
               /\ \A e \in new : Same(e, q) => ~ HasUser(S, e.user)
  BY <1>5, ProjectKindFacts DEF RowKind
<1> HIDE DEF T
<1>7. Made(T, L)
  BY <1>6 DEF Grows, Made
<1>8. /\ Grows(T, Q, L)
      /\ \A q \in Q : q.kind # "sub" => q \in T
      /\ \A r \in T : r.kind # "sub" => r \in Q
      /\ \A q \in Q : q.kind = "sub" =>
            \/ /\ HasSession(T, q)
               /\ q.live => \A e \in L : Same(e, q) => ~ e.dead
            \/ /\ q \in T
               /\ \A e \in new : Same(e, q) => ~ HasSession(T, e)
  BY <1>7, ProjectSubsFacts
<1> HIDE DEF Q
<1>9. Grows(R, S, L) /\ Grows(R, T, L) /\ Grows(U, Q, L) /\ Grows(S, Q, L) /\ Grows(R, Q, L)
  BY <1>2, <1>4, <1>6, <1>8, GrowsTwice
<1>10. \A q \in Q : q \in Row
  BY <1>9 DEF Grows
<1>11. ASSUME NEW s \in T, s.kind = "session" PROVE HasUser(Q, s.user)
  <2>1. s \in S
    BY <1>6, <1>11
  <2>2. HasUser(U, s.user) \/ s \in R
    BY <1>2, <1>4, <1>11, <2>1
  <2>3. s \in R => HasUser(R, s.user)
    BY <1>11 DEF Hangs
  <2> QED BY <1>9, <2>2, <2>3, Carried
<1>12. ASSUME NEW q \in Q, q.kind # "user"
       PROVE  \/ Hangs(Q, q) /\ (q.live => \A e \in L : Same(e, q) => ~ e.dead)
              \/ q \in R /\ \A e \in new : ~ Same(e, q)
  <2>1. CASE q.kind = "session"
    <3>1. q \in S
      BY <1>6, <1>8, <2>1
    <3>2. CASE HasUser(U, q.user) /\ (q.live => \A e \in L : Same(e, q) => ~ e.dead)
      <4>1. HasUser(Q, q.user)
        BY <1>9, <3>2, Carried
      <4> QED BY <2>1, <3>2, <4>1 DEF Hangs
    <3>3. CASE q \in U /\ \A e \in new : Same(e, q) => ~ HasUser(U, e.user)
      <4>1. q \in R
        BY <1>2, <2>1, <3>3
      <4> QED BY <1>2, <1>12, <3>3, <4>1, NotAsked
    <3> QED BY <1>4, <2>1, <3>1, <3>2, <3>3
  <2>2. CASE q.kind = "token"
    <3>1. q \in T
      BY <1>8, <2>2
    <3>2. CASE HasUser(S, q.user) /\ (q.live => \A e \in L : Same(e, q) => ~ e.dead)
      <4>1. HasUser(Q, q.user)
        BY <1>9, <3>2, Carried
      <4> QED BY <2>2, <3>2, <4>1 DEF Hangs
    <3>3. CASE q \in S /\ \A e \in new : Same(e, q) => ~ HasUser(S, e.user)
      <4>1. q \in R
        BY <1>2, <1>4, <2>2, <3>3
      <4> QED BY <1>9, <1>12, <3>3, <4>1, NotAsked
    <3> QED BY <1>6, <2>2, <3>1, <3>2, <3>3
  <2>3. CASE q.kind = "sub"
    <3>1. CASE HasSession(T, q) /\ (q.live => \A e \in L : Same(e, q) => ~ e.dead)
      <4>1. PICK s \in T : s.kind = "session" /\ s.id = q.session /\ s.user = q.user
        BY <3>1 DEF HasSession
      <4>2. HasUser(Q, q.user) /\ s \in Q
        BY <1>8, <1>11, <4>1
      <4>3. Hangs(Q, q)
        BY <4>1, <4>2 DEF Hangs
      <4> QED BY <3>1, <4>3
    <3>2. CASE q \in T /\ \A e \in new : Same(e, q) => ~ HasSession(T, e)
      <4>1. q \in R
        BY <1>2, <1>4, <1>6, <2>3, <3>2
      <4> QED BY <1>9, <2>3, <3>2, <4>1, NotAsked
    <3> QED BY <1>8, <2>3, <3>1, <3>2
  <2> QED BY <1>10, <1>12, <2>1, <2>2, <2>3 DEF Row, RowKind
<1> QED BY <1>1, <1>9, <1>12

(* A page: rows it is about are decided by their whole history, the others  *)
(* by what the node knew before.                                            *)
LEMMA LearnPreservesIndInv ==
  ASSUME IndInv, NEW n \in Node, NEW p \in Node, Learn(n, p)
  PROVE  IndInv'
<1>1. PICK E \in SUBSET log[p] :
        /\ log' = [log EXCEPT ![n] = @ \cup E]
        /\ rows' = [rows EXCEPT ![n] = Project(@, log[n] \cup E, E)]
        /\ UNCHANGED handler
  BY DEF Learn
<1> DEFINE R == rows[n]
           L == log[n] \cup E
           Q == Project(R, L, E)
<1>2. LogInv /\ LogInv'
  BY <1>1, LearnKeepsLog DEF IndInv
<1>3. log'[n] = L /\ \A m \in Node \ {n} : log'[m] = log[m]
  BY <1>1, <1>2 DEF LogInv
<1>4. IsFiniteSet(L)
  BY <1>2, <1>3 DEF LogInv
<1>5. History(L)
  <2>1. L \subseteq Everything
    BY DEF Everything
  <2> HIDE DEF L
  <2> QED BY <1>2, <2>1 DEF LogInv, History
<1>6. Table(R, log[n])
  BY DEF IndInv, RowInv
<1>7. Made(R, L) /\ \A r \in R : Hangs(R, r)
  BY <1>6 DEF Table, Made
<1>8. E \in SUBSET L /\ log[n] \subseteq L
  OBVIOUS
<1>9. rows' = [rows EXCEPT ![n] = Q]
  BY <1>1 DEF IndInv, RowInv
<1> HIDE DEF R, L
<1>10. /\ Grows(R, Q, L)
       /\ \A q \in Q : q.kind # "user" =>
             \/ Hangs(Q, q) /\ (q.live => \A e \in L : Same(e, q) => ~ e.dead)
             \/ q \in R /\ \A e \in E : ~ Same(e, q)
  BY <1>4, <1>5, <1>7, <1>8, ProjectFacts
<1> HIDE DEF Q
<1>11. /\ Q \in SUBSET Row /\ IsFiniteSet(Q)
       /\ \A r \in R : \E q \in Q : Kin(q, r)
       /\ \A q \in Q : \E e \in L : Kin(q, e)
  BY <1>10 DEF Grows
<1>12. ASSUME NEW q \in Q
       PROVE  (\E r \in R : Kin(q, r)) \/ (Hangs(Q, q) /\ \E e \in L : Kin(q, e))
  <2>1. CASE q.kind = "user"
    BY <1>11, <2>1 DEF Hangs
  <2>2. CASE Hangs(Q, q)
    BY <1>11, <2>2
  <2>3. CASE q \in R
    BY <2>3 DEF Kin, Same
  <2> QED BY <1>10, <2>1, <2>2, <2>3
<1>13. ASSUME NEW q \in Q, q.live, NEW e \in L, Same(e, q) PROVE ~ e.dead
  <2>1. CASE q.kind = "user"
    BY <1>5, <1>13, <2>1 DEF History, Same
  <2>2. CASE \A f \in L : Same(f, q) => ~ f.dead
    BY <1>13, <2>2
  <2>3. CASE q \in R /\ \A f \in E : ~ Same(f, q)
    <3>1. e \in log[n]
      BY <1>13, <2>3 DEF L
    <3> QED BY <1>13, <2>3, <3>1 DEF IndInv, KnownEndHolds, Live, Same, R
  <2> QED BY <1>10, <1>13, <2>1, <2>2, <2>3
<1>14. log[n] \subseteq log'[n]
  BY <1>3, <1>8
<1>15. /\ \A q \in rows[n] : \E r \in Q : Kin(r, q)
       /\ \A r \in Q : \/ \E q \in rows[n] : Kin(r, q)
                       \/ Hangs(Q, r) /\ \E e \in log'[n] : Kin(r, e)
       /\ \A r \in Q : r.live => \A e \in log'[n] : Same(e, r) => ~ e.dead
  BY <1>3, <1>11, <1>12, <1>13 DEF R
<1> QED BY <1>1, <1>2, <1>3, <1>9, <1>11, <1>14, <1>15, RowsStep
-----------------------------------------------------------------------------
(* The theorem *)

(* Nodes start empty. *)
LEMMA InitEstablishesIndInv == Init => IndInv
<1> SUFFICES ASSUME Init PROVE IndInv
  OBVIOUS
<1>1. Everything = {} /\ \A n \in Node : Own(n) = {} /\ log[n] = {} /\ rows[n] = {}
  BY DEF Init, Everything, Own
<1>2. LogInv
  <2>1. log \in [Node -> SUBSET Entry]
    BY DEF Init
  <2>2. \A n \in Node : IsFiniteSet(log[n])
    BY <1>1, FS_EmptySet
  <2>3. History(Everything)
    BY <1>1 DEF History
  <2>4. Numbered /\ Named
    BY <1>1 DEF Numbered, Named
  <2> QED BY <2>1, <2>2, <2>3, <2>4 DEF LogInv
<1>3. RowInv
  <2>1. rows \in [Node -> SUBSET Row]
    BY DEF Init
  <2>2. \A n \in Node : Table(rows[n], log[n])
    BY <1>1, FS_EmptySet DEF Table
  <2>3. /\ handler \in [Node -> [Thread -> {Idle} \cup Task]]
        /\ \A n \in Node, t \in Thread : handler[n][t] = Idle
    BY DEF Init
  <2> QED BY <2>1, <2>2, <2>3 DEF RowInv
<1>4. KnownEndHolds
  BY <1>1 DEF KnownEndHolds
<1> QED BY <1>2, <1>3, <1>4 DEF IndInv

(* Every action keeps the inductive invariant. *)
LEMMA StepPreservesIndInv == IndInv /\ [Next]_vars => IndInv'
<1> SUFFICES ASSUME IndInv, [Next]_vars PROVE IndInv'
  OBVIOUS
<1>1. CASE UNCHANGED vars
  <2>1. UNCHANGED <<log, rows, handler>>
    BY <1>1 DEF vars
  <2>2. Everything' = Everything /\ \A n \in Node : Own(n)' = Own(n)
    BY <2>1 DEF Everything, Own
  <2>3. \A n \in Node : Count(n)' = Count(n)
    BY <2>2 DEF Count
  <2>4. Numbered'
    BY <2>1, <2>2, <2>3 DEF IndInv, LogInv, Numbered
  <2>5. Named'
    BY <2>2, <2>3 DEF IndInv, LogInv, Named, History, Entry, Id
  <2>6. LogInv'
    BY <2>1, <2>2, <2>4, <2>5 DEF IndInv, LogInv
  <2>7. RowInv' /\ KnownEndHolds'
    BY <2>1 DEF IndInv, RowInv, KnownEndHolds
  <2> QED BY <2>6, <2>7 DEF IndInv
<1>2. ASSUME NEW n \in Node, Bootstrap(n) PROVE IndInv'
  BY <1>2, BootstrapPreservesIndInv
<1>3. ASSUME NEW n \in Node, NEW t \in Thread, NEW call \in Calls[n], Load(n, t, call)
      PROVE  IndInv'
  BY <1>3, LoadPreservesIndInv
<1>4. ASSUME NEW n \in Node, NEW t \in Thread, LogIn(n, t) \/ IssueToken(n, t) PROVE IndInv'
  BY <1>4, AddRowPreservesIndInv
<1>5. ASSUME NEW n \in Node, NEW t \in Thread, Rotate(n, t) PROVE IndInv'
  BY <1>5, RotatePreservesIndInv
<1>6. ASSUME NEW n \in Node, NEW t \in Thread, Logout(n, t) \/ RefuseRefresh(n, t) PROVE IndInv'
  BY <1>6, RevokeSessionPreservesIndInv
<1>7. ASSUME NEW n \in Node, NEW t \in Thread, CommitSubscribe(n, t) PROVE IndInv'
  BY <1>7, SubscribePreservesIndInv
<1>8. ASSUME NEW n \in Node, NEW t \in Thread, RevokeToken(n, t) \/ Unsubscribe(n, t) PROVE IndInv'
  BY <1>8, EndRowPreservesIndInv
<1>9. ASSUME NEW n \in Node, NEW t \in Thread, Abort(n, t) PROVE IndInv'
  BY <1>9, AbortPreservesIndInv
<1>10. ASSUME NEW n \in Node, Sweep(n) PROVE IndInv'
  BY <1>10, SweepPreservesIndInv
<1>11. ASSUME NEW n \in Node, NEW p \in Node \ {n}, Learn(n, p) PROVE IndInv'
  BY <1>11, LearnPreservesIndInv
<1> QED
  BY <1>1, <1>2, <1>3, <1>4, <1>5, <1>6, <1>7, <1>8, <1>9, <1>10, <1>11 DEF Next

(* A session, a token or a subscription that some node has ended is ended   *)
(* on every node that has learnt of it, whatever order users and rows came  *)
(* in and whatever had been loaded when an endpoint committed: the commits  *)
(* of application/auth.py, push.py and service_tokens.py and the projection *)
(* of application/sync.py never revive it.                                  *)
THEOREM KnownEndsHold == Spec => []KnownEndHolds
<1>1. IndInv => KnownEndHolds
  BY DEF IndInv
<1> QED BY <1>1, InitEstablishesIndInv, StepPreservesIndInv, PTL DEF Spec
-----------------------------------------------------------------------------
(* What waits *)

(* A user row that a page brings is of a user whose events are replayed. *)
LEMMA UsersTouched ==
  ASSUME NEW L, NEW new, NEW R, NEW u, HasUser(ProjectUsers(R, L, new), u)
  PROVE  HasUser(R, u) \/ u \in Touched(L, new)
<1> DEFINE Q == ProjectUsers(R, L, new)
<1>1. PICK q \in Q : q.kind = "user" /\ q.user = u
  BY DEF HasUser
<1>2. CASE Bootstraps(new) = {}
  BY <1>1, <1>2 DEF ProjectUsers, HasUser
<1>3. CASE Bootstraps(new) # {} /\ Conflict(L)
  <2> DEFINE over(r) == IF r.kind = "user" THEN [r EXCEPT !.live = FALSE] ELSE r
  <2>1. Q = {over(r) : r \in R}
    BY <1>3 DEF ProjectUsers
  <2>2. PICK r \in R : q = over(r)
    BY <1>1, <2>1
  <2>3. r.kind = "user" /\ r.user = u
    <3>1. CASE r.kind = "user"
      BY <1>1, <2>2, <3>1
    <3>2. CASE r.kind # "user"
      BY <1>1, <2>2, <3>2
    <3> QED BY <3>1, <3>2
  <2> QED BY <2>3 DEF HasUser
<1>4. CASE Bootstraps(new) # {} /\ ~ Conflict(L)
  <2>1. Q = Over(R, {NewUser(e.user, e.id) : e \in Bootstraps(new)})
    BY <1>4 DEF ProjectUsers
  <2>2. q \in R \/ \E e \in Bootstraps(new) : q = NewUser(e.user, e.id)
    BY <1>1, <2>1 DEF Over
  <2>3. ASSUME NEW e \in Bootstraps(new), q = NewUser(e.user, e.id) PROVE u \in Touched(L, new)
    <3>1. u = e.user
      BY <1>1, <2>3 DEF NewUser
    <3> QED BY <1>4, <3>1 DEF Touched
  <2> QED BY <1>1, <2>2, <2>3 DEF HasUser
<1> QED BY <1>2, <1>3, <1>4

(* Sessions, and tokens: whatever is due and has its user gets a row, and   *)
(* rows that were not there are of such events.                             *)
LEMMA KindServed ==
  ASSUME NEW L, History(L), IsFiniteSet(L), NEW new \in SUBSET L, NEW R, Made(R, L),
         NEW kind \in RowKind
  PROVE  LET Q == ProjectKind(R, L, new, kind) IN
         /\ \A e \in Due(L, new, kind) : HasUser(R, e.user) => \E q \in Q : Same(q, e)
         /\ \A q \in Q : q \in R \/
               \E e \in Due(L, new, kind) : HasUser(R, e.user) /\ Kin(q, e)
<1> DEFINE D == {e \in Due(L, new, kind) : HasUser(R, e.user)}
           S == {RowOf(L, kind, e.id) : e \in D}
           Q == ProjectKind(R, L, new, kind)
<1>1. Q = Over(R, S)
  BY DEF ProjectKind
<1>2. S \subseteq Q /\ \A q \in Q : q \in R \/ q \in S
  BY <1>1 DEF Over
<1> HIDE DEF Q
<1>3. \A e \in D : e \in L /\ e.kind = kind
  BY DEF Due
<1>4. \A e \in D : Kin(RowOf(L, kind, e.id), e)
  BY <1>3, RowOfFacts
<1>5. ASSUME NEW e \in Due(L, new, kind), HasUser(R, e.user) PROVE \E q \in Q : Same(q, e)
  <2>1. e \in D
    BY <1>5
  <2>2. RowOf(L, kind, e.id) \in Q /\ Same(RowOf(L, kind, e.id), e)
    BY <2>1, <1>2, <1>4 DEF Kin
  <2> QED BY <2>2
<1>6. ASSUME NEW q \in Q, q \notin R
      PROVE  \E e \in Due(L, new, kind) : HasUser(R, e.user) /\ Kin(q, e)
  <2>1. PICK e \in D : q = RowOf(L, kind, e.id)
    BY <1>2, <1>6
  <2> QED BY <2>1, <1>4
<1> QED BY <1>5, <1>6 DEF Q

(* Subscriptions: one that is due, itself or with its session, gets a row.  *)
LEMMA SubsServed ==
  ASSUME NEW L, History(L), IsFiniteSet(L), NEW new, NEW R,
         NEW e \in L, e.kind = "sub", HasSession(R, e),
         \/ e \in Due(L, new, "sub")
         \/ \E f \in Due(L, new, "session") : f.id = e.session /\ HasUser(R, f.user)
  PROVE  \E q \in ProjectSubs(R, L, new) : Same(q, e)
<1> DEFINE due == {x \in L : x.kind = "sub" /\
                     \/ x \in Due(L, new, "sub")
                     \/ \E f \in Due(L, new, "session") : f.id = x.session /\ HasUser(R, f.user)}
           D == {x \in due : \E s \in R : s.kind = "session" /\ s.id = x.session
                                           /\ s.user = x.user}
           ended(x) == \E s \in R : s.kind = "session" /\ s.id = x.session /\ ~ s.live
           row(x) == LET r == RowOf(L, "sub", x.id)
                     IN  [r EXCEPT !.live = @ /\ ~ ended(x)]
<1>1. ProjectSubs(R, L, new) = Over(R, {row(x) : x \in D})
  BY DEF ProjectSubs
<1>2. e \in D
  BY DEF HasSession
<1> HIDE DEF D, ended
<1>3. row(e) \in ProjectSubs(R, L, new)
  BY <1>1, <1>2 DEF Over
<1>4. Kin(RowOf(L, "sub", e.id), e) /\ RowOf(L, "sub", e.id) \in Row
  BY RowOfFacts
<1>5. Same(row(e), e)
  BY <1>4 DEF Kin, Same, Row
<1> QED BY <1>3, <1>5

(* Rows of a kind that stages before and after leave alone. *)
LEMMA UsersStay ==
  ASSUME NEW R, NEW Q, \A q \in Q : q.kind = "user" => q \in R, NEW u, HasUser(Q, u)
  PROVE  HasUser(R, u)
BY DEF HasUser

(* A page leaves no event waiting, of those that it brings and of those that*)
(* wait for what it brings.                                                 *)
LEMMA PageServes ==
  ASSUME NEW L, History(L), IsFiniteSet(L), NEW new \in SUBSET L,
         NEW R, Made(R, L), \A r \in R : Hangs(R, r),
         NEW e \in L, e.kind # "user", HasUser(Project(R, L, new), e.user),
         e.kind = "sub" => HasSession(Project(R, L, new), e),
         \/ e \in new
         \/ /\ HasUser(R, e.user)
            /\ e.kind = "sub" => \E s \in R : s.kind = "session" /\ s.id = e.session
            => \E r \in R : Same(r, e)
  PROVE  \E q \in Project(R, L, new) : Same(q, e)
<1> DEFINE U == ProjectUsers(R, L, new)
           S == ProjectKind(U, L, new, "session")
           T == ProjectKind(S, L, new, "token")
           Q == ProjectSubs(T, L, new)
<1>1. Q = Project(R, L, new)
  BY DEF Project
<1> SUFFICES \E q \in Q : Same(q, e)
  BY <1>1
<1>2. /\ Grows(R, U, L) /\ \A q \in U : q.kind # "user" => q \in R
      /\ HasUser(U, e.user) => HasUser(R, e.user) \/ e.user \in Touched(L, new)
  BY ProjectUsersFacts, UsersTouched
<1> HIDE DEF U
<1>3. Made(U, L)
  BY <1>2 DEF Grows, Made
<1>4. /\ Grows(U, S, L) /\ \A q \in S : q.kind # "session" => q \in U
      /\ \A x \in Due(L, new, "session") : HasUser(U, x.user) => \E q \in S : Same(q, x)
      /\ \A q \in S : q \in U \/
            \E x \in Due(L, new, "session") : HasUser(U, x.user) /\ Kin(q, x)
  <2>1. Grows(U, S, L) /\ \A q \in S : q.kind # "session" => q \in U
    BY <1>3, ProjectKindFacts DEF RowKind
  <2>2. /\ \A x \in Due(L, new, "session") : HasUser(U, x.user) => \E q \in S : Same(q, x)
        /\ \A q \in S : q \in U \/
              \E x \in Due(L, new, "session") : HasUser(U, x.user) /\ Kin(q, x)
    BY <1>3, KindServed DEF RowKind
  <2> HIDE DEF S
  <2> QED BY <2>1, <2>2
<1> HIDE DEF S
<1>5. Made(S, L)
  BY <1>4 DEF Grows, Made
<1>6. /\ Grows(S, T, L) /\ \A q \in T : q.kind # "token" => q \in S
      /\ \A x \in Due(L, new, "token") : HasUser(S, x.user) => \E q \in T : Same(q, x)
  <2>1. Grows(S, T, L) /\ \A q \in T : q.kind # "token" => q \in S
    BY <1>5, ProjectKindFacts DEF RowKind
  <2>2. \A x \in Due(L, new, "token") : HasUser(S, x.user) => \E q \in T : Same(q, x)
    BY <1>5, KindServed DEF RowKind
  <2> HIDE DEF T
  <2> QED BY <2>1, <2>2
<1> HIDE DEF T
<1>7. Made(T, L)
  BY <1>6 DEF Grows, Made
<1>8. Grows(T, Q, L) /\ \A q \in Q : q.kind # "sub" => q \in T
  BY <1>7, ProjectSubsFacts
<1>9. ASSUME e.kind = "sub", HasSession(T, e),
             \/ e \in Due(L, new, "sub")
             \/ \E f \in Due(L, new, "session") : f.id = e.session /\ HasUser(T, f.user)
      PROVE  \E q \in Q : Same(q, e)
  BY <1>9, SubsServed
<1> HIDE DEF Q
<1>10. HasUser(Q, e.user) /\ (e.kind = "sub" => HasSession(Q, e))
  BY <1>1
<1>11. HasUser(T, e.user) /\ HasUser(S, e.user) /\ HasUser(U, e.user)
  <2>1. HasUser(T, e.user)
    BY <1>8, <1>10, UsersStay
  <2>2. HasUser(S, e.user)
    BY <1>6, <2>1, UsersStay
  <2>3. HasUser(U, e.user)
    BY <1>4, <2>2, UsersStay
  <2> QED BY <2>1, <2>2, <2>3
<1>12. Grows(R, Q, L) /\ Grows(S, Q, L) /\ Grows(U, T, L)
  BY <1>2, <1>4, <1>6, <1>8, GrowsTwice
<1>13. e.kind = "sub" => HasSession(T, e)
  BY <1>8, <1>10 DEF HasSession
<1>14. ASSUME NEW P, Grows(P, Q, L), \E p \in P : Same(p, e)
       PROVE  \E q \in Q : Same(q, e)
  BY <1>14 DEF Grows, Kin, Same
<1>15. CASE e \in Due(L, new, e.kind)
  <2>1. CASE e.kind = "session"
    BY <1>4, <1>11, <1>12, <1>14, <1>15, <2>1
  <2>2. CASE e.kind = "token"
    BY <1>6, <1>8, <1>11, <1>14, <1>15, <2>2
  <2>3. CASE e.kind = "sub"
    BY <1>9, <1>13, <1>15, <2>3
  <2>4. e.kind \in RowKind
    BY DEF History, Entry
  <2> QED BY <2>1, <2>2, <2>3, <2>4 DEF RowKind
<1>16. CASE e \notin Due(L, new, e.kind)
  <2>1. e \notin new /\ e.user \notin Touched(L, new)
    BY <1>16 DEF Due
  <2>2. HasUser(R, e.user)
    BY <1>2, <1>11, <2>1
  <2>3. CASE e.kind = "sub" => \E s \in R : s.kind = "session" /\ s.id = e.session
    <3>1. \E r \in R : Same(r, e)
      BY <2>1, <2>2, <2>3
    <3> QED BY <1>12, <1>14, <3>1
  <2>4. CASE e.kind = "sub" /\ \A s \in R : s.kind = "session" => s.id # e.session
    <3>1. PICK s \in T : s.kind = "session" /\ s.id = e.session
      BY <1>13, <2>4 DEF HasSession
    <3>2. s \in S /\ s \notin U
      BY <1>2, <1>6, <2>4, <3>1
    <3>3. PICK f \in Due(L, new, "session") : HasUser(U, f.user) /\ Kin(s, f)
      BY <1>4, <3>2
    <3>4. f.id = e.session /\ HasUser(T, f.user)
      BY <1>12, <3>1, <3>3, Carried DEF Kin, Same
    <3> QED BY <1>9, <1>13, <2>4, <3>4
  <2> QED BY <2>3, <2>4
<1> QED BY <1>15, <1>16

(* A page keeps nothing waiting. *)
LEMMA LearnKeepsWaiting ==
  ASSUME IndInv, WaitInv, NEW n \in Node, NEW p \in Node, Learn(n, p)
  PROVE  WaitInv'
<1>1. PICK E \in SUBSET log[p] :
        /\ log' = [log EXCEPT ![n] = @ \cup E]
        /\ rows' = [rows EXCEPT ![n] = Project(@, log[n] \cup E, E)]
  BY DEF Learn
<1> DEFINE R == rows[n]
           L == log[n] \cup E
           Q == Project(R, L, E)
<1>2. LogInv /\ LogInv' /\ Everything' = Everything
  BY <1>1, LearnKeepsLog DEF IndInv
<1>3. log'[n] = L /\ \A m \in Node \ {n} : log'[m] = log[m]
  BY <1>1, <1>2 DEF LogInv
<1>4. rows'[n] = Q /\ \A m \in Node \ {n} : rows'[m] = rows[m]
  BY <1>1 DEF IndInv, RowInv
<1>5. L \subseteq Everything
  BY DEF Everything
<1>6. History(L) /\ IsFiniteSet(L)
  <2> HIDE DEF L
  <2> QED BY <1>2, <1>3, <1>5 DEF LogInv, History
<1>7. Made(R, L) /\ \A r \in R : Hangs(R, r)
  <2>1. Table(R, log[n])
    BY DEF IndInv, RowInv
  <2> QED BY <2>1 DEF Table, Made
<1>8. E \in SUBSET L
  OBVIOUS
<1>9. \A e \in L : e \in log[n] \/ e \in E
  OBVIOUS
<1> HIDE DEF R, L
<1>10. Grows(R, Q, L)
  BY <1>6, <1>7, <1>8, ProjectFacts
<1>11. UsersRooted'
  <2>1. \A u \in Node : HasUser(rows[u], u) => HasUser(rows'[u], u)
    BY <1>4, <1>10, Carried DEF R
  <2>2. \A e \in Everything : e.user \in Node
    BY <1>2 DEF LogInv, History, Entry
  <2> QED BY <1>2, <2>1, <2>2 DEF WaitInv, UsersRooted
<1>12. SubsRooted'
  BY <1>2 DEF WaitInv, SubsRooted
<1>13. ASSUME NEW e \in L, e.kind # "user", HasUser(Q, e.user),
              e.kind = "sub" => \E s \in Q : s.kind = "session" /\ s.id = e.session
       PROVE  \E q \in Q : Same(q, e)
  <2>1. e.kind = "sub" => HasSession(Q, e)
    <3> SUFFICES ASSUME e.kind = "sub" PROVE HasSession(Q, e)
      OBVIOUS
    <3>1. PICK s \in Q : s.kind = "session" /\ s.id = e.session
      BY <1>13
    <3>2. PICK g \in L : Kin(s, g)
      BY <1>10 DEF Grows
    <3>3. PICK f \in Everything : f.kind = "session" /\ f.id = e.session /\ f.user = e.user
      BY <1>5 DEF WaitInv, SubsRooted
    <3>4. g \in Everything /\ Same(f, g)
      BY <1>5, <3>1, <3>2, <3>3 DEF Kin, Same
    <3>5. f.user = g.user
      BY <1>2, <3>4 DEF LogInv, History, Kin
    <3> QED BY <3>1, <3>2, <3>3, <3>5 DEF HasSession, Kin
  <2>2. \/ e \in E
        \/ /\ HasUser(R, e.user)
           /\ e.kind = "sub" => \E s \in R : s.kind = "session" /\ s.id = e.session
           => \E r \in R : Same(r, e)
    BY <1>9, <1>13 DEF WaitInv, NothingLeftWaiting, R
  <2> QED BY <1>6, <1>7, <1>8, <1>13, <2>1, <2>2, PageServes
<1> HIDE DEF Q
<1>14. NothingLeftWaiting'
  <2> SUFFICES ASSUME NEW m \in Node, NEW e \in log'[m], e.kind # "user",
                      HasUser(rows'[m], e.user),
                      e.kind = "sub" => \E s \in rows'[m] : s.kind = "session" /\ s.id = e.session
               PROVE  \E r \in rows'[m] : Same(r, e)
    BY DEF NothingLeftWaiting, HasUser
  <2>1. CASE m = n
    BY <1>3, <1>4, <1>13, <2>1
  <2>2. CASE m # n
    BY <1>3, <1>4, <2>2 DEF WaitInv, NothingLeftWaiting
  <2> QED BY <2>1, <2>2
<1> QED BY <1>11, <1>12, <1>14 DEF WaitInv

(* An endpoint leaves nothing waiting: what it tells of has its row, its    *)
(* new user is one that nobody has told of, and its new session one that no *)
(* subscription was bound to.                                               *)
LEMMA RecordedKeepsWaiting ==
  ASSUME IndInv, IndInv', WaitInv, NEW n \in Node, Recorded(n)
  PROVE  WaitInv'
<1> DEFINE R == rows'[n]
<1>1. /\ log[n] \subseteq log'[n] /\ \A m \in Node \ {n} : log'[m] = log[m] /\ rows'[m] = rows[m]
      /\ \A q \in rows[n] : \E r \in R : Kin(r, q)
  BY DEF Recorded
<1>2. \A r \in R :
        \/ \E q \in rows[n] : Kin(r, q)
        \/ Created(n, r) /\ (r.kind = "user" => r.user = n /\ ~ HasUser(rows[n], n))
  BY DEF Recorded
<1>3. \A e \in log'[n] : Known(n, e) \/ \E r \in R : Created(n, r) /\ Kin(r, e)
  BY DEF Recorded
<1>4. Table(R, log'[n]) /\ Everything \subseteq Everything'
      /\ \A e \in Everything' : e \in Everything \/ e \in log'[n]
  BY <1>1 DEF IndInv, RowInv, Everything
<1>5. \A r \in R : Hangs(R, r) /\ \E e \in log'[n] : Kin(r, e)
  BY <1>4 DEF Table
<1>6. log[n] \subseteq Everything /\ log'[n] \subseteq Everything'
  BY DEF Everything
<1>7. /\ LogInv /\ LogInv' /\ \A e \in Everything' : e.user \in Node /\ e.id \in Id
      /\ \A r \in R : r.user \in Node
  <2>1. \A r \in R : r \in Row
    BY <1>4 DEF Table
  <2> QED BY <2>1 DEF IndInv, LogInv, History, Entry, Row
<1> HIDE DEF R
<1>8. ASSUME NEW u \in Node, HasUser(rows[u], u) PROVE HasUser(rows'[u], u)
  <2>1. CASE u = n
    <3>1. PICK q \in rows[n] : q.kind = "user" /\ q.user = n
      BY <1>8, <2>1 DEF HasUser
    <3> QED BY <1>1, <2>1, <3>1 DEF HasUser, Kin, Same, R
  <2>2. CASE u # n
    BY <1>1, <1>8, <2>2
  <2> QED BY <2>1, <2>2
<1>9. ASSUME NEW e, Known(n, e) PROVE HasUser(rows[e.user], e.user)
  <2>1. PICK f \in log[n] : Kin(e, f)
    BY <1>9 DEF Known
  <2>2. HasUser(rows[f.user], f.user)
    BY <1>6 DEF WaitInv, UsersRooted
  <2> QED BY <2>1, <2>2 DEF Kin
<1>10. ASSUME NEW q \in rows[n] PROVE Known(n, q)
  BY <1>10, RowsKnown DEF Kin, Same
<1>11. ASSUME NEW u, HasUser(R, u) PROVE HasUser(rows'[u], u)
  <2>1. PICK x \in R : x.kind = "user" /\ x.user = u
    BY <1>11 DEF HasUser
  <2>2. CASE \E q \in rows[n] : Kin(x, q)
    <3>1. PICK q \in rows[n] : Kin(x, q)
      BY <2>2
    <3>2. HasUser(rows[u], u) /\ u \in Node
      BY <1>7, <1>9, <1>10, <2>1, <3>1 DEF Kin
    <3> QED BY <1>8, <3>2
  <2>3. CASE Created(n, x)
    <3>1. CASE u = n
      BY <1>11, <3>1 DEF R
    <3>2. CASE u # n
      BY <1>2, <2>1, <2>2, <3>2
    <3> QED BY <3>1, <3>2
  <2> QED BY <1>2, <2>2, <2>3
<1>12. UsersRooted'
  <2> SUFFICES ASSUME NEW e \in Everything' PROVE HasUser(rows'[e.user], e.user)
    BY DEF UsersRooted, HasUser
  <2>1. CASE e \in Everything
    <3>1. HasUser(rows[e.user], e.user)
      BY <2>1 DEF WaitInv, UsersRooted
    <3> QED BY <1>7, <1>8, <3>1
  <2>2. CASE e \in log'[n] /\ Known(n, e)
    BY <1>7, <1>8, <1>9, <2>2
  <2>3. CASE e \in log'[n] /\ ~ Known(n, e)
    <3>1. PICK r \in R : Created(n, r) /\ Kin(r, e)
      BY <1>3, <2>3
    <3>2. HasUser(R, r.user)
      <4>1. CASE r.kind = "user"
        BY <4>1 DEF HasUser
      <4>2. CASE r.kind # "user"
        BY <1>5, <4>2 DEF Hangs
      <4> QED BY <4>1, <4>2
    <3> QED BY <1>11, <3>1, <3>2 DEF Kin
  <2> QED BY <1>4, <2>1, <2>2, <2>3
<1>13. SubsRooted'
  <2> SUFFICES ASSUME NEW e \in Everything', e.kind = "sub"
               PROVE  \E f \in Everything' :
                        f.kind = "session" /\ f.id = e.session /\ f.user = e.user
    BY DEF SubsRooted
  <2>1. ASSUME NEW g \in Everything, Kin(e, g)
        PROVE  \E f \in Everything' : f.kind = "session" /\ f.id = e.session /\ f.user = e.user
    <3>1. g.kind = "sub" /\ g.session = e.session /\ g.user = e.user
      BY <2>1 DEF Kin, Same
    <3> QED BY <1>4, <3>1 DEF WaitInv, SubsRooted
  <2>2. CASE e \in Everything
    BY <2>1, <2>2 DEF Kin, Same
  <2>3. CASE e \in log'[n] /\ Known(n, e)
    BY <1>6, <2>1, <2>3 DEF Known
  <2>4. CASE e \in log'[n] /\ ~ Known(n, e)
    <3>1. PICK r \in R : Kin(r, e)
      BY <1>3, <2>4
    <3>2. r.kind = "sub" /\ r.session = e.session /\ r.user = e.user
      BY <3>1 DEF Kin, Same
    <3>3. PICK s \in R : s.kind = "session" /\ s.id = r.session /\ s.user = r.user
      BY <1>5, <3>2 DEF Hangs
    <3>4. PICK f \in log'[n] : Kin(s, f)
      BY <1>5
    <3> QED BY <1>6, <3>2, <3>3, <3>4 DEF Kin, Same
  <2> QED BY <1>4, <2>2, <2>3, <2>4
<1>14. ASSUME NEW e \in log'[n], e.kind # "user", HasUser(R, e.user),
              e.kind = "sub" => \E s \in R : s.kind = "session" /\ s.id = e.session
       PROVE  \E r \in R : Same(r, e)
  <2>1. CASE ~ Known(n, e)
    BY <1>3, <2>1 DEF Kin
  <2>2. CASE Known(n, e)
    <3>1. PICK f \in log[n] : Kin(e, f)
      BY <2>2 DEF Known
    <3>2. f.kind = e.kind /\ f.id = e.id /\ f.user = e.user /\ f.session = e.session
      BY <3>1 DEF Kin, Same
    <3>3. HasUser(rows[n], f.user)
      <4>1. PICK x \in R : x.kind = "user" /\ x.user = f.user
        BY <1>14, <3>2 DEF HasUser
      <4>2. CASE \E q \in rows[n] : Kin(x, q)
        BY <4>1, <4>2 DEF HasUser, Kin, Same
      <4>3. CASE Created(n, x) /\ x.user = n /\ ~ HasUser(rows[n], n)
        BY <1>6, <4>1, <4>3 DEF WaitInv, UsersRooted
      <4> QED BY <1>2, <4>1, <4>2, <4>3
    <3>4. ASSUME f.kind = "sub"
          PROVE  \E q \in rows[n] : q.kind = "session" /\ q.id = f.session
      <4>1. PICK s \in R : s.kind = "session" /\ s.id = f.session
        BY <1>14, <3>2, <3>4
      <4>2. CASE \E q \in rows[n] : Kin(s, q)
        BY <4>1, <4>2 DEF Kin, Same
      <4>3. CASE Created(n, s)
        <5>1. PICK g \in Everything : g.id = f.session
          BY <1>6, <3>4 DEF WaitInv, SubsRooted
        <5>2. g.id[2] <= Count(g.id[1]) /\ g.id[1] = n /\ Count(n) < g.id[2]
          BY <1>7, <4>1, <4>3, <5>1 DEF LogInv, Named, Created
        <5>3. g.id[2] \in Nat /\ Count(n) \in Nat
          BY <1>4, <1>7, CountNat DEF Id
        <5> QED BY <5>2, <5>3
      <4> QED BY <1>2, <4>2, <4>3
    <3>5. PICK q \in rows[n] : Same(q, f)
      BY <1>14, <3>2, <3>3, <3>4 DEF WaitInv, NothingLeftWaiting
    <3>6. PICK r \in R : Kin(r, q)
      BY <1>1
    <3> QED BY <3>2, <3>5, <3>6 DEF Kin, Same
  <2> QED BY <2>1, <2>2
<1>15. NothingLeftWaiting'
  <2> SUFFICES ASSUME NEW m \in Node, NEW e \in log'[m], e.kind # "user",
                      HasUser(rows'[m], e.user),
                      e.kind = "sub" => \E s \in rows'[m] : s.kind = "session" /\ s.id = e.session
               PROVE  \E r \in rows'[m] : Same(r, e)
    BY DEF NothingLeftWaiting, HasUser
  <2>1. CASE m = n
    BY <1>14, <2>1 DEF R
  <2>2. CASE m # n
    BY <1>1, <2>2 DEF WaitInv, NothingLeftWaiting
  <2> QED BY <2>1, <2>2
<1> QED BY <1>12, <1>13, <1>15 DEF WaitInv

(* Every action leaves nothing waiting. *)
LEMMA StepLeavesNothingWaiting == IndInv /\ WaitInv /\ [Next]_vars => WaitInv'
<1> SUFFICES ASSUME IndInv, WaitInv, [Next]_vars PROVE WaitInv'
  OBVIOUS
<1>1. IndInv'
  BY StepPreservesIndInv
<1>2. ASSUME UNCHANGED <<log, rows>> PROVE WaitInv'
  <2>1. Everything' = Everything
    BY <1>2 DEF Everything
  <2> QED BY <1>2, <2>1 DEF WaitInv, UsersRooted, SubsRooted, NothingLeftWaiting
<1>3. CASE UNCHANGED vars
  BY <1>2, <1>3 DEF vars
<1>4. ASSUME NEW n \in Node, Bootstrap(n) PROVE WaitInv'
  BY <1>1, <1>4, BootstrapPreservesIndInv, RecordedKeepsWaiting
<1>5. ASSUME NEW n \in Node, NEW t \in Thread, NEW call \in Calls[n], Load(n, t, call)
      PROVE  WaitInv'
  BY <1>2, <1>5 DEF Load
<1>6. ASSUME NEW n \in Node, NEW t \in Thread, LogIn(n, t) \/ IssueToken(n, t) PROVE WaitInv'
  BY <1>1, <1>6, AddRowPreservesIndInv, RecordedKeepsWaiting
<1>7. ASSUME NEW n \in Node, NEW t \in Thread, Rotate(n, t) PROVE WaitInv'
  BY <1>1, <1>7, RotatePreservesIndInv, RecordedKeepsWaiting
<1>8. ASSUME NEW n \in Node, NEW t \in Thread, Logout(n, t) \/ RefuseRefresh(n, t) PROVE WaitInv'
  BY <1>1, <1>8, RevokeSessionPreservesIndInv, RecordedKeepsWaiting
<1>9. ASSUME NEW n \in Node, NEW t \in Thread, CommitSubscribe(n, t) PROVE WaitInv'
  BY <1>1, <1>9, SubscribePreservesIndInv, RecordedKeepsWaiting
<1>10. ASSUME NEW n \in Node, NEW t \in Thread, RevokeToken(n, t) \/ Unsubscribe(n, t)
       PROVE  WaitInv'
  BY <1>1, <1>10, EndRowPreservesIndInv, RecordedKeepsWaiting
<1>11. ASSUME NEW n \in Node, NEW t \in Thread, Abort(n, t) PROVE WaitInv'
  BY <1>2, <1>11 DEF Abort
<1>12. ASSUME NEW n \in Node, Sweep(n) PROVE WaitInv'
  BY <1>1, <1>12, SweepPreservesIndInv, RecordedKeepsWaiting
<1>13. ASSUME NEW n \in Node, NEW p \in Node \ {n}, Learn(n, p) PROVE WaitInv'
  BY <1>13, LearnKeepsWaiting
<1> QED
  BY <1>3, <1>4, <1>5, <1>6, <1>7, <1>8, <1>9, <1>10, <1>11, <1>12, <1>13 DEF Next

(* An event whose user and session the node has is not left waiting for     *)
(* them: whatever page brings the user or the session, apply_cluster_events *)
(* of application/sync.py projects or replays it, and an endpoint never     *)
(* creates a user or a session that a waiting event hangs on.               *)
THEOREM NothingStaysWaiting == Spec => []NothingLeftWaiting
<1>1. Init => WaitInv
  <2> SUFFICES ASSUME Init PROVE WaitInv
    OBVIOUS
  <2>1. Everything = {} /\ \A n \in Node : log[n] = {}
    BY DEF Init, Everything
  <2> QED BY <2>1 DEF WaitInv, UsersRooted, SubsRooted, NothingLeftWaiting
<1>2. WaitInv => NothingLeftWaiting
  BY DEF WaitInv
<1> QED
  BY <1>1, <1>2, InitEstablishesIndInv, StepPreservesIndInv, StepLeavesNothingWaiting, PTL
     DEF Spec
-----------------------------------------------------------------------------
(* What rows tell *)

(* A conflict aside, a node that knows of a bootstrap has a user, and its   *)
(* users are live.                                                          *)
UsersShown ==
  \A n \in Node : ~ Conflict(log[n]) =>
     /\ Bootstraps(log[n]) # {} => \E r \in rows[n] : r.kind = "user"
     /\ \A r \in rows[n] : r.kind = "user" => r.live

(* What a history says of the end of a row: its own, or that of the session *)
(* that a subscription is bound to.                                         *)
Ending(L, r) ==
  \E e \in L : e.dead /\ (Same(e, r) \/ (r.kind = "sub" /\ e.kind = "session" /\ e.id = r.session))

EndsTold ==
  \A n \in Node : \A r \in rows[n] : r.kind # "user" /\ ~ r.live => Ending(log[n], r)

(* Clocks do not run ahead of the history. *)
Instants == \A e \in Everything : e.at <= 1 + Cardinality(Everything)

(* A session that may be refreshed is so with the token of its newest event.*)
NewestHash(L, r) ==
  r.kind = "session" /\ r.live => r.hash = Newest(Events(L, "session", r.id)).hash
HashesNewest == \A n \in Node : \A r \in rows[n] : NewestHash(log[n], r)

(* Tokens and subscriptions are never given another one. *)
Fixed(x) == x.kind \in {"token", "sub"} => x.hash = x.id
HashesFixed ==
  /\ \A e \in Everything : Fixed(e)
  /\ \A n \in Node : \A r \in rows[n] : Fixed(r)
  /\ \A n \in Node, t \in Thread : handler[n][t] # Idle =>
        Fixed(handler[n][t].seen) /\ \A s \in handler[n][t].subs : Fixed(s)

AccessInv == UsersShown /\ EndsTold /\ Instants /\ HashesNewest /\ HashesFixed

(* Two events of bootstraps of one node are one. *)
OneBootstrap ==
  \A e, f \in Everything : e.kind = "user" /\ f.kind = "user" /\ e.user = f.user => e = f
-----------------------------------------------------------------------------
(* Transactions of endpoints *)

(* An event that node n makes now. *)
Fresh(n, e) ==
  \E k \in Nat \ {0}, r \in Row, operation \in Operation :
     Fixed(r) /\ e = Event(n, k, r, operation)

(* The events New and the rows R that an endpoint writes: the session that  *)
(* it adds or rotates bears what its event says, and what is not live had   *)
(* ended or ends with an event.                                             *)
Writes(n, New, R) ==
  /\ log' = [log EXCEPT ![n] = @ \cup New] /\ rows' = [rows EXCEPT ![n] = R]
  /\ \A e \in New : Fresh(n, e)
  /\ \A r \in R : Fixed(r)
  /\ \A r \in R : r.kind = "session" /\ r.live =>
        \/ r \in rows[n] /\ \A e \in New : ~ Same(e, r)
        \/ \E e \in New : Same(e, r) /\ e.hash = r.hash /\ \A f \in New : Same(f, r) => f = e
  /\ \A r \in R : ~ r.live =>
        \/ \E q \in rows[n] : ~ q.live /\ Kin(r, q)
        \/ \E e \in New : e.dead /\ Same(e, r)

(* All endpoints but the bootstrap leave users alone. *)
UsersAlone(n, New, R) ==
  /\ \A e \in New : e.kind # "user"
  /\ \A r : r.kind = "user" => (r \in R <=> r \in rows[n])

(* A fresh event is new to all nodes, and newer than all they have. *)
LEMMA FreshFacts ==
  ASSUME LogInv, NEW n \in Node, NEW e, Fresh(n, e)
  PROVE  /\ e \in Entry /\ e.origin = n /\ Fixed(e) /\ e \notin Everything
         /\ Cardinality(Everything) \in Nat /\ Count(n) \in Nat
         /\ e.at = 1 + Cardinality(Everything) + (e.seq - Count(n))
         /\ Count(n) < e.seq /\ 1 + Cardinality(Everything) < e.at
<1>1. PICK k \in Nat \ {0}, r \in Row, operation \in Operation :
        Fixed(r) /\ e = Event(n, k, r, operation)
  BY DEF Fresh
<1>2. e \in Entry /\ e.origin = n /\ e.seq = Count(n) + k /\ Kin(e, r)
  BY <1>1, EventFacts
<1>3. e.hash = r.hash /\ e.at = Now + k /\ e.kind = r.kind /\ e.id = r.id
  BY <1>1 DEF Event
<1>4. Cardinality(Everything) \in Nat /\ Now = 1 + Cardinality(Everything) /\ Count(n) \in Nat
  BY EverythingFinite, FS_CardinalityType, CountNat DEF Now, Everything
<1>5. Fixed(e)
  BY <1>1, <1>3 DEF Fixed
<1>6. e \notin Everything
  <2> SUFFICES ASSUME e \in Everything PROVE FALSE
    OBVIOUS
  <2>1. e \in Own(n)
    BY <1>2 DEF LogInv, Numbered, Own
  <2>2. e.seq <= Count(n)
    BY <2>1 DEF LogInv, Numbered
  <2> QED BY <1>2, <1>4, <2>2
<1>7. e.at = 1 + Cardinality(Everything) + (e.seq - Count(n))
  BY <1>2, <1>3, <1>4
<1>8. Count(n) < e.seq /\ 1 + Cardinality(Everything) < e.at
  BY <1>2, <1>3, <1>4
<1> QED BY <1>2, <1>4, <1>5, <1>6, <1>7, <1>8

(* An ended table: rows that are not among those ended, and dead ones. *)
LEMMA EndedRows ==
  ASSUME NEW R \in SUBSET Row, NEW S
  PROVE  /\ \A q \in Ended(R, S) :
              \/ q \in R /\ ~ \E s \in S : Same(q, s)
              \/ /\ ~ q.live /\ \E s \in S : Same(q, s)
                 /\ \E r \in R : Kin(q, r) /\ q.hash = r.hash
         /\ \A r \in R : (~ \E s \in S : Same(r, s)) => r \in Ended(R, S)
<1> DEFINE over(r) == IF \E s \in S : Same(r, s) THEN [r EXCEPT !.live = FALSE] ELSE r
<1>1. Ended(R, S) = {over(r) : r \in R}
  BY DEF Ended
<1>2. ASSUME NEW r \in R, \E s \in S : Same(r, s)
      PROVE  /\ ~ over(r).live /\ \E s \in S : Same(over(r), s)
             /\ Kin(over(r), r) /\ over(r).hash = r.hash
  <2>1. over(r) = [r EXCEPT !.live = FALSE] /\ r \in Row
    BY <1>2
  <2> HIDE DEF over
  <2>2. ~ over(r).live /\ Kin(over(r), r) /\ over(r).hash = r.hash
    BY <2>1 DEF Row, Kin, Same
  <2> QED BY <1>2, <2>2 DEF Kin, Same
<1>3. ASSUME NEW r \in R, ~ \E s \in S : Same(r, s) PROVE over(r) = r
  BY <1>3
<1> HIDE DEF over
<1>4. ASSUME NEW q \in Ended(R, S)
      PROVE  \/ q \in R /\ ~ \E s \in S : Same(q, s)
             \/ /\ ~ q.live /\ \E s \in S : Same(q, s)
                /\ \E r \in R : Kin(q, r) /\ q.hash = r.hash
  <2>1. PICK r \in R : q = over(r)
    BY <1>1
  <2>2. CASE \E s \in S : Same(r, s)
    BY <1>2, <2>1, <2>2
  <2>3. CASE ~ \E s \in S : Same(r, s)
    BY <1>3, <2>1, <2>3
  <2> QED BY <2>2, <2>3
<1>5. ASSUME NEW r \in R, ~ \E s \in S : Same(r, s) PROVE r \in Ended(R, S)
  BY <1>1, <1>3, <1>5
<1> QED BY <1>4, <1>5

(* What most endpoints write: rows that end, with their events, and at most *)
(* a row that they add.                                                     *)
LEMMA EndpointWrites ==
  ASSUME IndInv, HashesFixed, NEW n \in Node, NEW New, NEW S, NEW Add, NEW R,
         log' = [log EXCEPT ![n] = @ \cup New], rows' = [rows EXCEPT ![n] = R],
         R = Ended(rows[n], S) \cup Add,
         \A e \in New :
            /\ Fresh(n, e) /\ e.kind # "user"
            /\ e.kind = "session" => Created(n, e) \/ \E s \in S : Same(e, s),
         \A s \in S : s.kind # "user" /\ \E e \in New : e.dead /\ Same(e, s),
         \A x \in Add :
            /\ x.kind # "user" /\ x.live /\ Fixed(x)
            /\ x.kind = "session" => \E e \in New :
                  Same(e, x) /\ e.hash = x.hash /\ \A f \in New : Same(f, x) => f = e
  PROVE  Writes(n, New, R) /\ UsersAlone(n, New, R)
<1>1. rows[n] \in SUBSET Row
  BY DEF IndInv, RowInv
<1>2. \A q \in R :
        \/ q \in Add
        \/ q \in rows[n] /\ ~ \E s \in S : Same(q, s)
        \/ /\ ~ q.live /\ \E s \in S : Same(q, s)
           /\ \E r \in rows[n] : Kin(q, r) /\ q.hash = r.hash
  BY <1>1, EndedRows
<1>3. \A r \in rows[n] : (~ \E s \in S : Same(r, s)) => r \in R
  BY <1>1, EndedRows
<1>4. \A r \in rows[n] : Fixed(r)
  BY DEF HashesFixed
<1>5. \A r \in R : Fixed(r)
  BY <1>2, <1>4 DEF Fixed, Kin, Same
<1>6. ASSUME NEW r \in R, ~ r.live
      PROVE  \/ \E q \in rows[n] : ~ q.live /\ Kin(r, q)
             \/ \E e \in New : e.dead /\ Same(e, r)
  <2>1. CASE r \in rows[n]
    BY <1>6, <2>1 DEF Kin, Same
  <2>2. ASSUME NEW s \in S, Same(r, s) PROVE \E e \in New : e.dead /\ Same(e, r)
    BY <2>2 DEF Same
  <2> QED BY <1>2, <1>6, <2>1, <2>2
<1>7. ASSUME NEW r \in R, r.kind = "session", r.live
      PROVE  \/ r \in rows[n] /\ \A e \in New : ~ Same(e, r)
             \/ \E e \in New : Same(e, r) /\ e.hash = r.hash /\ \A f \in New : Same(f, r) => f = e
  <2>1. CASE r \in Add
    BY <1>7, <2>1
  <2>2. CASE r \in rows[n] /\ ~ \E s \in S : Same(r, s)
    <3> SUFFICES ASSUME NEW e \in New, Same(e, r) PROVE FALSE
      BY <2>2
    <3>1. e.kind = "session" /\ e.id = r.id
      BY <1>7 DEF Same
    <3>2. ~ \E s \in S : Same(e, s)
      BY <2>2, <3>1 DEF Same
    <3>3. Created(n, e)
      BY <3>1, <3>2
    <3>4. Known(n, r)
      BY <2>2, RowsKnown DEF Kin, Same
    <3>5. ~ Created(n, r)
      BY <3>4, KnownIsNotCreated DEF IndInv
    <3> QED BY <3>1, <3>3, <3>5 DEF Created
  <2> QED BY <1>2, <1>7, <2>1, <2>2
<1>8. Writes(n, New, R)
  BY <1>5, <1>6, <1>7 DEF Writes
<1>9. UsersAlone(n, New, R)
  <2>1. ASSUME NEW r, r.kind = "user", r \in R PROVE r \in rows[n]
    <3>1. \A s \in S : ~ Same(r, s)
      BY <2>1 DEF Same
    <3> QED BY <1>2, <2>1, <3>1
  <2>2. ASSUME NEW r, r.kind = "user", r \in rows[n] PROVE r \in R
    <3>1. \A s \in S : ~ Same(r, s)
      BY <2>2 DEF Same
    <3> QED BY <1>3, <2>2, <3>1
  <2> QED BY <2>1, <2>2 DEF UsersAlone
<1> QED BY <1>8, <1>9

(* Every subscription that is disabled has its tombstone. *)
LEMMA TombstonesTell ==
  ASSUME NEW n \in Node, LogInv, NEW k \in Nat, NEW S \in SUBSET Row, IsFiniteSet(S),
         \A s \in S : Fixed(s)
  PROVE  /\ \A e \in Tombstones(n, k, S) : Fresh(n, e) /\ \E s \in S : Kin(e, s)
         /\ \A s \in S : \E e \in Tombstones(n, k, S) : e.dead /\ Same(e, s)
<1> DEFINE c == Cardinality(S)
           Fine(f) == f \in [S -> 1 .. c] /\ \A x, y \in S : f[x] = f[y] => x = y
           nth == CHOOSE f \in [S -> 1 .. c] : \A x, y \in S : f[x] = f[y] => x = y
           gone(s) == [s EXCEPT !.live = FALSE]
           event(s) == Event(n, k + nth[s], gone(s), "tombstone")
<1>1. Fine(nth)
  BY NumberingExists
<1>2. Tombstones(n, k, S) = {event(s) : s \in S}
  BY DEF Tombstones
<1> HIDE DEF nth
<1>3. ASSUME NEW s \in S
      PROVE  Fresh(n, event(s)) /\ Kin(event(s), s) /\ event(s).dead
  <2>1. c \in Nat /\ nth[s] \in 1 .. c
    BY <1>1, FS_CardinalityType
  <2>2. k + nth[s] \in Nat \ {0}
    <3> HIDE DEF c
    <3> QED BY <2>1
  <2>3. gone(s) \in Row /\ Kin(gone(s), s) /\ gone(s).hash = s.hash
    BY DEF Row, Kin, Same
  <2> HIDE DEF gone
  <2>4. Fixed(gone(s))
    BY <2>3 DEF Fixed, Kin, Same
  <2>5. Fresh(n, event(s))
    BY <2>2, <2>3, <2>4 DEF Fresh, Operation
  <2>6. Kin(event(s), gone(s)) /\ event(s).dead
    BY <2>2, <2>3, EventFacts DEF Operation
  <2>7. Kin(event(s), s)
    BY <2>3, <2>6 DEF Kin, Same
  <2> QED BY <2>5, <2>6, <2>7
<1> HIDE DEF event
<1>4. \A s \in S : event(s) \in Tombstones(n, k, S) /\ Same(event(s), s)
  BY <1>2, <1>3 DEF Kin
<1> QED BY <1>2, <1>3, <1>4

(* A login and a new token. *)
LEMMA AddRowWrites ==
  ASSUME IndInv, HashesFixed, NEW n \in Node, NEW t \in Thread, LogIn(n, t) \/ IssueToken(n, t)
  PROVE  \E New, R : Writes(n, New, R) /\ UsersAlone(n, New, R)
<1>1. PICK kind \in {"session", "token"}, operation \in {"issued", "upsert"} :
        AddRow(n, t, kind, operation)
  BY DEF LogIn, IssueToken
<1> DEFINE h == handler[n][t]
           r == NewRow(kind, NextId(n, 1), h.seen.user, NextId(n, 1))
           e == Event(n, 1, r, operation)
           New == {e}
           Add == {r}
           None == {}
           R == Ended(rows[n], None) \cup Add
<1>2. h.seen \in Row
  <2>1. h.call \in {"login", "issue"} /\ h # Idle
    BY DEF LogIn, IssueToken, Idle
  <2> QED BY <2>1, LoadedFacts
<1>3. NextId(n, 1) = <<n, Count(n) + 1>> /\ NextId(n, 1) \in Id /\ Count(n) \in Nat
  BY CountNat DEF IndInv, NextId, Count, Id
<1>4. /\ r \in Row /\ r.kind = kind /\ r.id = NextId(n, 1) /\ r.live /\ r.hash = r.id
  BY <1>2, <1>3 DEF NewRow, Row, RowKind
<1>5. Ended(rows[n], None) = rows[n]
  BY DEF Ended
<1>6. log' = [log EXCEPT ![n] = @ \cup New] /\ rows' = [rows EXCEPT ![n] = R]
  BY <1>1, <1>5 DEF AddRow
<1> HIDE DEF r
<1>7. Kin(e, r)
  BY <1>4, EventFacts DEF IndInv, Operation
<1>8. Fresh(n, e) /\ e.hash = r.hash
  <2>1. 1 \in Nat \ {0} /\ Fixed(r)
    BY <1>4 DEF Fixed
  <2> QED BY <1>4, <2>1 DEF Fresh, Operation, Event
<1> HIDE DEF e
<1>9. Same(e, r) /\ e.kind = kind /\ Created(n, e)
  BY <1>3, <1>4, <1>7 DEF Kin, Same, Created
<1>10. \A x \in New : /\ Fresh(n, x) /\ x.kind # "user"
                      /\ x.kind = "session" => Created(n, x) \/ \E s \in None : Same(x, s)
  BY <1>8, <1>9
<1>11. \A x \in Add :
         /\ x.kind # "user" /\ x.live /\ Fixed(x)
         /\ x.kind = "session" => \E f \in New :
               Same(f, x) /\ f.hash = x.hash /\ \A g \in New : Same(g, x) => g = f
  BY <1>4, <1>8, <1>9 DEF Fixed
<1>12. R = Ended(rows[n], None) \cup Add /\ \A s \in None : FALSE
  OBVIOUS
<1> HIDE DEF New, Add, R, None
<1>13. Writes(n, New, R) /\ UsersAlone(n, New, R)
  BY <1>6, <1>10, <1>11, <1>12, EndpointWrites
<1> QED BY <1>13

(* A token or a subscription ends. *)
LEMMA EndRowWrites ==
  ASSUME IndInv, HashesFixed, NEW n \in Node, NEW t \in Thread,
         RevokeToken(n, t) \/ Unsubscribe(n, t)
  PROVE  \E New, R : Writes(n, New, R) /\ UsersAlone(n, New, R)
<1> DEFINE h == handler[n][t]
           r == [h.seen EXCEPT !.live = FALSE]
           e == Event(n, 1, r, "tombstone")
           New == {e}
           S == {r}
           None == {}
           R == Ended(rows[n], S) \cup None
<1>1. EndRow(n, t) /\ h.call \in {"withdraw", "remove"} /\ h # Idle
  BY DEF RevokeToken, Unsubscribe, Idle
<1>2. h.seen \in Row /\ h.seen.kind # "user" /\ Fixed(h.seen)
  BY <1>1, LoadedFacts DEF Fits, HashesFixed
<1>3. rows' = [rows EXCEPT ![n] = R] /\ log' = [log EXCEPT ![n] = @ \cup New]
  BY <1>1 DEF EndRow
<1>4. /\ r \in Row /\ r.kind # "user"
      /\ r.id = h.seen.id /\ r.hash = h.seen.hash /\ r.kind = h.seen.kind
  BY <1>2 DEF Row
<1> HIDE DEF h, r
<1>5. Fixed(r)
  BY <1>2, <1>4 DEF Fixed
<1>6. Kin(e, r) /\ e.dead
  <2>1. Kin(e, r)
    BY <1>4, EventFacts DEF IndInv, Operation
  <2> QED BY <2>1 DEF Event
<1>7. Fresh(n, e)
  <2>1. 1 \in Nat \ {0}
    OBVIOUS
  <2> QED BY <1>4, <1>5, <2>1 DEF Fresh, Operation
<1> HIDE DEF e
<1>8. Same(e, r)
  BY <1>6 DEF Kin
<1>9. \A x \in New : /\ Fresh(n, x) /\ x.kind # "user"
                     /\ x.kind = "session" => Created(n, x) \/ \E s \in S : Same(x, s)
  BY <1>4, <1>7, <1>8 DEF Same
<1>10. \A s \in S : s.kind # "user" /\ \E x \in New : x.dead /\ Same(x, s)
  BY <1>4, <1>6, <1>8
<1>11. R = Ended(rows[n], S) \cup None /\ \A x \in None : FALSE
  OBVIOUS
<1> HIDE DEF New, S, R, None
<1>12. Writes(n, New, R) /\ UsersAlone(n, New, R)
  BY <1>3, <1>9, <1>10, <1>11, EndpointWrites
<1> QED BY <1>12

(* Subscriptions end before a push. *)
LEMMA SweepWrites ==
  ASSUME IndInv, HashesFixed, NEW n \in Node, Sweep(n)
  PROVE  \E New, R : Writes(n, New, R) /\ UsersAlone(n, New, R)
<1>1. PICK S \in SUBSET Live(rows[n], "sub") :
        /\ rows' = [rows EXCEPT ![n] = Ended(@, S)]
        /\ log'  = [log EXCEPT ![n] = @ \cup Tombstones(n, 0, S)]
  BY DEF Sweep
<1>2. S \in SUBSET Row /\ IsFiniteSet(S) /\ \A s \in S : s.kind = "sub" /\ Fixed(s)
  <2>1. S \in SUBSET rows[n] /\ \A s \in S : s.kind = "sub"
    BY DEF Live
  <2> QED BY <2>1, FS_Subset DEF IndInv, RowInv, Table, HashesFixed
<1> DEFINE New == Tombstones(n, 0, S)
           None == {}
           R == Ended(rows[n], S) \cup None
<1>3. rows' = [rows EXCEPT ![n] = R] /\ log' = [log EXCEPT ![n] = @ \cup New]
  BY <1>1
<1>4. /\ \A e \in New : Fresh(n, e) /\ \E s \in S : Kin(e, s)
      /\ \A s \in S : \E e \in New : e.dead /\ Same(e, s)
  BY <1>2, TombstonesTell DEF IndInv
<1>5. R = Ended(rows[n], S) \cup None /\ \A x \in None : FALSE
  OBVIOUS
<1> HIDE DEF New, R, None
<1>6. \A e \in New : /\ Fresh(n, e) /\ e.kind # "user"
                     /\ e.kind = "session" => Created(n, e) \/ \E s \in S : Same(e, s)
  BY <1>2, <1>4 DEF Kin, Same
<1>7. \A s \in S : s.kind # "user" /\ \E e \in New : e.dead /\ Same(e, s)
  BY <1>2, <1>4
<1>8. Writes(n, New, R) /\ UsersAlone(n, New, R)
  BY <1>3, <1>5, <1>6, <1>7, EndpointWrites
<1> QED BY <1>8

(* A session ends with its subscriptions. *)
LEMMA RevokeSessionWrites ==
  ASSUME IndInv, HashesFixed, NEW n \in Node, NEW t \in Thread,
         Logout(n, t) \/ RefuseRefresh(n, t)
  PROVE  \E New, R : Writes(n, New, R) /\ UsersAlone(n, New, R)
<1> DEFINE s == handler[n][t].seen
           subs == SubsOf(n, s.id)
           r == [s EXCEPT !.live = FALSE]
           one == IF s.live THEN {r} ELSE {}
           One == {Event(n, 1, x, "revoke") : x \in one}
           New == One \cup Tombstones(n, Cardinality(one), subs)
           S == one \cup subs
           None == {}
           R == Ended(rows[n], S) \cup None
<1>1. /\ RevokeSession(n, t)
      /\ handler[n][t].call \in {"logout", "refresh"} /\ handler[n][t] # Idle
  BY DEF Logout, RefuseRefresh, Idle
<1>2. /\ rows' = [rows EXCEPT ![n] = R]
      /\ log'  = [log EXCEPT ![n] = @ \cup New]
  <2>1. /\ rows' = [rows EXCEPT ![n] = Ended(@, S)]
        /\ log'  = [log EXCEPT ![n] = @ \cup One \cup Tombstones(n, Cardinality(one), subs)]
    BY <1>1 DEF RevokeSession
  <2>2. log[n] \cup One \cup Tombstones(n, Cardinality(one), subs) = log[n] \cup New
    OBVIOUS
  <2>3. R = Ended(rows[n], S)
    OBVIOUS
  <2> HIDE DEF New, One, one, S, R
  <2> QED BY <2>1, <2>2, <2>3
<1>3. s \in Row /\ s.kind = "session"
  BY <1>1, LoadedFacts DEF Fits
<1>4. subs \in SUBSET Row /\ IsFiniteSet(subs) /\ \A x \in subs : x.kind = "sub" /\ Fixed(x)
  <2>1. subs \in SUBSET rows[n] /\ \A x \in subs : x.kind = "sub"
    BY DEF SubsOf, Live
  <2> HIDE DEF subs
  <2> QED BY <2>1, FS_Subset DEF IndInv, RowInv, Table, HashesFixed
<1>5. r \in Row /\ r.kind = "session"
  BY <1>3 DEF Row
<1> DEFINE e == Event(n, 1, r, "revoke")
<1>6. Kin(e, r) /\ e.dead /\ Fresh(n, e)
  <2>1. 1 \in Nat \ {0} /\ Fixed(r)
    BY <1>5 DEF Fixed
  <2>2. Fresh(n, e)
    BY <1>5, <2>1 DEF Fresh, Operation
  <2>3. Kin(e, r)
    BY DEF Event, Kin, Same
  <2>4. e.dead
    BY DEF Event
  <2> QED BY <2>2, <2>3, <2>4
<1>7. Cardinality(one) \in Nat
  <2>1. IsFiniteSet({r}) /\ IsFiniteSet({})
    BY FS_Singleton, FS_EmptySet
  <2> QED BY <2>1, FS_CardinalityType
<1>8. /\ \A x \in Tombstones(n, Cardinality(one), subs) :
            Fresh(n, x) /\ \E y \in subs : Kin(x, y)
      /\ \A y \in subs : \E x \in Tombstones(n, Cardinality(one), subs) : x.dead /\ Same(x, y)
  <2> HIDE DEF one, subs
  <2> QED BY <1>4, <1>7, TombstonesTell DEF IndInv
<1>9. \A x \in One : x = e /\ r \in one
  OBVIOUS
<1>10. \A x \in one : x = r /\ e \in One
  OBVIOUS
<1>11. \A x \in S : x \in one \/ x \in subs
  OBVIOUS
<1>12. one \subseteq S /\ subs \subseteq S
  OBVIOUS
<1>13. R = Ended(rows[n], S) \cup None /\ \A x \in None : FALSE
  OBVIOUS
<1>14. \A x \in New : x \in One \/ x \in Tombstones(n, Cardinality(one), subs)
  OBVIOUS
<1>15. One \subseteq New /\ Tombstones(n, Cardinality(one), subs) \subseteq New
  OBVIOUS
<1> HIDE DEF e, r, one, One, New, S, R, subs, s, None
<1>16. Same(e, r) /\ e.kind = "session"
  BY <1>5, <1>6 DEF Kin, Same
<1>17. \A x \in New : /\ Fresh(n, x) /\ x.kind # "user"
                      /\ x.kind = "session" => Created(n, x) \/ \E y \in S : Same(x, y)
  <2> SUFFICES ASSUME NEW x \in New
               PROVE  /\ Fresh(n, x) /\ x.kind # "user"
                      /\ x.kind = "session" => Created(n, x) \/ \E y \in S : Same(x, y)
    OBVIOUS
  <2>1. CASE x \in One
    BY <1>6, <1>9, <1>12, <1>16, <2>1
  <2>2. CASE x \in Tombstones(n, Cardinality(one), subs)
    <3>1. x.kind = "sub"
      BY <1>4, <1>8, <2>2 DEF Kin, Same
    <3> QED BY <1>8, <2>2, <3>1
  <2> QED BY <1>14, <2>1, <2>2
<1>18. \A y \in S : y.kind # "user" /\ \E x \in New : x.dead /\ Same(x, y)
  BY <1>4, <1>5, <1>6, <1>8, <1>10, <1>11, <1>15, <1>16
<1>19. Writes(n, New, R) /\ UsersAlone(n, New, R)
  BY <1>2, <1>13, <1>17, <1>18, EndpointWrites
<1> QED BY <1>19

(* A subscription is added or kept, others of the user end. *)
LEMMA SubscribeWrites ==
  ASSUME IndInv, HashesFixed, NEW n \in Node, NEW t \in Thread, CommitSubscribe(n, t)
  PROVE  \E New, R : Writes(n, New, R) /\ UsersAlone(n, New, R)
<1> DEFINE h == handler[n][t]
<1>1. h.call = "subscribe" /\ h # Idle
  BY DEF CommitSubscribe, Idle
<1>2. PICK kept \in SUBSET {s \in h.subs : s.session = h.seen.id} :
        LET k     == Cardinality(h.subs \ kept)
            stale == h.subs \ kept
            new   == NewRow("sub", NextId(n, k + 1), h.seen.user, h.seen.id)
            bound == IF kept = {} THEN {new} ELSE kept
        IN  /\ Cardinality(kept) <= 1
            /\ rows' = [rows EXCEPT ![n] =
                 Ended(@, stale) \cup (IF kept = {} THEN {new} ELSE {})]
            /\ log'  = [log EXCEPT ![n] = @ \cup Tombstones(n, 0, stale)
                                            \cup {Event(n, k + 1, r, "upsert") : r \in bound}]
  BY DEF CommitSubscribe
<1> DEFINE stale == h.subs \ kept
           k == Cardinality(stale)
           new == NewRow("sub", NextId(n, k + 1), h.seen.user, h.seen.id)
           bound == IF kept = {} THEN {new} ELSE kept
           Add == IF kept = {} THEN {new} ELSE {}
           event(r) == Event(n, k + 1, r, "upsert")
           New == Tombstones(n, 0, stale) \cup {event(r) : r \in bound}
           R == Ended(rows[n], stale) \cup Add
<1>3. /\ h.seen \in Row /\ h.subs \in SUBSET Row /\ IsFiniteSet(h.subs)
      /\ \A s \in h.subs : s.kind = "sub" /\ Fixed(s)
  BY <1>1, LoadedFacts DEF Fits, Task, HashesFixed
<1>4. stale \in SUBSET Row /\ IsFiniteSet(stale) /\ \A s \in stale : s.kind = "sub" /\ Fixed(s)
  BY <1>3, FS_Subset
<1>5. k \in Nat /\ k + 1 \in Nat \ {0} /\ Count(n) \in Nat
  <2>1. k \in Nat
    BY <1>4, FS_CardinalityType
  <2> HIDE DEF k
  <2> QED BY <2>1, CountNat DEF IndInv
<1>6. rows' = [rows EXCEPT ![n] = R] /\ log' = [log EXCEPT ![n] = @ \cup New]
  <2>1. /\ rows' = [rows EXCEPT ![n] = R]
        /\ log'  = [log EXCEPT ![n] = @ \cup Tombstones(n, 0, stale) \cup {event(r) : r \in bound}]
    BY <1>2
  <2>2. log[n] \cup Tombstones(n, 0, stale) \cup {event(r) : r \in bound} = log[n] \cup New
    OBVIOUS
  <2> HIDE DEF New, R, event, bound, stale
  <2> QED BY <2>1, <2>2
<1> HIDE DEF k
<1>7. NextId(n, k + 1) = <<n, Count(n) + (k + 1)>> /\ NextId(n, k + 1) \in Id
  BY <1>5 DEF NextId, Count, Id
<1>8. new \in Row /\ new.kind = "sub" /\ new.live /\ new.hash = new.id
  BY <1>3, <1>7 DEF NewRow, Row, RowKind
<1>9. kept \subseteq h.subs
  OBVIOUS
<1> HIDE DEF new, stale, h
<1>10. \A x \in bound : x \in Row /\ x.kind = "sub" /\ Fixed(x)
  BY <1>3, <1>8, <1>9 DEF Fixed
<1>11. \A x \in Add : x.kind = "sub" /\ x.live /\ Fixed(x)
  BY <1>8 DEF Fixed
<1>12. \A x \in bound : Fresh(n, event(x)) /\ event(x).kind = "sub"
  <2> SUFFICES ASSUME NEW x \in bound PROVE Fresh(n, event(x)) /\ event(x).kind = "sub"
    OBVIOUS
  <2>1. event(x).kind = "sub"
    BY <1>10 DEF Event
  <2>2. x \in Row /\ Fixed(x) /\ "upsert" \in Operation
    BY <1>10 DEF Operation
  <2> HIDE DEF bound
  <2> QED BY <1>5, <2>1, <2>2 DEF Fresh
<1>13. /\ \A e \in Tombstones(n, 0, stale) : Fresh(n, e) /\ \E s \in stale : Kin(e, s)
       /\ \A s \in stale : \E e \in Tombstones(n, 0, stale) : e.dead /\ Same(e, s)
  BY <1>4, TombstonesTell DEF IndInv
<1>14. R = Ended(rows[n], stale) \cup Add
  OBVIOUS
<1>15. \A e \in New : e \in Tombstones(n, 0, stale) \/ \E x \in bound : e = event(x)
  OBVIOUS
<1>16. Tombstones(n, 0, stale) \subseteq New
  OBVIOUS
<1> HIDE DEF New, R, Add, bound, event
<1>17. \A e \in New : /\ Fresh(n, e) /\ e.kind # "user"
                      /\ e.kind = "session" => Created(n, e) \/ \E s \in stale : Same(e, s)
  <2>1. \A e \in Tombstones(n, 0, stale) : Fresh(n, e) /\ e.kind = "sub"
    BY <1>4, <1>13 DEF Kin, Same
  <2> QED BY <1>12, <1>15, <2>1
<1>18. \A s \in stale : s.kind # "user" /\ \E e \in New : e.dead /\ Same(e, s)
  BY <1>4, <1>13, <1>16
<1>19. \A x \in Add :
         /\ x.kind # "user" /\ x.live /\ Fixed(x)
         /\ x.kind = "session" => \E e \in New :
               Same(e, x) /\ e.hash = x.hash /\ \A f \in New : Same(f, x) => f = e
  BY <1>11
<1>20. Writes(n, New, R) /\ UsersAlone(n, New, R)
  BY <1>6, <1>14, <1>17, <1>18, <1>19, EndpointWrites
<1> QED BY <1>20

(* A session that is rotated. *)
LEMMA RotateWrites ==
  ASSUME IndInv, HashesFixed, NEW n \in Node, NEW t \in Thread, Rotate(n, t)
  PROVE  \E New, R : Writes(n, New, R) /\ UsersAlone(n, New, R)
<1> DEFINE h == handler[n][t]
           new == [h.seen EXCEPT !.hash = NextId(n, 1)]
           over(r) == IF Same(r, new) THEN [r EXCEPT !.hash = new.hash] ELSE r
           R == {over(r) : r \in rows[n]}
           e == Event(n, 1, new, "rotate")
           New == {e}
<1>1. /\ h.call = "refresh" /\ h # Idle
      /\ rows' = [rows EXCEPT ![n] = R] /\ log' = [log EXCEPT ![n] = @ \cup New]
  BY DEF Rotate, Idle
<1>2. h.seen \in Row /\ h.seen.kind = "session"
  BY <1>1, LoadedFacts DEF Fits
<1> HIDE DEF h
<1>3. NextId(n, 1) \in Id
  BY <1>2, EventFacts DEF IndInv, Operation
<1>4. new \in Row /\ new.kind = "session"
  BY <1>2, <1>3 DEF Row
<1> HIDE DEF new
<1>5. Same(e, new) /\ e.hash = new.hash
  BY DEF Event, Same
<1>6. Fresh(n, e)
  <2>1. 1 \in Nat \ {0} /\ Fixed(new)
    BY <1>4 DEF Fixed
  <2> QED BY <1>4, <2>1 DEF Fresh, Operation
<1> HIDE DEF e
<1>7. rows[n] \in SUBSET Row /\ \A r \in rows[n] : Fixed(r)
  BY DEF IndInv, RowInv, HashesFixed
<1>8. ASSUME NEW r \in rows[n], Same(r, new)
      PROVE  Kin(over(r), r) /\ over(r).live = r.live /\ over(r).hash = new.hash
  <2>1. over(r) = [r EXCEPT !.hash = new.hash] /\ r \in Row
    BY <1>7, <1>8
  <2> HIDE DEF over
  <2> QED BY <2>1 DEF Row, Kin, Same
<1>9. ASSUME NEW r \in rows[n], ~ Same(r, new) PROVE over(r) = r
  BY <1>9
<1>10. \A x \in New : x = e /\ e \in New
  OBVIOUS
<1>11. e \in New
  OBVIOUS
<1> HIDE DEF over
<1>12. \A q \in R : \/ q \in rows[n] /\ ~ Same(q, new)
                    \/ /\ Same(q, new) /\ q.hash = new.hash
                       /\ \E r \in rows[n] : Kin(q, r) /\ q.live = r.live
  <2> SUFFICES ASSUME NEW r \in rows[n]
               PROVE  \/ over(r) \in rows[n] /\ ~ Same(over(r), new)
                      \/ /\ Same(over(r), new) /\ over(r).hash = new.hash
                         /\ Kin(over(r), r) /\ over(r).live = r.live
    OBVIOUS
  <2>1. CASE Same(r, new)
    BY <1>8, <2>1 DEF Kin, Same
  <2>2. CASE ~ Same(r, new)
    BY <1>9, <2>2
  <2> QED BY <2>1, <2>2
<1>13. \A r \in rows[n] : ~ Same(r, new) => r \in R
  BY <1>9
<1> HIDE DEF R, New
<1>14. \A q \in R : Fixed(q)
  BY <1>4, <1>7, <1>12 DEF Fixed, Same
<1>15. ASSUME NEW q \in R, q.kind = "session", q.live
       PROVE  \/ q \in rows[n] /\ \A f \in New : ~ Same(f, q)
              \/ \E f \in New : Same(f, q) /\ f.hash = q.hash /\ \A g \in New : Same(g, q) => g = f
  <2>1. CASE q \in rows[n] /\ ~ Same(q, new)
    BY <1>5, <1>10, <2>1 DEF Same
  <2>2. CASE Same(q, new) /\ q.hash = new.hash
    <3>1. Same(e, q) /\ e.hash = q.hash
      BY <1>5, <2>2 DEF Same
    <3> QED BY <1>10, <1>11, <3>1
  <2> QED BY <1>12, <2>1, <2>2
<1>16. ASSUME NEW q \in R, ~ q.live PROVE \E r \in rows[n] : ~ r.live /\ Kin(q, r)
  <2>1. CASE q \in rows[n]
    BY <1>16, <2>1 DEF Kin, Same
  <2>2. CASE q \notin rows[n]
    <3>1. PICK r \in rows[n] : Kin(q, r) /\ q.live = r.live
      BY <1>12, <2>2
    <3> QED BY <1>16, <3>1
  <2> QED BY <2>1, <2>2
<1>17. Writes(n, New, R)
  BY <1>1, <1>6, <1>10, <1>14, <1>15, <1>16 DEF Writes
<1>18. UsersAlone(n, New, R)
  <2>1. \A x : x.kind = "user" => ~ Same(x, new)
    BY <1>4 DEF Same
  <2>2. \A x \in New : x.kind # "user"
    BY <1>4, <1>5, <1>10 DEF Same
  <2>3. \A x : x.kind = "user" => (x \in R <=> x \in rows[n])
    BY <1>12, <1>13, <2>1
  <2> QED BY <2>2, <2>3 DEF UsersAlone
<1> QED BY <1>17, <1>18

(* A bootstrap writes a user and its session, with an event of each. *)
LEMMA BootstrapWrites ==
  ASSUME IndInv, HashesFixed, NEW n \in Node, Bootstrap(n)
  PROVE  \E New, R, user, e :
           /\ Writes(n, New, R)
           /\ e \in New /\ e.kind = "user" /\ e.user = n /\ \A f \in New : f.kind = "user" => f = e
           /\ user \in R /\ user.kind = "user" /\ user.live
           /\ \A r \in R : r.kind = "user" => r = user
<1> DEFINE user == NewUser(n, NextId(n, 2))
           session == NewRow("session", NextId(n, 1), n, NextId(n, 1))
           R == rows[n] \cup {user, session}
           e1 == Event(n, 1, session, "issued")
           e2 == Event(n, 2, user, "bootstrap")
           New == {e1, e2}
<1>1. /\ rows' = [rows EXCEPT ![n] = R] /\ log' = [log EXCEPT ![n] = @ \cup New]
      /\ \A r \in rows[n] : r.kind # "user"
  BY DEF Bootstrap
<1>2. Count(n) \in Nat
  BY CountNat DEF IndInv
<1>3. /\ NextId(n, 1) = <<n, Count(n) + 1>> /\ NextId(n, 1) \in Id
      /\ NextId(n, 2) = <<n, Count(n) + 2>> /\ NextId(n, 2) \in Id
  BY <1>2 DEF NextId, Count, Id
<1>4. user \in Row /\ user.kind = "user" /\ user.live /\ user.user = n
  BY <1>3 DEF NewUser, Row, RowKind
<1>5. session \in Row /\ session.kind = "session" /\ session.live /\ session.id = NextId(n, 1)
  BY <1>3 DEF NewRow, Row, RowKind
<1> HIDE DEF user, session
<1>6. Same(e1, session) /\ e1.hash = session.hash
  BY DEF Event, Same
<1>7. e2.kind = "user" /\ e2.user = n
  BY <1>4 DEF Event
<1>8. Fresh(n, e1) /\ Fresh(n, e2)
  <2>1. 1 \in Nat \ {0} /\ 2 \in Nat \ {0} /\ Fixed(session) /\ Fixed(user)
    BY <1>4, <1>5 DEF Fixed
  <2> QED BY <1>4, <1>5, <2>1 DEF Fresh, Operation
<1> HIDE DEF e1, e2
<1>9. /\ \A e \in New : e = e1 \/ e = e2
      /\ e1 \in New /\ e2 \in New
  OBVIOUS
<1>10. /\ \A r \in R : r \in rows[n] \/ r = user \/ r = session
       /\ user \in R
  OBVIOUS
<1> HIDE DEF New, R
<1>11. \A r \in R : Fixed(r)
  BY <1>4, <1>5, <1>10 DEF HashesFixed, Fixed
<1>12. e1.kind = "session" /\ e1.id = session.id
  BY <1>5, <1>6 DEF Same
<1>13. ASSUME NEW r \in R, r.kind = "session", r.live
       PROVE  \/ r \in rows[n] /\ \A f \in New : ~ Same(f, r)
              \/ \E f \in New : Same(f, r) /\ f.hash = r.hash /\ \A g \in New : Same(g, r) => g = f
  <2>1. CASE r = session
    BY <1>5, <1>6, <1>7, <1>9, <2>1 DEF Same
  <2>2. CASE r \in rows[n]
    <3>1. ~ Created(n, r)
      BY <2>2, RowsKnown, KnownIsNotCreated DEF IndInv, Kin, Same
    <3>2. r.id # session.id
      BY <1>2, <1>3, <1>5, <3>1 DEF Created
    <3> QED BY <1>7, <1>9, <1>12, <1>13, <2>2, <3>2 DEF Same
  <2> QED BY <1>4, <1>10, <1>13, <2>1, <2>2
<1>14. ASSUME NEW r \in R, ~ r.live PROVE \E q \in rows[n] : ~ q.live /\ Kin(r, q)
  <2>1. r \in rows[n]
    BY <1>4, <1>5, <1>10, <1>14
  <2> QED BY <1>14, <2>1 DEF Kin, Same
<1>15. Writes(n, New, R)
  BY <1>1, <1>8, <1>9, <1>11, <1>13, <1>14 DEF Writes
<1>16. \A f \in New : f.kind = "user" => f = e2
  BY <1>9, <1>12
<1>17. \A r \in R : r.kind = "user" => r = user
  BY <1>1, <1>5, <1>10
<1> QED BY <1>4, <1>7, <1>9, <1>10, <1>15, <1>16, <1>17
-----------------------------------------------------------------------------
(* What endpoints leave true *)

(* The state after a transaction. *)
LEMMA WritesFacts ==
  ASSUME IndInv, NEW n \in Node, NEW New, NEW R, Writes(n, New, R)
  PROVE  /\ log'[n] = log[n] \cup New /\ rows'[n] = R
         /\ \A m \in Node \ {n} : log'[m] = log[m] /\ rows'[m] = rows[m]
         /\ Everything' = Everything \cup New
<1>1. log \in [Node -> SUBSET Entry] /\ rows \in [Node -> SUBSET Row]
  BY DEF IndInv, LogInv, RowInv
<1>2. /\ log'[n] = log[n] \cup New /\ rows'[n] = R
      /\ \A m \in Node \ {n} : log'[m] = log[m] /\ rows'[m] = rows[m]
  BY <1>1 DEF Writes
<1>3. Everything' = Everything \cup New
  BY <1>2 DEF Everything
<1> QED BY <1>2, <1>3

(* What is in one of two sets, counted. *)
LEMMA CountedApart ==
  ASSUME NEW S, NEW T, IsFiniteSet(S), IsFiniteSet(T), S \cap T = {}
  PROVE  Cardinality(S \cup T) = Cardinality(S) + Cardinality(T)
<1>1. Cardinality(S \cup T) = Cardinality(S) + Cardinality(T) - Cardinality(S \cap T)
  BY FS_Union
<1>2. Cardinality(S \cap T) = 0
  BY FS_EmptySet
<1>3. Cardinality(S) \in Nat /\ Cardinality(T) \in Nat
  BY FS_CardinalityType
<1> QED BY <1>1, <1>2, <1>3

(* Its events are counted, and stamped with the instants that follow.       *)
LEMMA WritesInstants ==
  ASSUME IndInv, LogInv', Instants, NEW n \in Node, NEW New, NEW R, Writes(n, New, R)
  PROVE  Instants'
<1>1. log'[n] = log[n] \cup New /\ Everything' = Everything \cup New
  BY WritesFacts
<1>2. \A e \in New : /\ e \in Entry /\ e.origin = n /\ e \notin Everything
                     /\ e.at = 1 + Cardinality(Everything) + (e.seq - Count(n))
                     /\ Count(n) < e.seq
  BY FreshFacts DEF IndInv, Writes
<1>3. IsFiniteSet(New) /\ IsFiniteSet(Everything) /\ IsFiniteSet(Own(n)) /\ Count(n) \in Nat
  BY <1>1, FS_Subset, EverythingFinite, CountNat DEF IndInv, LogInv
<1>4. Cardinality(New) \in Nat /\ Cardinality(Everything) \in Nat
  BY <1>3, FS_CardinalityType
<1>5. Everything \cap New = {} /\ Own(n) \cap New = {}
  <2>1. Own(n) \subseteq Everything
    BY DEF Own, Everything
  <2> QED BY <1>2, <2>1
<1>6. Cardinality(Everything \cup New) = Cardinality(Everything) + Cardinality(New)
  BY <1>3, <1>5, CountedApart
<1>7. Own(n)' = Own(n) \cup New
  BY <1>1, <1>2 DEF Own
<1>8. Cardinality(Own(n) \cup New) = Count(n) + Cardinality(New)
  BY <1>3, <1>5, CountedApart DEF Count
<1>9. \A e \in New : e.seq <= Count(n) + Cardinality(New)
  <2>1. Count(n)' = Count(n) + Cardinality(New)
    BY <1>7, <1>8 DEF Count
  <2> QED BY <1>7, <2>1 DEF LogInv, Numbered
<1>10. \A e \in Everything : e.at \in Nat /\ e.at <= 1 + Cardinality(Everything)
  BY DEF Instants, IndInv, LogInv, History, Entry
<1>11. \A e \in New : e.seq \in Nat
  BY <1>2 DEF Entry
<1> SUFFICES ASSUME NEW e \in Everything \cup New
             PROVE  e.at <= 1 + (Cardinality(Everything) + Cardinality(New))
  BY <1>1, <1>6 DEF Instants
<1>12. CASE e \in Everything
  BY <1>4, <1>10, <1>12
<1>13. CASE e \in New
  BY <1>2, <1>3, <1>4, <1>9, <1>11, <1>13
<1> QED BY <1>12, <1>13

(* The newest of events, where one is newer than all others. *)
LEMMA NewestIs ==
  ASSUME NEW E, NEW e \in E, \A f \in E : f.at \in Nat, \A f \in E \ {e} : f.at < e.at
  PROVE  Newest(E) = e
<1>1. \A f \in E : f.at <= e.at
  OBVIOUS
<1>2. ASSUME NEW f \in E, \A g \in E : g.at <= f.at PROVE f = e
  BY <1>2
<1> QED BY <1>1, <1>2 DEF Newest

(* Sessions bear the newest token, and what is not live was told to end. *)
LEMMA WritesTell ==
  ASSUME IndInv, IndInv', AccessInv, NEW n \in Node, NEW New, NEW R, Writes(n, New, R)
  PROVE  EndsTold' /\ HashesNewest'
<1>1. /\ log'[n] = log[n] \cup New /\ rows'[n] = R
      /\ \A m \in Node \ {n} : log'[m] = log[m] /\ rows'[m] = rows[m]
  BY WritesFacts
<1>2. ASSUME NEW r \in R, r.kind # "user", ~ r.live PROVE Ending(log'[n], r)
  <2>1. ASSUME NEW q \in rows[n], ~ q.live, Kin(r, q) PROVE Ending(log'[n], r)
    <3>1. Ending(log[n], q)
      BY <1>2, <2>1 DEF AccessInv, EndsTold, Kin, Same
    <3> QED BY <1>1, <2>1, <3>1 DEF Ending, Kin, Same
  <2>2. ASSUME NEW e \in New, e.dead, Same(e, r) PROVE Ending(log'[n], r)
    BY <1>1, <2>2 DEF Ending
  <2> QED BY <1>2, <2>1, <2>2 DEF Writes
<1>3. EndsTold'
  <2> SUFFICES ASSUME NEW m \in Node, NEW r \in rows'[m], r.kind # "user", ~ r.live
               PROVE  Ending(log'[m], r)
    BY DEF EndsTold
  <2>1. CASE m = n
    BY <1>1, <1>2, <2>1
  <2>2. CASE m # n
    <3>1. log'[m] = log[m] /\ rows'[m] = rows[m]
      BY <1>1, <2>2
    <3> QED BY <3>1 DEF AccessInv, EndsTold
  <2> QED BY <2>1, <2>2
<1>4. ASSUME NEW r \in R PROVE NewestHash(log'[n], r)
  <2> SUFFICES ASSUME r.kind = "session", r.live
               PROVE  r.hash = Newest(Events(log'[n], "session", r.id)).hash
    BY DEF NewestHash
  <2>1. CASE r \in rows[n] /\ \A e \in New : ~ Same(e, r)
    <3>1. Events(log'[n], "session", r.id) = Events(log[n], "session", r.id)
      BY <1>1, <2>1 DEF Events, Same
    <3> QED BY <2>1, <3>1 DEF AccessInv, HashesNewest, NewestHash
  <2>2. ASSUME NEW e \in New, Same(e, r), e.hash = r.hash, \A f \in New : Same(f, r) => f = e
        PROVE  r.hash = Newest(Events(log'[n], "session", r.id)).hash
    <3> DEFINE E == Events(log'[n], "session", r.id)
    <3>1. e \in E
      BY <1>1, <2>2 DEF Events, Same
    <3>2. /\ Cardinality(Everything) \in Nat /\ e.at \in Nat
          /\ 1 + Cardinality(Everything) < e.at
      BY FreshFacts DEF IndInv, Writes, Entry
    <3>3. ASSUME NEW f \in E \ {e} PROVE f.at \in Nat /\ f.at < e.at
      <4>1. f \in log[n]
        BY <1>1, <2>2, <3>3 DEF Events, Same
      <4>2. f \in Everything
        BY <4>1 DEF Everything
      <4>3. f.at \in Nat /\ f.at <= 1 + Cardinality(Everything)
        BY <4>2 DEF AccessInv, Instants, IndInv, LogInv, History, Entry
      <4> QED BY <3>2, <4>3
    <3>4. Newest(E) = e
      <4> HIDE DEF E
      <4> QED BY <3>1, <3>2, <3>3, NewestIs
    <3> QED BY <2>2, <3>4
  <2> QED BY <2>1, <2>2 DEF Writes
<1>5. HashesNewest'
  <2> SUFFICES ASSUME NEW m \in Node, NEW r \in rows'[m] PROVE NewestHash(log'[m], r)
    BY DEF HashesNewest, NewestHash
  <2>1. CASE m = n
    BY <1>1, <1>4, <2>1
  <2>2. CASE m # n
    <3>1. log'[m] = log[m] /\ rows'[m] = rows[m]
      BY <1>1, <2>2
    <3> QED BY <3>1 DEF AccessInv, HashesNewest
  <2> QED BY <2>1, <2>2
<1> QED BY <1>3, <1>5

(* Tokens and subscriptions keep what they have. *)
LEMMA WritesFixed ==
  ASSUME IndInv, HashesFixed, NEW n \in Node, NEW New, NEW R, Writes(n, New, R),
         \/ handler' = handler
         \/ \E t \in Thread : handler' = [handler EXCEPT ![n][t] = Idle]
  PROVE  HashesFixed'
<1>1. /\ rows'[n] = R /\ \A m \in Node \ {n} : rows'[m] = rows[m]
      /\ Everything' = Everything \cup New
  BY WritesFacts
<1>2. \A e \in Everything' : Fixed(e)
  <2>1. \A e \in New : Fixed(e)
    BY FreshFacts DEF IndInv, Writes
  <2> QED BY <1>1, <2>1 DEF HashesFixed
<1>3. \A m \in Node : \A r \in rows'[m] : Fixed(r)
  BY <1>1 DEF HashesFixed, Writes
<1>4. \A m \in Node, t \in Thread : handler'[m][t] \in {Idle, handler[m][t]}
  BY DEF IndInv, RowInv
<1>5. \A m \in Node, t \in Thread : handler'[m][t] # Idle =>
        Fixed(handler'[m][t].seen) /\ \A s \in handler'[m][t].subs : Fixed(s)
  BY <1>4 DEF HashesFixed
<1> QED BY <1>2, <1>3, <1>5 DEF HashesFixed, Fixed

(* What is said of conflicts, where users and bootstraps stay. *)
LEMMA UsersAloneKeep ==
  ASSUME IndInv, NEW n \in Node, NEW New, NEW R, Writes(n, New, R), UsersAlone(n, New, R)
  PROVE  /\ UsersShown => UsersShown'
         /\ ConflictStopsLogins => ConflictStopsLogins'
         /\ OneBootstrap => OneBootstrap'
<1>1. /\ log'[n] = log[n] \cup New /\ rows'[n] = R
      /\ \A m \in Node \ {n} : log'[m] = log[m] /\ rows'[m] = rows[m]
      /\ Everything' = Everything \cup New
  BY WritesFacts
<1>2. \A m \in Node : Bootstraps(log'[m]) = Bootstraps(log[m])
  BY <1>1 DEF UsersAlone, Bootstraps
<1>3. \A m \in Node : Conflict(log'[m]) <=> Conflict(log[m])
  BY <1>2 DEF Conflict
<1>4. \A m \in Node : \A r : r.kind = "user" => (r \in rows'[m] <=> r \in rows[m])
  BY <1>1 DEF UsersAlone
<1>5. UsersShown => UsersShown'
  BY <1>2, <1>3, <1>4 DEF UsersShown
<1>6. ConflictStopsLogins => ConflictStopsLogins'
  BY <1>3, <1>4 DEF ConflictStopsLogins, Live
<1>7. OneBootstrap => OneBootstrap'
  BY <1>1 DEF OneBootstrap, UsersAlone
<1> QED BY <1>5, <1>6, <1>7

(* Where there is no conflict there is at most one bootstrap. *)
LEMMA OneOrConflict ==
  ASSUME NEW L, IsFiniteSet(L)
  PROVE  /\ ~ Conflict(L) => \A e, f \in L : e.kind = "user" /\ f.kind = "user" => e = f
         /\ (\A e, f \in L : e.kind = "user" /\ f.kind = "user" => e = f) => ~ Conflict(L)
<1> DEFINE B == Bootstraps(L)
<1>1. IsFiniteSet(B) /\ Cardinality(B) \in Nat
  BY FS_Subset, FS_CardinalityType DEF Bootstraps
<1>2. \A e : e \in B <=> e \in L /\ e.kind = "user"
  BY DEF Bootstraps
<1>3. Conflict(L) <=> Cardinality(B) > 1
  BY DEF Conflict
<1> HIDE DEF B
<1>4. ASSUME Cardinality(B) <= 1, NEW e \in B, NEW f \in B PROVE e = f
  <2>1. Cardinality(B) # 0
    BY <1>1, <1>4, FS_EmptySet
  <2>2. Cardinality(B) = 1
    BY <1>1, <1>4, <2>1
  <2>3. \E x : B = {x}
    BY <1>1, <2>2, FS_Singleton
  <2> QED BY <2>3, <1>4
<1>5. ASSUME \A e, f \in B : e = f PROVE Cardinality(B) <= 1
  <2>1. CASE B = {}
    BY <2>1, FS_EmptySet
  <2>2. CASE B # {}
    <3>1. PICK x \in B : TRUE
      BY <2>2
    <3>2. B = {x}
      BY <1>5, <3>1
    <3>3. Cardinality(B) = 1
      BY <3>2, FS_Singleton
    <3> QED BY <3>3
  <2> QED BY <2>1, <2>2
<1>6. ASSUME ~ Conflict(L), NEW e \in L, NEW f \in L, e.kind = "user", f.kind = "user"
      PROVE  e = f
  <2>1. Cardinality(B) <= 1
    BY <1>1, <1>3, <1>6
  <2> QED BY <1>2, <1>4, <1>6, <2>1
<1>7. ASSUME \A e, f \in L : e.kind = "user" /\ f.kind = "user" => e = f PROVE ~ Conflict(L)
  <2>1. Cardinality(B) <= 1
    BY <1>2, <1>5, <1>7
  <2> QED BY <1>1, <1>3, <2>1
<1> QED BY <1>6, <1>7

(* What a smaller history tells, a larger one tells too. *)
LEMMA ConflictStays ==
  ASSUME NEW L, IsFiniteSet(L), NEW K \in SUBSET L, Conflict(K)
  PROVE  Conflict(L)
<1>1. IsFiniteSet(K)
  BY FS_Subset
<1>2. PICK e \in K, f \in K : e.kind = "user" /\ f.kind = "user" /\ e # f
  BY <1>1, OneOrConflict
<1>3. e \in L /\ f \in L
  OBVIOUS
<1> QED BY <1>2, <1>3, OneOrConflict

(* A node that is at odds has some user, which the next bootstrap heeds. *)
ConflictMet == \A n \in Node : Conflict(log[n]) => \E r \in rows[n] : r.kind = "user"

(* A bootstrap shows its user; without users before, and without a conflict *)
(* that they would have told of, it is the first that the node knows of.    *)
LEMMA BootstrapKeeps ==
  ASSUME IndInv, IndInv', HashesFixed, UsersShown, NEW n \in Node, Bootstrap(n)
  PROVE  /\ UsersShown'
         /\ ConflictMet /\ ConflictStopsLogins => ConflictStopsLogins'
         /\ UsersRooted /\ OneBootstrap => OneBootstrap'
<1>1. PICK New, R, user, e :
        /\ Writes(n, New, R)
        /\ e \in New /\ e.kind = "user" /\ e.user = n /\ \A f \in New : f.kind = "user" => f = e
        /\ user \in R /\ user.kind = "user" /\ user.live
        /\ \A r \in R : r.kind = "user" => r = user
  BY BootstrapWrites
<1>2. /\ log'[n] = log[n] \cup New /\ rows'[n] = R
      /\ \A m \in Node \ {n} : log'[m] = log[m] /\ rows'[m] = rows[m]
      /\ Everything' = Everything \cup New
  BY <1>1, WritesFacts
<1>3. \A r \in rows[n] : r.kind # "user"
  BY DEF Bootstrap
<1>4. IsFiniteSet(log[n]) /\ IsFiniteSet(log'[n])
  BY DEF IndInv, LogInv
<1>5. ~ Conflict(log[n]) => \A f \in log[n] : f.kind # "user"
  BY <1>3 DEF UsersShown, Bootstraps
<1>6. UsersShown'
  <2> SUFFICES ASSUME NEW m \in Node, ~ Conflict(log'[m])
               PROVE  /\ Bootstraps(log'[m]) # {} => \E r \in rows'[m] : r.kind = "user"
                      /\ \A r \in rows'[m] : r.kind = "user" => r.live
    BY DEF UsersShown
  <2>1. CASE m = n
    BY <1>1, <1>2, <2>1
  <2>2. CASE m # n
    <3>1. log'[m] = log[m] /\ rows'[m] = rows[m]
      BY <1>2, <2>2
    <3> QED BY <3>1 DEF UsersShown
  <2> QED BY <2>1, <2>2
<1>7. ASSUME ConflictMet, ConflictStopsLogins PROVE ConflictStopsLogins'
  <2>1. ~ Conflict(log[n])
    BY <1>3, <1>7 DEF ConflictMet
  <2>2. \A f, g \in log'[n] : f.kind = "user" /\ g.kind = "user" => f = g
    BY <1>1, <1>2, <1>5, <2>1
  <2>3. ~ Conflict(log'[n])
    BY <1>4, <2>2, OneOrConflict
  <2>4. \A m \in Node \ {n} : log'[m] = log[m] /\ rows'[m] = rows[m]
    BY <1>2
  <2> QED BY <1>7, <2>3, <2>4 DEF ConflictStopsLogins, Live
<1>8. ASSUME UsersRooted, OneBootstrap PROVE OneBootstrap'
  <2>1. \A f \in Everything : f.user # n
    BY <1>3, <1>8 DEF UsersRooted, HasUser
  <2> QED BY <1>1, <1>2, <1>8, <2>1 DEF OneBootstrap
<1> QED BY <1>6, <1>7, <1>8

(* Users, after a page: as before when it brings no bootstrap, disabled by  *)
(* one that makes a conflict, and live by the first.                        *)
LEMMA PageShows ==
  ASSUME NEW L, IsFiniteSet(L), History(L), NEW new \in SUBSET L, NEW R, Made(R, L)
  PROVE  LET Q == Project(R, L, new) IN
         /\ Bootstraps(new) = {} =>
               \A r : r.kind = "user" => (r \in Q <=> r \in R)
         /\ Bootstraps(new) # {} /\ Conflict(L) => \A q \in Q : q.kind = "user" => ~ q.live
         /\ Bootstraps(new) # {} /\ ~ Conflict(L) => \E q \in Q : q.kind = "user"
         /\ Bootstraps(new) # {} /\ ~ Conflict(L) /\ (\A r \in R : r.kind = "user" => r.live)
               => \A q \in Q : q.kind = "user" => q.live
<1> DEFINE U == ProjectUsers(R, L, new)
           S == ProjectKind(U, L, new, "session")
           T == ProjectKind(S, L, new, "token")
           Q == ProjectSubs(T, L, new)
<1>1. Q = Project(R, L, new)
  BY DEF Project
<1>2. Made(U, L)
  BY ProjectUsersFacts DEF Grows, Made
<1>3. Made(S, L) /\ \A r : r.kind = "user" => (r \in S <=> r \in U)
  <2> HIDE DEF U
  <2>1. /\ Grows(U, S, L)
        /\ \A q \in S : q.kind # "session" => q \in U
        /\ \A r \in U : r.kind # "session" => r \in S
    BY <1>2, ProjectKindFacts DEF RowKind
  <2> QED BY <2>1 DEF Grows, Made
<1>4. Made(T, L) /\ \A r : r.kind = "user" => (r \in T <=> r \in S)
  <2> HIDE DEF S
  <2>1. /\ Grows(S, T, L)
        /\ \A q \in T : q.kind # "token" => q \in S
        /\ \A r \in S : r.kind # "token" => r \in T
    BY <1>3, ProjectKindFacts DEF RowKind
  <2> QED BY <2>1 DEF Grows, Made
<1>5. \A r : r.kind = "user" => (r \in Q <=> r \in T)
  <2> HIDE DEF T
  <2>1. /\ \A q \in Q : q.kind # "sub" => q \in T
        /\ \A r \in T : r.kind # "sub" => r \in Q
    BY <1>4, ProjectSubsFacts
  <2> QED BY <2>1
<1> HIDE DEF Q, T, S
<1>6. \A r : r.kind = "user" => (r \in Q <=> r \in U)
  BY <1>3, <1>4, <1>5
<1>7. ASSUME Bootstraps(new) = {} PROVE U = R
  BY <1>7 DEF ProjectUsers
<1>8. ASSUME Bootstraps(new) # {}, Conflict(L), NEW q \in U, q.kind = "user" PROVE ~ q.live
  <2> DEFINE over(r) == IF r.kind = "user" THEN [r EXCEPT !.live = FALSE] ELSE r
  <2>1. U = {over(r) : r \in R}
    BY <1>8 DEF ProjectUsers
  <2>2. PICK r \in R : q = over(r)
    BY <2>1
  <2>3. r \in Row
    BY DEF Made
  <2>4. r.kind = "user"
    BY <1>8, <2>2
  <2>5. q = [r EXCEPT !.live = FALSE]
    BY <2>2, <2>4
  <2> QED BY <2>3, <2>5 DEF Row
<1>9. ASSUME Bootstraps(new) # {}, ~ Conflict(L)
      PROVE  /\ \E q \in U : q.kind = "user"
             /\ (\A r \in R : r.kind = "user" => r.live) => \A q \in U : q.kind = "user" => q.live
  <2> DEFINE N == {NewUser(e.user, e.id) : e \in Bootstraps(new)}
  <2>1. U = Over(R, N)
    BY <1>9 DEF ProjectUsers
  <2>2. \A x \in N : x.kind = "user" /\ x.live
    BY DEF NewUser
  <2>3. N # {}
    BY <1>9
  <2> HIDE DEF N
  <2>4. N \subseteq U /\ \A q \in U : q \in N \/ q \in R
    BY <2>1 DEF Over
  <2> QED BY <2>2, <2>3, <2>4
<1> HIDE DEF U
<1>10. ASSUME Bootstraps(new) = {} PROVE \A r : r.kind = "user" => (r \in Q <=> r \in R)
  BY <1>6, <1>7, <1>10
<1>11. ASSUME Bootstraps(new) # {}, Conflict(L) PROVE \A q \in Q : q.kind = "user" => ~ q.live
  BY <1>6, <1>8, <1>11
<1>12. ASSUME Bootstraps(new) # {}, ~ Conflict(L)
       PROVE  /\ \E q \in Q : q.kind = "user"
              /\ (\A r \in R : r.kind = "user" => r.live) => \A q \in Q : q.kind = "user" => q.live
  BY <1>6, <1>9, <1>12
<1> QED BY <1>1, <1>10, <1>11, <1>12
-----------------------------------------------------------------------------
(* Pages, and what rows tell *)

(* A row that a history accounts for. *)
Told(L, r) ==
  /\ Fixed(r)
  /\ NewestHash(L, r)
  /\ ~ r.live => Ending(L, r)

(* The row that a history asks for. *)
LEMMA RowOfTold ==
  ASSUME NEW L, History(L), IsFiniteSet(L), \A f \in L : Fixed(f), NEW e \in L
  PROVE  Told(L, RowOf(L, e.kind, e.id))
<1> DEFINE E == Events(L, e.kind, e.id)
           top == Newest(E)
           r == RowOf(L, e.kind, e.id)
<1>1. top \in E
  BY NewestExists
<1>2. r = [kind |-> e.kind, id |-> e.id, user |-> top.user, session |-> top.session,
           live |-> \A x \in E : ~ x.dead, hash |-> top.hash]
  BY DEF RowOf
<1>3. \A x \in E : x \in L /\ x.kind = e.kind /\ x.id = e.id
  BY DEF Events
<1> HIDE DEF r, top
<1>4. Fixed(r)
  BY <1>1, <1>2, <1>3 DEF Fixed
<1>5. NewestHash(L, r)
  BY <1>2 DEF NewestHash, top
<1>6. ~ r.live => Ending(L, r)
  BY <1>2, <1>3 DEF Ending, Same
<1> QED BY <1>4, <1>5, <1>6 DEF Told, r

(* Sessions, and tokens. *)
LEMMA KindTold ==
  ASSUME NEW L, History(L), IsFiniteSet(L), \A f \in L : Fixed(f), NEW new \in SUBSET L,
         NEW R, NEW kind \in RowKind
  PROVE  \A q \in ProjectKind(R, L, new, kind) :
            \/ q.kind = kind /\ Told(L, q)
            \/ /\ q \in R
               /\ \A e \in new : Same(e, q) /\ e.kind = kind => ~ HasUser(R, e.user)
<1> DEFINE D == {f \in Due(L, new, kind) : HasUser(R, f.user)}
           S == {RowOf(L, kind, e.id) : e \in D}
           Q == ProjectKind(R, L, new, kind)
<1>1. Q = Over(R, S)
  BY DEF ProjectKind
<1>2. \A e \in D : e \in L /\ e.kind = kind
  BY DEF Due
<1>3. \A e \in new : e.kind = kind /\ HasUser(R, e.user) => e \in D
  BY DEF Due
<1>4. \A e \in D : RowOf(L, kind, e.id).kind = kind /\ Told(L, RowOf(L, kind, e.id))
                   /\ Same(e, RowOf(L, kind, e.id)) /\ RowOf(L, kind, e.id) \in S
  <2> SUFFICES ASSUME NEW e \in D
               PROVE  RowOf(L, kind, e.id).kind = kind /\ Told(L, RowOf(L, kind, e.id))
                      /\ Same(e, RowOf(L, kind, e.id)) /\ RowOf(L, kind, e.id) \in S
    OBVIOUS
  <2>1. e \in L /\ e.kind = kind
    BY <1>2
  <2>2. Told(L, RowOf(L, kind, e.id)) /\ Kin(RowOf(L, kind, e.id), e)
    BY <2>1, RowOfTold, RowOfFacts
  <2> QED BY <2>1, <2>2 DEF Kin, Same
<1>5. \A s \in S : \E e \in D : s = RowOf(L, kind, e.id)
  OBVIOUS
<1> HIDE DEF D, S
<1>6. \A s \in S : s.kind = kind /\ Told(L, s)
  BY <1>4, <1>5
<1>7. ASSUME NEW q \in Q, q \notin S
      PROVE  /\ q \in R
             /\ \A e \in new : Same(e, q) /\ e.kind = kind => ~ HasUser(R, e.user)
  <2>1. q \in R /\ ~ \E s \in S : Same(q, s)
    BY <1>1, <1>7 DEF Over
  <2>2. ASSUME NEW e \in new, Same(e, q), e.kind = kind, HasUser(R, e.user) PROVE FALSE
    <3>1. Same(e, RowOf(L, kind, e.id)) /\ RowOf(L, kind, e.id) \in S
      BY <1>3, <1>4, <2>2
    <3> QED BY <2>1, <2>2, <3>1 DEF Same
  <2> QED BY <2>1, <2>2
<1> QED BY <1>6, <1>7 DEF Q

(* Subscriptions, which end with their session. *)
LEMMA SubsTold ==
  ASSUME NEW L, History(L), IsFiniteSet(L), \A f \in L : Fixed(f), NEW new \in SUBSET L,
         NEW R, \A s \in R : s.kind = "session" /\ ~ s.live => Ending(L, s)
  PROVE  \A q \in ProjectSubs(R, L, new) : q \in R \/ (q.kind = "sub" /\ Told(L, q))
<1> DEFINE due == {e \in L : e.kind = "sub" /\
                     \/ e \in Due(L, new, "sub")
                     \/ \E f \in Due(L, new, "session") : f.id = e.session /\ HasUser(R, f.user)}
           D == {e \in due : \E s \in R : s.kind = "session" /\ s.id = e.session
                                           /\ s.user = e.user}
           ended(e) == \E s \in R : s.kind = "session" /\ s.id = e.session /\ ~ s.live
           row(e) == LET r == RowOf(L, "sub", e.id)
                     IN  [r EXCEPT !.live = @ /\ ~ ended(e)]
           S == {row(e) : e \in D}
           Q == ProjectSubs(R, L, new)
<1>1. Q = Over(R, S)
  BY DEF ProjectSubs
<1>2. \A e \in D : e \in L /\ e.kind = "sub"
  OBVIOUS
<1> HIDE DEF D
<1>3. ASSUME NEW e \in D PROVE row(e).kind = "sub" /\ Told(L, row(e))
  <2> DEFINE r == RowOf(L, "sub", e.id)
  <2>1. e \in L /\ e.kind = "sub"
    BY <1>2
  <2>2. r \in Row /\ Kin(r, e) /\ Told(L, r)
    BY <2>1, RowOfFacts, RowOfTold
  <2>3. row(e) = [r EXCEPT !.live = @ /\ ~ ended(e)]
    OBVIOUS
  <2> DEFINE x == row(e)
  <2>4. ended(e) => \E f \in L : f.dead /\ f.kind = "session" /\ f.id = e.session
    <3> SUFFICES ASSUME NEW s \in R, s.kind = "session", s.id = e.session, ~ s.live
                 PROVE  \E f \in L : f.dead /\ f.kind = "session" /\ f.id = e.session
      OBVIOUS
    <3>1. Ending(L, s)
      OBVIOUS
    <3> QED BY <3>1 DEF Ending, Same
  <2>5. ended(e) \in BOOLEAN
    OBVIOUS
  <2> HIDE DEF row, ended, r
  <2>6. /\ x.kind = r.kind /\ x.id = r.id /\ x.session = r.session /\ x.hash = r.hash
        /\ x.live <=> (r.live /\ ~ ended(e))
    BY <2>2, <2>3 DEF Row
  <2> HIDE DEF x
  <2>7. x.kind = "sub" /\ x.session = e.session
    BY <2>1, <2>2, <2>6 DEF Kin, Same
  <2>8. Fixed(x) /\ NewestHash(L, x)
    BY <2>2, <2>6, <2>7 DEF Told, Fixed, NewestHash
  <2>9. ASSUME ~ x.live PROVE Ending(L, x)
    <3>1. CASE ended(e)
      BY <2>4, <2>7, <3>1 DEF Ending
    <3>2. CASE ~ ended(e)
      <4>1. Ending(L, r)
        BY <2>2, <2>6, <2>9, <3>2 DEF Told
      <4> QED BY <2>6, <4>1 DEF Ending, Same
    <3> QED BY <3>1, <3>2
  <2> QED BY <2>7, <2>8, <2>9 DEF Told, x
<1>4. \A s \in S : \E e \in D : s = row(e)
  OBVIOUS
<1> HIDE DEF S, row
<1>5. \A q \in Q : q \in S \/ q \in R
  BY <1>1 DEF Over
<1> QED BY <1>3, <1>4, <1>5 DEF Q

(* A page keeps a table accounted for. *)
LEMMA PageTells ==
  ASSUME NEW L, History(L), IsFiniteSet(L), \A f \in L : Fixed(f), NEW new \in SUBSET L,
         NEW R, Made(R, L), \A r \in R : Hangs(R, r), \A r \in R : Fixed(r),
         \A r \in R : r.kind # "user" /\ ~ r.live => Ending(L, r)
  PROVE  LET Q == Project(R, L, new) IN
         /\ \A q \in Q : Fixed(q)
         /\ \A q \in Q : q.kind # "user" /\ ~ q.live => Ending(L, q)
         /\ \A q \in Q : q.kind = "session" =>
               NewestHash(L, q) \/ (q \in R /\ \A e \in new : ~ Same(e, q))
<1> DEFINE U == ProjectUsers(R, L, new)
           S == ProjectKind(U, L, new, "session")
           T == ProjectKind(S, L, new, "token")
           Q == ProjectSubs(T, L, new)
           Fine(X) == \A q \in X : q.kind # "user" => Fixed(q) /\ (~ q.live => Ending(L, q))
<1>1. Q = Project(R, L, new)
  BY DEF Project
<1>2. Grows(R, U, L) /\ \A q \in U : q.kind # "user" => q \in R
  BY ProjectUsersFacts
<1> HIDE DEF U
<1>3. Fine(U)
  BY <1>2
<1>4. \A q \in S : \/ q.kind = "session" /\ Told(L, q)
                   \/ /\ q \in U
                      /\ \A e \in new : Same(e, q) /\ e.kind = "session" => ~ HasUser(U, e.user)
  BY KindTold DEF RowKind
<1> HIDE DEF S
<1>5. Fine(S)
  BY <1>3, <1>4 DEF Told
<1>6. \A q \in T : q \in S \/ (q.kind = "token" /\ Told(L, q))
  BY KindTold DEF RowKind
<1> HIDE DEF T
<1>7. Fine(T)
  BY <1>5, <1>6 DEF Told
<1>8. \A s \in T : s.kind = "session" /\ ~ s.live => Ending(L, s)
  BY <1>7
<1>9. \A q \in Q : q \in T \/ (q.kind = "sub" /\ Told(L, q))
  BY <1>8, SubsTold
<1> HIDE DEF Q
<1>10. Fine(Q)
  BY <1>7, <1>9 DEF Told
<1>11. ASSUME NEW q \in Q, q.kind = "session"
       PROVE  NewestHash(L, q) \/ (q \in R /\ \A e \in new : ~ Same(e, q))
  <2>1. q \in S
    BY <1>6, <1>9, <1>11
  <2>2. CASE Told(L, q)
    BY <2>2 DEF Told
  <2>3. CASE /\ q \in U
             /\ \A e \in new : Same(e, q) /\ e.kind = "session" => ~ HasUser(U, e.user)
    <3>1. q \in R
      BY <1>2, <1>11, <2>3
    <3>2. \A e \in new : Same(e, q) => ~ HasUser(U, e.user)
      BY <1>11, <2>3 DEF Same
    <3> QED BY <1>2, <1>11, <3>1, <3>2, NotAsked
  <2> QED BY <1>4, <2>1, <2>2, <2>3
<1>12. \A q \in Q : Fixed(q)
  BY <1>10 DEF Fixed
<1> QED BY <1>1, <1>10, <1>11, <1>12

(* A page leaves true what rows tell. *)
LEMMA LearnKeepsAccess ==
  ASSUME IndInv, AccessInv, NEW n \in Node, NEW p \in Node, Learn(n, p)
  PROVE  /\ AccessInv'
         /\ ConflictStopsLogins => ConflictStopsLogins'
         /\ OneBootstrap => OneBootstrap'
<1>1. PICK E \in SUBSET log[p] :
        /\ log' = [log EXCEPT ![n] = @ \cup E]
        /\ rows' = [rows EXCEPT ![n] = Project(@, log[n] \cup E, E)]
        /\ UNCHANGED handler
  BY DEF Learn
<1> DEFINE R == rows[n]
           L == log[n] \cup E
           Q == Project(R, L, E)
<1>2. LogInv /\ LogInv' /\ Everything' = Everything
  BY <1>1, LearnKeepsLog DEF IndInv
<1>3. log'[n] = L /\ \A m \in Node \ {n} : log'[m] = log[m]
  BY <1>1, <1>2 DEF LogInv
<1>4. rows'[n] = Q /\ \A m \in Node \ {n} : rows'[m] = rows[m]
  BY <1>1 DEF IndInv, RowInv
<1>5. L \subseteq Everything /\ log[n] \subseteq L
  BY DEF Everything
<1>6. History(L) /\ IsFiniteSet(L)
  <2> HIDE DEF L
  <2> QED BY <1>2, <1>3, <1>5 DEF LogInv, History
<1>7. Made(R, L) /\ \A r \in R : Hangs(R, r)
  <2>1. Table(R, log[n])
    BY DEF IndInv, RowInv
  <2> QED BY <2>1 DEF Table, Made
<1>8. E \in SUBSET L /\ \A e \in L : e \in log[n] \/ e \in E
  OBVIOUS
<1> HIDE DEF L
<1>9. \A f \in L : Fixed(f)
  BY <1>5 DEF AccessInv, HashesFixed
<1>10. /\ \A r \in R : Fixed(r)
       /\ \A r \in R : r.kind # "user" /\ ~ r.live => Ending(L, r)
  BY <1>5 DEF AccessInv, HashesFixed, EndsTold, Ending
<1> HIDE DEF R
<1>11. /\ \A q \in Q : Fixed(q)
       /\ \A q \in Q : q.kind # "user" /\ ~ q.live => Ending(L, q)
       /\ \A q \in Q : q.kind = "session" =>
             NewestHash(L, q) \/ (q \in R /\ \A e \in E : ~ Same(e, q))
  BY <1>6, <1>7, <1>8, <1>9, <1>10, PageTells
<1>12. /\ Bootstraps(E) = {} => \A r : r.kind = "user" => (r \in Q <=> r \in R)
       /\ Bootstraps(E) # {} /\ Conflict(L) => \A q \in Q : q.kind = "user" => ~ q.live
       /\ Bootstraps(E) # {} /\ ~ Conflict(L) => \E q \in Q : q.kind = "user"
       /\ Bootstraps(E) # {} /\ ~ Conflict(L) /\ (\A r \in R : r.kind = "user" => r.live)
             => \A q \in Q : q.kind = "user" => q.live
  BY <1>6, <1>7, <1>8, PageShows
<1> HIDE DEF Q
<1>13. Bootstraps(E) = {} => Bootstraps(L) = Bootstraps(log[n])
  BY <1>5, <1>8 DEF Bootstraps
<1>14. UsersShown'
  <2> SUFFICES ASSUME NEW m \in Node, ~ Conflict(log'[m])
               PROVE  /\ Bootstraps(log'[m]) # {} => \E r \in rows'[m] : r.kind = "user"
                      /\ \A r \in rows'[m] : r.kind = "user" => r.live
    BY DEF UsersShown
  <2>1. CASE m = n
    <3>1. ~ Conflict(L)
      BY <1>3, <2>1
    <3>2. ~ Conflict(log[n])
      BY <1>5, <1>6, <3>1, ConflictStays
    <3>3. /\ Bootstraps(log[n]) # {} => \E r \in R : r.kind = "user"
          /\ \A r \in R : r.kind = "user" => r.live
      BY <3>2 DEF AccessInv, UsersShown, R
    <3> QED BY <1>3, <1>4, <1>12, <1>13, <2>1, <3>1, <3>3
  <2>2. CASE m # n
    <3>1. log'[m] = log[m] /\ rows'[m] = rows[m]
      BY <1>3, <1>4, <2>2
    <3> QED BY <3>1 DEF AccessInv, UsersShown
  <2> QED BY <2>1, <2>2
<1>15. EndsTold'
  <2> SUFFICES ASSUME NEW m \in Node, NEW r \in rows'[m], r.kind # "user", ~ r.live
               PROVE  Ending(log'[m], r)
    BY DEF EndsTold
  <2>1. CASE m = n
    BY <1>3, <1>4, <1>11, <2>1
  <2>2. CASE m # n
    <3>1. log'[m] = log[m] /\ rows'[m] = rows[m]
      BY <1>3, <1>4, <2>2
    <3> QED BY <3>1 DEF AccessInv, EndsTold
  <2> QED BY <2>1, <2>2
<1>16. Instants'
  BY <1>2 DEF AccessInv, Instants
<1>17. HashesNewest'
  <2> SUFFICES ASSUME NEW m \in Node, NEW r \in rows'[m] PROVE NewestHash(log'[m], r)
    BY DEF HashesNewest, NewestHash
  <2>1. CASE m = n
    <3>1. r \in Q
      BY <1>4, <2>1
    <3>2. CASE r.kind # "session"
      BY <3>2 DEF NewestHash
    <3>3. CASE NewestHash(L, r)
      BY <1>3, <2>1, <3>3
    <3>4. CASE r.kind = "session" /\ r \in R /\ \A e \in E : ~ Same(e, r)
      <4>1. Events(L, "session", r.id) = Events(log[n], "session", r.id)
        BY <1>5, <1>8, <3>4 DEF Events, Same
      <4>2. NewestHash(log[n], r)
        BY <3>4 DEF AccessInv, HashesNewest, R
      <4> QED BY <1>3, <2>1, <4>1, <4>2 DEF NewestHash
    <3> QED BY <1>11, <3>1, <3>2, <3>3, <3>4
  <2>2. CASE m # n
    <3>1. log'[m] = log[m] /\ rows'[m] = rows[m]
      BY <1>3, <1>4, <2>2
    <3> QED BY <3>1 DEF AccessInv, HashesNewest
  <2> QED BY <2>1, <2>2
<1>18. HashesFixed'
  <2>1. \A m \in Node : \A r \in rows'[m] : Fixed(r)
    BY <1>4, <1>11 DEF AccessInv, HashesFixed
  <2> QED BY <1>1, <1>2, <2>1 DEF AccessInv, HashesFixed, Fixed
<1>19. ASSUME ConflictStopsLogins PROVE ConflictStopsLogins'
  <2> SUFFICES ASSUME NEW m \in Node, Conflict(log'[m]), NEW r \in rows'[m], r.kind = "user"
               PROVE  ~ r.live
    BY DEF ConflictStopsLogins, Live
  <2>1. CASE m = n
    <3>1. Conflict(L) /\ r \in Q
      BY <1>3, <1>4, <2>1
    <3>2. CASE Bootstraps(E) # {}
      BY <1>12, <3>1, <3>2
    <3>3. CASE Bootstraps(E) = {}
      <4>1. Conflict(log[n]) /\ r \in R
        BY <1>12, <1>13, <3>1, <3>3 DEF Conflict
      <4> QED BY <1>19, <4>1 DEF ConflictStopsLogins, Live, R
    <3> QED BY <3>2, <3>3
  <2>2. CASE m # n
    <3>1. log'[m] = log[m] /\ rows'[m] = rows[m]
      BY <1>3, <1>4, <2>2
    <3> QED BY <1>19, <3>1 DEF ConflictStopsLogins, Live
  <2> QED BY <2>1, <2>2
<1>20. OneBootstrap => OneBootstrap'
  BY <1>2 DEF OneBootstrap
<1> QED BY <1>14, <1>15, <1>16, <1>17, <1>18, <1>19, <1>20 DEF AccessInv
-----------------------------------------------------------------------------
(* Conflicts and equal histories *)

(* An endpoint loads rows with what they hold. *)
LEMMA LoadKeepsFixed ==
  ASSUME IndInv, HashesFixed, NEW n \in Node, NEW t \in Thread, NEW call \in Calls[n],
         Load(n, t, call)
  PROVE  HashesFixed'
<1>1. UNCHANGED <<log, rows>>
  BY DEF Load
<1>2. PICK r \in rows[n] : handler' = [handler EXCEPT ![n][t] =
         [call |-> call, seen |-> r, owned |-> UserLive(rows[n], r.user),
          subs |-> {s \in Live(rows[n], "sub") : s.user = r.user}]]
  <2>1. call \in Call
    BY IdentityAssumption
  <2>2. LoadedBy(n)[call] \subseteq rows[n]
    BY <2>1 DEF LoadedBy, Live, Call
  <2> QED BY <2>2 DEF Load
<1> DEFINE h == [call |-> call, seen |-> r, owned |-> UserLive(rows[n], r.user),
                 subs |-> {s \in Live(rows[n], "sub") : s.user = r.user}]
<1>3. h.seen = r /\ \A s \in h.subs : s \in rows[n]
  BY DEF Live
<1> HIDE DEF h
<1>4. \A m \in Node, u \in Thread : handler'[m][u] = IF m = n /\ u = t THEN h ELSE handler[m][u]
  BY <1>2 DEF IndInv, RowInv, h
<1>5. \A m \in Node, u \in Thread : handler'[m][u] # Idle =>
        Fixed(handler'[m][u].seen) /\ \A s \in handler'[m][u].subs : Fixed(s)
  <2> SUFFICES ASSUME NEW m \in Node, NEW u \in Thread, handler'[m][u] # Idle
               PROVE  Fixed(handler'[m][u].seen) /\ \A s \in handler'[m][u].subs : Fixed(s)
    OBVIOUS
  <2>1. CASE m = n /\ u = t
    BY <1>3, <1>4, <2>1 DEF HashesFixed
  <2>2. CASE ~ (m = n /\ u = t)
    <3>1. handler'[m][u] = handler[m][u]
      BY <1>4, <2>2
    <3> QED BY <3>1 DEF HashesFixed
  <2> QED BY <2>1, <2>2
<1>6. Everything' = Everything
  BY <1>1 DEF Everything
<1> QED BY <1>1, <1>5, <1>6 DEF HashesFixed, Fixed

(* A transaction of an endpoint, but for a bootstrap. *)
LEMMA WritesKeepAccess ==
  ASSUME IndInv, IndInv', AccessInv, NEW n \in Node, NEW t \in Thread,
         \E New, R : Writes(n, New, R) /\ UsersAlone(n, New, R),
         handler' = handler \/ handler' = [handler EXCEPT ![n][t] = Idle]
  PROVE  /\ AccessInv'
         /\ ConflictStopsLogins => ConflictStopsLogins'
         /\ OneBootstrap => OneBootstrap'
<1>1. PICK New, R : Writes(n, New, R) /\ UsersAlone(n, New, R)
  OBVIOUS
<1>2. EndsTold' /\ HashesNewest'
  BY <1>1, WritesTell
<1>3. Instants'
  BY <1>1, WritesInstants DEF AccessInv, IndInv
<1>4. HashesFixed'
  BY <1>1, WritesFixed DEF AccessInv
<1>5. /\ UsersShown => UsersShown'
      /\ ConflictStopsLogins => ConflictStopsLogins'
      /\ OneBootstrap => OneBootstrap'
  BY <1>1, UsersAloneKeep
<1> QED BY <1>2, <1>3, <1>4, <1>5 DEF AccessInv

(* Every action keeps true what rows tell; logins stay stopped where every  *)
(* node at odds has a user.                                                 *)
LEMMA StepKeepsAccess ==
  IndInv /\ WaitInv /\ AccessInv /\ [Next]_vars =>
     /\ AccessInv'
     /\ ConflictMet /\ ConflictStopsLogins => ConflictStopsLogins'
     /\ OneBootstrap => OneBootstrap'
<1> SUFFICES ASSUME IndInv, WaitInv, AccessInv, [Next]_vars
             PROVE  /\ AccessInv'
                    /\ ConflictMet /\ ConflictStopsLogins => ConflictStopsLogins'
                    /\ OneBootstrap => OneBootstrap'
  OBVIOUS
<1> DEFINE Goal == /\ AccessInv'
                   /\ ConflictMet /\ ConflictStopsLogins => ConflictStopsLogins'
                   /\ OneBootstrap => OneBootstrap'
<1> SUFFICES Goal
  OBVIOUS
<1>1. IndInv' /\ HashesFixed
  BY StepPreservesIndInv DEF AccessInv
<1>2. ASSUME UNCHANGED <<log, rows>>, HashesFixed' PROVE Goal
  <2>1. Everything' = Everything
    BY <1>2 DEF Everything
  <2>2. UsersShown' /\ EndsTold' /\ Instants' /\ HashesNewest'
    BY <1>2, <2>1 DEF AccessInv, UsersShown, EndsTold, Instants, HashesNewest, NewestHash
  <2>3. ConflictStopsLogins => ConflictStopsLogins'
    BY <1>2 DEF ConflictStopsLogins
  <2>4. OneBootstrap => OneBootstrap'
    BY <2>1 DEF OneBootstrap
  <2> QED BY <1>2, <2>2, <2>3, <2>4 DEF AccessInv
<1> HIDE DEF Goal
<1>3. ASSUME NEW n \in Node, NEW t \in Thread, Done(n, t),
             \E New, R : Writes(n, New, R) /\ UsersAlone(n, New, R)
      PROVE  Goal
  BY <1>1, <1>3, WritesKeepAccess DEF Done, Goal
<1>4. CASE UNCHANGED vars
  <2>1. UNCHANGED <<log, rows, handler>> /\ Everything' = Everything
    BY <1>4 DEF vars, Everything
  <2>2. HashesFixed'
    BY <1>1, <2>1 DEF HashesFixed, Fixed
  <2> QED BY <1>2, <2>1, <2>2
<1>5. ASSUME NEW n \in Node, Bootstrap(n) PROVE Goal
  <2>1. PICK New, R : Writes(n, New, R)
    BY <1>1, <1>5, BootstrapWrites
  <2>2. EndsTold' /\ HashesNewest'
    BY <1>1, <2>1, WritesTell
  <2>3. Instants'
    BY <1>1, <2>1, WritesInstants DEF AccessInv, IndInv
  <2>4. HashesFixed'
    BY <1>1, <1>5, <2>1, WritesFixed DEF Bootstrap
  <2>5. /\ UsersShown'
        /\ ConflictMet /\ ConflictStopsLogins => ConflictStopsLogins'
        /\ UsersRooted /\ OneBootstrap => OneBootstrap'
    BY <1>1, <1>5, BootstrapKeeps DEF AccessInv
  <2> QED BY <2>2, <2>3, <2>4, <2>5 DEF AccessInv, WaitInv, Goal
<1>6. ASSUME NEW n \in Node, NEW t \in Thread, NEW call \in Calls[n], Load(n, t, call)
      PROVE  Goal
  <2>1. HashesFixed'
    BY <1>1, <1>6, LoadKeepsFixed
  <2> QED BY <1>2, <1>6, <2>1 DEF Load
<1>7. ASSUME NEW n \in Node, NEW t \in Thread, LogIn(n, t) \/ IssueToken(n, t) PROVE Goal
  <2>1. Done(n, t)
    BY <1>7 DEF LogIn, IssueToken, AddRow
  <2> QED BY <1>1, <1>3, <1>7, <2>1, AddRowWrites
<1>8. ASSUME NEW n \in Node, NEW t \in Thread, Rotate(n, t) PROVE Goal
  <2>1. Done(n, t)
    BY <1>8 DEF Rotate
  <2> QED BY <1>1, <1>3, <1>8, <2>1, RotateWrites
<1>9. ASSUME NEW n \in Node, NEW t \in Thread, Logout(n, t) \/ RefuseRefresh(n, t) PROVE Goal
  <2>1. Done(n, t)
    BY <1>9 DEF Logout, RefuseRefresh, RevokeSession
  <2> QED BY <1>1, <1>3, <1>9, <2>1, RevokeSessionWrites
<1>10. ASSUME NEW n \in Node, NEW t \in Thread, CommitSubscribe(n, t) PROVE Goal
  <2>1. Done(n, t)
    BY <1>10 DEF CommitSubscribe
  <2> QED BY <1>1, <1>3, <1>10, <2>1, SubscribeWrites
<1>11. ASSUME NEW n \in Node, NEW t \in Thread, RevokeToken(n, t) \/ Unsubscribe(n, t) PROVE Goal
  <2>1. Done(n, t)
    BY <1>11 DEF RevokeToken, Unsubscribe, EndRow
  <2> QED BY <1>1, <1>3, <1>11, <2>1, EndRowWrites
<1>12. ASSUME NEW n \in Node, NEW t \in Thread, Abort(n, t) PROVE Goal
  <2>1. UNCHANGED <<log, rows>> /\ handler' = [handler EXCEPT ![n][t] = Idle]
    BY <1>12 DEF Abort, Done
  <2>2. Everything' = Everything
    BY <2>1 DEF Everything
  <2>3. \A m \in Node, u \in Thread : handler'[m][u] \in {Idle, handler[m][u]}
    BY <2>1 DEF IndInv, RowInv
  <2>4. HashesFixed'
    BY <1>1, <2>1, <2>2, <2>3 DEF HashesFixed, Fixed
  <2> QED BY <1>2, <2>1, <2>4
<1>13. ASSUME NEW n \in Node, Sweep(n) PROVE Goal
  <2>1. PICK New, R : Writes(n, New, R) /\ UsersAlone(n, New, R)
    BY <1>1, <1>13, SweepWrites
  <2>2. handler' = handler
    BY <1>13 DEF Sweep
  <2>3. EndsTold' /\ HashesNewest'
    BY <1>1, <2>1, WritesTell
  <2>4. Instants'
    BY <1>1, <2>1, WritesInstants DEF AccessInv, IndInv
  <2>5. HashesFixed'
    BY <1>1, <2>1, <2>2, WritesFixed
  <2>6. /\ UsersShown => UsersShown'
        /\ ConflictStopsLogins => ConflictStopsLogins'
        /\ OneBootstrap => OneBootstrap'
    BY <2>1, UsersAloneKeep
  <2> QED BY <2>3, <2>4, <2>5, <2>6 DEF AccessInv, Goal
<1>14. ASSUME NEW n \in Node, NEW p \in Node \ {n}, Learn(n, p) PROVE Goal
  BY <1>14, LearnKeepsAccess DEF Goal
<1> QED
  BY <1>4, <1>5, <1>6, <1>7, <1>8, <1>9, <1>10, <1>11, <1>12, <1>13, <1>14 DEF Next

(* The rows of a live user. *)
Granted(n) == {r \in rows[n] : r.kind # "user" /\ r.live /\ UserLive(rows[n], r.user)}

(* What is granted to an only user on one node is granted, with the same    *)
(* hash, on a node with the same history: a session or token whenever, a    *)
(* subscription when its session is.                                        *)
LEMMA GrantedAlike ==
  ASSUME IndInv, WaitInv, AccessInv, NEW n \in Node, NEW m \in Node,
         log[n] = log[m], ~ Conflict(log[n]), NEW r \in Granted(n),
         r.kind = "sub" =>
            /\ \E s \in Granted(n) : s.kind = "session" /\ s.id = r.session
            /\ \E s \in rows[m] : s.kind = "session" /\ s.id = r.session
  PROVE  r \in Granted(m)
<1> DEFINE L == log[n]
<1>1. /\ r \in rows[n] /\ r.kind # "user" /\ r.live /\ UserLive(rows[n], r.user)
      /\ r \in Row
  BY DEF Granted, IndInv, RowInv
<1>2. /\ L = log[m] /\ IsFiniteSet(L) /\ L \subseteq Everything
      /\ \A e, f \in L : Same(e, f) => Kin(e, f)
  <2>1. L \subseteq Everything
    BY DEF Everything
  <2> QED BY <2>1 DEF IndInv, LogInv, History
<1>3. /\ \A q \in rows[n] : q \in Row /\ \E e \in L : Kin(q, e)
      /\ \A q \in rows[m] : q \in Row /\ \E e \in L : Kin(q, e)
  BY DEF IndInv, RowInv, Table
<1>4. UserLive(rows[m], r.user)
  <2>1. PICK x \in rows[n] : x.kind = "user" /\ x.user = r.user
    BY <1>1 DEF UserLive, Live
  <2>2. PICK e \in L : Kin(x, e)
    BY <1>3
  <2>3. e.kind = "user" /\ e.user = r.user
    BY <2>1, <2>2 DEF Kin, Same
  <2>4. /\ Bootstraps(log[m]) # {} => \E y \in rows[m] : y.kind = "user"
        /\ \A y \in rows[m] : y.kind = "user" => y.live
    BY DEF AccessInv, UsersShown
  <2>5. PICK y \in rows[m] : y.kind = "user" /\ y.live
    BY <1>2, <2>3, <2>4 DEF Bootstraps
  <2>6. PICK f \in L : Kin(y, f)
    BY <1>3
  <2>7. f.kind = "user" /\ f.user = y.user
    BY <2>5, <2>6 DEF Kin, Same
  <2>8. e = f
    BY <1>2, <2>3, <2>7, OneOrConflict
  <2> QED BY <2>3, <2>5, <2>7, <2>8 DEF UserLive, Live
<1>5. HasUser(rows[m], r.user)
  BY <1>4 DEF UserLive, Live, HasUser
<1>6. PICK e \in L : Kin(r, e)
  BY <1>1, <1>3
<1>7. e.kind = r.kind /\ e.id = r.id /\ e.user = r.user /\ e.session = r.session
  BY <1>6 DEF Kin, Same
<1>8. PICK q \in rows[m] : Same(q, e)
  BY <1>1, <1>2, <1>5, <1>7 DEF WaitInv, NothingLeftWaiting
<1>9. /\ q \in Row /\ q.kind = r.kind /\ q.id = r.id /\ q.user = r.user /\ q.session = r.session
  <2>1. PICK f \in L : Kin(q, f)
    BY <1>3
  <2>2. Same(f, e)
    BY <1>8, <2>1 DEF Kin, Same
  <2>3. Kin(f, e)
    BY <1>2, <2>2
  <2> QED BY <1>3, <1>7, <2>1, <2>3 DEF Kin, Same
<1>10. \A f \in L : f.dead => \A x \in rows[n] : x.live => ~ Same(f, x)
  BY DEF IndInv, KnownEndHolds, Live, Same
<1>11. q.live
  <2> SUFFICES ASSUME ~ q.live PROVE FALSE
    OBVIOUS
  <2>1. PICK f \in L : f.dead /\ (Same(f, q) \/
                         (q.kind = "sub" /\ f.kind = "session" /\ f.id = q.session))
    BY <1>1, <1>2, <1>9 DEF AccessInv, EndsTold, Ending
  <2>2. CASE Same(f, q)
    <3>1. Same(f, r)
      BY <1>9, <2>2 DEF Same
    <3> QED BY <1>1, <1>10, <2>1, <3>1
  <2>3. CASE q.kind = "sub" /\ f.kind = "session" /\ f.id = q.session
    <3>1. PICK s \in rows[n] : s.live /\ s.kind = "session" /\ s.id = r.session
      BY <1>9, <2>3 DEF Granted
    <3>2. Same(f, s)
      BY <1>9, <2>3, <3>1 DEF Same
    <3> QED BY <1>10, <2>1, <3>1, <3>2
  <2> QED BY <2>1, <2>2, <2>3
<1>12. q.hash = r.hash
  <2>1. CASE r.kind = "session"
    <3>1. NewestHash(L, r) /\ NewestHash(L, q)
      BY <1>1, <1>2 DEF AccessInv, HashesNewest
    <3> QED BY <1>1, <1>9, <1>11, <2>1, <3>1 DEF NewestHash
  <2>2. CASE r.kind # "session"
    <3>1. r.kind \in {"token", "sub"}
      BY <1>1, <2>2 DEF Row, RowKind
    <3>2. Fixed(r) /\ Fixed(q)
      BY <1>1 DEF AccessInv, HashesFixed
    <3> QED BY <1>9, <3>1, <3>2 DEF Fixed
  <2> QED BY <2>1, <2>2
<1>13. q = r
  BY <1>1, <1>9, <1>11, <1>12 DEF Row
<1> QED BY <1>1, <1>4, <1>8, <1>13 DEF Granted

(* Nodes with one history open the same doors, unless it is at odds. *)
LEMMA UsableAlike ==
  ASSUME IndInv, WaitInv, AccessInv, NEW n \in Node, NEW m \in Node,
         log[n] = log[m], ~ Conflict(log[n])
  PROVE  Usable(n) \subseteq Usable(m)
<1> SUFFICES ASSUME NEW r \in Usable(n) PROVE r \in Usable(m)
  OBVIOUS
<1>1. \A k \in Node :
        Usable(k) = {x \in Granted(k) : x.kind = "sub" =>
                       \E s \in Granted(k) : s.kind = "session" /\ s.id = x.session}
  BY DEF Usable, Granted
<1>2. r \in Granted(n)
  BY <1>1
<1>3. ASSUME r.kind = "sub"
      PROVE  \E s \in Granted(n) : s \in Granted(m) /\ s.kind = "session" /\ s.id = r.session
  <2>1. PICK s \in Granted(n) : s.kind = "session" /\ s.id = r.session
    BY <1>1, <1>3
  <2>2. s.kind # "sub"
    BY <2>1
  <2>3. s \in Granted(m)
    BY <2>2, GrantedAlike
  <2> QED BY <2>1, <2>3
<1>4. Granted(m) \subseteq rows[m]
  BY DEF Granted
<1>5. r.kind = "sub" =>
         /\ \E s \in Granted(n) : s.kind = "session" /\ s.id = r.session
         /\ \E s \in rows[m] : s.kind = "session" /\ s.id = r.session
  BY <1>3, <1>4
<1>6. r \in Granted(m)
  BY <1>2, <1>5, GrantedAlike
<1> QED BY <1>1, <1>3, <1>6

(* Histories that are not at odds grant the same. *)
SameUnlessConflict ==
  \A n, m \in Node : log[n] = log[m] /\ ~ Conflict(log[n]) => Usable(n) = Usable(m)

LEMMA AccessAlike == IndInv /\ WaitInv /\ AccessInv => SameUnlessConflict
<1> SUFFICES ASSUME IndInv, WaitInv, AccessInv, NEW n \in Node, NEW m \in Node,
                    log[n] = log[m], ~ Conflict(log[n])
             PROVE  Usable(n) = Usable(m)
  BY DEF SameUnlessConflict
<1>1. Usable(n) \subseteq Usable(m)
  BY UsableAlike
<1>2. ~ Conflict(log[m]) /\ log[m] = log[n]
  OBVIOUS
<1>3. Usable(m) \subseteq Usable(n)
  BY <1>2, UsableAlike
<1> QED BY <1>1, <1>3

(* Where logins are stopped no door is open. *)
LEMMA StoppedAlike ==
  SameUnlessConflict /\ ConflictStopsLogins => SameHistorySameAccess
<1> SUFFICES ASSUME SameUnlessConflict, ConflictStopsLogins,
                    NEW n \in Node, NEW m \in Node, log[n] = log[m]
             PROVE  Usable(n) = Usable(m)
  BY DEF SameHistorySameAccess
<1>1. CASE ~ Conflict(log[n])
  BY <1>1 DEF SameUnlessConflict
<1>2. CASE Conflict(log[n])
  <2>1. Live(rows[n], "user") = {} /\ Live(rows[m], "user") = {}
    BY <1>2 DEF ConflictStopsLogins
  <2>2. Usable(n) = {} /\ Usable(m) = {}
    BY <2>1 DEF Usable, UserLive
  <2> QED BY <2>2
<1> QED BY <1>1, <1>2

(* Nodes start with nothing to tell. *)
LEMMA InitEstablishesAccess == Init => WaitInv /\ AccessInv /\ ConflictStopsLogins /\ OneBootstrap
<1> SUFFICES ASSUME Init PROVE WaitInv /\ AccessInv /\ ConflictStopsLogins /\ OneBootstrap
  OBVIOUS
<1>1. /\ Everything = {} /\ \A n \in Node : log[n] = {} /\ rows[n] = {}
      /\ \A n \in Node, t \in Thread : handler[n][t] = Idle
  BY DEF Init, Everything
<1>2. WaitInv
  BY <1>1 DEF WaitInv, UsersRooted, SubsRooted, NothingLeftWaiting
<1>3. AccessInv
  BY <1>1 DEF AccessInv, UsersShown, Bootstraps, EndsTold, Instants, HashesNewest, HashesFixed
<1>4. ConflictStopsLogins /\ OneBootstrap
  BY <1>1 DEF ConflictStopsLogins, Live, OneBootstrap
<1> QED BY <1>2, <1>3, <1>4

(* Two nodes, or one. *)
TwoNodes == \E a, b \in Node : Node = {a, b}

(* One of two bootstraps that a node of a pair knows of is its own, whose   *)
(* user it has.                                                             *)
LEMMA PairMeetsConflict == TwoNodes /\ IndInv /\ WaitInv /\ OneBootstrap => ConflictMet
<1> SUFFICES ASSUME TwoNodes, IndInv, WaitInv, OneBootstrap,
                    NEW n \in Node, Conflict(log[n])
             PROVE  \E r \in rows[n] : r.kind = "user"
  BY DEF ConflictMet
<1>1. IsFiniteSet(log[n]) /\ log[n] \subseteq Everything
  BY DEF IndInv, LogInv, Everything
<1>2. PICK e \in log[n], f \in log[n] : e.kind = "user" /\ f.kind = "user" /\ e # f
  BY <1>1, OneOrConflict
<1>3. e.user # f.user /\ e.user \in Node /\ f.user \in Node
  BY <1>1, <1>2 DEF OneBootstrap, IndInv, LogInv, History, Entry
<1>4. e.user = n \/ f.user = n
  BY <1>3 DEF TwoNodes
<1>5. HasUser(rows[e.user], e.user) /\ HasUser(rows[f.user], f.user)
  BY <1>1 DEF WaitInv, UsersRooted
<1> QED BY <1>4, <1>5 DEF HasUser

(* Nodes that hold the same events grant the same access -- the same live   *)
(* sessions with the same refresh token, the same tokens and the same       *)
(* subscriptions -- in whatever order users and rows came to them and       *)
(* whatever their own endpoints had loaded, unless the history holds two    *)
(* bootstraps: what application/sync.py projects from a history and what    *)
(* the endpoints of auth.py, push.py and service_tokens.py write with their *)
(* events come to the same rows.                                            *)
THEOREM HistoriesGrantAlike == Spec => []SameUnlessConflict
<1> QED
  BY InitEstablishesIndInv, InitEstablishesAccess, StepPreservesIndInv,
     StepLeavesNothingWaiting, StepKeepsAccess, AccessAlike, PTL DEF Spec

(* Two bootstraps stop authentication on every node that has learnt of both,*)
(* as application/sync.py says, provided that a node at odds has some user  *)
(* and bootstraps no other: and then equal histories, at odds or not, grant *)
(* the same access.                                                         *)
THEOREM ConflictsStopLogins ==
  Spec /\ []ConflictMet => [](ConflictStopsLogins /\ SameHistorySameAccess)
<1>1. IndInv /\ WaitInv /\ AccessInv /\ ConflictMet /\ ConflictStopsLogins /\ [Next]_vars
        => ConflictStopsLogins'
  BY StepKeepsAccess
<1>2. IndInv /\ WaitInv /\ AccessInv /\ [Next]_vars => AccessInv'
  BY StepKeepsAccess
<1>3. IndInv /\ WaitInv /\ AccessInv /\ ConflictStopsLogins => SameHistorySameAccess
  BY AccessAlike, StoppedAlike
<1> QED
  BY <1>1, <1>2, <1>3, InitEstablishesIndInv, InitEstablishesAccess, StepPreservesIndInv,
     StepLeavesNothingWaiting, PTL DEF Spec

(* On a pair every node at odds has a user, its own. *)
LEMMA PairsMeetConflicts == TwoNodes => (Spec => []ConflictMet)
<1> SUFFICES ASSUME TwoNodes PROVE Spec => []ConflictMet
  OBVIOUS
<1>1. IndInv /\ WaitInv /\ AccessInv /\ OneBootstrap /\ [Next]_vars => AccessInv' /\ OneBootstrap'
  BY StepKeepsAccess
<1>2. IndInv /\ WaitInv /\ OneBootstrap => ConflictMet
  BY PairMeetsConflict
<1> QED
  BY <1>1, <1>2, InitEstablishesIndInv, InitEstablishesAccess, StepPreservesIndInv,
     StepLeavesNothingWaiting, PTL DEF Spec

(* No user logs in on a node of a pair that knows of both bootstraps:       *)
(* project_user disables the node's own user with the other's.              *)
THEOREM PairsStopLogins == TwoNodes => (Spec => []ConflictStopsLogins)
<1> SUFFICES ASSUME TwoNodes PROVE Spec => []ConflictStopsLogins
  OBVIOUS
<1> QED BY PairsMeetConflicts, ConflictsStopLogins, PTL

(* The nodes of a pair grant the same access whenever they hold the same    *)
(* events, after a conflict none.                                           *)
THEOREM PairsGrantAlike == TwoNodes => (Spec => []SameHistorySameAccess)
<1> SUFFICES ASSUME TwoNodes PROVE Spec => []SameHistorySameAccess
  OBVIOUS
<1> QED BY PairsMeetConflicts, ConflictsStopLogins, PTL
=============================================================================
