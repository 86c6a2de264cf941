-------------------------- MODULE ClusterSyncProofs --------------------------
(***************************************************************************)
(* Proofs about ClusterSync for every cluster, topology, page size, page    *)
(* limit and bound: the invariants LogAgreement, CursorContiguous and       *)
(* OriginGapFree, the action property HistoryMonotone, and the refinement   *)
(* of EventLog; and about NodeRecovery, where a database falls back: the    *)
(* invariants CursorContiguous and UniqueNumbers.                           *)
(***************************************************************************)
EXTENDS NodeRecovery, FiniteSetTheorems, FunctionTheorems,
        WellFoundedInduction, TLAPS

-----------------------------------------------------------------------------
(* Lemmas about numbers and logs *)

(* A nonempty bounded set of naturals has a greatest element. *)
LEMMA GreatestElement ==
  ASSUME NEW S \in SUBSET Nat, S # {}, NEW b \in Nat, \A s \in S : s <= b
  PROVE  \E m \in S : \A s \in S : s <= m
<1> DEFINE T == {b - s : s \in S}
<1>1. T \subseteq Nat /\ T # {}
  <2>1. \A s \in S : b - s \in Nat
    OBVIOUS
  <2>2. PICK s \in S : TRUE
    OBVIOUS
  <2>3. b - s \in T
    BY <2>2
  <2> QED BY <2>1, <2>3
<1>2. PICK x \in T : \A y \in T : ~ (<<y, x>> \in OpToRel(<, Nat))
  <2> HIDE DEF T
  <2> QED BY <1>1, NatLessThanWellFounded, WFMin
<1>3. \A y \in T : ~ (y < x)
  BY <1>1, <1>2 DEF OpToRel
<1>4. PICK m \in S : x = b - m
  OBVIOUS
<1>5. \A s \in S : s <= m
  <2> TAKE s \in S
  <2>1. b - s \in T
    OBVIOUS
  <2>2. ~ (b - s < b - m)
    BY <2>1, <1>3, <1>4
  <2> QED BY <2>2
<1> QED BY <1>5

(* LastSeq is the greatest number of an origin, 0 for an origin not held. *)
LEMMA LastSeqMax ==
  ASSUME NEW L \in SUBSET Event, NEW o, NEW b \in Nat,
         \A e \in L : e.origin = o => e.seq <= b
  PROVE  /\ LastSeq(L, o) \in Nat
         /\ LastSeq(L, o) <= b
         /\ LastSeq(L, o) \in SeqsOf(L, o) \cup {0}
         /\ \A t \in SeqsOf(L, o) : t <= LastSeq(L, o)
<1> DEFINE S == SeqsOf(L, o) \cup {0}
<1>1. S \in SUBSET Nat /\ S # {} /\ \A s \in S : s <= b
  BY DEF SeqsOf, Event
<1>2. \E m \in S : \A s \in S : s <= m
  <2> HIDE DEF S
  <2> QED BY <1>1, GreatestElement
<1>3. \E m \in S : \A t \in SeqsOf(L, o) : t <= m
  BY <1>2
<1>4. /\ LastSeq(L, o) \in S
      /\ \A t \in SeqsOf(L, o) : t <= LastSeq(L, o)
  BY <1>3 DEF LastSeq
<1> QED BY <1>1, <1>4

(* Counting is enough: when as many events lie above c and up to d as there *)
(* are numbers, and no number is used twice, no number is missing.          *)
LEMMA CountedMeansComplete ==
  ASSUME NEW L \in SUBSET Event, IsFiniteSet(L), NEW o,
         \A e, f \in L : (e.origin = f.origin /\ e.seq = f.seq) => e = f,
         NEW c \in Nat, NEW d \in Nat, d > c,
         Cardinality({e \in L : e.origin = o /\ e.seq > c /\ e.seq <= d}) = d - c
  PROVE  \A s \in (c + 1) .. d : Holds(L, o, s)
<1> DEFINE P == {e \in L : e.origin = o /\ e.seq > c /\ e.seq <= d}
           I == (c + 1) .. d
           num == [e \in P |-> e.seq]
<1>1. IsFiniteSet(P)
  BY FS_Subset
<1>2. IsFiniteSet(I) /\ Cardinality(I) = d - c
  BY FS_Interval
<1>3. num \in [P -> I]
  BY DEF Event
<1>4. num \in Injection(P, I)
  <2>1. \A e, f \in P : num[e] = num[f] => e = f
    OBVIOUS
  <2> QED BY <2>1, <1>3 DEF Injection, IsInjective
<1>5. Cardinality(P) = Cardinality(I)
  BY <1>2
<1>6. num \in Surjection(P, I)
  <2> HIDE DEF P, I, num
  <2> QED BY <1>2, <1>4, <1>5, FS_Injection
<1>7. \A s \in I : \E e \in P : num[e] = s
  BY <1>6 DEF Surjection
<1> QED BY <1>7 DEF Holds

(* A page or a pushed event adds nothing to a log but copies: the log keeps *)
(* what it had, stays finite and holds only events of its sources.          *)
LEMMA PersistFacts ==
  ASSUME NEW L \in SUBSET Event, IsFiniteSet(L),
         NEW E \in SUBSET Event, IsFiniteSet(E)
  PROVE  /\ L \subseteq Persist(L, E)
         /\ Persist(L, E) \subseteq L \cup E
         /\ Persist(L, E) \in SUBSET Event
         /\ IsFiniteSet(Persist(L, E))
         /\ \A e \in Persist(L, E) \ L : ~ Holds(L, e.origin, e.seq)
<1>1. Persist(L, E) \subseteq L \cup E
  BY DEF Persist
<1>2. IsFiniteSet(Persist(L, E))
  BY <1>1, FS_Union, FS_Subset
<1> QED BY <1>1, <1>2 DEF Persist

(* The numbers of all events held anywhere are bounded by the quotas. *)
LEMMA NumbersBounded ==
  ASSUME TypeOK, HeldAtOrigin, NumberedByOrigin,
         NEW n \in Node, NEW e \in log[n]
  PROVE  /\ e.origin \in Node
         /\ Quota[e.origin] \in Nat
         /\ e.seq <= Quota[e.origin]
<1>1. e \in Event /\ e.origin \in Node /\ e \in log[e.origin]
  BY DEF TypeOK, HeldAtOrigin, Event
<1>2. PICK k \in 0 .. Quota[e.origin] : SeqsOf(log[e.origin], e.origin) = 1 .. k
  BY <1>1 DEF NumberedByOrigin
<1>3. e.seq \in 1 .. k
  BY <1>1, <1>2 DEF SeqsOf
<1>4. Quota[e.origin] \in Nat
  BY <1>1, SyncAssumption
<1> QED BY <1>1, <1>2, <1>3, <1>4

(* A cursor that advances stays below a complete history. *)
LEMMA AdvanceFacts ==
  ASSUME NEW L \in SUBSET Event, IsFiniteSet(L),
         \A e, f \in L : (e.origin = f.origin /\ e.seq = f.seq) => e = f,
         NEW E \in SUBSET Event,
         \A e \in E : e.seq <= Quota[e.origin],
         NEW c \in [Node -> Nat],
         \A o \in Node : \A s \in 1 .. c[o] : Holds(L, o, s)
  PROVE  /\ Advance(L, c, E) \in [Node -> Nat]
         /\ \A o \in Node : c[o] <= Advance(L, c, E)[o]
         /\ \A o \in Node : \A s \in 1 .. Advance(L, c, E)[o] : Holds(L, o, s)
<1> DEFINE cand(o) == LastSeq(E, o)
           present(o) == {e \in L : e.origin = o /\ e.seq > c[o] /\ e.seq <= cand(o)}
<1>1. ASSUME NEW o \in Node
      PROVE  /\ Advance(L, c, E)[o] \in Nat
             /\ c[o] <= Advance(L, c, E)[o]
             /\ \A s \in 1 .. Advance(L, c, E)[o] : Holds(L, o, s)
  <2>1. cand(o) \in Nat
    <3>1. Quota[o] \in Nat
      BY SyncAssumption
    <3>2. \A e \in E : e.origin = o => e.seq <= Quota[o]
      OBVIOUS
    <3> QED BY <3>1, <3>2, LastSeqMax
  <2>2. Advance(L, c, E)[o] = IF cand(o) > c[o] /\ Cardinality(present(o)) = cand(o) - c[o]
                              THEN cand(o) ELSE c[o]
    BY DEF Advance
  <2>3. c[o] \in Nat
    OBVIOUS
  <2>4. CASE cand(o) > c[o] /\ Cardinality(present(o)) = cand(o) - c[o]
    <3>1. \A s \in (c[o] + 1) .. cand(o) : Holds(L, o, s)
      <4> HIDE DEF cand
      <4> QED BY <2>1, <2>3, <2>4, CountedMeansComplete
    <3>2. \A s \in 1 .. cand(o) : s \in 1 .. c[o] \/ s \in (c[o] + 1) .. cand(o)
      BY <2>1, <2>3
    <3>3. Advance(L, c, E)[o] = cand(o)
      BY <2>2, <2>4
    <3> HIDE DEF cand
    <3> QED BY <2>1, <2>3, <2>4, <3>1, <3>2, <3>3
  <2>5. CASE ~ (cand(o) > c[o] /\ Cardinality(present(o)) = cand(o) - c[o])
    <3>1. Advance(L, c, E)[o] = c[o]
      BY <2>2, <2>5
    <3> QED BY <2>3, <3>1
  <2> QED BY <2>4, <2>5
<1>2. Advance(L, c, E) = [o \in Node |-> Advance(L, c, E)[o]]
  BY DEF Advance
<1> HIDE DEF cand, present
<1> QED BY <1>1, <1>2

-----------------------------------------------------------------------------
(* Steps that change a log *)

(* A row that a log holds is held after the log has grown. *)
LEMMA HoldsMonotone ==
  ASSUME NEW L, NEW M, L \subseteq M, NEW o, NEW s, Holds(L, o, s)
  PROVE  Holds(M, o, s)
BY DEF Holds

(* Learning events of another log keeps the facts about logs: what is new   *)
(* to a log never originates there, because the origin holds it already.    *)
LEMMA LearnPreserves ==
  ASSUME TypeOK, HeldAtOrigin, NumberedByOrigin, UniqueNumbers,
         NEW n \in Node, NEW p \in Node, NEW E \in SUBSET log[p],
         log' = [log EXCEPT ![n] = Persist(@, E)]
  PROVE  /\ log' \in [Node -> SUBSET Event]
         /\ \A m \in Node : IsFiniteSet(log'[m]) /\ log[m] \subseteq log'[m]
         /\ HeldAtOrigin' /\ NumberedByOrigin' /\ UniqueNumbers'
<1> DEFINE L == log[n]
           M == Persist(log[n], E)
<1>1. /\ L \in SUBSET Event /\ IsFiniteSet(L)
      /\ E \in SUBSET Event /\ IsFiniteSet(E)
  BY FS_Subset DEF TypeOK
<1>2. /\ L \subseteq M /\ M \subseteq L \cup E
      /\ M \in SUBSET Event /\ IsFiniteSet(M)
      /\ \A e \in M \ L : ~ Holds(L, e.origin, e.seq)
  BY <1>1, PersistFacts
<1>3. /\ log'[n] = M
      /\ \A m \in Node \ {n} : log'[m] = log[m]
      /\ log' \in [Node -> SUBSET Event]
  BY <1>2 DEF TypeOK
<1>4. \A m \in Node : IsFiniteSet(log'[m]) /\ log[m] \subseteq log'[m]
  BY <1>2, <1>3 DEF TypeOK
<1> HIDE DEF M
<1>5. HeldAtOrigin'
  <2> SUFFICES ASSUME NEW m \in Node, NEW e \in log'[m]
               PROVE  e \in log'[e.origin]
    BY DEF HeldAtOrigin
  <2>1. e \in log[m] \/ e \in log[p]
    BY <1>2, <1>3
  <2>2. e \in log[e.origin] /\ e.origin \in Node
    BY <2>1 DEF HeldAtOrigin, TypeOK, Event
  <2> QED BY <2>2, <1>4
<1>6. NumberedByOrigin'
  <2> SUFFICES ASSUME NEW m \in Node
               PROVE  SeqsOf(log'[m], m) = SeqsOf(log[m], m)
    BY DEF NumberedByOrigin
  <2>1. ASSUME NEW e \in log'[m], e.origin = m
        PROVE  e \in log[m]
    <3>1. e \in log[m] \/ e \in log[p]
      BY <1>2, <1>3
    <3> QED BY <2>1, <3>1 DEF HeldAtOrigin
  <2> QED BY <2>1, <1>4 DEF SeqsOf
<1>7. UniqueNumbers'
  <2> SUFFICES ASSUME NEW m \in Node, NEW e \in log'[m], NEW f \in log'[m],
                      e.origin = f.origin, e.seq = f.seq
               PROVE  e = f
    BY DEF UniqueNumbers
  <2>1. CASE m # n
    BY <2>1, <1>3 DEF UniqueNumbers
  <2>2. CASE m = n
    <3>1. e \in M /\ f \in M
      BY <2>2, <1>3
    <3>2. CASE e \in L /\ f \in L
      BY <3>2 DEF UniqueNumbers
    <3>3. CASE e \in L /\ f \notin L
      BY <3>1, <3>3, <1>2 DEF Holds
    <3>4. CASE e \notin L /\ f \in L
      BY <3>1, <3>4, <1>2 DEF Holds
    <3>5. CASE e \notin L /\ f \notin L
      BY <3>1, <3>5, <1>2 DEF UniqueNumbers
    <3> QED BY <3>2, <3>3, <3>4, <3>5
  <2> QED BY <2>1, <2>2
<1> QED BY <1>3, <1>4, <1>5, <1>6, <1>7

(* The commit of an append: either the number is taken and nothing changes, *)
(* or it is the successor of the last number of the origin.                 *)
LEMMA AppendPreserves ==
  ASSUME IndInv, NEW n \in Node, NEW w \in Writer, CommitAppend(n, w)
  PROVE  /\ log' \in [Node -> SUBSET Event]
         /\ \A m \in Node : IsFiniteSet(log'[m]) /\ log[m] \subseteq log'[m]
         /\ HeldAtOrigin' /\ NumberedByOrigin' /\ UniqueNumbers'
<1> DEFINE s == append[n][w]
           new == [origin |-> n, seq |-> s, run |-> run[n], by |-> w]
<1> USE DEF IndInv
<1>1. CASE Holds(log[n], n, s)
  <2>1. log' = log
    BY <1>1 DEF CommitAppend, TypeOK
  <2> QED BY <2>1 DEF TypeOK, HeldAtOrigin, NumberedByOrigin, UniqueNumbers
<1>2. CASE ~ Holds(log[n], n, s)
  <2>1. s \in Nat \ {0} /\ new \in Event
    BY DEF CommitAppend, TypeOK, Event
  <2>2. log' = [log EXCEPT ![n] = @ \cup {new}]
    BY <1>2 DEF CommitAppend
  <2>3. /\ log'[n] = log[n] \cup {new}
        /\ \A m \in Node \ {n} : log'[m] = log[m]
        /\ log' \in [Node -> SUBSET Event]
    <3>1. log \in [Node -> SUBSET Event]
      BY DEF TypeOK
    <3> HIDE DEF new
    <3> QED BY <2>1, <2>2, <3>1
  <2>4. \A m \in Node : IsFiniteSet(log'[m]) /\ log[m] \subseteq log'[m]
    <3>1. IsFiniteSet(log'[n])
      <4>1. IsFiniteSet(log[n])
        BY DEF TypeOK
      <4> HIDE DEF new
      <4> QED BY <2>3, <4>1, FS_AddElement
    <3> QED BY <2>3, <3>1 DEF TypeOK
  <2>5. HeldAtOrigin'
    <3> SUFFICES ASSUME NEW m \in Node, NEW e \in log'[m]
                 PROVE  e \in log'[e.origin]
      BY DEF HeldAtOrigin
    <3>1. CASE e \in log[m]
      BY <3>1, <2>4 DEF HeldAtOrigin, TypeOK, Event
    <3>2. CASE e \notin log[m]
      BY <3>2, <2>3
    <3> QED BY <3>1, <3>2
  <2>6. NumberedByOrigin'
    <3>1. ASSUME NEW m \in Node, m # n
          PROVE  \E k \in 0 .. Quota[m] : SeqsOf(log'[m], m) = 1 .. k
      BY <2>3, <3>1 DEF NumberedByOrigin
    <3>2. PICK k \in 0 .. Quota[n] : SeqsOf(log[n], n) = 1 .. k
      BY DEF NumberedByOrigin
    <3>3. \A t \in Nat \ {0} : Holds(log[n], n, t) <=> t \in 1 .. k
      BY <3>2 DEF Holds, SeqsOf
    <3>4. s \notin 1 .. k
      BY <1>2, <2>1, <3>3
    <3>5. \A t \in 1 .. s - 1 : Holds(log[n], n, t)
      BY DEF ReadsNext
    <3>6. \A t \in 1 .. s - 1 : t \in 1 .. k
      <4> HIDE DEF s
      <4> QED BY <2>1, <3>3, <3>5
    <3>7. k \in Nat /\ Quota[n] \in Nat /\ s <= Quota[n]
      BY SyncAssumption DEF ReadsNext
    <3>8. s = k + 1
      <4>1. s > k
        <5> HIDE DEF s
        <5> QED BY <2>1, <3>4, <3>7
      <4>2. s > 1 => (s - 1) \in 1 .. s - 1
        <5> HIDE DEF s
        <5> QED BY <2>1
      <4>3. s <= k + 1
        <5> HIDE DEF s
        <5> QED BY <2>1, <3>6, <3>7, <4>2
      <4> HIDE DEF s
      <4> QED BY <2>1, <3>7, <4>1, <4>3
    <3>9. SeqsOf(log'[n], n) = SeqsOf(log[n], n) \cup {s}
      <4>1. new.origin = n /\ new.seq = s
        OBVIOUS
      <4> HIDE DEF new, s
      <4> QED BY <2>3, <4>1 DEF SeqsOf
    <3>10. SeqsOf(log'[n], n) = 1 .. (k + 1)
      <4> HIDE DEF s
      <4> QED BY <3>2, <3>7, <3>8, <3>9
    <3>11. k + 1 \in 0 .. Quota[n]
      <4> HIDE DEF s
      <4> QED BY <3>7, <3>8
    <3> QED BY <3>1, <3>10, <3>11 DEF NumberedByOrigin
  <2>7. UniqueNumbers'
    <3> SUFFICES ASSUME NEW m \in Node, NEW e \in log'[m], NEW f \in log'[m],
                        e.origin = f.origin, e.seq = f.seq
                 PROVE  e = f
      BY DEF UniqueNumbers
    <3>1. CASE m # n
      BY <3>1, <2>3 DEF UniqueNumbers
    <3>2. CASE m = n
      BY <3>2, <1>2, <2>3 DEF UniqueNumbers, Holds
    <3> QED BY <3>1, <3>2
  <2> QED BY <2>3, <2>4, <2>5, <2>6, <2>7
<1> QED BY <1>1, <1>2

-----------------------------------------------------------------------------
(* The inductive invariant *)

(* A coroutine that fits the old logs fits grown ones. *)
LEMMA PullFitsGrownLogs ==
  ASSUME NEW n \in Node, PullFits(n),
         pull'[n] = pull[n], \A m \in Node : log[m] \subseteq log'[m]
  PROVE  PullFits(n)'
<1>1. CASE pull[n] = Idle
  BY <1>1 DEF PullFits
<1>2. ASSUME NEW p \in Peers[n], NEW k \in 0 .. MaxPages - 1, pull[n] = Query(p, k)
      PROVE  \E q \in Peers[n], j \in 0 .. MaxPages - 1 : pull'[n] = Query(q, j)
  BY <1>2
<1>3. ASSUME NEW p \in Peers[n], NEW k \in 0 .. MaxPages - 1,
             NEW E \in SUBSET log[p], NEW m \in BOOLEAN, pull[n] = Page(p, k, E, m)
      PROVE  \E q \in Peers[n], j \in 0 .. MaxPages - 1 :
                \E F \in SUBSET log'[q], i \in BOOLEAN : pull'[n] = Page(q, j, F, i)
  <2>1. p \in Node
    BY SyncAssumption
  <2>2. E \in SUBSET log'[p]
    BY <2>1
  <2> QED BY <1>3, <2>2
<1> QED BY <1>1, <1>2, <1>3 DEF PullFits

(* Empty logs satisfy every conjunct. *)
LEMMA InitEstablishesIndInv == Init => IndInv
<1> SUFFICES ASSUME Init PROVE IndInv
  OBVIOUS
<1> USE DEF Init
<1>1. TypeOK
  BY FS_EmptySet, SyncAssumption DEF TypeOK, PullFits
<1>2. HeldAtOrigin /\ UniqueNumbers
  BY DEF HeldAtOrigin, UniqueNumbers
<1>3. NumberedByOrigin
  <2> SUFFICES ASSUME NEW n \in Node
               PROVE  \E k \in 0 .. Quota[n] : SeqsOf(log[n], n) = 1 .. k
    BY DEF NumberedByOrigin
  <2>1. SeqsOf(log[n], n) = 1 .. 0
    BY DEF SeqsOf
  <2>2. 0 \in 0 .. Quota[n]
    BY SyncAssumption
  <2> QED BY <2>1, <2>2
<1>4. ReadsNext
  BY SyncAssumption DEF ReadsNext
<1>5. CursorContiguous
  BY DEF CursorContiguous
<1> QED BY <1>1, <1>2, <1>3, <1>4, <1>5 DEF IndInv

(* Facts of IndInv that a step keeps when it leaves log alone. *)
LEMMA LogUnchanged ==
  ASSUME IndInv, log' = log
  PROVE  /\ log' \in [Node -> SUBSET Event]
         /\ \A m \in Node : IsFiniteSet(log'[m]) /\ log[m] \subseteq log'[m]
         /\ HeldAtOrigin' /\ NumberedByOrigin' /\ UniqueNumbers'
BY DEF IndInv, TypeOK, HeldAtOrigin, NumberedByOrigin, UniqueNumbers

(* Cursors and reads that do not change stay covered by growing logs. *)
LEMMA CursorKept ==
  ASSUME IndInv, cursor' = cursor, \A m \in Node : log[m] \subseteq log'[m]
  PROVE  CursorContiguous'
<1> SUFFICES ASSUME NEW n \in Node, NEW p \in Node, NEW o \in Node,
                    NEW s \in 1 .. cursor[n][p][o]
             PROVE  Holds(log'[n], o, s)
  BY DEF CursorContiguous
<1>1. Holds(log[n], o, s)
  BY DEF IndInv, CursorContiguous
<1> QED BY <1>1, HoldsMonotone

(* The number a handler has read stays the successor of numbers its log has. *)
LEMMA ReadsKept ==
  ASSUME IndInv, \A m \in Node : log[m] \subseteq log'[m],
         \A n \in Node, w \in Writer : append'[n][w] \in {append[n][w], 0}
  PROVE  ReadsNext'
<1> SUFFICES ASSUME NEW n \in Node, NEW w \in Writer
             PROVE  /\ append'[n][w] <= Quota[n]
                    /\ \A t \in 1 .. append'[n][w] - 1 : Holds(log'[n], n, t)
  BY DEF ReadsNext
<1>1. Quota[n] \in Nat
  BY SyncAssumption
<1>2. CASE append'[n][w] = 0
  BY <1>1, <1>2
<1>3. CASE append'[n][w] = append[n][w]
  <2>1. /\ append[n][w] <= Quota[n]
        /\ \A t \in 1 .. append[n][w] - 1 : Holds(log[n], n, t)
    BY DEF IndInv, ReadsNext
  <2> QED BY <1>3, <2>1, HoldsMonotone
<1> QED BY <1>2, <1>3

(* The page a coroutine holds was read from the log of its peer. *)
LEMMA PageRead ==
  ASSUME TypeOK, NEW n \in Node, NEW p \in Peers[n],
         pull[n].phase = "page", pull[n].peer = p
  PROVE  /\ p \in Node
         /\ pull[n].events \in SUBSET log[p]
         /\ pull[n].pages \in 0 .. MaxPages - 1
<1>1. p \in Node
  BY SyncAssumption
<1>2. PICK q \in Peers[n], k \in 0 .. MaxPages - 1 :
         \/ pull[n] = Query(q, k)
         \/ \E E \in SUBSET log[q], m \in BOOLEAN : pull[n] = Page(q, k, E, m)
  <2>1. pull[n] # Idle
    BY DEF Idle
  <2> QED BY <2>1 DEF TypeOK, PullFits
<1>3. pull[n] # Query(q, k)
  BY DEF Query
<1>4. PICK E \in SUBSET log[q], m \in BOOLEAN : pull[n] = Page(q, k, E, m)
  BY <1>2, <1>3
<1> QED BY <1>1, <1>4 DEF Page

(* Applying a page keeps the invariant: rows are learned and a cursor moves. *)
LEMMA ApplyPagePreserves ==
  ASSUME IndInv, NEW n \in Node, NEW p \in Peers[n], ApplyPage(n, p)
  PROVE  /\ IndInv'
         /\ \A m \in Node : log[m] \subseteq log'[m]
         /\ \A q, o \in Node : cursor[n][q][o] <= cursor'[n][q][o]
<1> DEFINE E == pull[n].events
           L == Persist(log[n], E)
           c == Advance(L, cursor[n][p], E)
<1>1. /\ p \in Node /\ E \in SUBSET log[p] /\ pull[n].pages \in 0 .. MaxPages - 1
  BY PageRead DEF IndInv, ApplyPage
<1>2. log' = [log EXCEPT ![n] = Persist(@, E)]
  BY DEF ApplyPage
<1>3. /\ log' \in [Node -> SUBSET Event]
      /\ \A m \in Node : IsFiniteSet(log'[m]) /\ log[m] \subseteq log'[m]
      /\ HeldAtOrigin' /\ NumberedByOrigin' /\ UniqueNumbers'
  <2> HIDE DEF E
  <2> QED BY <1>1, <1>2, LearnPreserves DEF IndInv
<1>4. log'[n] = L
  BY DEF ApplyPage, IndInv, TypeOK
<1>5. /\ c \in [Node -> Nat]
      /\ \A o \in Node : cursor[n][p][o] <= c[o]
      /\ \A o \in Node : \A s \in 1 .. c[o] : Holds(L, o, s)
  <2>1. L \in SUBSET Event /\ IsFiniteSet(L)
    BY <1>3, <1>4
  <2>2. \A e, f \in L : (e.origin = f.origin /\ e.seq = f.seq) => e = f
    BY <1>3, <1>4 DEF UniqueNumbers
  <2>3. E \in SUBSET Event
    BY <1>1 DEF IndInv, TypeOK
  <2>4. \A e \in E : e.seq <= Quota[e.origin]
    BY <1>1, NumbersBounded DEF IndInv
  <2>5. cursor[n][p] \in [Node -> Nat]
    BY <1>1 DEF IndInv, TypeOK
  <2>6. \A o \in Node : \A s \in 1 .. cursor[n][p][o] : Holds(L, o, s)
    BY <1>1, <1>3, <1>4, HoldsMonotone DEF IndInv, CursorContiguous
  <2> HIDE DEF L, E
  <2> QED BY <2>1, <2>2, <2>3, <2>4, <2>5, <2>6, AdvanceFacts
<1>6. /\ cursor' = [cursor EXCEPT ![n][p] = c]
      /\ UNCHANGED <<run, append>>
  BY DEF ApplyPage
<1>7. cursor' \in [Node -> [Node -> [Node -> Nat]]]
  <2> HIDE DEF c
  <2> QED BY <1>1, <1>5, <1>6 DEF IndInv, TypeOK
<1>8. CursorContiguous'
  <2> SUFFICES ASSUME NEW m \in Node, NEW q \in Node, NEW o \in Node,
                      NEW s \in 1 .. cursor'[m][q][o]
               PROVE  Holds(log'[m], o, s)
    BY DEF CursorContiguous
  <2>1. CASE m = n /\ q = p
    <3>1. cursor'[m][q] = c
      BY <1>1, <1>6, <2>1 DEF IndInv, TypeOK
    <3> HIDE DEF c, L
    <3> QED BY <1>4, <1>5, <2>1, <3>1
  <2>2. CASE ~ (m = n /\ q = p)
    <3>1. cursor'[m][q] = cursor[m][q]
      BY <1>1, <1>6, <2>2 DEF IndInv, TypeOK
    <3>2. Holds(log[m], o, s)
      BY <3>1 DEF IndInv, CursorContiguous
    <3> QED BY <1>3, <3>2, HoldsMonotone
  <2> QED BY <2>1, <2>2
<1>9. ReadsNext'
  BY <1>3, <1>6, ReadsKept
<1>10. \A m \in Node : PullFits(m)'
  <2>1. ASSUME NEW m \in Node, m # n
        PROVE  PullFits(m)'
    <3>1. pull'[m] = pull[m]
      BY <2>1 DEF ApplyPage, IndInv, TypeOK
    <3> QED BY <1>3, <3>1, PullFitsGrownLogs DEF IndInv, TypeOK
  <2>2. \/ pull'[n] = Idle
        \/ \E k \in 0 .. MaxPages - 1 : pull'[n] = Query(p, k)
    <3>1. \/ pull'[n] = Idle
          \/ pull[n].pages + 1 < MaxPages /\ pull'[n] = Query(p, pull[n].pages + 1)
      BY DEF ApplyPage, PagesLeft, IndInv, TypeOK
    <3>2. pull[n].pages + 1 < MaxPages => pull[n].pages + 1 \in 0 .. MaxPages - 1
      BY <1>1, SyncAssumption
    <3> QED BY <3>1, <3>2
  <2> QED BY <2>1, <2>2 DEF PullFits
<1>11. TypeOK'
  <2>1. /\ run' \in [Node -> 0 .. MaxRun] /\ append' \in [Node -> [Writer -> Nat]]
        /\ DOMAIN pull' = Node
    BY <1>6 DEF IndInv, TypeOK, ApplyPage
  <2> QED BY <1>3, <1>7, <1>10, <2>1 DEF TypeOK
<1>12. \A q, o \in Node : cursor[n][q][o] <= cursor'[n][q][o]
  <2> SUFFICES ASSUME NEW q \in Node, NEW o \in Node
               PROVE  cursor[n][q][o] <= cursor'[n][q][o]
    OBVIOUS
  <2>1. CASE q = p
    <3>1. cursor'[n][q] = c
      BY <1>1, <1>6, <2>1 DEF IndInv, TypeOK
    <3> HIDE DEF c
    <3> QED BY <1>5, <2>1, <3>1
  <2>2. CASE q # p
    <3>1. cursor'[n][q] = cursor[n][q] /\ cursor[n][q][o] \in Nat
      BY <1>1, <1>6, <2>2 DEF IndInv, TypeOK
    <3> QED BY <3>1
  <2> QED BY <2>1, <2>2
<1> QED BY <1>3, <1>8, <1>9, <1>11, <1>12 DEF IndInv

(* The other steps leave the cursors alone. *)
LEMMA CommitAppendPreserves ==
  ASSUME IndInv, NEW n \in Node, NEW w \in Writer, CommitAppend(n, w)
  PROVE  IndInv' /\ \A m \in Node : log[m] \subseteq log'[m]
<1>1. /\ log' \in [Node -> SUBSET Event]
      /\ \A m \in Node : IsFiniteSet(log'[m]) /\ log[m] \subseteq log'[m]
      /\ HeldAtOrigin' /\ NumberedByOrigin' /\ UniqueNumbers'
  BY AppendPreserves
<1>2. UNCHANGED <<cursor, run, pull>> /\ append' = [append EXCEPT ![n][w] = 0]
  BY DEF CommitAppend
<1>3. TypeOK'
  <2>1. append' \in [Node -> [Writer -> Nat]]
    BY <1>2 DEF IndInv, TypeOK
  <2>2. \A m \in Node : PullFits(m)'
    BY <1>1, <1>2, PullFitsGrownLogs DEF IndInv, TypeOK
  <2> QED BY <1>1, <1>2, <2>1, <2>2 DEF IndInv, TypeOK
<1>4. ReadsNext'
  <2>1. \A m \in Node, v \in Writer : append'[m][v] \in {append[m][v], 0}
    BY <1>2 DEF IndInv, TypeOK
  <2> QED BY <1>1, <2>1, ReadsKept
<1> QED BY <1>1, <1>2, <1>3, <1>4, CursorKept DEF IndInv

(* A pushed event is one more row that some node already holds. *)
LEMMA PushEventPreserves ==
  ASSUME IndInv, NEW n \in Node, PushEvent(n)
  PROVE  IndInv' /\ \A m \in Node : log[m] \subseteq log'[m]
<1>0. PICK p \in Node : \E e \in log[p] :
         /\ log' = [log EXCEPT ![n] = Persist(@, {e})]
         /\ UNCHANGED <<cursor, run, append, pull>>
  BY DEF PushEvent
<1>1. PICK e \in log[p] :
         /\ log' = [log EXCEPT ![n] = Persist(@, {e})]
         /\ UNCHANGED <<cursor, run, append, pull>>
  BY <1>0
<1>2. /\ log' \in [Node -> SUBSET Event]
      /\ \A m \in Node : IsFiniteSet(log'[m]) /\ log[m] \subseteq log'[m]
      /\ HeldAtOrigin' /\ NumberedByOrigin' /\ UniqueNumbers'
  <2>1. {e} \in SUBSET log[p]
    OBVIOUS
  <2> QED BY <1>1, <2>1, LearnPreserves DEF IndInv
<1>3. TypeOK'
  <2>1. \A m \in Node : PullFits(m)'
    BY <1>1, <1>2, PullFitsGrownLogs DEF IndInv, TypeOK
  <2> QED BY <1>1, <1>2, <2>1 DEF IndInv, TypeOK
<1> QED BY <1>1, <1>2, <1>3, CursorKept, ReadsKept DEF IndInv

(* Reading the next number changes nothing but what the handler has read. *)
LEMMA ReadSeqPreserves ==
  ASSUME IndInv, NEW n \in Node, NEW w \in Writer, ReadSeq(n, w)
  PROVE  IndInv'
<1>1. UNCHANGED <<log, cursor, run, pull>>
  BY DEF ReadSeq
<1>2. PICK k \in 0 .. Quota[n] : SeqsOf(log[n], n) = 1 .. k
  BY DEF IndInv, NumberedByOrigin
<1>3. k \in Nat /\ Quota[n] \in Nat
  BY SyncAssumption
<1>4. LastSeq(log[n], n) = k
  <2>1. \A e \in log[n] : e.origin = n => e.seq <= k
    BY <1>2, <1>3 DEF SeqsOf
  <2>2. /\ LastSeq(log[n], n) \in Nat
        /\ LastSeq(log[n], n) \in (1 .. k) \cup {0}
        /\ \A t \in 1 .. k : t <= LastSeq(log[n], n)
    <3>1. log[n] \in SUBSET Event
      BY DEF IndInv, TypeOK
    <3> QED BY <1>2, <1>3, <2>1, <3>1, LastSeqMax
  <2>3. CASE k = 0
    BY <2>2, <2>3
  <2>4. CASE k # 0
    <3>1. k \in 1 .. k
      BY <1>3, <2>4
    <3> QED BY <1>3, <2>2, <3>1
  <2> QED BY <2>3, <2>4
<1>5. append' = [append EXCEPT ![n][w] = k + 1] /\ k < Quota[n]
  BY <1>4 DEF ReadSeq
<1>6. append' \in [Node -> [Writer -> Nat]]
  BY <1>3, <1>5 DEF IndInv, TypeOK
<1>7. TypeOK'
  <2>1. \A m \in Node : PullFits(m)'
    BY <1>1, PullFitsGrownLogs DEF IndInv, TypeOK
  <2> QED BY <1>1, <1>6, <2>1 DEF IndInv, TypeOK
<1>8. ReadsNext'
  <2> SUFFICES ASSUME NEW m \in Node, NEW v \in Writer
               PROVE  /\ append'[m][v] <= Quota[m]
                      /\ \A t \in 1 .. append'[m][v] - 1 : Holds(log[m], m, t)
    BY <1>1 DEF ReadsNext
  <2>1. CASE m = n /\ v = w
    <3>1. append'[m][v] = k + 1
      BY <1>5, <2>1 DEF IndInv, TypeOK
    <3>2. \A t \in 1 .. k : Holds(log[n], n, t)
      BY <1>2 DEF SeqsOf, Holds
    <3> QED BY <1>3, <1>5, <2>1, <3>1, <3>2
  <2>2. CASE ~ (m = n /\ v = w)
    <3>1. append'[m][v] = append[m][v]
      BY <1>5, <2>2 DEF IndInv, TypeOK
    <3> QED BY <3>1 DEF IndInv, ReadsNext
  <2> QED BY <2>1, <2>2
<1>9. HeldAtOrigin' /\ NumberedByOrigin' /\ UniqueNumbers'
  BY <1>1, LogUnchanged
<1> QED BY <1>1, <1>7, <1>8, <1>9, CursorKept, LogUnchanged DEF IndInv

(* A step that changes coroutines and in-flight appends only. *)
LEMMA VolatilePreserves ==
  ASSUME IndInv, UNCHANGED <<log, cursor>>,
         run' \in [Node -> 0 .. MaxRun],
         append' \in [Node -> [Writer -> Nat]],
         \A n \in Node, w \in Writer : append'[n][w] \in {append[n][w], 0},
         DOMAIN pull' = Node,
         \A n \in Node : PullFits(n)'
  PROVE  IndInv'
<1>1. /\ \A m \in Node : IsFiniteSet(log'[m]) /\ log[m] \subseteq log'[m]
      /\ HeldAtOrigin' /\ NumberedByOrigin' /\ UniqueNumbers'
  BY LogUnchanged
<1>2. TypeOK'
  BY DEF IndInv, TypeOK
<1>3. ReadsNext'
  BY <1>1, ReadsKept
<1> QED BY <1>1, <1>2, <1>3, CursorKept DEF IndInv

(* Starting, answering and failing a cycle touch only the coroutine. *)
LEMMA CoroutinePreserves ==
  ASSUME IndInv, NEW n \in Node,
         \/ \E p \in Peers[n] : StartCycle(n, p) \/ ServeQuery(n, p)
         \/ FailCycle(n)
         \/ Crash(n)
  PROVE  IndInv' /\ UNCHANGED <<log, cursor>>
<1>1. /\ UNCHANGED <<log, cursor>>
      /\ DOMAIN pull' = Node
      /\ \A m \in Node \ {n} : pull'[m] = pull[m]
  BY DEF StartCycle, ServeQuery, FailCycle, Crash, IndInv, TypeOK
<1>2. /\ run' \in [Node -> 0 .. MaxRun]
      /\ append' \in [Node -> [Writer -> Nat]]
      /\ \A m \in Node, w \in Writer : append'[m][w] \in {append[m][w], 0}
  <2>1. CASE Crash(n)
    <3>1. run[n] + 1 \in 0 .. MaxRun
      BY <2>1, SyncAssumption DEF Crash, IndInv, TypeOK
    <3> QED BY <2>1, <3>1 DEF Crash, IndInv, TypeOK
  <2>2. CASE ~ Crash(n)
    <3>1. UNCHANGED <<run, append>>
      BY <2>2 DEF StartCycle, ServeQuery, FailCycle
    <3> QED BY <3>1 DEF IndInv, TypeOK
  <2> QED BY <2>1, <2>2
<1>3. PullFits(n)'
  <2>1. ASSUME NEW p \in Peers[n], StartCycle(n, p)
        PROVE  PullFits(n)'
    <3>1. pull'[n] = Query(p, 0)
      BY <2>1 DEF StartCycle, IndInv, TypeOK
    <3>2. 0 \in 0 .. MaxPages - 1
      BY SyncAssumption
    <3> QED BY <3>1, <3>2 DEF PullFits
  <2>2. ASSUME NEW p \in Peers[n], ServeQuery(n, p)
        PROVE  PullFits(n)'
    <3>1. PICK E \in SUBSET log[p] :
             pull' = [pull EXCEPT ![n] =
                        Page(p, pull[n].pages, E, E # Beyond(log[p], cursor[n][p]))]
      BY <2>2 DEF ServeQuery, Beyond
    <3>2. pull[n].pages \in 0 .. MaxPages - 1
      <4>1. PICK q \in Peers[n], k \in 0 .. MaxPages - 1 :
               \/ pull[n] = Query(q, k)
               \/ \E F \in SUBSET log[q], m \in BOOLEAN : pull[n] = Page(q, k, F, m)
        <5>1. pull[n] # Idle
          BY <2>2 DEF Idle, ServeQuery
        <5> QED BY <5>1 DEF IndInv, TypeOK, PullFits
      <4>2. CASE pull[n] = Query(q, k)
        BY <4>2 DEF Query
      <4>3. ASSUME NEW F \in SUBSET log[q], NEW m \in BOOLEAN, pull[n] = Page(q, k, F, m)
            PROVE  pull[n].pages = k
        BY <4>3 DEF Page
      <4> QED BY <4>1, <4>2, <4>3
    <3>3. \E m \in BOOLEAN : pull'[n] = Page(p, pull[n].pages, E, m)
      BY <3>1 DEF IndInv, TypeOK
    <3>4. p \in Node /\ log'[p] = log[p]
      BY <1>1, SyncAssumption
    <3> QED BY <3>2, <3>3, <3>4 DEF PullFits
  <2>3. ASSUME FailCycle(n) \/ Crash(n)
        PROVE  PullFits(n)'
    BY <2>3 DEF FailCycle, Crash, PullFits, IndInv, TypeOK
  <2> QED BY <2>1, <2>2, <2>3
<1>4. \A m \in Node : PullFits(m)'
  <2>1. \A m \in Node : log[m] \subseteq log'[m]
    BY <1>1
  <2>2. ASSUME NEW m \in Node, m # n PROVE PullFits(m)'
    BY <1>1, <2>1, <2>2, PullFitsGrownLogs DEF IndInv, TypeOK
  <2> QED BY <1>3, <2>2
<1> QED BY <1>1, <1>2, <1>4, VolatilePreserves

(* IndInv is inductive: one case per action. *)
LEMMA StepPreservesIndInv ==
  ASSUME IndInv, [Next]_vars
  PROVE  IndInv'
<1>1. CASE UNCHANGED vars
  <2>1. \A n \in Node : PullFits(n)'
    BY <1>1, PullFitsGrownLogs DEF vars, IndInv, TypeOK
  <2> QED BY <1>1, <2>1, VolatilePreserves DEF vars, IndInv, TypeOK
<1>2. ASSUME NEW n \in Node, NEW w \in Writer, ReadSeq(n, w)
      PROVE  IndInv'
  BY <1>2, ReadSeqPreserves
<1>3. ASSUME NEW n \in Node, NEW w \in Writer, CommitAppend(n, w)
      PROVE  IndInv'
  BY <1>3, CommitAppendPreserves
<1>4. ASSUME NEW n \in Node, NEW p \in Peers[n], ApplyPage(n, p)
      PROVE  IndInv'
  BY <1>4, ApplyPagePreserves
<1>5. ASSUME NEW n \in Node, PushEvent(n)
      PROVE  IndInv'
  BY <1>5, PushEventPreserves
<1>6. ASSUME NEW n \in Node,
             \/ \E p \in Peers[n] : StartCycle(n, p) \/ ServeQuery(n, p)
             \/ FailCycle(n)
             \/ Crash(n)
      PROVE  IndInv'
  BY <1>6, CoroutinePreserves
<1> QED BY <1>1, <1>2, <1>3, <1>4, <1>5, <1>6 DEF Next

-----------------------------------------------------------------------------
(* Theorems *)

(* The rows of the database and the state of the worker keep their shape,   *)
(* whatever the interleaving of handlers, worker, pushes and restarts.      *)
THEOREM TypeCorrect == Spec => []TypeOK
<1>1. IndInv => TypeOK
  BY DEF IndInv
<1> QED BY <1>1, InitEstablishesIndInv, StepPreservesIndInv, PTL DEF Spec

(* advance_peer_cursor never crosses a missing sequence: what a cursor      *)
(* covers is in the log.                                                    *)
THEOREM CursorsCoverHistory == Spec => []CursorContiguous
<1>1. IndInv => CursorContiguous
  BY DEF IndInv
<1> QED BY <1>1, InitEstablishesIndInv, StepPreservesIndInv, PTL DEF Spec

(* A number of an origin stands for one event in the whole cluster, as long *)
(* as no node loses committed history.                                      *)
THEOREM LogsAgree == Spec => []LogAgreement
<1>1. IndInv => LogAgreement
  <2> SUFFICES ASSUME IndInv, NEW n \in Node, NEW m \in Node,
                      NEW e \in log[n], NEW f \in log[m],
                      e.origin = f.origin, e.seq = f.seq
               PROVE  e = f
    BY DEF LogAgreement
  <2>1. e \in log[e.origin] /\ f \in log[e.origin]
    BY DEF IndInv, HeldAtOrigin
  <2>2. e.origin \in Node
    BY DEF IndInv, TypeOK, Event
  <2> QED BY <2>1, <2>2 DEF IndInv, UniqueNumbers
<1> QED BY <1>1, InitEstablishesIndInv, StepPreservesIndInv, PTL DEF Spec

(* An origin numbers its events without a hole. *)
THEOREM OriginsHaveNoGaps == Spec => []OriginGapFree
<1>1. IndInv => OriginGapFree
  <2> SUFFICES ASSUME IndInv, NEW n \in Node, NEW s \in SeqsOf(log[n], n),
                      NEW t \in 1 .. s
               PROVE  Holds(log[n], n, t)
    BY DEF OriginGapFree
  <2>1. PICK k \in 0 .. Quota[n] : SeqsOf(log[n], n) = 1 .. k
    BY DEF IndInv, NumberedByOrigin
  <2>2. k \in Nat /\ s \in 1 .. k
    BY <2>1, SyncAssumption
  <2>3. t \in SeqsOf(log[n], n)
    BY <2>1, <2>2
  <2> QED BY <2>3 DEF SeqsOf, Holds
<1> QED BY <1>1, InitEstablishesIndInv, StepPreservesIndInv, PTL DEF Spec

(* No step of the protocol takes an event out of a log or a cursor back.    *)
THEOREM HistoryOnlyGrows == Spec => HistoryMonotone
<1>1. ASSUME IndInv, [Next]_vars
      PROVE  \A n \in Node :
                /\ log[n] \subseteq log'[n]
                /\ \A p, o \in Node : cursor[n][p][o] <= cursor'[n][p][o]
  <2>0. \A n, p, o \in Node : cursor[n][p][o] \in Nat
    BY <1>1 DEF IndInv, TypeOK
  <2>1. CASE UNCHANGED cursor /\ \A m \in Node : log[m] \subseteq log'[m]
    BY <2>0, <2>1
  <2>2. ASSUME NEW n \in Node, NEW p \in Peers[n], ApplyPage(n, p)
        PROVE  \A m \in Node :
                  /\ log[m] \subseteq log'[m]
                  /\ \A q, o \in Node : cursor[m][q][o] <= cursor'[m][q][o]
    <3>1. /\ \A m \in Node : log[m] \subseteq log'[m]
          /\ \A q, o \in Node : cursor[n][q][o] <= cursor'[n][q][o]
      BY <1>1, <2>2, ApplyPagePreserves
    <3>2. \A m \in Node \ {n} : cursor'[m] = cursor[m]
      BY <1>1, <2>2 DEF ApplyPage, IndInv, TypeOK
    <3> QED BY <2>0, <3>1, <3>2
  <2>3. ASSUME NEW n \in Node, NEW w \in Writer, CommitAppend(n, w)
        PROVE  UNCHANGED cursor /\ \A m \in Node : log[m] \subseteq log'[m]
    BY <1>1, <2>3, CommitAppendPreserves DEF CommitAppend
  <2>4. ASSUME NEW n \in Node, PushEvent(n)
        PROVE  UNCHANGED cursor /\ \A m \in Node : log[m] \subseteq log'[m]
    BY <1>1, <2>4, PushEventPreserves DEF PushEvent
  <2>5. CASE \/ UNCHANGED vars
             \/ \E n \in Node :
                   \/ \E w \in Writer : ReadSeq(n, w)
                   \/ \E p \in Peers[n] : StartCycle(n, p) \/ ServeQuery(n, p)
                   \/ FailCycle(n) \/ Crash(n)
    <3>1. UNCHANGED <<log, cursor>>
      BY <2>5 DEF vars, ReadSeq, StartCycle, ServeQuery, FailCycle, Crash
    <3> QED BY <2>1, <3>1
  <2> QED BY <1>1, <2>1, <2>2, <2>3, <2>4, <2>5 DEF Next
<1>2. IndInv /\ [Next]_vars =>
        [\A n \in Node :
            /\ log[n] \subseteq log'[n]
            /\ \A p, o \in Node : cursor[n][p][o] <= cursor'[n][p][o]]_vars
  BY <1>1
<1> QED BY <1>2, InitEstablishesIndInv, StepPreservesIndInv, PTL
        DEF Spec, HistoryMonotone

(* The pull protocol implements the replicated history: a commit that wins  *)
(* its number issues an event, a page or a push is a node learning, and     *)
(* everything else is invisible.                                            *)
THEOREM ProtocolImplementsEventLog == Spec => ImplementsEventLog
<1>1. Init => History!Init
  BY DEF Init, History!Init
<1>2. ASSUME IndInv, [Next]_vars
      PROVE  [History!Next]_log
  <2>1. ASSUME NEW n \in Node, NEW w \in Writer, CommitAppend(n, w)
        PROVE  History!Issue(n) \/ log' = log
    <3> DEFINE s == append[n][w]
    <3>1. CASE Holds(log[n], n, s)
      BY <1>2, <2>1, <3>1 DEF CommitAppend, IndInv, TypeOK
    <3>2. CASE ~ Holds(log[n], n, s)
      <4>1. log' = [log EXCEPT ![n] = @ \cup {[origin |-> n, seq |-> s, run |-> run[n], by |-> w]}]
        BY <2>1, <3>2 DEF CommitAppend
      <4>2. run[n] \in 0 .. MaxRun /\ s \in Nat \ {0} /\ s <= Quota[n]
        BY <1>2, <2>1 DEF IndInv, TypeOK, ReadsNext, CommitAppend
      <4>3. Quota[n] \in Nat
        BY SyncAssumption
      <4>4. PICK k \in 0 .. Quota[n] : SeqsOf(log[n], n) = 1 .. k
        BY <1>2 DEF IndInv, NumberedByOrigin
      <4>5. \A t \in 1 .. s - 1 : t \in 1 .. k
        BY <1>2, <4>4 DEF IndInv, ReadsNext, Holds, SeqsOf
      <4>6. s \notin 1 .. k
        BY <3>2, <4>4 DEF Holds, SeqsOf
      <4>7. k = s - 1
        <5> HIDE DEF s
        <5>1. s > k
          BY <4>2, <4>3, <4>6
        <5>2. s > 1 => (s - 1) \in 1 .. s - 1
          BY <4>2
        <5> QED BY <4>2, <4>3, <4>5, <5>1, <5>2
      <4>8. History!SeqsOf(log[n], n) = 1 .. (s - 1)
        BY <4>4, <4>7 DEF SeqsOf, History!SeqsOf
      <4>9. s \in 1 .. Quota[n]
        BY <4>2, <4>3
      <4> HIDE DEF s
      <4> QED BY <4>1, <4>2, <4>8, <4>9 DEF History!Issue
    <3> QED BY <3>1, <3>2
  <2>2. ASSUME NEW n \in Node, NEW p \in Node, NEW E \in SUBSET log[p],
               log' = [log EXCEPT ![n] = Persist(@, E)]
        PROVE  History!Learn(n)
    <3> DEFINE F == {e \in E : ~ Holds(log[n], e.origin, e.seq)}
    <3>1. log' = [log EXCEPT ![n] = @ \cup F]
      BY <2>2 DEF Persist
    <3>2. F \in SUBSET UNION {log[m] : m \in Node}
      OBVIOUS
    <3> QED BY <3>1, <3>2 DEF History!Learn
  <2>3. ASSUME NEW n \in Node, NEW p \in Peers[n], ApplyPage(n, p)
        PROVE  History!Learn(n)
    <3>1. p \in Node /\ pull[n].events \in SUBSET log[p]
      BY <1>2, <2>3, PageRead DEF IndInv, ApplyPage
    <3>2. log' = [log EXCEPT ![n] = Persist(@, pull[n].events)]
      BY <2>3 DEF ApplyPage
    <3> QED BY <2>2, <3>1, <3>2
  <2>4. ASSUME NEW n \in Node, PushEvent(n)
        PROVE  History!Learn(n)
    <3>1. PICK m \in Node : \E e \in log[m] : log' = [log EXCEPT ![n] = Persist(@, {e})]
      BY <2>4 DEF PushEvent
    <3>2. PICK e \in log[m] : log' = [log EXCEPT ![n] = Persist(@, {e})]
      BY <3>1
    <3>3. {e} \in SUBSET log[m]
      OBVIOUS
    <3> QED BY <2>2, <3>2, <3>3
  <2>5. CASE \/ UNCHANGED vars
             \/ \E n \in Node :
                   \/ \E w \in Writer : ReadSeq(n, w)
                   \/ \E p \in Peers[n] : StartCycle(n, p) \/ ServeQuery(n, p)
                   \/ FailCycle(n) \/ Crash(n)
    BY <2>5 DEF vars, ReadSeq, StartCycle, ServeQuery, FailCycle, Crash
  <2> QED BY <1>2, <2>1, <2>3, <2>4, <2>5 DEF Next, History!Next
<1> QED BY <1>1, <1>2, InitEstablishesIndInv, StepPreservesIndInv, PTL
        DEF Spec, ImplementsEventLog, History!Spec

-----------------------------------------------------------------------------
(* A database that falls back. A node may hold less than it once did, and   *)
(* pages may hold events that their peer has forgotten; what remains is that*)
(* the tables of a node fit each other, on disk as in use.                  *)

Sound(L) ==
  /\ L \in SUBSET Event /\ IsFiniteSet(L)
  /\ \A e, f \in L : (e.origin = f.origin /\ e.seq = f.seq) => e = f
  /\ \A e \in L : e.seq <= Quota[e.origin]

CursorsFit(L, C) ==
  /\ C \in [Node -> [Node -> Nat]]
  /\ \A p, o \in Node : \A s \in 1 .. C[p][o] : Holds(L, o, s)

RecoveryInv ==
  /\ log \in [Node -> SUBSET Event] /\ cursor \in [Node -> [Node -> [Node -> Nat]]]
  /\ DOMAIN saved = Node
  /\ \A n \in Node : Sound(log[n]) /\ CursorsFit(log[n], cursor[n])
  /\ \A n \in Node : Sound(saved[n].log) /\ CursorsFit(saved[n].log, saved[n].cursor)
  /\ run \in [Node -> 0 .. MaxRun]
  /\ append \in [Node -> [Writer -> Nat]]
  /\ \A n \in Node, w \in Writer : append[n][w] <= Quota[n]
  /\ DOMAIN pull = Node
  /\ \A n \in Node : pull[n].phase = "page" => Sound(pull[n].events)

(* What one of the tables of a sound log takes from another stays sound. *)
LEMMA PersistSound ==
  ASSUME NEW L, Sound(L), NEW E, Sound(E)
  PROVE  Sound(Persist(L, E)) /\ L \subseteq Persist(L, E)
<1> DEFINE M == Persist(L, E)
<1>1. /\ L \subseteq M /\ M \subseteq L \cup E
      /\ M \in SUBSET Event /\ IsFiniteSet(M)
      /\ \A e \in M \ L : ~ Holds(L, e.origin, e.seq)
  BY PersistFacts DEF Sound
<1> HIDE DEF M
<1>2. ASSUME NEW e \in M, NEW f \in M, e.origin = f.origin, e.seq = f.seq
      PROVE  e = f
  <2>1. CASE e \in L /\ f \in L
    BY <1>2, <2>1 DEF Sound
  <2>2. CASE e \in L /\ f \notin L
    BY <1>1, <1>2, <2>2 DEF Holds
  <2>3. CASE e \notin L /\ f \in L
    BY <1>1, <1>2, <2>3 DEF Holds
  <2>4. CASE e \in E /\ f \in E
    BY <1>2, <2>4 DEF Sound
  <2> QED BY <1>1, <2>1, <2>2, <2>3, <2>4
<1>3. \A e \in M : e.seq <= Quota[e.origin]
  BY <1>1 DEF Sound
<1>4. Sound(M)
  BY <1>1, <1>2, <1>3 DEF Sound
<1> QED BY <1>1, <1>4 DEF M

LEMMA PartSound ==
  ASSUME NEW L, Sound(L), NEW E \in SUBSET L
  PROVE  Sound(E)
BY FS_Subset DEF Sound

LEMMA CursorsFitMore ==
  ASSUME NEW L, NEW M, L \subseteq M, NEW C, CursorsFit(L, C)
  PROVE  CursorsFit(M, C)
BY HoldsMonotone DEF CursorsFit

LEMMA RecoveryInit_Inv == RecoveryInit => RecoveryInv
<1> SUFFICES ASSUME RecoveryInit PROVE RecoveryInv
  OBVIOUS
<1> USE DEF RecoveryInit, Init
<1>1. Sound({})
  BY FS_EmptySet DEF Sound
<1>2. CursorsFit({}, [p \in Node |-> [o \in Node |-> 0]])
  BY DEF CursorsFit
<1>3. \A n \in Node : log[n] = {} /\ cursor[n] = [p \in Node |-> [o \in Node |-> 0]]
  OBVIOUS
<1>4. \A n \in Node : saved[n].log = {} /\ saved[n].cursor = [p \in Node |-> [o \in Node |-> 0]]
  BY DEF Tables
<1>5. /\ run \in [Node -> 0 .. MaxRun] /\ append \in [Node -> [Writer -> Nat]]
      /\ \A n \in Node, w \in Writer : append[n][w] <= Quota[n]
  BY SyncAssumption
<1>6. \A n \in Node : pull[n].phase = "idle"
  BY DEF Idle
<1>7. /\ log \in [Node -> SUBSET Event] /\ cursor \in [Node -> [Node -> [Node -> Nat]]]
      /\ DOMAIN saved = Node /\ DOMAIN pull = Node
  OBVIOUS
<1> HIDE DEF RecoveryInit, Init
<1> QED BY <1>1, <1>2, <1>3, <1>4, <1>5, <1>6, <1>7 DEF RecoveryInv

(* A step that changes the log and the cursors of one node. *)
LEMMA TablesStep ==
  ASSUME RecoveryInv, NEW n \in Node, NEW L, NEW C, Sound(L), CursorsFit(L, C),
         log' = [log EXCEPT ![n] = L], cursor' = [cursor EXCEPT ![n] = C], UNCHANGED saved,
         run' \in [Node -> 0 .. MaxRun],
         append' \in [Node -> [Writer -> Nat]],
         \A m \in Node, w \in Writer : append'[m][w] \in {append[m][w], 0},
         DOMAIN pull' = Node,
         \A m \in Node : pull'[m].phase = "page" => pull'[m] = pull[m]
  PROVE  RecoveryInv'
<1>1. /\ log' \in [Node -> SUBSET Event] /\ cursor' \in [Node -> [Node -> [Node -> Nat]]]
      /\ log'[n] = L /\ cursor'[n] = C
      /\ \A m \in Node \ {n} : log'[m] = log[m] /\ cursor'[m] = cursor[m]
  BY DEF RecoveryInv, Sound, CursorsFit
<1>2. \A m \in Node : Sound(log'[m]) /\ CursorsFit(log'[m], cursor'[m])
  BY <1>1 DEF RecoveryInv
<1>3. \A m \in Node, w \in Writer : append'[m][w] <= Quota[m]
  <2>1. \A m \in Node : 0 <= Quota[m]
    BY SyncAssumption
  <2> QED BY <2>1 DEF RecoveryInv
<1>4. \A m \in Node : pull'[m].phase = "page" => Sound(pull'[m].events)
  BY DEF RecoveryInv
<1> QED BY <1>1, <1>2, <1>3, <1>4 DEF RecoveryInv

LEMMA RecoveryStepInv ==
  ASSUME RecoveryInv, [RecoveryNext]_recoveryVars
  PROVE  RecoveryInv'
<1>1. CASE UNCHANGED recoveryVars
  <2>1. UNCHANGED <<log, cursor, run, append, pull, saved>>
    BY <1>1 DEF recoveryVars, vars
  <2> QED BY <2>1 DEF RecoveryInv
<1>2. ASSUME NEW n \in Node, NEW w \in Writer, ReadSeq(n, w), UNCHANGED saved
      PROVE  RecoveryInv'
  <2>1. Sound(log[n]) /\ Quota[n] \in Nat
    BY SyncAssumption DEF RecoveryInv
  <2>2. LastSeq(log[n], n) \in Nat
    <3>1. \A e \in log[n] : e.origin = n => e.seq <= Quota[n]
      BY <2>1 DEF Sound
    <3>2. log[n] \in SUBSET Event
      BY <2>1 DEF Sound
    <3> QED BY <2>1, <3>1, <3>2, LastSeqMax
  <2>3. append' = [append EXCEPT ![n][w] = LastSeq(log[n], n) + 1] /\ LastSeq(log[n], n) + 1 <= Quota[n]
    BY <1>2, <2>1, <2>2 DEF ReadSeq
  <2>4. append' \in [Node -> [Writer -> Nat]] /\ \A m \in Node, v \in Writer : append'[m][v] <= Quota[m]
    BY <2>2, <2>3 DEF RecoveryInv
  <2>5. UNCHANGED <<log, cursor, run, pull, saved>>
    BY <1>2 DEF ReadSeq
  <2> QED BY <2>4, <2>5 DEF RecoveryInv
<1>3. ASSUME NEW n \in Node, NEW w \in Writer, CommitAppend(n, w), UNCHANGED saved
      PROVE  RecoveryInv'
  <2> DEFINE s == append[n][w]
             new == [origin |-> n, seq |-> s, run |-> run[n], by |-> w]
             L == IF Holds(log[n], n, s) THEN log[n] ELSE log[n] \cup {new}
  <2>1. /\ log' = [log EXCEPT ![n] = L] /\ append' = [append EXCEPT ![n][w] = 0]
        /\ UNCHANGED <<cursor, run, pull>> /\ s # 0
    BY <1>3 DEF CommitAppend, RecoveryInv
  <2>2. s \in Nat \ {0} /\ s <= Quota[n] /\ run[n] \in 0 .. MaxRun
    BY <2>1 DEF RecoveryInv
  <2>3. Sound(log[n]) /\ CursorsFit(log[n], cursor[n])
    BY DEF RecoveryInv
  <2>4. new \in Event /\ new.origin = n /\ new.seq = s
    BY <2>2 DEF Event
  <2> HIDE DEF new, s
  <2>5. Sound(L)
    <3>1. CASE Holds(log[n], n, s)
      BY <2>3, <3>1
    <3>2. CASE ~ Holds(log[n], n, s)
      <4>1. IsFiniteSet(log[n] \cup {new})
        BY <2>3, FS_AddElement DEF Sound
      <4>2. L = log[n] \cup {new}
        BY <3>2
      <4> HIDE DEF L
      <4> QED BY <2>2, <2>3, <2>4, <3>2, <4>1, <4>2 DEF Sound, Holds
    <3> QED BY <3>1, <3>2
  <2>6. log[n] \subseteq L
    OBVIOUS
  <2> HIDE DEF L
  <2>7. CursorsFit(L, cursor[n])
    BY <2>3, <2>6, CursorsFitMore
  <2>8. cursor' = [cursor EXCEPT ![n] = cursor[n]]
    BY <2>1 DEF RecoveryInv
  <2>9. /\ append' \in [Node -> [Writer -> Nat]]
        /\ \A m \in Node, v \in Writer : append'[m][v] \in {append[m][v], 0}
    BY <2>1 DEF RecoveryInv
  <2>10. run' \in [Node -> 0 .. MaxRun] /\ DOMAIN pull' = Node /\ pull' = pull
    BY <2>1 DEF RecoveryInv
  <2> QED BY <1>3, <2>1, <2>5, <2>7, <2>8, <2>9, <2>10, TablesStep
<1>4. ASSUME NEW n \in Node, NEW p \in Peers[n], ServeQuery(n, p), UNCHANGED saved
      PROVE  RecoveryInv'
  <2>1. p \in Node
    BY SyncAssumption
  <2>2. PICK E \in SUBSET log[p] : \E k, m : pull' = [pull EXCEPT ![n] = Page(p, k, E, m)]
    <3>1. PICK E \in SUBSET Beyond(log[p], cursor[n][p]) :
             pull' = [pull EXCEPT ![n] = Page(p, pull[n].pages, E, E # Beyond(log[p], cursor[n][p]))]
      BY <1>4 DEF ServeQuery
    <3>2. E \in SUBSET log[p]
      BY DEF Beyond
    <3> QED BY <3>1, <3>2
  <2>3. Sound(E)
    BY <2>1, <2>2, PartSound DEF RecoveryInv
  <2>4. /\ DOMAIN pull' = Node
        /\ pull'[n].events = E
        /\ \A m \in Node \ {n} : pull'[m] = pull[m]
    BY <2>2 DEF RecoveryInv, Page
  <2>5. \A m \in Node : pull'[m].phase = "page" => Sound(pull'[m].events)
    BY <2>3, <2>4 DEF RecoveryInv
  <2>6. UNCHANGED <<log, cursor, run, append, saved>>
    BY <1>4 DEF ServeQuery
  <2> QED BY <2>4, <2>5, <2>6 DEF RecoveryInv
<1>5. ASSUME NEW n \in Node, NEW p \in Peers[n], ApplyPage(n, p), UNCHANGED saved
      PROVE  RecoveryInv'
  <2> DEFINE E == pull[n].events
             L == Persist(log[n], E)
             c == Advance(L, cursor[n][p], E)
             C == [cursor[n] EXCEPT ![p] = c]
  <2>1. p \in Node /\ Sound(E) /\ Sound(log[n]) /\ CursorsFit(log[n], cursor[n])
    BY <1>5, SyncAssumption DEF RecoveryInv, ApplyPage
  <2>2. /\ log' = [log EXCEPT ![n] = L] /\ cursor' = [cursor EXCEPT ![n] = C]
        /\ UNCHANGED <<run, append>>
    BY <1>5 DEF ApplyPage, RecoveryInv
  <2>3. DOMAIN pull' = Node /\ \A m \in Node : pull'[m].phase = "page" => pull'[m] = pull[m]
    <3>1. PICK q : pull' = [pull EXCEPT ![n] = q] /\ (q = Idle \/ \E k : q = Query(p, k))
      BY <1>5 DEF ApplyPage
    <3>2. q.phase # "page"
      BY <3>1 DEF Idle, Query
    <3> QED BY <3>1, <3>2 DEF RecoveryInv
  <2> HIDE DEF E
  <2>4. Sound(L) /\ log[n] \subseteq L
    BY <2>1, PersistSound
  <2> HIDE DEF L
  <2>5. CursorsFit(L, cursor[n])
    BY <2>1, <2>4, CursorsFitMore
  <2>6. cursor[n][p] \in [Node -> Nat] /\ \A o \in Node : \A s \in 1 .. cursor[n][p][o] : Holds(L, o, s)
    BY <2>1, <2>5 DEF CursorsFit
  <2>7. c \in [Node -> Nat] /\ \A o \in Node : \A s \in 1 .. c[o] : Holds(L, o, s)
    BY <2>1, <2>4, <2>6, AdvanceFacts DEF Sound
  <2> HIDE DEF c
  <2>8. CursorsFit(L, C)
    BY <2>1, <2>5, <2>7 DEF CursorsFit
  <2>9. run' \in [Node -> 0 .. MaxRun] /\ append' \in [Node -> [Writer -> Nat]] /\ append' = append
    BY <2>2 DEF RecoveryInv
  <2> HIDE DEF C
  <2> QED BY <1>5, <2>2, <2>3, <2>4, <2>8, <2>9, TablesStep
<1>6. ASSUME NEW n \in Node, PushEvent(n), UNCHANGED saved
      PROVE  RecoveryInv'
  <2>1. PICK m \in Node : \E e \in log[m] :
           /\ log' = [log EXCEPT ![n] = Persist(log[n], {e})]
           /\ UNCHANGED <<cursor, run, append, pull>>
    BY <1>6 DEF PushEvent, RecoveryInv
  <2>2. PICK e \in log[m] : /\ log' = [log EXCEPT ![n] = Persist(log[n], {e})]
                            /\ UNCHANGED <<cursor, run, append, pull>>
    BY <2>1
  <2>3. Sound(log[n]) /\ CursorsFit(log[n], cursor[n]) /\ Sound({e})
    BY PartSound DEF RecoveryInv
  <2>4. Sound(Persist(log[n], {e})) /\ CursorsFit(Persist(log[n], {e}), cursor[n])
    BY <2>3, PersistSound, CursorsFitMore
  <2>5. cursor' = [cursor EXCEPT ![n] = cursor[n]]
    BY <2>2 DEF RecoveryInv
  <2>6. /\ run' \in [Node -> 0 .. MaxRun] /\ append' \in [Node -> [Writer -> Nat]]
        /\ append' = append /\ DOMAIN pull' = Node /\ pull' = pull
    BY <2>2 DEF RecoveryInv
  <2> QED BY <1>6, <2>2, <2>4, <2>5, <2>6, TablesStep
<1>7. ASSUME NEW n \in Node, (\E p \in Peers[n] : StartCycle(n, p)) \/ FailCycle(n), UNCHANGED saved
      PROVE  RecoveryInv'
  <2>1. PICK q : pull' = [pull EXCEPT ![n] = q] /\ (q = Idle \/ \E p : q = Query(p, 0))
    BY <1>7 DEF StartCycle, FailCycle
  <2>2. q.phase # "page"
    BY <2>1 DEF Idle, Query
  <2>3. UNCHANGED <<log, cursor, run, append>>
    BY <1>7 DEF StartCycle, FailCycle
  <2> QED BY <1>7, <2>1, <2>2, <2>3 DEF RecoveryInv
<1>8. ASSUME NEW n \in Node, Crash(n) \/ Restore(n), UNCHANGED saved
      PROVE  RecoveryInv'
  <2>1. /\ run[n] < MaxRun /\ run' = [run EXCEPT ![n] = @ + 1]
        /\ append' = [append EXCEPT ![n] = [w \in Writer |-> 0]]
        /\ pull' = [pull EXCEPT ![n] = Idle]
    BY <1>8 DEF Crash, Restore
  <2>2. run' \in [Node -> 0 .. MaxRun]
    BY <2>1, SyncAssumption DEF RecoveryInv
  <2>3. /\ append' \in [Node -> [Writer -> Nat]]
        /\ \A m \in Node, w \in Writer : append'[m][w] \in {append[m][w], 0}
    BY <2>1 DEF RecoveryInv
  <2>4. DOMAIN pull' = Node /\ \A m \in Node : pull'[m].phase = "page" => pull'[m] = pull[m]
    BY <2>1 DEF RecoveryInv, Idle
  <2>5. PICK L, C : /\ Sound(L) /\ CursorsFit(L, C)
                    /\ log' = [log EXCEPT ![n] = L] /\ cursor' = [cursor EXCEPT ![n] = C]
    <3>1. CASE Crash(n)
      <4>1. log' = [log EXCEPT ![n] = log[n]] /\ cursor' = [cursor EXCEPT ![n] = cursor[n]]
        BY <3>1 DEF Crash, RecoveryInv
      <4> QED BY <4>1 DEF RecoveryInv
    <3>2. CASE Restore(n)
      BY <3>2 DEF Restore, RecoveryInv
    <3> QED BY <1>8, <3>1, <3>2
  <2> QED BY <1>8, <2>2, <2>3, <2>4, <2>5, TablesStep
<1>9. ASSUME NEW n \in Node, Save(n)
      PROVE  RecoveryInv'
  <2>1. saved' = [saved EXCEPT ![n] = Tables(n)] /\ UNCHANGED <<log, cursor, run, append, pull>>
    BY <1>9 DEF Save, vars
  <2>2. saved'[n].log = log[n] /\ saved'[n].cursor = cursor[n] /\ DOMAIN saved' = Node
    BY <2>1 DEF Tables, RecoveryInv
  <2>3. \A m \in Node \ {n} : saved'[m] = saved[m]
    BY <2>1 DEF RecoveryInv
  <2>4. \A m \in Node : Sound(saved'[m].log) /\ CursorsFit(saved'[m].log, saved'[m].cursor)
    BY <2>2, <2>3 DEF RecoveryInv
  <2> QED BY <2>1, <2>2, <2>4 DEF RecoveryInv
<1>10. ASSUME NEW n \in Node, Restore(n) PROVE UNCHANGED saved
  BY <1>10 DEF Restore
<1> QED
  BY <1>1, <1>2, <1>3, <1>4, <1>5, <1>6, <1>7, <1>8, <1>9, <1>10 DEF RecoveryNext, Next

(* A database that has fallen back, by a power loss or a restored backup,   *)
(* never makes advance_peer_cursor cross a missing number: cursors fall back*)
(* with the rows they cover, and late pages are counted like others.        *)
THEOREM CursorsSurviveRecovery == RecoverySpec => []CursorContiguous
<1>1. RecoveryInv => CursorContiguous
  BY DEF RecoveryInv, CursorsFit, CursorContiguous
<1> QED BY <1>1, RecoveryInit_Inv, RecoveryStepInv, PTL DEF RecoverySpec

(* Nor does a node that numbers its events anew, and hears of its forgotten *)
(* ones from its peers, ever hold two events of one number.                 *)
THEOREM NumbersSurviveRecovery == RecoverySpec => []UniqueNumbers
<1>1. RecoveryInv => UniqueNumbers
  BY DEF RecoveryInv, Sound, UniqueNumbers
<1> QED BY <1>1, RecoveryInit_Inv, RecoveryStepInv, PTL DEF RecoverySpec
=============================================================================
