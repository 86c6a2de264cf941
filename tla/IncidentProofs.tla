---------------------------- MODULE IncidentProofs ----------------------------
(***************************************************************************)
(* What holds of an incident on any cluster, for any reports, operators and *)
(* relays:                                                                  *)
(*                                                                          *)
(*  - the fold of project_incident, by induction over the size of a         *)
(*    timeline: a state follows from its rows (Follows), whatever ids they  *)
(*    have (KeysDecide);                                                    *)
(*  - the inductive invariant TimelineInv: a row is an event of the log     *)
(*    (TypeInv), ids name events (NumberInv), which are reports or actions  *)
(*    (BodyInv), nothing precedes the source (SourceInv), a logical event   *)
(*    has one row and one work item (RowInv), no alert lacks its row        *)
(*    (AlertsProjected), and all began with the intake (ReportInv);         *)
(*  - the theorems, from both;                                              *)
(*  - a heartbeat source: what a node stores (MonitorInv), what it knows of *)
(*    heartbeats (CoverInv, ClosedInv), and the order in which the watchers *)
(*    of a pair learn of them (WatchersInv);                                *)
(*  - the stored columns: where an operator's row may fall in a timeline    *)
(*    (Near) and what the handlers have loaded (HandlersInv).               *)
(***************************************************************************)
EXTENDS IncidentTimeline, IncidentHandlers, HeartbeatMonitor,
        FiniteSetTheorems, WellFoundedInduction, TLAPS

-----------------------------------------------------------------------------
(* The fold of project_incident                                             *)

(* Induction, with a set in the place of a predicate. *)
LEMMA SetInduction ==
  ASSUME NEW N \in Nat, NEW S, 0 \in S,
         \A i \in 0 .. N : (i < N /\ i \in S) => i + 1 \in S
  PROVE  0 .. N \subseteq S
<1> SUFFICES ASSUME (0 .. N) \ S # {} PROVE FALSE
  OBVIOUS
<1> DEFINE T == (0 .. N) \ S
<1>1. T \subseteq Nat /\ T # {}
  OBVIOUS
<1>2. PICK x \in T : \A y \in T : ~ (<<y, x>> \in OpToRel(<, Nat))
  <2> HIDE DEF T
  <2> QED BY <1>1, NatLessThanWellFounded, WFMin
<1>3. \A y \in T : ~ (y < x)
  BY <1>1, <1>2 DEF OpToRel
<1>4. x \in 1 .. N /\ x - 1 \in 0 .. N /\ x - 1 < x
  OBVIOUS
<1>5. x - 1 \in S
  BY <1>3, <1>4
<1>6. (x - 1) + 1 = x /\ x - 1 < N
  BY <1>4
<1> QED BY <1>4, <1>5, <1>6

(* Rows that the projection can put in order: of two rows that take the same*)
(* place neither is a firing.                                               *)
OrderedRows(R) ==
  /\ IsFiniteSet(R)
  /\ \A r \in R : r.at \in Nat /\ r.id \in Nat /\ r.occ \in Nat
  /\ \A r, q \in R : (r.at = q.at /\ r.id = q.id /\ r # q)
                       => r.kind # "firing" /\ q.kind # "firing"

(* Rows with ids of their own, which the projection puts in one order.      *)
Rows(R) ==
  /\ IsFiniteSet(R)
  /\ \A r \in R : r.at \in Nat /\ r.id \in Nat /\ r.occ \in Nat
  /\ \A r, q \in R : r.id = q.id => r = q

LEMMA RowsOrdered ==
  ASSUME NEW R, Rows(R)
  PROVE  OrderedRows(R)
BY DEF Rows, OrderedRows

(* A part of the timeline is smaller without one of its rows. *)
LEMMA SmallerPart ==
  ASSUME NEW S, IsFiniteSet(S), NEW x \in S
  PROVE  /\ IsFiniteSet(S \ {x}) /\ Cardinality(S) \in Nat /\ Cardinality(S) > 0
         /\ Cardinality(S \ {x}) = Cardinality(S) - 1
<1>1. IsFiniteSet(S \ {x}) /\ Cardinality(S \ {x}) = Cardinality(S) - 1
  BY FS_RemoveElement
<1>2. Cardinality(S) \in Nat /\ Cardinality(S \ {x}) \in Nat
  BY <1>1, FS_CardinalityType
<1> QED BY <1>1, <1>2

(* A part of the timeline with rows has a last one. *)
LEMMA LatestIsLast ==
  ASSUME NEW R, OrderedRows(R), R # {}
  PROVE  /\ Latest(R) \in R
         /\ \A q \in R : ~ Before(Latest(R), q)
         /\ \A q \in R : (q # Latest(R) /\ (q.kind = "firing" \/ Latest(R).kind = "firing"))
                            => Before(q, Latest(R))
<1> DEFINE N == Cardinality(R)
           HasLast(S) == \E r \in S : \A q \in S : ~ Before(r, q)
           Q == {k \in 0 .. N : \A S \in SUBSET R : S # {} /\ Cardinality(S) = k => HasLast(S)}
<1>1. /\ N \in Nat
      /\ \A S \in SUBSET R : IsFiniteSet(S) /\ Cardinality(S) \in Nat
                             /\ (Cardinality(S) = 0 <=> S = {})
  BY FS_Subset, FS_CardinalityType, FS_EmptySet DEF OrderedRows
<1>2. 0 \in Q
  BY <1>1
<1>3. ASSUME NEW k \in 0 .. N, k < N, k \in Q
      PROVE  k + 1 \in Q
  <2> SUFFICES ASSUME NEW S \in SUBSET R, S # {}, Cardinality(S) = k + 1 PROVE HasLast(S)
    BY <1>1, <1>3
  <2>1. PICK x \in S : TRUE
    OBVIOUS
  <2>2. Cardinality(S \ {x}) = k /\ S \ {x} \in SUBSET R
    BY <1>1, SmallerPart
  <2>3. CASE S \ {x} = {}
    <3>1. \A q \in S : q = x
      BY <2>3
    <3>2. x.at \in Nat /\ x.id \in Nat
      BY DEF OrderedRows
    <3> QED BY <3>1, <3>2 DEF Before
  <2>4. CASE S \ {x} # {}
    <3>1. PICK y \in S \ {x} : \A q \in S \ {x} : ~ Before(y, q)
      BY <1>3, <2>2, <2>4
    <3>2. \A q \in S : q.at \in Nat /\ q.id \in Nat
      BY DEF OrderedRows
    <3>3. CASE Before(y, x)
      <4>1. \A q \in S : ~ Before(x, q)
        BY <3>1, <3>2, <3>3 DEF Before
      <4> QED BY <4>1
    <3>4. CASE ~ Before(y, x)
      BY <3>1, <3>4
    <3> QED BY <3>3, <3>4
  <2> QED BY <2>3, <2>4
<1>4. HasLast(R)
  <2>1. 0 .. N \subseteq Q
    <3> HIDE DEF Q, N
    <3> QED BY <1>1, <1>2, <1>3, SetInduction
  <2>2. N \in Q
    BY <1>1, <2>1
  <2> QED BY <2>2
<1>5. Latest(R) \in R /\ \A q \in R : ~ Before(Latest(R), q)
  BY <1>4 DEF Latest
<1>6. ASSUME NEW q \in R, q # Latest(R), q.kind = "firing" \/ Latest(R).kind = "firing"
      PROVE  Before(q, Latest(R))
  BY <1>5, <1>6 DEF Before, OrderedRows
<1> QED BY <1>5, <1>6

(* It comes after all others when no two have the same id. *)
LEMMA LatestIsStrict ==
  ASSUME NEW R, Rows(R), R # {}
  PROVE  /\ Latest(R) \in R
         /\ \A q \in R : q # Latest(R) => Before(q, Latest(R)) /\ ~ Before(Latest(R), q)
<1>1. Latest(R) \in R /\ \A q \in R : ~ Before(Latest(R), q)
  BY RowsOrdered, LatestIsLast
<1> QED BY <1>1 DEF Before, Rows

(* f[S] is the state after the rows of S, for the parts S in D. *)
Folds(f, D) ==
  f = [S \in D |-> IF S = {} THEN NoEvents ELSE ApplyRow(f[S \ {Latest(S)}], Latest(S))]

(* There is such a fold over every timeline. *)
LEMMA FoldExists ==
  ASSUME NEW R, OrderedRows(R)
  PROVE  \E f : Folds(f, SUBSET R)
<1> DEFINE N == Cardinality(R)
           D(k) == {S \in SUBSET R : Cardinality(S) <= k}
           Step(p, S) == ApplyRow(p, Latest(S))
           Q == {k \in 0 .. N : \E f : Folds(f, D(k))}
<1>1. /\ N \in Nat
      /\ \A S \in SUBSET R : IsFiniteSet(S) /\ Cardinality(S) \in Nat /\ Cardinality(S) <= N
                             /\ (Cardinality(S) = 0 <=> S = {})
  BY FS_Subset, FS_CardinalityType, FS_EmptySet DEF OrderedRows
<1>2. \A S \in SUBSET R : S # {} =>
        /\ S \ {Latest(S)} \in SUBSET R
        /\ Cardinality(S \ {Latest(S)}) = Cardinality(S) - 1
  <2> SUFFICES ASSUME NEW S \in SUBSET R, S # {}
               PROVE  Cardinality(S \ {Latest(S)}) = Cardinality(S) - 1
    OBVIOUS
  <2>1. OrderedRows(S)
    BY <1>1 DEF OrderedRows
  <2>2. Latest(S) \in S
    BY <2>1, LatestIsLast
  <2> QED BY <1>1, <2>2, SmallerPart
<1>3. 0 \in Q
  <2> DEFINE f == [S \in D(0) |-> NoEvents]
  <2>1. \A S \in D(0) : S = {}
    BY <1>1
  <2> HIDE DEF D, Step
  <2>2. f = [S \in D(0) |-> IF S = {} THEN NoEvents ELSE Step(f[S \ {Latest(S)}], S)]
    BY <2>1
  <2> HIDE DEF f
  <2>3. Folds(f, D(0))
    BY <2>2, Zenon DEF Folds, Step
  <2> QED BY <1>1, <2>3
<1>4. ASSUME NEW k \in 0 .. N, k < N, k \in Q
      PROVE  k + 1 \in Q
  <2>1. PICK f : Folds(f, D(k))
    BY <1>4
  <2>2. f = [S \in D(k) |-> IF S = {} THEN NoEvents ELSE Step(f[S \ {Latest(S)}], S)]
    BY <2>1, Zenon DEF Folds
  <2> HIDE DEF Step
  <2> DEFINE g == [S \in D(k + 1) |->
                     IF S = {} THEN NoEvents ELSE Step(f[S \ {Latest(S)}], S)]
  <2>3. \A S \in D(k) : S \in D(k + 1) /\ g[S] = f[S]
    <3>1. \A S \in D(k) : S \in D(k + 1)
      BY <1>1, <1>4
    <3>2. \A S \in D(k) : f[S] = IF S = {} THEN NoEvents ELSE Step(f[S \ {Latest(S)}], S)
      BY <2>2, Zenon
    <3> HIDE DEF D
    <3> QED BY <3>1, <3>2
  <2>4. \A S \in D(k + 1) : S # {} => S \ {Latest(S)} \in D(k)
    BY <1>1, <1>2, <1>4
  <2>5. g = [S \in D(k + 1) |-> IF S = {} THEN NoEvents ELSE Step(g[S \ {Latest(S)}], S)]
    <3> HIDE DEF D
    <3>1. \A S \in D(k + 1) :
            g[S] = IF S = {} THEN NoEvents ELSE Step(g[S \ {Latest(S)}], S)
      BY <2>3, <2>4
    <3>2. DOMAIN g = D(k + 1) /\ g = [S \in D(k + 1) |-> g[S]]
      OBVIOUS
    <3> HIDE DEF g
    <3> QED BY <3>1, <3>2
  <2> HIDE DEF g, D
  <2>6. Folds(g, D(k + 1))
    BY <2>5, Zenon DEF Folds, Step
  <2>7. k + 1 \in 0 .. N
    BY <1>1, <1>4
  <2> QED BY <2>6, <2>7
<1>5. N \in Q
  <2>1. 0 .. N \subseteq Q
    <3> HIDE DEF Q, N
    <3> QED BY <1>1, <1>3, <1>4, SetInduction
  <2>2. N \in 0 .. N
    BY <1>1
  <2> HIDE DEF Q
  <2> QED BY <2>1, <2>2
<1>6. D(N) = SUBSET R
  BY <1>1
<1>7. \E f : Folds(f, D(N))
  BY <1>5
<1> HIDE DEF D
<1> QED BY <1>6, <1>7

(* Whatever a row is, it makes a state of a state. *)
LEMMA ApplyRowState ==
  ASSUME NEW p \in State, NEW r, r.occ \in Nat
  PROVE  ApplyRow(p, r) \in State
<1>1. CASE r.kind = "firing"
  BY <1>1 DEF ApplyRow, ApplyFiring, State
<1>2. CASE r.kind = "resolved"
  BY <1>2 DEF ApplyRow, ApplyResolved, State
<1>3. CASE r.kind \notin {"firing", "resolved"}
  BY <1>3 DEF ApplyRow, State
<1> QED BY <1>1, <1>2, <1>3

(* Effect tabulates ApplyRow. *)
LEMMA EffectIsApplyRow ==
  ASSUME NEW R, NEW p \in State, NEW r \in R
  PROVE  Effect(R)[<<p, r>>] = ApplyRow(p, r)
<1> HIDE DEF State
<1> QED BY DEF Effect

(* The projection is such a fold: the function that project_incident chooses*)
(* goes through states, so that Effect is ApplyRow there.                   *)
LEMMA ProjectionFolds ==
  ASSUME NEW R, OrderedRows(R)
  PROVE  \E f : /\ project_incident(R) = f[R]
                /\ f[{}] = NoEvents
                /\ \A S \in SUBSET R : S # {} =>
                     f[S] = ApplyRow(f[S \ {Latest(S)}], Latest(S))
<1> DEFINE after == CHOOSE after : after = [S \in SUBSET R |->
                      IF S = {} THEN NoEvents ELSE Effect(R)[<<after[S \ {Latest(S)}], Latest(S)>>]]
           N == Cardinality(R)
<1>1. project_incident(R) = after[R]
  BY DEF project_incident
<1>2. PICK f : Folds(f, SUBSET R)
  BY FoldExists
<1>3. f = [S \in SUBSET R |->
             IF S = {} THEN NoEvents ELSE ApplyRow(f[S \ {Latest(S)}], Latest(S))]
  BY <1>2, Zenon DEF Folds
<1>4. f[{}] = NoEvents
  BY <1>3
<1>5. \A S \in SUBSET R : S # {} => f[S] = ApplyRow(f[S \ {Latest(S)}], Latest(S))
  BY <1>3, Zenon
<1>6. /\ N \in Nat
      /\ \A S \in SUBSET R : OrderedRows(S) /\ Cardinality(S) \in Nat /\ Cardinality(S) <= N
                             /\ (Cardinality(S) = 0 <=> S = {})
  BY FS_Subset, FS_CardinalityType, FS_EmptySet DEF OrderedRows
<1>7. ASSUME NEW S \in SUBSET R, S # {}
      PROVE  /\ S \ {Latest(S)} \in SUBSET R
             /\ Cardinality(S \ {Latest(S)}) = Cardinality(S) - 1
             /\ Latest(S) \in R /\ Latest(S).occ \in Nat
  <2>1. Latest(S) \in S /\ IsFiniteSet(S)
    BY <1>6, <1>7, LatestIsLast DEF OrderedRows
  <2>2. Cardinality(S \ {Latest(S)}) = Cardinality(S) - 1
    BY <2>1, SmallerPart
  <2> QED BY <2>1, <2>2 DEF OrderedRows
<1>8. \A S \in SUBSET R : f[S] \in State
  <2> DEFINE Q == {k \in 0 .. N : \A S \in SUBSET R : Cardinality(S) = k => f[S] \in State}
  <2>1. 0 \in Q
    <3>1. \A S \in SUBSET R : Cardinality(S) = 0 => f[S] = NoEvents
      BY <1>4, <1>6
    <3>2. NoEvents \in State
      BY DEF NoEvents, State
    <3> QED BY <1>6, <3>1, <3>2
  <2>2. ASSUME NEW k \in 0 .. N, k < N, k \in Q
        PROVE  k + 1 \in Q
    <3> SUFFICES ASSUME NEW S \in SUBSET R, Cardinality(S) = k + 1 PROVE f[S] \in State
      BY <1>6, <2>2
    <3>1. S # {} /\ Cardinality(S) - 1 = k
      BY <1>6
    <3>2. f[S \ {Latest(S)}] \in State /\ Latest(S).occ \in Nat
      BY <1>7, <2>2, <3>1
    <3> QED BY <1>5, <3>1, <3>2, ApplyRowState
  <2>3. 0 .. N \subseteq Q
    <3> HIDE DEF Q, N
    <3> QED BY <1>6, <2>1, <2>2, SetInduction
  <2>4. \A S \in SUBSET R : Cardinality(S) \in 0 .. N
    BY <1>6
  <2> QED BY <2>3, <2>4
<1>9. \A S \in SUBSET R : S # {} =>
         f[S] = Effect(R)[<<f[S \ {Latest(S)}], Latest(S)>>]
  <2> SUFFICES ASSUME NEW S \in SUBSET R, S # {}
               PROVE  ApplyRow(f[S \ {Latest(S)}], Latest(S))
                        = Effect(R)[<<f[S \ {Latest(S)}], Latest(S)>>]
    BY <1>5
  <2>1. f[S \ {Latest(S)}] \in State /\ Latest(S) \in R
    BY <1>7, <1>8
  <2> QED BY <2>1, EffectIsApplyRow
<1>10. f = [S \in SUBSET R |->
              IF S = {} THEN NoEvents ELSE Effect(R)[<<f[S \ {Latest(S)}], Latest(S)>>]]
  <2>1. DOMAIN f = SUBSET R /\ f = [S \in SUBSET R |-> f[S]]
    BY <1>3
  <2>2. \A S \in SUBSET R :
           f[S] = IF S = {} THEN NoEvents ELSE Effect(R)[<<f[S \ {Latest(S)}], Latest(S)>>]
    BY <1>4, <1>9
  <2> QED BY <2>1, <2>2, Zenon
<1>11. after = [S \in SUBSET R |->
                  IF S = {} THEN NoEvents ELSE Effect(R)[<<after[S \ {Latest(S)}], Latest(S)>>]]
  BY <1>10, Zenon
<1> HIDE DEF after
<1>12. after[{}] = NoEvents
  BY <1>11
<1>13. \A S \in SUBSET R : S # {} => after[S] = Effect(R)[<<after[S \ {Latest(S)}], Latest(S)>>]
  BY <1>11, Zenon
<1>14. \A S \in SUBSET R : after[S] = f[S]
  <2> DEFINE Q == {k \in 0 .. N : \A S \in SUBSET R : Cardinality(S) = k => after[S] = f[S]}
  <2>1. 0 \in Q
    BY <1>4, <1>6, <1>12
  <2>2. ASSUME NEW k \in 0 .. N, k < N, k \in Q
        PROVE  k + 1 \in Q
    <3> SUFFICES ASSUME NEW S \in SUBSET R, Cardinality(S) = k + 1 PROVE after[S] = f[S]
      BY <1>6, <2>2
    <3>1. S # {} /\ Cardinality(S) - 1 = k
      BY <1>6
    <3>2. after[S \ {Latest(S)}] = f[S \ {Latest(S)}]
      BY <1>7, <2>2, <3>1
    <3> QED BY <1>9, <1>13, <3>1, <3>2
  <2>3. 0 .. N \subseteq Q
    <3> HIDE DEF Q, N
    <3> QED BY <1>6, <2>1, <2>2, SetInduction
  <2>4. \A S \in SUBSET R : Cardinality(S) \in 0 .. N
    BY <1>6
  <2> QED BY <2>3, <2>4
<1>15. project_incident(R) = f[R]
  BY <1>1, <1>14
<1> QED BY <1>4, <1>5, <1>15

(* A firing happens at the start of its occurrence. *)
Firings(R) == {r \in R : r.kind = "firing"}
FiringsStart(R) == \A r \in Firings(R) : r.at = r.occ /\ r.occ > 0

(* What a state says about the rows it is made from. *)
Follows(p, S) ==
  /\ p \in State
  /\ p.status = "resolved" <=> Covered(S)
  /\ p.starts = 0 => Firings(S) = {}
  /\ \A r \in Firings(S) : r.occ <= p.starts
  /\ p.starts # 0 => \E r \in Firings(S) : r.occ = p.starts
  /\ (\A r \in S : r.kind \in {"firing", "resolved"}) => p.status \in {"open", "resolved"}

(* Nothing but a resolution resolves, and nothing but a firing ends that.   *)
LEMMA OtherRowsKeepResolved ==
  ASSUME NEW p \in State, NEW r, r.kind \notin {"firing", "resolved"}
  PROVE  /\ ApplyRow(p, r) \in State /\ ApplyRow(p, r).starts = p.starts
         /\ ApplyRow(p, r).status = "resolved" <=> p.status = "resolved"
BY DEF ApplyRow, State

(* One more row, later than the others. *)
LEMMA RowFollows ==
  ASSUME NEW R, OrderedRows(R), FiringsStart(R), NEW l \in R, NEW S, S = R \ {l},
         \A q \in S : /\ ~ Before(l, q)
                      /\ q.kind = "firing" \/ l.kind = "firing" => Before(q, l),
         NEW p, Follows(p, S)
  PROVE  Follows(ApplyRow(p, l), R)
<1> DEFINE v == ApplyRow(p, l)
<1>1. /\ p \in State /\ p.starts \in Nat /\ l.occ \in Nat /\ l.at \in Nat /\ l.id \in Nat
      /\ \A q \in R : q.at \in Nat /\ q.occ \in Nat /\ q.id \in Nat
  BY DEF Follows, State, OrderedRows
<1>2. ~ Before(l, l) /\ \A q \in R : ~ Before(l, q)
  BY <1>1 DEF Before
<1>3. \A q \in Firings(R) : q = l \/ q \in Firings(S)
  BY DEF Firings
<1>4. Firings(S) \subseteq Firings(R)
  BY DEF Firings
<1>5. CASE l.kind = "firing"
  <2>1. l \in Firings(R) /\ l.at = l.occ /\ l.occ > 0
    BY <1>5 DEF FiringsStart, Firings
  <2>2. \A q \in Firings(S) : q.occ <= l.occ
    <3> TAKE q \in Firings(S)
    <3>1. q \in S /\ q \in R /\ q.at = q.occ /\ Before(q, l)
      BY <1>4 DEF FiringsStart, Firings
    <3> QED BY <1>1, <2>1, <3>1 DEF Before
  <2>3. v = ApplyFiring(p, l)
    BY <1>5 DEF ApplyRow
  <2>4. ~ Covered(R)
    BY <1>2, <2>1 DEF Covered, Firings
  <2>5. CASE p.starts = 0 \/ l.occ > p.starts \/ p.status = "resolved"
    <3>1. v = [status |-> "open", starts |-> l.occ, acked |-> FALSE]
      BY <2>3, <2>5 DEF ApplyFiring
    <3> HIDE DEF v
    <3>2. v \in State /\ v.status = "open" /\ v.starts = l.occ
      BY <1>1, <3>1 DEF State
    <3>3. \A q \in Firings(R) : q.occ <= v.starts
      <4> TAKE q \in Firings(R)
      <4>1. CASE q = l
        BY <1>1, <3>2, <4>1
      <4>2. CASE q \in Firings(S)
        BY <2>2, <3>2, <4>2
      <4> QED BY <1>3, <4>1, <4>2
    <3>4. v.starts # 0 /\ \E q \in Firings(R) : q.occ = v.starts
      BY <1>1, <2>1, <3>2
    <3>5. Follows(v, R)
      BY <2>4, <3>2, <3>3, <3>4 DEF Follows
    <3> QED BY <3>5 DEF v
  <2>6. CASE ~ (p.starts = 0 \/ l.occ > p.starts \/ p.status = "resolved")
    <3>1. v = p
      BY <2>3, <2>6 DEF ApplyFiring
    <3> HIDE DEF v
    <3>2. \A q \in Firings(R) : q.occ <= p.starts
      <4> TAKE q \in Firings(R)
      <4>1. CASE q = l
        BY <1>1, <2>6, <4>1
      <4>2. CASE q \in Firings(S)
        BY <4>2 DEF Follows
      <4> QED BY <1>3, <4>1, <4>2
    <3>3. \E q \in Firings(R) : q.occ = p.starts
      BY <1>4, <2>6 DEF Follows
    <3>4. (\A r \in R : r.kind \in {"firing", "resolved"}) => p.status \in {"open", "resolved"}
      BY DEF Follows
    <3>5. Follows(v, R)
      BY <1>1, <2>4, <2>6, <3>1, <3>2, <3>3, <3>4 DEF Follows
    <3> QED BY <3>5 DEF v
  <2> QED BY <2>5, <2>6
<1>6. CASE l.kind # "firing"
  <2>1. Firings(R) = Firings(S)
    BY <1>6 DEF Firings
  <2>2. Covered(R) <=> \/ Covered(S)
                       \/ /\ l.kind = "resolved"
                          /\ \A q \in Firings(S) : Before(q, l) /\ (l.occ = 0 \/ l.occ >= q.occ)
    <3>1. Covered(R) <=> \E c \in R : /\ c.kind = "resolved"
                                      /\ \A q \in Firings(R) : Before(q, c) /\ (c.occ = 0 \/ c.occ >= q.occ)
      BY DEF Covered, Firings
    <3>2. Covered(S) <=> \E c \in S : /\ c.kind = "resolved"
                                      /\ \A q \in Firings(S) : Before(q, c) /\ (c.occ = 0 \/ c.occ >= q.occ)
      BY DEF Covered, Firings
    <3> QED BY <2>1, <3>1, <3>2
  <2>3. \A q \in Firings(S) : Before(q, l)
    BY DEF Firings
  <2>4. CASE l.kind # "resolved"
    <3>1. v \in State /\ v.starts = p.starts /\ (v.status = "resolved" <=> p.status = "resolved")
      BY <1>1, <1>6, <2>4, OtherRowsKeepResolved
    <3>2. ~ \A r \in R : r.kind \in {"firing", "resolved"}
      BY <1>6, <2>4
    <3> HIDE DEF v
    <3>3. Follows(v, R)
      BY <2>1, <2>2, <2>4, <3>1, <3>2 DEF Follows
    <3> QED BY <3>3 DEF v
  <2>5. CASE l.kind = "resolved"
    <3>1. v = ApplyResolved(p, l)
      BY <2>5 DEF ApplyRow
    <3>2. CASE l.occ = 0 \/ p.starts = 0 \/ l.occ >= p.starts
      <4>1. v = [p EXCEPT !.status = "resolved"]
        BY <3>1, <3>2 DEF ApplyResolved
      <4> HIDE DEF v
      <4>2. v \in State /\ v.status = "resolved" /\ v.starts = p.starts
        BY <1>1, <4>1 DEF State
      <4>3. \A q \in Firings(S) : l.occ = 0 \/ l.occ >= q.occ
        <5> TAKE q \in Firings(S)
        <5>1. q.occ <= p.starts /\ q.occ \in Nat /\ p.starts # 0
          BY <1>1 DEF Follows, Firings
        <5> QED BY <1>1, <3>2, <5>1
      <4>4. Covered(R)
        BY <2>2, <2>3, <2>5, <4>3
      <4>5. Follows(v, R)
        BY <2>1, <4>2, <4>4 DEF Follows
      <4> QED BY <4>5 DEF v
    <3>3. CASE ~ (l.occ = 0 \/ p.starts = 0 \/ l.occ >= p.starts)
      <4>1. v = p
        BY <3>1, <3>3 DEF ApplyResolved
      <4> HIDE DEF v
      <4>2. PICK q \in Firings(S) : q.occ = p.starts
        BY <3>3 DEF Follows
      <4>3. ~ (l.occ = 0 \/ l.occ >= q.occ)
        BY <3>3, <4>2
      <4>4. Covered(R) <=> Covered(S)
        BY <2>2, <4>2, <4>3
      <4>5. (\A r \in R : r.kind \in {"firing", "resolved"}) => p.status \in {"open", "resolved"}
        BY DEF Follows
      <4>6. Follows(v, R)
        BY <2>1, <4>1, <4>4, <4>5 DEF Follows
      <4> QED BY <4>6 DEF v
    <3> QED BY <3>2, <3>3
  <2> QED BY <2>4, <2>5
<1> QED BY <1>5, <1>6

(* The state of an incident follows from its timeline. *)
LEMMA ProjectionFollows ==
  ASSUME NEW R, OrderedRows(R), FiringsStart(R)
  PROVE  Follows(project_incident(R), R)
<1> DEFINE N == Cardinality(R)
<1>1. /\ N \in Nat
      /\ \A S \in SUBSET R : IsFiniteSet(S) /\ Cardinality(S) \in Nat
                             /\ (Cardinality(S) = 0 <=> S = {})
  BY FS_Subset, FS_CardinalityType, FS_EmptySet DEF OrderedRows
<1>2. PICK f : /\ project_incident(R) = f[R]
               /\ f[{}] = NoEvents
               /\ \A S \in SUBSET R : S # {} =>
                    f[S] = ApplyRow(f[S \ {Latest(S)}], Latest(S))
  BY ProjectionFolds
<1> DEFINE Q == {k \in 0 .. N : \A S \in SUBSET R : Cardinality(S) = k => Follows(f[S], S)}
<1>3. 0 \in Q
  <2>1. Follows(NoEvents, {})
    BY DEF Follows, NoEvents, State, Firings, Covered
  <2>2. \A S \in SUBSET R : Cardinality(S) = 0 => Follows(f[S], S)
    BY <1>1, <1>2, <2>1
  <2>3. 0 \in 0 .. N
    BY <1>1
  <2> QED BY <2>2, <2>3
<1>4. ASSUME NEW k \in 0 .. N, k < N, k \in Q
      PROVE  k + 1 \in Q
  <2> SUFFICES ASSUME NEW S \in SUBSET R, Cardinality(S) = k + 1 PROVE Follows(f[S], S)
    BY <1>1, <1>4
  <2>1. S # {} /\ OrderedRows(S) /\ FiringsStart(S)
    BY <1>1 DEF OrderedRows, FiringsStart, Firings
  <2> DEFINE l == Latest(S)
  <2>2. /\ l \in S
        /\ \A q \in S \ {l} : /\ ~ Before(l, q)
                              /\ q.kind = "firing" \/ l.kind = "firing" => Before(q, l)
    BY <2>1, LatestIsLast
  <2>3. Cardinality(S \ {l}) = k /\ S \ {l} \in SUBSET R
    BY <1>1, <2>2, SmallerPart
  <2>4. Follows(f[S \ {l}], S \ {l})
    BY <1>4, <2>3
  <2>5. f[S] = ApplyRow(f[S \ {l}], l)
    BY <1>2, <2>1
  <2> HIDE DEF l
  <2> QED BY <2>1, <2>2, <2>4, <2>5, RowFollows
<1>5. 0 .. N \subseteq Q
  <2> HIDE DEF Q, N
  <2> QED BY <1>1, <1>3, <1>4, SetInduction
<1>6. N \in Q
  <2>1. N \in 0 .. N
    BY <1>1
  <2> HIDE DEF Q
  <2> QED BY <1>5, <2>1
<1> QED BY <1>2, <1>6

-----------------------------------------------------------------------------
(* The inductive invariant                                                  *)

Event == [origin : Node, seq : 1 .. MaxSeq, id : Nat,
          kind : {"source", "firing", "resolved", "acknowledged", "silenced"},
          occ : Nat, at : Nat, label : Labels \cup {"config", "operator"}]

TypeInv ==
  /\ setup \in Setups
  /\ log \in [Node -> SUBSET Event]
  /\ timeline \in [Node -> SUBSET Event]
  /\ outbox \in [Node -> SUBSET Event]
  /\ \A n \in Node : /\ IsFiniteSet(log[n])
                     /\ timeline[n] \subseteq log[n] /\ outbox[n] \subseteq timeline[n]

(* The events that n numbered. *)
Own(n) == {e \in log[n] : e.origin = n}

(* A number stands for one event, which its origin has, and so does an id.  *)
NumberInv ==
  /\ \A n \in Node : \A e \in log[n] : e \in log[e.origin] /\ e.id = Uuid[<<e.origin, e.seq>>]
  /\ \A n \in Node : \A e \in Own(n) : e.seq <= Cardinality(Own(n))
  /\ \A n \in Node : \A e, f \in Own(n) : e.seq = f.seq => e = f

ActionKinds == {"acknowledged", "silenced", "resolved"}

(* What an event may be about. *)
FromSource(b) == b \in Reports \cup Shadow
FromOperator(b) == b.label = "operator" /\ b.kind \in ActionKinds
Known(b) == b = Config \/ FromSource(b) \/ FromOperator(b)

BodyInv == \A n \in Node : \A e \in log[n] : Known(Key(e))

(* Everything begins with the source. *)
SourceInv == (\A m \in Node : ~ KnowsSource(log[m])) => \A n \in Node : log[n] = {}

(* One row for a logical event, none for the source, one work item for an   *)
(* alert.                                                                   *)
RowInv ==
  \A n \in Node :
    /\ \A r, q \in timeline[n] : Key(r) = Key(q) => r = q
    /\ \A r \in timeline[n] : r.label # "config"
    /\ \A r \in timeline[n] : r \in outbox[n] <=> r.label # "operator"

(* Whatever is known of the incident began with a report of the intake.     *)
ReportInv ==
  (\E n \in Node : AlertsIn(log[n]) # {} \/ timeline[n] # {})
    => \E m \in Node : \E e \in AlertsIn(log[m]) : Key(e) \in Reports

TimelineInv == /\ TypeInv /\ NumberInv /\ BodyInv /\ SourceInv /\ RowInv
               /\ AlertsProjected /\ ReportInv

(* A report has the fields of a body. *)
LEMMA ReportsAreBodies ==
  ASSUME NEW b, FromSource(b)
  PROVE  /\ b \in Body /\ b.kind \in {"firing", "resolved"}
         /\ b.label \notin {"config", "operator"}
         /\ b.kind = "firing" => b.at = b.occ /\ b.occ > 0
  BY TimelineAssumption DEF FromSource

(* The fields of an event that are its body. *)
LEMMA KeyFields ==
  ASSUME NEW e
  PROVE  /\ Key(e).kind = e.kind /\ Key(e).occ = e.occ
         /\ Key(e).at = e.at /\ Key(e).label = e.label
BY DEF Key

(* What the label says of an event. *)
LEMMA KnownFields ==
  ASSUME NEW e, Known(Key(e))
  PROVE  /\ e.label = "config" => e.kind = "source"
         /\ e.label = "operator" => e.kind \in ActionKinds
         /\ e.label \notin {"config", "operator"} =>
              e.kind \in {"firing", "resolved"} /\ Key(e) \in Reports \cup Shadow
         /\ e.kind = "firing" => e.at = e.occ /\ e.occ > 0 /\ e.label \notin {"config", "operator"}
         /\ e.kind = "source" => e.label = "config"
<1>1. CASE Key(e) = Config
  BY <1>1, KeyFields DEF Config
<1>2. CASE FromSource(Key(e))
  BY <1>2, KeyFields, ReportsAreBodies DEF FromSource
<1>3. CASE FromOperator(Key(e))
  BY <1>3, KeyFields DEF FromOperator, ActionKinds
<1> QED BY <1>1, <1>2, <1>3 DEF Known

(* The rows of a node, and of any part of its log, can be put in order.     *)
LEMMA LogRows ==
  ASSUME TypeInv, NumberInv, BodyInv, NEW n \in Node, NEW R \in SUBSET log[n]
  PROVE  Rows(R) /\ FiringsStart(R)
<1>1. IsFiniteSet(R) /\ \A r \in R : r \in Event /\ r \in log[n]
  BY FS_Subset DEF TypeInv
<1>2. \A r \in R : r.at \in Nat /\ r.id \in Nat /\ r.occ \in Nat
  BY <1>1 DEF Event
<1>3. ASSUME NEW r \in R, NEW q \in R, r.id = q.id
      PROVE  r = q
  <2>1. /\ r.origin \in Node /\ r.seq \in 1 .. MaxSeq /\ q.origin \in Node /\ q.seq \in 1 .. MaxSeq
        /\ r.id = Uuid[<<r.origin, r.seq>>] /\ q.id = Uuid[<<q.origin, q.seq>>]
        /\ r \in log[r.origin] /\ q \in log[q.origin]
    BY <1>1 DEF Event, NumberInv
  <2>2. <<r.origin, r.seq>> = <<q.origin, q.seq>>
    BY <1>3, <2>1, TimelineAssumption
  <2>3. r.origin = q.origin /\ r.seq = q.seq
    BY <2>2
  <2> QED BY <2>1, <2>3 DEF NumberInv, Own
<1>4. \A r \in R : r.kind = "firing" => r.at = r.occ /\ r.occ > 0
  BY <1>1, KnownFields DEF BodyInv
<1> QED BY <1>1, <1>2, <1>3, <1>4 DEF Rows, FiringsStart, Firings

(* The next event of n. *)
LEMMA NumberedFacts ==
  ASSUME TypeInv, NumberInv, NEW n \in Node, MayAppend(n), NEW b \in Body
  PROVE  /\ Numbered(n, b) \in Event /\ Key(Numbered(n, b)) = b
         /\ Numbered(n, b).origin = n
         /\ Numbered(n, b).seq = 1 + Cardinality(Own(n))
         /\ Numbered(n, b).id = Uuid[<<n, Numbered(n, b).seq>>]
         /\ Numbered(n, b).kind = b.kind /\ Numbered(n, b).label = b.label
         /\ Numbered(n, b) \notin log[n] /\ Cardinality(Own(n)) \in Nat /\ IsFiniteSet(Own(n))
<1> DEFINE e == Numbered(n, b)
           s == 1 + Cardinality(Own(n))
<1>1. IsFiniteSet(Own(n)) /\ Cardinality(Own(n)) \in Nat
  BY FS_Subset, FS_CardinalityType DEF TypeInv, Own
<1>2. e = [origin |-> n, seq |-> s, id |-> Uuid[<<n, s>>],
           kind |-> b.kind, occ |-> b.occ, at |-> b.at, label |-> b.label]
  BY Zenon DEF Numbered, Own
<1>3. s \in 1 .. MaxSeq
  <2>1. setup.quota[n] \in 0 .. MaxSeq /\ MaxSeq \in Nat
    BY TimelineAssumption DEF TypeInv
  <2>2. Cardinality(Own(n)) < setup.quota[n]
    BY DEF MayAppend, Own
  <2> QED BY <1>1, <2>1, <2>2
<1>4. Uuid[<<n, s>>] \in Nat
  BY <1>3, TimelineAssumption
<1>5. b.kind \in {"source", "firing", "resolved", "acknowledged", "silenced"}
      /\ b.occ \in Nat /\ b.at \in Nat /\ b.label \in Labels \cup {"config", "operator"}
      /\ b = [kind |-> b.kind, occ |-> b.occ, at |-> b.at, label |-> b.label]
  BY DEF Body
<1> HIDE DEF s, e
<1>6. e \in Event /\ Key(e) = b
  BY <1>2, <1>3, <1>4, <1>5 DEF Event, Key
<1>7. e.origin = n /\ e.seq = s /\ e.id = Uuid[<<n, e.seq>>] /\ e.kind = b.kind /\ e.label = b.label
  BY <1>2
<1>8. e \notin log[n]
  <2> SUFFICES ASSUME e \in log[n] PROVE FALSE
    OBVIOUS
  <2>1. e \in Own(n)
    BY <1>7 DEF Own
  <2>2. e.seq <= Cardinality(Own(n))
    BY <2>1 DEF NumberInv
  <2> QED BY <1>1, <1>7, <2>2 DEF s
<1> QED BY <1>1, <1>6, <1>7, <1>8 DEF e, s

-----------------------------------------------------------------------------
(* A node adds an event of its own                                          *)

(* A report, or what an operator does to the incident, that is new to n.    *)
Legal(n, b) ==
  /\ b \in Body /\ (FromSource(b) \/ FromOperator(b))
  /\ b \notin Keys(timeline[n])
  /\ KnowsSource(log[n])
  /\ b \in Reports \/ timeline[n] # {}

Appended(n, b) ==
  /\ MayAppend(n)
  /\ log' = [log EXCEPT ![n] = @ \cup {Numbered(n, b)}]

(* The logs with one more event of n. *)
LEMMA AppendedLog ==
  ASSUME TypeInv, NumberInv, BodyInv, NEW n \in Node, NEW b \in Body, Known(b), Appended(n, b)
  PROVE  /\ log' \in [Node -> SUBSET Event]
         /\ \A m \in Node : IsFiniteSet(log'[m]) /\ log[m] \subseteq log'[m]
         /\ log'[n] = log[n] \cup {Numbered(n, b)}
         /\ \A m \in Node : m # n => log'[m] = log[m]
         /\ NumberInv' /\ BodyInv'
<1> DEFINE e == Numbered(n, b)
<1>1. /\ e \in Event /\ Key(e) = b /\ e.origin = n /\ e.seq = 1 + Cardinality(Own(n))
      /\ e.id = Uuid[<<n, e.seq>>] /\ e \notin log[n]
      /\ Cardinality(Own(n)) \in Nat /\ IsFiniteSet(Own(n))
  BY NumberedFacts DEF Appended
<1> HIDE DEF e
<1>2. /\ log \in [Node -> SUBSET Event] /\ \A m \in Node : IsFiniteSet(log[m])
      /\ log' = [log EXCEPT ![n] = log[n] \cup {e}]
  BY DEF TypeInv, Appended, e
<1>3. /\ log' \in [Node -> SUBSET Event]
      /\ log'[n] = log[n] \cup {e} /\ \A m \in Node : m # n => log'[m] = log[m]
  BY <1>1, <1>2
<1>4. \A m \in Node : IsFiniteSet(log'[m])
  BY <1>2, <1>3, FS_AddElement
<1>5. Own(n)' = Own(n) \cup {e} /\ \A m \in Node : m # n => Own(m)' = Own(m)
  BY <1>1, <1>3 DEF Own
<1>6. e \notin Own(n) /\ Cardinality(Own(n)') = Cardinality(Own(n)) + 1
  BY <1>1, <1>5, FS_AddElement DEF Own
<1>7. NumberInv'
  <2>1. ASSUME NEW m \in Node, NEW f \in log'[m]
        PROVE  f \in log'[f.origin] /\ f.id = Uuid[<<f.origin, f.seq>>]
    <3>1. CASE f \in log[m]
      <4>1. f \in log[f.origin] /\ f.id = Uuid[<<f.origin, f.seq>>] /\ f.origin \in Node
        BY <1>2, <3>1 DEF NumberInv, Event
      <4> QED BY <1>3, <4>1
    <3>2. CASE f \notin log[m]
      <4>1. m = n /\ f = e
        BY <1>3, <3>2
      <4> QED BY <1>1, <1>3, <4>1
    <3> QED BY <3>1, <3>2
  <2>2. ASSUME NEW m \in Node, NEW f \in Own(m)'
        PROVE  f.seq <= Cardinality(Own(m)')
    <3>1. CASE m # n
      BY <1>5, <3>1 DEF NumberInv
    <3>2. CASE m = n /\ f = e
      BY <1>1, <1>6, <3>2
    <3>3. CASE m = n /\ f # e
      <4>1. f \in Own(n) /\ f.seq <= Cardinality(Own(n))
        BY <1>5, <3>3 DEF NumberInv
      <4>2. f.seq \in Nat
        BY <1>2, <4>1, TimelineAssumption DEF Own, Event
      <4> QED BY <1>1, <1>6, <3>3, <4>1, <4>2
    <3> QED BY <3>1, <3>2, <3>3
  <2>3. ASSUME NEW m \in Node, NEW f \in Own(m)', NEW g \in Own(m)', f.seq = g.seq
        PROVE  f = g
    <3>1. \A x \in Own(n) : x.seq # e.seq
      <4> TAKE x \in Own(n)
      <4>1. x.seq <= Cardinality(Own(n)) /\ x.seq \in Nat
        BY <1>2, TimelineAssumption DEF NumberInv, Own, Event
      <4> QED BY <1>1, <4>1
    <3>2. CASE m # n
      BY <1>5, <2>3, <3>2 DEF NumberInv
    <3>3. CASE m = n
      BY <1>5, <2>3, <3>1, <3>3 DEF NumberInv
    <3> QED BY <3>2, <3>3
  <2> QED BY <2>1, <2>2, <2>3 DEF NumberInv
<1>8. BodyInv'
  BY <1>1, <1>3 DEF BodyInv
<1> QED BY <1>3, <1>4, <1>7, <1>8 DEF e

(* The source is created. *)
LEMMA SourceStep ==
  ASSUME TimelineInv, NEW n \in Node, CreateSource(n), UNCHANGED setup
  PROVE  TimelineInv'
<1> DEFINE e == Numbered(n, Config)
<1>1. Config \in Body /\ Known(Config) /\ Appended(n, Config)
      /\ timeline' = timeline /\ outbox' = outbox /\ \A m \in Node : ~ KnowsSource(log[m])
  <2>1. Config \in Body
    BY DEF Config, Body
  <2> QED BY <2>1 DEF CreateSource, Known, Appended
<1>2. /\ log' \in [Node -> SUBSET Event]
      /\ \A m \in Node : IsFiniteSet(log'[m]) /\ log[m] \subseteq log'[m]
      /\ log'[n] = log[n] \cup {e} /\ \A m \in Node : m # n => log'[m] = log[m]
      /\ NumberInv' /\ BodyInv'
  BY <1>1, AppendedLog DEF TimelineInv
<1>3. e.kind = "source" /\ e.label = "config"
  BY <1>1, NumberedFacts DEF TimelineInv, Appended, Config
<1> HIDE DEF e
<1>4. \A m \in Node : log[m] = {} /\ timeline[m] = {} /\ outbox[m] = {}
  BY <1>1 DEF TimelineInv, SourceInv, TypeInv
<1>5. TypeInv'
  BY <1>1, <1>2, <1>4 DEF TimelineInv, TypeInv
<1>6. SourceInv'
  BY <1>2, <1>3 DEF SourceInv, KnowsSource
<1>7. RowInv'
  BY <1>1, <1>4 DEF RowInv
<1>8. \A m \in Node : AlertsIn(log'[m]) = {}
  BY <1>2, <1>3, <1>4 DEF AlertsIn
<1>9. AlertsProjected'
  BY <1>1, <1>4, <1>8 DEF AlertsProjected, AlertsIn, Keys
<1>10. ReportInv'
  BY <1>1, <1>4, <1>8 DEF ReportInv
<1> QED BY <1>2, <1>5, <1>6, <1>7, <1>9, <1>10 DEF TimelineInv

(* Alerts of a log do not go away. *)
LEMMA ReportsStay ==
  ASSUME NEW L, NEW M, L \subseteq M
  PROVE  AlertsIn(L) \subseteq AlertsIn(M) /\ (KnowsSource(L) => KnowsSource(M))
BY DEF AlertsIn, KnowsSource

(* A report or an action is recorded. *)
LEMMA RecordStep ==
  ASSUME TimelineInv, NEW n \in Node, NEW b, Legal(n, b), Record(n, b), UNCHANGED setup
  PROVE  TimelineInv'
<1> DEFINE e == Numbered(n, b)
<1>1. b \in Body /\ Known(b) /\ Appended(n, b)
  BY DEF Legal, Known, Record, Appended
<1>2. /\ log' \in [Node -> SUBSET Event]
      /\ \A m \in Node : IsFiniteSet(log'[m]) /\ log[m] \subseteq log'[m]
      /\ log'[n] = log[n] \cup {e} /\ \A m \in Node : m # n => log'[m] = log[m]
      /\ NumberInv' /\ BodyInv'
  BY <1>1, AppendedLog DEF TimelineInv
<1>3. /\ e \in Event /\ Key(e) = b /\ e.kind = b.kind /\ e.label = b.label /\ e \notin log[n]
  BY <1>1, NumberedFacts DEF TimelineInv, Appended
<1>4. /\ timeline' = [timeline EXCEPT ![n] = timeline[n] \cup {e}]
      /\ outbox' = [outbox EXCEPT ![n] = IF ShouldDeliver(e) THEN outbox[n] \cup {e} ELSE outbox[n]]
  BY DEF Record
<1> HIDE DEF e
<1>5. /\ timeline' \in [Node -> SUBSET Event] /\ outbox' \in [Node -> SUBSET Event]
      /\ timeline'[n] = timeline[n] \cup {e}
      /\ outbox'[n] = IF ShouldDeliver(e) THEN outbox[n] \cup {e} ELSE outbox[n]
      /\ \A m \in Node : m # n => timeline'[m] = timeline[m] /\ outbox'[m] = outbox[m]
  BY <1>3, <1>4 DEF TimelineInv, TypeInv
<1>6. TypeInv'
  <2>1. \A m \in Node : timeline'[m] \subseteq log'[m] /\ outbox'[m] \subseteq timeline'[m]
    BY <1>2, <1>5 DEF TimelineInv, TypeInv
  <2> QED BY <1>2, <1>5, <2>1 DEF TimelineInv, TypeInv
<1>7. KnowsSource(log[n])
  BY DEF Legal
<1>8. SourceInv'
  BY <1>2, <1>7, ReportsStay DEF SourceInv
<1>9. /\ e.label # "config"
      /\ ShouldDeliver(e) <=> e.label # "operator"
  <2>1. CASE FromSource(b)
    BY <1>3, <2>1, ReportsAreBodies DEF ShouldDeliver
  <2>2. CASE FromOperator(b)
    BY <1>3, <2>2 DEF ShouldDeliver, FromOperator, ActionKinds
  <2> QED BY <2>1, <2>2 DEF Legal
<1>10. RowInv'
  <2>1. \A r \in timeline[n] : Key(r) # Key(e)
    BY <1>3 DEF Legal, Keys
  <2>2. e \notin timeline[n] /\ e \notin outbox[n]
    BY <1>3 DEF TimelineInv, TypeInv
  <2>3. ASSUME NEW m \in Node
        PROVE  /\ \A r, q \in timeline'[m] : Key(r) = Key(q) => r = q
               /\ \A r \in timeline'[m] : r.label # "config"
               /\ \A r \in timeline'[m] : r \in outbox'[m] <=> r.label # "operator"
    <3>1. CASE m # n
      BY <1>5, <3>1 DEF TimelineInv, RowInv
    <3>2. CASE m = n
      <4>1. \A r, q \in timeline'[m] : Key(r) = Key(q) => r = q
        BY <1>5, <2>1, <3>2 DEF TimelineInv, RowInv
      <4>2. \A r \in timeline'[m] : r.label # "config"
        BY <1>5, <1>9, <3>2 DEF TimelineInv, RowInv
      <4>3. \A r \in timeline'[m] : r \in outbox'[m] <=> r.label # "operator"
        <5> TAKE r \in timeline'[m]
        <5>1. CASE r = e
          BY <1>5, <1>9, <2>2, <3>2, <5>1
        <5>2. CASE r # e
          BY <1>5, <3>2, <5>2 DEF TimelineInv, RowInv
        <5> QED BY <5>1, <5>2
      <4> QED BY <4>1, <4>2, <4>3
    <3> QED BY <3>1, <3>2
  <2> QED BY <2>3 DEF RowInv
<1>11. AlertsProjected'
  <2>1. ASSUME NEW m \in Node
        PROVE  IF KnowsSource(log'[m])
               THEN Keys(AlertsIn(log'[m])) = Keys(AlertsIn(timeline'[m]))
               ELSE timeline'[m] = {}
    <3>1. CASE m # n
      BY <1>2, <1>5, <3>1 DEF TimelineInv, AlertsProjected
    <3>2. CASE m = n
      <4>1. KnowsSource(log'[n])
        BY <1>2, <1>7, ReportsStay
      <4>2. Keys(AlertsIn(log[n])) = Keys(AlertsIn(timeline[n]))
        BY <1>7 DEF TimelineInv, AlertsProjected
      <4>3. Keys(AlertsIn(log'[n])) = Keys(AlertsIn(log[n])) \cup Keys(AlertsIn({e}))
        BY <1>2 DEF AlertsIn, Keys
      <4>4. Keys(AlertsIn(timeline'[n])) = Keys(AlertsIn(timeline[n])) \cup Keys(AlertsIn({e}))
        BY <1>5 DEF AlertsIn, Keys
      <4> QED BY <3>2, <4>1, <4>2, <4>3, <4>4
    <3> QED BY <3>1, <3>2
  <2> QED BY <2>1 DEF AlertsProjected
<1>12. ReportInv'
  <2>1. \E m \in Node : \E f \in AlertsIn(log'[m]) : Key(f) \in Reports
    <3>1. CASE b \in Reports
      <4>1. e \in AlertsIn(log'[n])
        BY <1>2, <1>3, <3>1, ReportsAreBodies DEF AlertsIn, FromSource
      <4> QED BY <1>3, <3>1, <4>1
    <3>2. CASE timeline[n] # {}
      BY <1>2, <3>2, ReportsStay DEF TimelineInv, ReportInv
    <3> QED BY <3>1, <3>2 DEF Legal
  <2> QED BY <2>1 DEF ReportInv
<1> QED BY <1>2, <1>6, <1>8, <1>10, <1>11, <1>12 DEF TimelineInv

-----------------------------------------------------------------------------
(* A page is applied                                                        *)

(* The log with a page of p. *)
LEMMA LearnedLog ==
  ASSUME TypeInv, NumberInv, BodyInv, NEW n \in Node, NEW p \in Node,
         NEW E \in SUBSET (log[p] \ log[n]), log' = [log EXCEPT ![n] = @ \cup E]
  PROVE  /\ log' \in [Node -> SUBSET Event]
         /\ \A m \in Node : IsFiniteSet(log'[m]) /\ log[m] \subseteq log'[m]
         /\ log'[n] = log[n] \cup E
         /\ \A m \in Node : m # n => log'[m] = log[m]
         /\ NumberInv' /\ BodyInv'
<1>1. log \in [Node -> SUBSET Event] /\ \A m \in Node : IsFiniteSet(log[m])
  BY DEF TypeInv
<1>2. /\ log' \in [Node -> SUBSET Event]
      /\ log'[n] = log[n] \cup E /\ \A m \in Node : m # n => log'[m] = log[m]
  BY <1>1
<1>3. \A m \in Node : IsFiniteSet(log'[m])
  <2>1. IsFiniteSet(E)
    BY <1>1, FS_Subset
  <2> QED BY <1>1, <1>2, <2>1, FS_Union
<1>4. \A m \in Node : Own(m)' = Own(m)
  <2>1. \A e \in E : e.origin # n
    <3> SUFFICES ASSUME NEW e \in E, e.origin = n PROVE FALSE
      OBVIOUS
    <3>1. e \in log[e.origin]
      BY DEF NumberInv
    <3> QED BY <3>1
  <2> QED BY <1>2, <2>1 DEF Own
<1>5. NumberInv'
  <2>1. ASSUME NEW m \in Node, NEW f \in log'[m]
        PROVE  f \in log'[f.origin] /\ f.id = Uuid[<<f.origin, f.seq>>]
    <3>1. \E q \in Node : f \in log[q]
      BY <1>2
    <3>2. f \in log[f.origin] /\ f.id = Uuid[<<f.origin, f.seq>>] /\ f.origin \in Node
      BY <1>1, <3>1 DEF NumberInv, Event
    <3> QED BY <1>2, <3>2
  <2> QED BY <1>4, <2>1 DEF NumberInv
<1>6. BodyInv'
  BY <1>2 DEF BodyInv
<1> QED BY <1>2, <1>3, <1>5, <1>6

(* What is an alert is one under every id. *)
LEMMA AlertKeys ==
  ASSUME NEW A, NEW B, Keys(A) = Keys(B)
  PROVE  Keys(AlertsIn(A)) = Keys(AlertsIn(B))
<1>1. \A X : Keys(AlertsIn(X)) = {k \in Keys(X) : k.label \notin {"config", "operator"}}
  BY KeyFields DEF Keys, AlertsIn
<1> QED BY <1>1

(* The rows for the page. *)
LEMMA PageStep ==
  ASSUME TimelineInv, NEW n \in Node, NEW p \in Node, Learn(n, p), UNCHANGED setup
  PROVE  TimelineInv'
<1>1. PICK E \in (SUBSET (log[p] \ log[n])) \ {{}} :
         /\ log' = [log EXCEPT ![n] = @ \cup E]
         /\ \E R \in SUBSET Projected(log[n] \cup E, E) :
              /\ RowsFor(n, log[n] \cup E, E, R)
              /\ timeline' = [timeline EXCEPT ![n] = @ \cup R]
              /\ outbox'   = [outbox EXCEPT ![n] = @ \cup {r \in R : ShouldDeliver(r)}]
  BY DEF Learn
<1> DEFINE L == log[n] \cup E
<1>2. PICK R \in SUBSET Projected(L, E) :
         /\ RowsFor(n, L, E, R)
         /\ timeline' = [timeline EXCEPT ![n] = timeline[n] \cup R]
         /\ outbox'   = [outbox EXCEPT ![n] = outbox[n] \cup {r \in R : ShouldDeliver(r)}]
  BY <1>1
<1>3. /\ log' \in [Node -> SUBSET Event]
      /\ \A m \in Node : IsFiniteSet(log'[m]) /\ log[m] \subseteq log'[m]
      /\ log'[n] = L /\ \A m \in Node : m # n => log'[m] = log[m]
      /\ NumberInv' /\ BodyInv'
  BY <1>1, LearnedLog DEF TimelineInv
<1>4. E \subseteq log[p] /\ log[n] \subseteq L /\ E \subseteq L
  OBVIOUS
<1> HIDE DEF L
<1>5. Projected(L, E) \subseteq L /\ \A r \in Projected(L, E) : r.label # "config"
  BY <1>4 DEF Projected, AlertsIn
<1>6. /\ timeline' \in [Node -> SUBSET Event] /\ outbox' \in [Node -> SUBSET Event]
      /\ timeline'[n] = timeline[n] \cup R
      /\ outbox'[n] = outbox[n] \cup {r \in R : ShouldDeliver(r)}
      /\ \A m \in Node : m # n => timeline'[m] = timeline[m] /\ outbox'[m] = outbox[m]
  <2>1. R \subseteq Event
    BY <1>3, <1>5
  <2> QED BY <1>2, <2>1 DEF TimelineInv, TypeInv
<1>7. TypeInv'
  <2>1. \A m \in Node : timeline'[m] \subseteq log'[m] /\ outbox'[m] \subseteq timeline'[m]
    BY <1>3, <1>5, <1>6 DEF TimelineInv, TypeInv
  <2> QED BY <1>3, <1>6, <2>1 DEF TimelineInv, TypeInv
<1>8. SourceInv'
  <2> SUFFICES ASSUME \A m \in Node : ~ KnowsSource(log'[m]) PROVE \A m \in Node : log'[m] = {}
    BY DEF SourceInv
  <2>1. \A m \in Node : log[m] = {}
    BY <1>3, ReportsStay DEF TimelineInv, SourceInv
  <2> QED BY <1>1, <2>1
<1> DEFINE P == {e \in Projected(L, E) : Key(e) \notin Keys(timeline[n])}
<1>9. R \subseteq P /\ Keys(R) = Keys(P) /\ \A r, q \in R : Key(r) = Key(q) => r = q
  BY <1>2, Zenon DEF RowsFor
<1>10. \A r \in R : r.label # "config" /\ (ShouldDeliver(r) <=> r.label # "operator")
  <2> TAKE r \in R
  <2>1. Known(Key(r)) /\ r.label # "config"
    BY <1>3, <1>5 DEF BodyInv
  <2> QED BY <2>1, KnownFields DEF ShouldDeliver, ActionKinds
<1>11. \A r \in R : Key(r) \notin Keys(timeline[n]) /\ r \notin timeline[n] /\ r \notin outbox[n]
  BY <1>9 DEF Keys, TimelineInv, TypeInv
<1>12. RowInv'
  <2>1. ASSUME NEW m \in Node
        PROVE  /\ \A r, q \in timeline'[m] : Key(r) = Key(q) => r = q
               /\ \A r \in timeline'[m] : r.label # "config"
               /\ \A r \in timeline'[m] : r \in outbox'[m] <=> r.label # "operator"
    <3>1. CASE m # n
      BY <1>6, <3>1 DEF TimelineInv, RowInv
    <3>2. CASE m = n
      <4>1. \A r, q \in timeline[n] \cup R : Key(r) = Key(q) => r = q
        <5> HIDE DEF P
        <5> QED BY <1>9, <1>11 DEF TimelineInv, RowInv, Keys
      <4>2. \A r \in timeline[n] \cup R : r.label # "config"
        BY <1>10 DEF TimelineInv, RowInv
      <4>3. \A r \in timeline[n] \cup R : r \in outbox'[n] <=> r.label # "operator"
        <5> TAKE r \in timeline[n] \cup R
        <5>1. CASE r \in R
          BY <1>6, <1>10, <1>11, <5>1
        <5>2. CASE r \notin R
          BY <1>6, <5>2 DEF TimelineInv, RowInv
        <5> QED BY <5>1, <5>2
      <4> QED BY <1>6, <3>2, <4>1, <4>2, <4>3
    <3> QED BY <3>1, <3>2
  <2> QED BY <2>1 DEF RowInv
<1>13. AlertsProjected'
  <2>1. CASE ~ KnowsSource(L)
    <3>1. R = {} /\ ~ KnowsSource(log[n])
      BY <1>4, <2>1, ReportsStay DEF Projected
    <3>2. timeline'[n] = {}
      BY <1>6, <3>1 DEF TimelineInv, AlertsProjected
    <3> QED BY <1>3, <1>6, <2>1, <3>2 DEF TimelineInv, AlertsProjected
  <2>2. CASE KnowsSource(L)
    <3> DEFINE T == timeline[n]
    <3>1. Keys(AlertsIn(P)) = Keys(AlertsIn(R))
      <4> HIDE DEF P
      <4> QED BY <1>9, AlertKeys
    <3>2. \A X, Y : AlertsIn(X \cup Y) = AlertsIn(X) \cup AlertsIn(Y)
                    /\ Keys(X \cup Y) = Keys(X) \cup Keys(Y)
      BY DEF AlertsIn, Keys
    <3>3. Keys(AlertsIn(timeline'[n])) = Keys(AlertsIn(T)) \cup Keys(AlertsIn(P))
      BY <1>6, <3>1, <3>2
    <3>4. T \subseteq L /\ P \subseteq L
      BY <1>4, <1>5 DEF TimelineInv, TypeInv
    <3>5. Keys(AlertsIn(T)) \cup Keys(AlertsIn(P)) \subseteq Keys(AlertsIn(L))
      BY <3>4 DEF Keys, AlertsIn
    <3>6. ASSUME NEW e \in AlertsIn(L)
          PROVE  Key(e) \in Keys(AlertsIn(T)) \cup Keys(AlertsIn(P))
      <4>1. e \in L /\ e.label \notin {"config", "operator"} /\ AlertsIn(L) # {}
        BY <3>6 DEF AlertsIn
      <4>2. CASE Key(e) \in Keys(T)
        <5>1. PICK r \in T : Key(e) = Key(r)
          BY <4>2 DEF Keys
        <5>2. r \in AlertsIn(T)
          BY <4>1, <5>1, KeyFields DEF AlertsIn
        <5> QED BY <5>1, <5>2 DEF Keys
      <4>3. CASE Key(e) \notin Keys(T)
        <5>1. e \in Projected(L, E)
          <6>1. CASE KnowsSource(E)
            BY <2>2, <3>6, <6>1 DEF Projected
          <6>2. CASE ~ KnowsSource(E)
            <7>1. KnowsSource(log[n])
              BY <2>2, <6>2 DEF L, KnowsSource
            <7>2. Keys(AlertsIn(log[n])) = Keys(AlertsIn(T))
              BY <7>1 DEF TimelineInv, AlertsProjected
            <7>3. e \notin log[n]
              BY <4>1, <4>3, <7>2 DEF Keys, AlertsIn
            <7>4. e \in E
              BY <4>1, <7>3 DEF L
            <7> QED BY <2>2, <4>1, <7>4 DEF Projected
          <6> QED BY <6>1, <6>2
        <5>2. e \in AlertsIn(P)
          BY <4>1, <4>3, <5>1 DEF AlertsIn
        <5> QED BY <5>2 DEF Keys
      <4> QED BY <4>2, <4>3
    <3>7. Keys(AlertsIn(L)) \subseteq Keys(AlertsIn(T)) \cup Keys(AlertsIn(P))
      <4> HIDE DEF P, T
      <4> QED BY <3>6 DEF Keys
    <3>8. Keys(AlertsIn(log'[n])) = Keys(AlertsIn(timeline'[n]))
      BY <1>3, <3>3, <3>5, <3>7
    <3> QED BY <1>3, <1>6, <2>2, <3>8 DEF TimelineInv, AlertsProjected
  <2> QED BY <2>1, <2>2
<1>14. ReportInv'
  <2> SUFFICES ASSUME \E m \in Node : AlertsIn(log'[m]) # {} \/ timeline'[m] # {}
               PROVE  \E m \in Node : \E e \in AlertsIn(log'[m]) : Key(e) \in Reports
    BY DEF ReportInv
  <2>1. \E m \in Node : AlertsIn(log[m]) # {} \/ timeline[m] # {}
    <3>1. PICK m \in Node : AlertsIn(log'[m]) # {} \/ timeline'[m] # {}
      OBVIOUS
    <3>2. CASE m # n
      BY <1>3, <1>6, <3>1, <3>2
    <3>3. CASE m = n /\ AlertsIn(L) # {}
      BY <1>4, <3>3 DEF AlertsIn, L
    <3>4. CASE m = n /\ AlertsIn(L) = {}
      <4>1. Projected(L, E) = {}
        BY <3>4 DEF Projected
      <4> QED BY <1>3, <1>6, <3>1, <3>4, <4>1
    <3> QED BY <3>2, <3>3, <3>4
  <2>2. PICK m \in Node : \E e \in AlertsIn(log[m]) : Key(e) \in Reports
    BY <2>1 DEF TimelineInv, ReportInv
  <2> QED BY <1>3, <2>2, ReportsStay
<1> QED BY <1>3, <1>7, <1>8, <1>12, <1>13, <1>14 DEF TimelineInv

-----------------------------------------------------------------------------
(* Every step                                                               *)

(* It holds before anything happens. *)
LEMMA TimelineInit == Init => TimelineInv
<1> SUFFICES ASSUME Init PROVE TimelineInv
  OBVIOUS
<1>1. \A n \in Node : log[n] = {} /\ timeline[n] = {} /\ outbox[n] = {}
  BY DEF Init
<1>2. TypeInv
  BY <1>1, FS_EmptySet DEF Init, TypeInv
<1>3. NumberInv
  BY <1>1 DEF NumberInv, Own
<1>4. BodyInv /\ SourceInv
  BY <1>1 DEF BodyInv, SourceInv
<1>5. RowInv
  BY <1>1 DEF RowInv
<1>6. AlertsProjected
  BY <1>1 DEF AlertsProjected, KnowsSource
<1>7. ReportInv
  BY <1>1 DEF ReportInv, AlertsIn
<1> QED BY <1>2, <1>3, <1>4, <1>5, <1>6, <1>7 DEF TimelineInv

(* What a node shows is made from what it has. *)
LEMMA StatusFollows ==
  ASSUME TypeInv, NumberInv, BodyInv, NEW n \in Node
  PROVE  Follows(Projection(n), timeline[n])
<1>1. timeline[n] \in SUBSET log[n]
  BY DEF TypeInv
<1> QED BY <1>1, LogRows, RowsOrdered, ProjectionFollows DEF Projection

(* An operator's action is new to the cluster, so it is to n. *)
LEMMA ActionsAreLegal ==
  ASSUME TimelineInv, NEW n \in Node, NEW kind \in ActionKinds, NEW t \in setup.instants,
         ActOnIncident(n, kind, t)
  PROVE  \E b : Legal(n, b) /\ Record(n, b)
<1> DEFINE occ == IF kind = "resolved" THEN Projection(n).starts ELSE 0
           b == ByOperator(kind, occ, t)
<1>1. occ \in Nat
  BY StatusFollows DEF TimelineInv, Follows, State
<1>2. t \in Nat
  BY TimelineAssumption DEF TimelineInv, TypeInv
<1>3. Record(n, b) /\ timeline[n] # {}
  BY DEF ActOnIncident
<1> HIDE DEF occ
<1>4. b \in Body /\ FromOperator(b)
  BY <1>1, <1>2 DEF ByOperator, Body, FromOperator, ActionKinds
<1>5. b \notin Keys(timeline[n])
  <2> SUFFICES ASSUME NEW r \in timeline[n], Key(r) = b PROVE FALSE
    BY DEF Keys
  <2>1. r \in log[n] /\ r.label = "operator" /\ r.at = t
    BY KeyFields DEF ByOperator, TimelineInv, TypeInv
  <2> QED BY <2>1 DEF ActOnIncident
<1>6. KnowsSource(log[n])
  BY <1>3 DEF TimelineInv, AlertsProjected
<1>7. Legal(n, b)
  BY <1>3, <1>4, <1>5, <1>6 DEF Legal
<1> HIDE DEF b
<1> QED BY <1>3, <1>7

(* Every step keeps the invariant. *)
LEMMA TimelineStep == TimelineInv /\ [Next]_vars => TimelineInv'
<1> SUFFICES ASSUME TimelineInv, [Next]_vars PROVE TimelineInv'
  OBVIOUS
<1>1. CASE UNCHANGED vars
  BY <1>1 DEF vars, TimelineInv, TypeInv, NumberInv, Own, BodyInv, SourceInv, RowInv,
              AlertsProjected, ReportInv
<1>2. ASSUME NEW n \in Node, CreateSource(n), UNCHANGED setup
      PROVE  TimelineInv'
  BY <1>2, SourceStep
<1>3. ASSUME NEW n \in Node, NEW b, Legal(n, b), Record(n, b), UNCHANGED setup
      PROVE  TimelineInv'
  BY <1>3, RecordStep
<1>4. ASSUME NEW n \in Node, NEW a \in Reports, IngestNormalized(n, a), UNCHANGED setup
      PROVE  TimelineInv'
  <2>1. Legal(n, a) /\ Record(n, a)
    BY <1>4, ReportsAreBodies DEF IngestNormalized, Legal, FromSource
  <2> QED BY <1>3, <1>4, <2>1
<1>5. ASSUME NEW n \in Node, NEW a \in Shadow, IngestRecovery(n, a), UNCHANGED setup
      PROVE  TimelineInv'
  <2>1. Legal(n, a) /\ Record(n, a)
    BY <1>5, ReportsAreBodies DEF IngestRecovery, IngestNormalized, Legal, FromSource
  <2> QED BY <1>3, <1>5, <2>1
<1>6. ASSUME NEW n \in Node, NEW kind \in ActionKinds, NEW t \in setup.instants,
             ActOnIncident(n, kind, t), UNCHANGED setup
      PROVE  TimelineInv'
  <2>1. PICK b : Legal(n, b) /\ Record(n, b)
    BY <1>6, ActionsAreLegal
  <2> QED BY <1>3, <1>6, <2>1
<1>7. ASSUME NEW n \in Node, NEW p \in setup.peers[n], Learn(n, p), UNCHANGED setup
      PROVE  TimelineInv'
  <2>1. p \in Node
    BY TimelineAssumption DEF TimelineInv, TypeInv
  <2> QED BY <1>7, <2>1, PageStep
<1> QED BY <1>1, <1>2, <1>4, <1>5, <1>6, <1>7 DEF Next, ActionKinds

(* So it holds always. *)
LEMMA TimelineInductive == Spec => []TimelineInv
BY TimelineInit, TimelineStep, PTL DEF Spec

-----------------------------------------------------------------------------
(* The projection does not depend on what ids the rows have                 *)

(* g[S] is the projection of S, for every part S of U. *)
LEMMA OneFold ==
  ASSUME NEW U, Rows(U)
  PROVE  \E g : /\ \A R \in SUBSET U : project_incident(R) = g[R]
                /\ g[{}] = NoEvents
                /\ \A S \in SUBSET U : S # {} =>
                     g[S] = ApplyRow(g[S \ {Latest(S)}], Latest(S))
<1>1. PICK g : /\ project_incident(U) = g[U]
               /\ g[{}] = NoEvents
               /\ \A S \in SUBSET U : S # {} =>
                    g[S] = ApplyRow(g[S \ {Latest(S)}], Latest(S))
  BY RowsOrdered, ProjectionFolds
<1>2. ASSUME NEW R \in SUBSET U
      PROVE  project_incident(R) = g[R]
  <2> DEFINE N == Cardinality(R)
  <2>1. /\ Rows(R) /\ N \in Nat
        /\ \A S \in SUBSET R : Rows(S) /\ IsFiniteSet(S) /\ Cardinality(S) \in Nat
                               /\ (Cardinality(S) = 0 <=> S = {})
    BY FS_Subset, FS_CardinalityType, FS_EmptySet DEF Rows
  <2>2. PICK f : /\ project_incident(R) = f[R]
                 /\ f[{}] = NoEvents
                 /\ \A S \in SUBSET R : S # {} =>
                      f[S] = ApplyRow(f[S \ {Latest(S)}], Latest(S))
    BY <2>1, RowsOrdered, ProjectionFolds
  <2> DEFINE Q == {k \in 0 .. N : \A S \in SUBSET R : Cardinality(S) = k => f[S] = g[S]}
  <2>3. 0 \in Q
    <3>1. \A S \in SUBSET R : Cardinality(S) = 0 => f[S] = g[S]
      BY <1>1, <2>1, <2>2
    <3>2. 0 \in 0 .. N
      BY <2>1
    <3> QED BY <3>1, <3>2
  <2>4. ASSUME NEW k \in 0 .. N, k < N, k \in Q
        PROVE  k + 1 \in Q
    <3> SUFFICES ASSUME NEW S \in SUBSET R, Cardinality(S) = k + 1 PROVE f[S] = g[S]
      BY <2>1, <2>4
    <3>1. S # {} /\ S \in SUBSET U
      BY <2>1
    <3>2. Latest(S) \in S
      BY <2>1, <3>1, LatestIsStrict
    <3>3. Cardinality(S \ {Latest(S)}) = k /\ S \ {Latest(S)} \in SUBSET R
      BY <2>1, <3>2, SmallerPart
    <3>4. f[S \ {Latest(S)}] = g[S \ {Latest(S)}]
      BY <2>4, <3>3
    <3> QED BY <1>1, <2>2, <3>1, <3>4
  <2>5. 0 .. N \subseteq Q
    <3> HIDE DEF Q, N
    <3> QED BY <2>1, <2>3, <2>4, SetInduction
  <2>6. N \in Q
    <3>1. N \in 0 .. N
      BY <2>1
    <3> HIDE DEF Q
    <3> QED BY <2>5, <3>1
  <2> QED BY <2>2, <2>6
<1> QED BY <1>1, <1>2

(* Rows of one instant are of one kind. *)
Apart(R) == \A r, q \in R : r.at = q.at => r.kind = q.kind

(* Their order does not matter. *)
LEMMA RowsCommute ==
  ASSUME NEW R, FiringsStart(R), Apart(R), NEW x \in R, NEW y \in R, x.at = y.at, NEW p
  PROVE  ApplyRow(ApplyRow(p, x), y) = ApplyRow(ApplyRow(p, y), x)
<1>1. x.kind = y.kind
  BY DEF Apart
<1>2. CASE x.kind = "firing"
  <2>1. x.occ = y.occ
    BY <1>1, <1>2 DEF FiringsStart, Firings
  <2>2. \A q : ApplyRow(q, x) = ApplyRow(q, y)
    BY <1>1, <1>2, <2>1 DEF ApplyRow, ApplyFiring
  <2> QED BY <2>2
<1>3. CASE x.kind = "resolved"
  <2>1. /\ \A q : ApplyRow(q, x) = ApplyResolved(q, x)
        /\ \A q : ApplyRow(q, y) = ApplyResolved(q, y)
    BY <1>1, <1>3 DEF ApplyRow
  <2> DEFINE Closed == [p EXCEPT !.status = "resolved"]
  <2>2. ASSUME NEW r
        PROVE  ApplyResolved(p, r) \in {p, Closed} /\ ApplyResolved(Closed, r) = Closed
    BY DEF ApplyResolved
  <2>3. ApplyResolved(ApplyResolved(p, x), y) = ApplyResolved(ApplyResolved(p, y), x)
    BY <2>2
  <2> QED BY <2>1, <2>3
<1>4. CASE x.kind \notin {"firing", "resolved"}
  <2>1. \A q : ApplyRow(q, x) = ApplyRow(q, y)
    BY <1>1, <1>4 DEF ApplyRow
  <2> QED BY <2>1
<1> QED BY <1>2, <1>3, <1>4

(* g makes its states row by row. *)
RowByRow(g, U) ==
  \A S \in SUBSET U : S # {} => g[S] = ApplyRow(g[S \ {Latest(S)}], Latest(S))

(* Any row of the last instant may be applied last. *)
LEMMA LastInstant ==
  ASSUME NEW U, Rows(U), FiringsStart(U), Apart(U), NEW g,
         RowByRow(g, U), NEW R \in SUBSET U, NEW z \in R, \A q \in R : q.at <= z.at
  PROVE  g[R] = ApplyRow(g[R \ {z}], z)
<1> DEFINE N == Cardinality(U)
           Swaps(S) == \A x \in S : (\A q \in S : q.at <= x.at) =>
                         g[S] = ApplyRow(g[S \ {x}], x)
           Q == {k \in 0 .. N : \A S \in SUBSET U : Cardinality(S) = k => Swaps(S)}
<1>1. /\ N \in Nat
      /\ \A S \in SUBSET U : Rows(S) /\ IsFiniteSet(S) /\ Cardinality(S) \in Nat
                             /\ Cardinality(S) <= N
                             /\ (Cardinality(S) = 0 <=> S = {})
  BY FS_Subset, FS_CardinalityType, FS_EmptySet DEF Rows
<1>2. 0 \in Q
  <2>1. \A S \in SUBSET U : Cardinality(S) = 0 => Swaps(S)
    BY <1>1
  <2>2. 0 \in 0 .. N
    BY <1>1
  <2> HIDE DEF Swaps
  <2> QED BY <2>1, <2>2
<1>3. ASSUME NEW k \in 0 .. N, k < N, k \in Q
      PROVE  k + 1 \in Q
  <2>1. ASSUME NEW S \in SUBSET U, Cardinality(S) = k + 1, NEW x \in S,
               \A q \in S : q.at <= x.at
        PROVE  g[S] = ApplyRow(g[S \ {x}], x)
    <3> DEFINE y == Latest(S)
    <3>1. y \in S /\ \A q \in S : q # y => ~ Before(y, q)
      BY <1>1, <2>1, LatestIsStrict
    <3>2. g[S] = ApplyRow(g[S \ {y}], y)
      BY <2>1 DEF RowByRow
    <3> HIDE DEF y
    <3>3. CASE x = y
      BY <3>2, <3>3
    <3>4. CASE x # y
      <4>1. x.at \in Nat /\ y.at \in Nat /\ \A q \in S : q.at \in Nat
        BY <3>1 DEF Rows
      <4>2. x.at = y.at
        BY <2>1, <3>1, <3>4, <4>1 DEF Before
      <4>3. Cardinality(S \ {x}) = k /\ Cardinality(S \ {y}) = k
            /\ S \ {x} \in SUBSET U /\ S \ {y} \in SUBSET U
        BY <1>1, <2>1, <3>1, SmallerPart
      <4>4. Swaps(S \ {x}) /\ Swaps(S \ {y})
        BY <1>3, <4>3
      <4>5. g[S \ {y}] = ApplyRow(g[(S \ {y}) \ {x}], x)
        BY <2>1, <3>4, <4>4
      <4>6. g[S \ {x}] = ApplyRow(g[(S \ {x}) \ {y}], y)
        BY <2>1, <3>1, <3>4, <4>2, <4>4
      <4>7. (S \ {x}) \ {y} = (S \ {y}) \ {x}
        OBVIOUS
      <4> DEFINE p == g[(S \ {x}) \ {y}]
      <4>8. ApplyRow(ApplyRow(p, x), y) = ApplyRow(ApplyRow(p, y), x)
        <5>1. x \in U /\ y \in U
          BY <2>1, <3>1
        <5> HIDE DEF p
        <5> QED BY <4>2, <5>1, RowsCommute
      <4>9. g[S \ {y}] = ApplyRow(p, x) /\ g[S \ {x}] = ApplyRow(p, y)
        BY <4>5, <4>6, <4>7
      <4> HIDE DEF p
      <4> QED BY <3>2, <4>8, <4>9
    <3> QED BY <3>3, <3>4
  <2>2. \A S \in SUBSET U : Cardinality(S) = k + 1 => Swaps(S)
    BY <2>1
  <2>3. k + 1 \in 0 .. N
    BY <1>1, <1>3
  <2> HIDE DEF Swaps
  <2> QED BY <2>2, <2>3
<1>4. 0 .. N \subseteq Q
  <2> HIDE DEF Q, N
  <2> QED BY <1>1, <1>2, <1>3, SetInduction
<1>5. Cardinality(R) \in Q
  <2>1. Cardinality(R) \in 0 .. N
    BY <1>1
  <2> HIDE DEF Q
  <2> QED BY <1>4, <2>1
<1> QED BY <1>5

(* One row for each key. *)
OneEach(R) == \A r, q \in R : Key(r) = Key(q) => r = q

(* Timelines with the same keys show the same. *)
LEMMA KeysDecide ==
  ASSUME NEW U, Rows(U), FiringsStart(U), Apart(U),
         NEW R \in SUBSET U, NEW T \in SUBSET U, OneEach(R), OneEach(T), Keys(R) = Keys(T)
  PROVE  project_incident(R) = project_incident(T)
<1>1. PICK g : /\ \A S \in SUBSET U : project_incident(S) = g[S]
               /\ g[{}] = NoEvents
               /\ \A S \in SUBSET U : S # {} =>
                    g[S] = ApplyRow(g[S \ {Latest(S)}], Latest(S))
  BY OneFold
<1> DEFINE N == Cardinality(U)
           Same(A) == \A B \in SUBSET U : OneEach(B) /\ Keys(A) = Keys(B) => g[A] = g[B]
           Q == {k \in 0 .. N : \A A \in SUBSET U : Cardinality(A) = k /\ OneEach(A) => Same(A)}
<1>2. /\ N \in Nat
      /\ \A S \in SUBSET U : Rows(S) /\ IsFiniteSet(S) /\ Cardinality(S) \in Nat
                             /\ Cardinality(S) <= N
                             /\ (Cardinality(S) = 0 <=> S = {})
  BY FS_Subset, FS_CardinalityType, FS_EmptySet DEF Rows
<1>3. 0 \in Q
  <2>1. ASSUME NEW A \in SUBSET U, Cardinality(A) = 0
        PROVE  Same(A)
    <3>1. A = {}
      BY <1>2, <2>1
    <3>2. \A B : Keys(B) = Keys({}) => B = {}
      BY DEF Keys
    <3> QED BY <3>1, <3>2
  <2>2. 0 \in 0 .. N
    BY <1>2
  <2> HIDE DEF Same
  <2> QED BY <2>1, <2>2
<1>4. ASSUME NEW k \in 0 .. N, k < N, k \in Q
      PROVE  k + 1 \in Q
  <2>1. ASSUME NEW A \in SUBSET U, Cardinality(A) = k + 1, OneEach(A),
               NEW B \in SUBSET U, OneEach(B), Keys(A) = Keys(B)
        PROVE  g[A] = g[B]
    <3> DEFINE x == Latest(A)
    <3>1. A # {}
      BY <1>2, <2>1
    <3>2. x \in A /\ \A q \in A : q # x => ~ Before(x, q)
      BY <1>2, <3>1, LatestIsStrict
    <3>3. g[A] = ApplyRow(g[A \ {x}], x)
      BY <1>1, <3>1
    <3> HIDE DEF x
    <3>4. PICK y \in B : Key(y) = Key(x)
      BY <2>1, <3>2 DEF Keys
    <3>5. \A q \in A \cup B : q.at \in Nat
      BY DEF Rows
    <3>6. \A q \in B : q.at <= y.at
      <4> TAKE q \in B
      <4>1. PICK r \in A : Key(r) = Key(q)
        BY <2>1 DEF Keys
      <4>2. r.at = q.at /\ x.at = y.at /\ r.at <= x.at
        BY <3>2, <3>4, <3>5, <4>1, KeyFields DEF Before
      <4> QED BY <4>2
    <3>7. g[B] = ApplyRow(g[B \ {y}], y)
      <4>1. RowByRow(g, U)
        BY <1>1, Zenon DEF RowByRow
      <4> QED BY <2>1, <3>6, <4>1, LastInstant
    <3>8. Keys(A \ {x}) = Keys(A) \ {Key(x)} /\ Keys(B \ {y}) = Keys(B) \ {Key(y)}
      BY <2>1, <3>2, <3>4 DEF Keys, OneEach
    <3>9. Cardinality(A \ {x}) = k /\ A \ {x} \in SUBSET U /\ B \ {y} \in SUBSET U
      BY <1>2, <2>1, <3>2, SmallerPart
    <3>10. OneEach(A \ {x}) /\ OneEach(B \ {y})
      BY <2>1 DEF OneEach
    <3>11. g[A \ {x}] = g[B \ {y}]
      BY <1>4, <2>1, <3>4, <3>8, <3>9, <3>10
    <3>12. \A p : ApplyRow(p, x) = ApplyRow(p, y)
      <4>1. x.kind = y.kind /\ x.occ = y.occ
        BY <3>4, KeyFields
      <4> QED BY <4>1 DEF ApplyRow, ApplyFiring, ApplyResolved
    <3> QED BY <3>3, <3>7, <3>11, <3>12
  <2>2. \A A \in SUBSET U : Cardinality(A) = k + 1 /\ OneEach(A) => Same(A)
    BY <2>1
  <2>3. k + 1 \in 0 .. N
    BY <1>2, <1>4
  <2> HIDE DEF Same
  <2> QED BY <2>2, <2>3
<1>5. 0 .. N \subseteq Q
  <2> HIDE DEF Q, N
  <2> QED BY <1>2, <1>3, <1>4, SetInduction
<1>6. Cardinality(R) \in Q
  <2>1. Cardinality(R) \in 0 .. N
    BY <1>2
  <2> HIDE DEF Q
  <2> QED BY <1>5, <2>1
<1>7. g[R] = g[T]
  BY <1>6
<1> QED BY <1>1, <1>7

-----------------------------------------------------------------------------
(* Theorems                                                                 *)

(* Every node that knows the source has a row for every alert in its log,   *)
(* over whatever relays and in whatever order source and alerts came.       *)
THEOREM AlertsAreNotLost == Spec => []AlertsProjected
<1>1. TimelineInv => AlertsProjected
  BY DEF TimelineInv
<1> QED BY <1>1, TimelineInductive, PTL

(* Every logical alert has exactly one work item on a node, on however many *)
(* nodes it was taken in.                                                   *)
THEOREM AlertsNotifyOnce == Spec => []OneNotificationPerAlert
<1>1. TimelineInv => OneNotificationPerAlert
  <2> SUFFICES ASSUME TimelineInv, NEW n \in Node
               PROVE  /\ \A r \in timeline[n] : r \in outbox[n] <=> r.label # "operator"
                      /\ \A r, q \in outbox[n] :
                           (r.kind = q.kind /\ r.occ = q.occ /\ r.at = q.at /\ r.label = q.label)
                             => r = q
    BY DEF OneNotificationPerAlert
  <2>1. outbox[n] \subseteq timeline[n]
    BY DEF TimelineInv, TypeInv
  <2>2. \A r, q \in timeline[n] : Key(r) = Key(q) => r = q
    BY DEF TimelineInv, RowInv
  <2>3. ASSUME NEW r \in outbox[n], NEW q \in outbox[n],
               r.kind = q.kind /\ r.occ = q.occ /\ r.at = q.at /\ r.label = q.label
        PROVE  r = q
    BY <2>1, <2>2, <2>3 DEF Key
  <2> QED BY <2>3 DEF TimelineInv, RowInv
<1> QED BY <1>1, TimelineInductive, PTL

(* The secondary stream never creates an incident anywhere. *)
THEOREM ShadowsOnlyClose == Spec => []ShadowNeverCreates
<1>1. TimelineInv => ShadowNeverCreates
  BY DEF TimelineInv, ReportInv, ShadowNeverCreates
<1> QED BY <1>1, TimelineInductive, PTL

(* A node shows an incident as resolved exactly when a resolution follows   *)
(* its last firing and is about that occurrence or a later one.             *)
THEOREM ResolvedIsCovered == Spec => []ResolvedWhenCovered
<1>1. TimelineInv => ResolvedWhenCovered
  <2> SUFFICES ASSUME TimelineInv, NEW n \in Node
               PROVE  Status(n) = "resolved" <=> Covered(timeline[n])
    BY DEF ResolvedWhenCovered
  <2> QED BY StatusFollows DEF TimelineInv, Follows, Status
<1> QED BY <1>1, TimelineInductive, PTL

(* Reports of different kinds, and what operators do, happen at different   *)
(* instants.                                                                *)
KindsApart ==
  /\ \A a, b \in Reports \cup Shadow : a.at = b.at => a.kind = b.kind
  /\ \A s \in Setups : \A a \in Reports \cup Shadow : a.at \notin s.instants

(* Operators act one at a time. *)
ActionInv ==
  /\ \A n \in Node : \A e \in log[n] : e.label = "operator" => e.at \in setup.instants
  /\ \A n, m \in Node : \A e \in log[n], f \in log[m] :
       (e.label = "operator" /\ f.label = "operator" /\ e.at = f.at) => e = f

(* Every step keeps that. *)
LEMMA ActionStep == TimelineInv /\ ActionInv /\ [Next]_vars => ActionInv'
<1> SUFFICES ASSUME TimelineInv, ActionInv, [Next]_vars PROVE ActionInv'
  OBVIOUS
<1>1. log \in [Node -> SUBSET Event]
  BY DEF TimelineInv, TypeInv
<1>2. CASE UNCHANGED vars
  BY <1>2 DEF vars, ActionInv
(* An event is new, and not like an action that is known. *)
<1>3. ASSUME NEW n \in Node, NEW e, log' = [log EXCEPT ![n] = @ \cup {e}], UNCHANGED setup,
             e.label = "operator" =>
               /\ e.at \in setup.instants
               /\ \A m \in Node : \A f \in log[m] : ~ (f.label = "operator" /\ f.at = e.at)
      PROVE  ActionInv'
  <2>1. \A m \in Node : \A f \in log'[m] : f = e \/ f \in log[m]
    BY <1>1, <1>3
  <2>2. \A m \in Node : \A f \in log'[m] : f.label = "operator" => f.at \in setup'.instants
    BY <1>3, <2>1 DEF ActionInv
  <2>3. \A k, m \in Node : \A d \in log'[k], f \in log'[m] :
          (d.label = "operator" /\ f.label = "operator" /\ d.at = f.at) => d = f
    BY <1>3, <2>1 DEF ActionInv
  <2> QED BY <2>2, <2>3 DEF ActionInv
<1>4. ASSUME NEW n \in Node, NEW b \in Body, Record(n, b), UNCHANGED setup,
             b.label = "operator" =>
               /\ b.at \in setup.instants
               /\ \A m \in Node : \A f \in log[m] : ~ (f.label = "operator" /\ f.at = b.at)
      PROVE  ActionInv'
  <2>1. Key(Numbered(n, b)) = b
    BY <1>4, NumberedFacts DEF Record, TimelineInv
  <2>2. Numbered(n, b).label = b.label /\ Numbered(n, b).at = b.at
    BY <2>1, KeyFields
  <2>3. log' = [log EXCEPT ![n] = @ \cup {Numbered(n, b)}]
    BY <1>4 DEF Record
  <2> QED BY <1>3, <1>4, <2>2, <2>3
<1>5. ASSUME NEW n \in Node, CreateSource(n), UNCHANGED setup
      PROVE  ActionInv'
  <2>1. Config \in Body /\ MayAppend(n)
    <3>1. Config \in Body
      BY DEF Config, Body
    <3> QED BY <1>5, <3>1 DEF CreateSource
  <2>2. Numbered(n, Config).label = "config"
    BY <2>1, NumberedFacts DEF TimelineInv, Config
  <2>3. log' = [log EXCEPT ![n] = @ \cup {Numbered(n, Config)}]
    BY <1>5 DEF CreateSource
  <2> QED BY <1>3, <1>5, <2>2, <2>3
<1>6. ASSUME NEW n \in Node, NEW a, FromSource(a), IngestNormalized(n, a), UNCHANGED setup
      PROVE  ActionInv'
  BY <1>4, <1>6, ReportsAreBodies DEF IngestNormalized
<1>7. ASSUME NEW n \in Node, NEW kind \in ActionKinds, NEW t \in setup.instants,
             ActOnIncident(n, kind, t), UNCHANGED setup
      PROVE  ActionInv'
  <2> DEFINE occ == IF kind = "resolved" THEN Projection(n).starts ELSE 0
             b == ByOperator(kind, occ, t)
  <2>1. occ \in Nat
    BY StatusFollows DEF TimelineInv, Follows, State
  <2>2. t \in Nat
    BY TimelineAssumption DEF TimelineInv, TypeInv
  <2>3. /\ Record(n, b)
        /\ \A m \in Node : \A f \in log[m] : ~ (f.label = "operator" /\ f.at = t)
    BY <1>7 DEF ActOnIncident
  <2> HIDE DEF occ
  <2>4. b \in Body /\ b.at = t
    BY <2>1, <2>2 DEF ByOperator, Body, ActionKinds
  <2> HIDE DEF b
  <2> QED BY <1>4, <1>7, <2>3, <2>4
<1>8. ASSUME NEW n \in Node, NEW p \in Node, Learn(n, p), UNCHANGED setup
      PROVE  ActionInv'
  <2>1. PICK E \in (SUBSET (log[p] \ log[n])) \ {{}} : log' = [log EXCEPT ![n] = @ \cup E]
    BY <1>8 DEF Learn
  <2>2. \A m \in Node : \A f \in log'[m] : \E k \in Node : f \in log[k]
    BY <1>1, <2>1
  <2>3. \A m \in Node : \A f \in log'[m] : f.label = "operator" => f.at \in setup'.instants
    BY <1>8, <2>2 DEF ActionInv
  <2>4. \A k, m \in Node : \A d \in log'[k], f \in log'[m] :
          (d.label = "operator" /\ f.label = "operator" /\ d.at = f.at) => d = f
    BY <2>2 DEF ActionInv
  <2> QED BY <2>3, <2>4 DEF ActionInv
<1>9. \A n \in Node : setup.peers[n] \subseteq Node
  BY TimelineAssumption DEF TimelineInv, TypeInv
<1> QED BY <1>2, <1>5, <1>6, <1>7, <1>8, <1>9
        DEF Next, ActionKinds, FromSource, IngestRecovery

(* So it holds always. *)
LEMMA ActionsInductive == Spec => [](TimelineInv /\ ActionInv)
<1>1. Init => TimelineInv /\ ActionInv
  <2>1. Init => ActionInv
    BY DEF Init, ActionInv
  <2> QED BY <2>1, TimelineInit
<1>2. (TimelineInv /\ ActionInv) /\ [Next]_vars => (TimelineInv /\ ActionInv)'
  BY TimelineStep, ActionStep
<1> QED BY <1>1, <1>2, PTL DEF Spec

(* Nodes that hold the same events and have rows for the same of them show  *)
(* the same incident: status, occurrence and acknowledgement.               *)
SameRowsSameState ==
  \A n, m \in Node :
    (log[n] = log[m] /\ Keys(timeline[n]) = Keys(timeline[m])) => Projection(n) = Projection(m)

(* A reachable state has it. *)
LEMMA RowsDecide ==
  ASSUME KindsApart, TimelineInv, ActionInv
  PROVE  SameRowsSameState
<1> SUFFICES ASSUME NEW n \in Node, NEW m \in Node, log[n] = log[m],
                    Keys(timeline[n]) = Keys(timeline[m])
             PROVE  Projection(n) = Projection(m)
  BY DEF SameRowsSameState
<1> DEFINE U == timeline[n] \cup timeline[m]
<1>1. U \in SUBSET log[n]
  BY DEF TimelineInv, TypeInv
<1>2. Rows(U) /\ FiringsStart(U)
  BY <1>1, LogRows DEF TimelineInv
<1>3. \A r \in U : r.label # "config"
  BY DEF TimelineInv, RowInv
<1>4. Apart(U)
  <2> SUFFICES ASSUME NEW r \in U, NEW q \in U, r.at = q.at PROVE r.kind = q.kind
    BY DEF Apart
  <2>1. r \in log[n] /\ q \in log[n] /\ Known(Key(r)) /\ Known(Key(q))
    BY <1>1 DEF TimelineInv, BodyInv
  <2>2. \A x \in U : Known(Key(x)) /\ x.label # "operator" =>
                       Key(x) \in Reports \cup Shadow
    BY <1>3, KnownFields
  <2>3. CASE r.label = "operator" /\ q.label = "operator"
    BY <2>1, <2>3 DEF ActionInv
  <2>4. CASE r.label # "operator" /\ q.label # "operator"
    BY <2>1, <2>2, <2>4, KeyFields DEF KindsApart
  <2>5. ASSUME NEW x \in U, NEW y \in U, x.label = "operator", y.label # "operator"
        PROVE  x.at # y.at
    <3>1. x.at \in setup.instants /\ setup \in Setups
      BY <1>1, <2>5 DEF TimelineInv, TypeInv, ActionInv
    <3>2. Key(y) \in Reports \cup Shadow
      BY <1>1, <2>2, <2>5 DEF TimelineInv, BodyInv
    <3>3. Key(y).at \notin setup.instants
      BY <3>1, <3>2 DEF KindsApart
    <3> QED BY <3>1, <3>3, KeyFields
  <2> QED BY <2>3, <2>4, <2>5
<1>5. OneEach(timeline[n]) /\ OneEach(timeline[m])
  BY DEF TimelineInv, RowInv, OneEach
<1>6. project_incident(timeline[n]) = project_incident(timeline[m])
  <2>1. timeline[n] \in SUBSET U /\ timeline[m] \in SUBSET U
    OBVIOUS
  <2> HIDE DEF U
  <2> QED BY <1>2, <1>4, <1>5, <2>1, KeysDecide
<1> QED BY <1>6 DEF Projection

(* The state of an incident is a function of the keys of its rows, whatever *)
(* ids the rows of a node have, when kinds have instants of their own.      *)
THEOREM RowsDecideState == KindsApart => (Spec => []SameRowsSameState)
<1> SUFFICES ASSUME KindsApart PROVE Spec => []SameRowsSameState
  OBVIOUS
<1>1. TimelineInv /\ ActionInv => SameRowsSameState
  BY RowsDecide
<1> QED BY <1>1, ActionsInductive, PTL

(* No operator acts on the incident. *)
NoOperators == \A s \in Setups : s.instants = {}

(* On any cluster, over any relays, nodes with the same events show the     *)
(* same status of an incident that is left to its source.                   *)
THEOREM HistoryDecidesStatus == KindsApart /\ NoOperators => (Spec => []SameHistorySameStatus)
<1> SUFFICES ASSUME KindsApart, NoOperators PROVE Spec => []SameHistorySameStatus
  OBVIOUS
<1>1. ASSUME TimelineInv, ActionInv
      PROVE  SameHistorySameStatus
  <2> SUFFICES ASSUME NEW n \in Node, NEW m \in Node, log[n] = log[m]
               PROVE  Status(n) = Status(m)
    BY DEF SameHistorySameStatus
  <2>1. \A k \in Node : AlertsIn(timeline[k]) = timeline[k]
    <3> SUFFICES ASSUME NEW k \in Node, NEW r \in timeline[k]
                 PROVE  r.label \notin {"config", "operator"}
      BY DEF AlertsIn
    <3>1. r.label # "config" /\ r \in log[k] /\ setup.instants = {}
      BY <1>1 DEF TimelineInv, TypeInv, RowInv, NoOperators
    <3> QED BY <1>1, <3>1 DEF ActionInv
  <2>2. Keys(timeline[n]) = Keys(timeline[m])
    BY <1>1, <2>1 DEF TimelineInv, AlertsProjected
  <2>3. SameRowsSameState
    BY <1>1, RowsDecide
  <2> QED BY <2>2, <2>3 DEF SameRowsSameState, Status
<1>2. TimelineInv /\ ActionInv => SameHistorySameStatus
  BY <1>1
<1> QED BY <1>2, ActionsInductive, PTL

-----------------------------------------------------------------------------
(* A heartbeat source                                                       *)

HeartbeatKind == {"source", "firing", "resolved", "observed"}

HeartbeatEvent ==
  [origin : Watcher, seq : Nat, kind : HeartbeatKind, occ : Nat, at : Nat]

Storage == [log : SUBSET HeartbeatEvent, known : BOOLEAN, last : Nat, missed : BOOLEAN,
            rows : SUBSET [kind : HeartbeatKind, occ : Nat, at : Nat, id : {0}]]

(* Deadlines are odd, all else happens at even instants. *)
Proper(e) ==
  /\ e.kind = "firing" => e.at = e.occ /\ e.at % 2 = 1
  /\ e.kind # "firing" => e.at % 2 = 0

(* What a node stores fits together: the newest heartbeat it knows of is one*)
(* that an event tells of, rows are incident events, and no resolution is   *)
(* ahead of the newest heartbeat.                                           *)
Kept(s) ==
  /\ s \in Storage /\ IsFiniteSet(s.log)
  /\ \A e \in s.log : Proper(e)
  /\ s.last = 0 \/ \E e \in s.log : e.kind \in {"observed", "resolved"} /\ e.at = s.last
  /\ \A r \in s.rows : \E e \in s.log : IsIncident(e) /\ r = RowOf(e)
  /\ \A r \in s.rows : r.kind = "resolved" => r.at <= s.last

OwnIn(L, n) == {e \in L : e.origin = n}
Count(L, n) == Cardinality(OwnIn(L, n))

(* The event that append_cluster_event adds. *)
NewEvent(s, n, kind, occ, at) ==
  [origin |-> n, seq |-> 1 + Count(s.log, n), kind |-> kind, occ |-> occ, at |-> at]

LEMMA CountNat ==
  ASSUME NEW L, IsFiniteSet(L), NEW n
  PROVE  IsFiniteSet(OwnIn(L, n)) /\ Count(L, n) \in Nat
<1>1. IsFiniteSet(OwnIn(L, n))
  BY FS_Subset DEF OwnIn
<1> QED BY <1>1, FS_CardinalityType DEF Count

(* An event is added to the log, and nothing else changes. *)
LEMMA AppendFacts ==
  ASSUME NEW s \in Storage, IsFiniteSet(s.log), NEW n \in Watcher, NEW kind \in HeartbeatKind,
         NEW occ \in Nat, NEW at \in Nat
  PROVE  LET u == Append(s, n, kind, occ, at)
             e == NewEvent(s, n, kind, occ, at)
         IN  /\ u \in Storage /\ IsFiniteSet(u.log) /\ e \in HeartbeatEvent
             /\ u.log = s.log \cup {e} /\ u.known = s.known /\ u.last = s.last
             /\ u.missed = s.missed /\ u.rows = s.rows
<1> DEFINE u == Append(s, n, kind, occ, at)
           e == NewEvent(s, n, kind, occ, at)
<1>1. e \in HeartbeatEvent
  BY CountNat DEF NewEvent, HeartbeatEvent
<1>2. u = [s EXCEPT !.log = s.log \cup {e}]
  BY DEF Append, NewEvent, Count, OwnIn
<1> HIDE DEF u, e
<1>3. /\ u \in Storage /\ u.log = s.log \cup {e} /\ u.known = s.known /\ u.last = s.last
      /\ u.missed = s.missed /\ u.rows = s.rows
  BY <1>1, <1>2 DEF Storage
<1>4. IsFiniteSet(u.log)
  BY <1>3, FS_AddElement
<1> QED BY <1>1, <1>3, <1>4 DEF u, e

(* A report is a row, and an event too when the row is new. *)
LEMMA IngestFacts ==
  ASSUME NEW s \in Storage, IsFiniteSet(s.log), NEW n \in Watcher, NEW kind \in HeartbeatKind,
         NEW occ \in Nat, NEW at \in Nat
  PROVE  LET u == Ingest(s, n, kind, occ, at)
             e == NewEvent(s, n, kind, occ, at)
             r == Report(kind, occ, at)
         IN  /\ u \in Storage /\ IsFiniteSet(u.log) /\ e \in HeartbeatEvent /\ RowOf(e) = r
             /\ u.rows = s.rows \cup {r} /\ u.known = s.known /\ u.last = s.last
             /\ u.missed = s.missed
             /\ r \in s.rows => u.log = s.log
             /\ r \notin s.rows => u.log = s.log \cup {e}
<1> DEFINE u == Ingest(s, n, kind, occ, at)
           e == NewEvent(s, n, kind, occ, at)
           r == Report(kind, occ, at)
           a == Append(s, n, kind, occ, at)
<1>1. /\ a \in Storage /\ IsFiniteSet(a.log) /\ e \in HeartbeatEvent
      /\ a.log = s.log \cup {e} /\ a.known = s.known /\ a.last = s.last
      /\ a.missed = s.missed /\ a.rows = s.rows
  BY AppendFacts
<1>2. RowOf(e) = r
  BY DEF RowOf, NewEvent
<1>3. u = IF r \in s.rows THEN s ELSE [a EXCEPT !.rows = a.rows \cup {r}]
  BY DEF Ingest
<1>4. r \in [kind : HeartbeatKind, occ : Nat, at : Nat, id : {0}]
  BY DEF Report
<1> HIDE DEF u, e, r, a
<1>5. CASE r \in s.rows
  BY <1>1, <1>2, <1>3, <1>5 DEF u, e, r
<1>6. CASE r \notin s.rows
  <2>1. u = [a EXCEPT !.rows = a.rows \cup {r}]
    BY <1>3, <1>6
  <2>2. /\ u \in Storage /\ u.rows = a.rows \cup {r} /\ u.known = a.known /\ u.last = a.last
        /\ u.missed = a.missed /\ u.log = a.log
    BY <1>1, <1>4, <2>1 DEF Storage
  <2> QED BY <1>1, <1>2, <1>6, <2>2 DEF u, e, r
<1> QED BY <1>5, <1>6

(* The row, and the event of a new row, by themselves. *)
LEMMA IngestRow ==
  ASSUME NEW s \in Storage, IsFiniteSet(s.log), NEW n \in Watcher, NEW kind \in HeartbeatKind,
         NEW occ \in Nat, NEW at \in Nat
  PROVE  Ingest(s, n, kind, occ, at).rows = s.rows \cup {Report(kind, occ, at)}
BY IngestFacts

LEMMA IngestGrows ==
  ASSUME NEW s \in Storage, IsFiniteSet(s.log), NEW n \in Watcher, NEW kind \in HeartbeatKind,
         NEW occ \in Nat, NEW at \in Nat
  PROVE  Report(kind, occ, at) \notin s.rows =>
           Ingest(s, n, kind, occ, at).log = s.log \cup {NewEvent(s, n, kind, occ, at)}
BY IngestFacts

(* It is stored, and says nothing of the source. *)
LEMMA IngestStored ==
  ASSUME NEW s \in Storage, IsFiniteSet(s.log), NEW n \in Watcher, NEW kind \in HeartbeatKind,
         NEW occ \in Nat, NEW at \in Nat
  PROVE  /\ Ingest(s, n, kind, occ, at) \in Storage
         /\ IsFiniteSet(Ingest(s, n, kind, occ, at).log)
         /\ NewEvent(s, n, kind, occ, at) \in HeartbeatEvent
         /\ RowOf(NewEvent(s, n, kind, occ, at)) = Report(kind, occ, at)
BY IngestFacts

LEMMA IngestKeeps ==
  ASSUME NEW s \in Storage, IsFiniteSet(s.log), NEW n \in Watcher, NEW kind \in HeartbeatKind,
         NEW occ \in Nat, NEW at \in Nat
  PROVE  /\ Ingest(s, n, kind, occ, at).known = s.known
         /\ Ingest(s, n, kind, occ, at).last = s.last
         /\ Report(kind, occ, at) \in s.rows => Ingest(s, n, kind, occ, at).log = s.log
BY IngestFacts

(* The rows of a node can be put in order, and its incident is open exactly *)
(* when they are not covered.                                               *)
LEMMA RowsKept ==
  ASSUME NEW s, Kept(s)
  PROVE  /\ \A r \in s.rows : /\ r.kind \in {"firing", "resolved"} /\ r.at \in Nat
                              /\ r.occ \in Nat /\ r.id = 0
                              /\ r.kind = "firing" => r.at = r.occ /\ r.at % 2 = 1
                              /\ r.kind = "resolved" => r.at % 2 = 0
         /\ OrderedRows(s.rows)
         /\ Follows(project_incident(s.rows), s.rows)
         /\ Open(s) <=> s.rows # {} /\ ~ Covered(s.rows)
<1>1. \A r \in s.rows : /\ r.kind \in {"firing", "resolved"} /\ r.at \in Nat
                        /\ r.occ \in Nat /\ r.id = 0
                        /\ r.kind = "firing" => r.at = r.occ /\ r.at % 2 = 1
                        /\ r.kind = "resolved" => r.at % 2 = 0
  <2> TAKE r \in s.rows
  <2>1. PICK e \in s.log : IsIncident(e) /\ r = RowOf(e)
    BY DEF Kept
  <2>2. e \in HeartbeatEvent /\ Proper(e)
    BY DEF Kept, Storage
  <2>3. r.kind = e.kind /\ r.at = e.at /\ r.occ = e.occ /\ r.id = 0
    BY <2>1 DEF RowOf, Report
  <2> QED BY <2>1, <2>2, <2>3 DEF HeartbeatEvent, Proper, IsIncident
<1>2. IsFiniteSet(s.rows)
  <2> DEFINE T == {RowOf(e) : e \in s.log}
             f == [e \in s.log |-> RowOf(e)]
  <2>1. f \in Surjection(s.log, T)
    BY DEF Surjection
  <2>2. s.rows \subseteq T
    BY DEF Kept
  <2> HIDE DEF T
  <2> QED BY <2>1, <2>2, FS_Surjection, FS_Subset DEF Kept
<1>3. \A r \in s.rows : \A q \in s.rows : (r.at = q.at /\ r.id = q.id /\ r # q)
                       => r.kind # "firing" /\ q.kind # "firing"
  <2> SUFFICES ASSUME NEW r \in s.rows, NEW q \in s.rows, r.at = q.at, r.kind = "firing"
               PROVE  r = q
    OBVIOUS
  <2>1. r.at % 2 = 1 /\ q.kind = "firing" /\ r.occ = q.occ
    BY <1>1
  <2>2. PICK d \in s.log : r = RowOf(d)
    BY DEF Kept
  <2>3. PICK e \in s.log : q = RowOf(e)
    BY DEF Kept
  <2> QED BY <2>1, <2>2, <2>3 DEF RowOf, Report
<1>4. OrderedRows(s.rows)
  BY <1>1, <1>2, <1>3 DEF OrderedRows
<1>5. FiringsStart(s.rows)
  BY <1>1 DEF FiringsStart, Firings
<1>6. Follows(project_incident(s.rows), s.rows)
  BY <1>4, <1>5, ProjectionFollows
<1>7. Open(s) <=> s.rows # {} /\ ~ Covered(s.rows)
  BY <1>6 DEF Open, Follows
<1> QED BY <1>1, <1>4, <1>6, <1>7
(* The latest row of a node. *)
LEMMA LastEventIsLatest ==
  ASSUME NEW s, Kept(s), s.rows # {}
  PROVE  /\ \E r \in s.rows : r.at = LastEventAt(s)
         /\ \A r \in s.rows : r.at <= LastEventAt(s)
<1>1. \A r \in s.rows : r.at \in Nat /\ r.id = 0
  BY RowsKept
<1>2. OrderedRows(s.rows)
  BY RowsKept
<1>3. PICK l \in s.rows : \A r \in s.rows : ~ Before(l, r)
  BY <1>2, LatestIsLast
<1>4. \A r \in s.rows : r.at <= l.at
  BY <1>1, <1>3 DEF Before
<1> DEFINE Ats == {r.at : r \in s.rows}
           IsLast(t) == \A r \in s.rows : r.at <= t
<1>5. l.at \in Ats /\ IsLast(l.at)
  BY <1>4
<1>6. LastEventAt(s) = CHOOSE t \in Ats : IsLast(t)
  BY DEF LastEventAt
<1> HIDE DEF IsLast, Ats
<1>7. LastEventAt(s) \in Ats /\ IsLast(LastEventAt(s))
  BY <1>5, <1>6
<1> QED BY <1>7 DEF Ats, IsLast

(* Where every firing is earlier than t the incident is not open. *)
Closed(s, t) == (\A r \in s.rows : r.kind = "firing" => r.at < t) => ~ Open(s)

(* A resolution stays a resolution when more of them come. *)
LEMMA ResolutionsKeepClosed ==
  ASSUME NEW s, Kept(s), NEW u, Kept(u), s.rows \subseteq u.rows,
         \A r \in u.rows \ s.rows : r.kind = "resolved", ~ Open(s)
  PROVE  ~ Open(u)
<1> SUFFICES ASSUME u.rows # {} PROVE Covered(u.rows)
  BY RowsKept
<1>1. \A r \in u.rows : r.kind = "firing" => r \in s.rows
  OBVIOUS
<1>2. CASE s.rows = {}
  <2>1. \A r \in u.rows : r.kind = "resolved"
    BY <1>2
  <2> QED BY <2>1 DEF Covered
<1>3. CASE s.rows # {}
  <2>1. Covered(s.rows)
    BY <1>3, RowsKept
  <2> QED BY <1>1, <2>1 DEF Covered
<1> QED BY <1>2, <1>3

(* A resolution of the present occurrence, later than all firings, closes.  *)
LEMMA ResolutionCloses ==
  ASSUME NEW s, Kept(s), NEW u, Kept(u), NEW t \in Nat,
         u.rows = s.rows \cup {Report("resolved", project_incident(s.rows).starts, t)},
         \A r \in s.rows : r.kind = "firing" => r.at < t
  PROVE  ~ Open(u)
<1> DEFINE c == Report("resolved", project_incident(s.rows).starts, t)
<1>1. /\ c.kind = "resolved" /\ c.at = t /\ c.occ = project_incident(s.rows).starts
  BY DEF Report
<1> HIDE DEF c
<1>2. \A r \in u.rows : r.kind = "firing" => r \in s.rows
  BY <1>1 DEF c
<1>3. \A r \in s.rows : r.kind = "firing" => r.occ <= c.occ
  BY <1>1, RowsKept DEF Follows, Firings
<1>4. Covered(u.rows)
  BY <1>1, <1>2, <1>3 DEF Covered, Before, c
<1> QED BY <1>4, RowsKept

(* What a step of a projection may do to what n stores: add resolutions of  *)
(* its own, with their rows; know of newer heartbeats; close what was open  *)
(* before a heartbeat that it knew of.                                      *)
Grown(s, n, u) ==
  /\ Kept(u) /\ u.known = s.known
  /\ s.log \subseteq u.log /\ s.rows \subseteq u.rows /\ s.last <= u.last
  /\ \A e \in u.log \ s.log : /\ e.kind = "resolved" /\ e.origin = n
                              /\ e.at <= u.last /\ RowOf(e) \in u.rows
  /\ \A t \in Nat : t <= s.last /\ Closed(s, t) => Closed(u, t)

(* The numbers of n are those of its events, in order. *)
Counted(L, n) == \A e \in OwnIn(L, n) : e.seq <= Count(L, n)

(* A resolution is one by a heartbeat that is on the node as well. *)
Backed(L) == \A e \in L : e.kind = "resolved" => e.at \in Observations(L)

(* The new events of M are numbered after those of L.                       *)
InSequence(L, n, M) ==
  /\ Counted(L, n) => Counted(M, n) /\ \A e \in M \ L : Count(L, n) < e.seq
  /\ Count(L, n) <= Count(M, n)

(* And they are by a heartbeat of the log, if all resolutions were.         *)
Extends(L, n, M) ==
  /\ InSequence(L, n, M)
  /\ Backed(L) => \A e \in M \ L : e.at \in Observations(L)

(* A log with one more event of n. *)
LEMMA OneMoreCounted ==
  ASSUME NEW L, IsFiniteSet(L), L \subseteq HeartbeatEvent, NEW n, NEW e,
         e.origin = n, e.seq = 1 + Count(L, n)
  PROVE  LET M == L \cup {e}
         IN  /\ Counted(L, n) => Counted(M, n) /\ e \notin L
             /\ Count(L, n) <= Count(M, n) /\ Count(L, n) < e.seq
             /\ Count(L, n) \in Nat /\ Count(M, n) \in Nat
<1> DEFINE M == L \cup {e}
<1>1. /\ IsFiniteSet(OwnIn(L, n)) /\ Count(L, n) \in Nat
      /\ IsFiniteSet(M) /\ Count(M, n) \in Nat
  BY CountNat, FS_AddElement
<1>2. OwnIn(M, n) = OwnIn(L, n) \cup {e}
  BY DEF OwnIn
<1>3. IF e \in OwnIn(L, n) THEN Count(M, n) = Count(L, n) ELSE Count(M, n) = Count(L, n) + 1
  BY <1>1, <1>2, FS_AddElement DEF Count
<1>4. ASSUME Counted(L, n)
      PROVE  Counted(M, n) /\ e \notin L
  <2>1. e \notin OwnIn(L, n)
    BY <1>1, <1>4 DEF Counted
  <2>2. e \notin L
    BY <2>1 DEF OwnIn
  <2>3. \A x \in OwnIn(L, n) : x.seq <= Count(L, n) /\ x.seq \in Nat
    BY <1>4 DEF Counted, OwnIn, HeartbeatEvent
  <2> HIDE DEF M
  <2>4. \A x \in OwnIn(M, n) : x.seq <= Count(M, n)
    BY <1>1, <1>2, <1>3, <2>1, <2>3
  <2> QED BY <2>2, <2>4 DEF Counted
<1> HIDE DEF M
<1> QED BY <1>1, <1>3, <1>4 DEF M

(* _resolve_from_observation *)
LEMMA ResolveFacts ==
  ASSUME NEW s, Kept(s), NEW n \in Watcher, NEW t \in Nat, t <= s.last,
         \E e \in s.log : e.kind \in {"observed", "resolved"} /\ e.at = t
  PROVE  LET u == Resolve(s, n, t)
         IN  /\ Grown(s, n, u) /\ Extends(s.log, n, u.log) /\ u.last = s.last
             /\ (\A r \in s.rows : r.at <= t) => Closed(u, t)
<1>0. PICK k \in HeartbeatKind : k = "resolved"
  BY DEF HeartbeatKind
<1> DEFINE u == Resolve(s, n, t)
           o == project_incident(s.rows).starts
           i == Ingest(s, n, k, o, t)
           c == Report(k, o, t)
           e == NewEvent(s, n, k, o, t)
<1>1. s \in Storage /\ IsFiniteSet(s.log) /\ s.last \in Nat /\ s.log \subseteq HeartbeatEvent
  BY DEF Kept, Storage
<1>2. t % 2 = 0
  BY DEF Kept, Proper
<1>3. o \in Nat
  BY RowsKept DEF Follows, State
<1>4. CASE Open(s) /\ t >= LastEventAt(s)
  <2>1. /\ i \in Storage /\ IsFiniteSet(i.log) /\ e \in HeartbeatEvent /\ RowOf(e) = c
        /\ i.rows = s.rows \cup {c} /\ i.known = s.known /\ i.last = s.last
        /\ c \in s.rows => i.log = s.log
        /\ c \notin s.rows => i.log = s.log \cup {e}
    BY <1>1, <1>3, IngestFacts
  <2>2. /\ e.kind = "resolved" /\ e.origin = n /\ e.at = t /\ e.seq = 1 + Count(s.log, n)
        /\ c.kind = "resolved" /\ c.at = t
    BY <1>0 DEF NewEvent, Report
  <2>3. u = [i EXCEPT !.missed = FALSE]
    BY <1>0, <1>4 DEF Resolve
  <2> HIDE DEF u, o, i, c, e
  <2>4. /\ u \in Storage /\ u.log = i.log /\ u.rows = i.rows /\ u.known = s.known
        /\ u.last = s.last
    BY <2>1, <2>3 DEF Storage
  <2>5. Kept(u)
    <3>1. \A x \in u.log : Proper(x)
      BY <1>2, <2>1, <2>2, <2>4 DEF Kept, Proper
    <3>2. u.last = 0 \/ \E x \in u.log : x.kind \in {"observed", "resolved"} /\ x.at = u.last
      BY <2>1, <2>4 DEF Kept
    <3>3. \A r \in u.rows : \E x \in u.log : IsIncident(x) /\ r = RowOf(x)
      <4> TAKE r \in u.rows
      <4>1. CASE r \in s.rows
        BY <2>1, <2>4, <4>1 DEF Kept
      <4>2. CASE r \notin s.rows
        BY <2>1, <2>2, <2>4, <4>2 DEF IsIncident
      <4> QED BY <4>1, <4>2
    <3>4. \A r \in u.rows : r.kind = "resolved" => r.at <= u.last
      BY <2>1, <2>2, <2>4 DEF Kept
    <3> QED BY <2>1, <2>4, <3>1, <3>2, <3>3, <3>4 DEF Kept
  <2>6. \A x \in u.log \ s.log : x = e
    BY <2>1, <2>4
  <2>7. Grown(s, n, u)
    <3>1. s.log \subseteq u.log /\ s.rows \subseteq u.rows
      BY <2>1, <2>4
    <3>2. \A x \in u.log \ s.log : /\ x.kind = "resolved" /\ x.origin = n
                                 /\ x.at <= u.last /\ RowOf(x) \in u.rows
      BY <2>1, <2>2, <2>4, <2>6
    <3>3. ASSUME NEW v \in Nat, v <= s.last, Closed(s, v)
          PROVE  Closed(u, v)
      <4>1. \A r \in u.rows \ s.rows : r.kind = "resolved"
        BY <2>1, <2>2, <2>4
      <4>2. ~ Open(s) => ~ Open(u)
        BY <2>5, <3>1, <4>1, ResolutionsKeepClosed
      <4> QED BY <3>1, <3>3, <4>2 DEF Closed
    <3> QED BY <1>1, <2>4, <2>5, <3>1, <3>2, <3>3 DEF Grown
  <2>8. Extends(s.log, n, u.log)
    <3>1. /\ Counted(s.log, n) => Counted(s.log \cup {e}, n)
          /\ Count(s.log, n) <= Count(s.log \cup {e}, n) /\ Count(s.log, n) < e.seq
          /\ Count(s.log, n) \in Nat
      BY <1>1, <2>2, OneMoreCounted
    <3>2. Backed(s.log) => t \in Observations(s.log)
      BY DEF Backed, Observations
    <3>3. u.log = s.log \/ u.log = s.log \cup {e}
      BY <2>1, <2>4
    <3>4. CASE u.log = s.log
      BY <3>1, <3>4 DEF Extends, InSequence
    <3>5. CASE u.log = s.log \cup {e}
      BY <2>2, <2>6, <3>1, <3>2, <3>5 DEF Extends, InSequence
    <3> QED BY <3>3, <3>4, <3>5
  <2>9. Closed(u, t)
    <3> SUFFICES ASSUME \A r \in u.rows : r.kind = "firing" => r.at < t PROVE ~ Open(u)
      BY DEF Closed
    <3>1. u.rows = s.rows \cup {Report("resolved", project_incident(s.rows).starts, t)}
      BY <1>0, <2>1, <2>4 DEF c, o
    <3> QED BY <2>5, <3>1, ResolutionCloses
  <2> QED BY <2>4, <2>7, <2>8, <2>9 DEF u
<1>5. CASE ~ (Open(s) /\ t >= LastEventAt(s))
  <2>1. u = [s EXCEPT !.missed = Open(s)]
    BY <1>5 DEF Resolve
  <2>2. Open(s) \in BOOLEAN
    BY DEF Open
  <2> HIDE DEF u
  <2>3. /\ u \in Storage /\ u.log = s.log /\ u.rows = s.rows /\ u.known = s.known
        /\ u.last = s.last
    BY <1>1, <2>1, <2>2 DEF Storage
  <2>4. Kept(u)
    BY <2>3 DEF Kept
  <2>5. Open(u) <=> Open(s)
    BY <2>3 DEF Open
  <2>6. Grown(s, n, u)
    BY <1>1, <2>3, <2>4, <2>5 DEF Grown, Closed
  <2>7. Extends(s.log, n, u.log)
    BY <1>1, <2>3, CountNat DEF Extends, InSequence
  <2>8. (\A r \in s.rows : r.at <= t) => Closed(u, t)
    <3> SUFFICES ASSUME \A r \in s.rows : r.at <= t, Open(s) PROVE FALSE
      BY <2>5 DEF Closed
    <3>1. s.rows # {} /\ ~ (t >= LastEventAt(s))
      BY <1>5 DEF Open
    <3>2. PICK r \in s.rows : r.at = LastEventAt(s)
      BY <3>1, LastEventIsLatest
    <3> QED BY <3>1, <3>2, RowsKept
  <2> QED BY <2>3, <2>6, <2>7, <2>8 DEF u
<1> QED BY <1>4, <1>5

(* Closed before every heartbeat it knows of, if it takes its newest one.   *)
LEMMA NewestCloses ==
  ASSUME NEW s, Kept(s), NEW n \in Watcher, s.last > 0
  PROVE  LET u == Resolve(s, n, s.last)
         IN  /\ Grown(s, n, u) /\ Extends(s.log, n, u.log) /\ u.last = s.last
             /\ \A t \in Nat : t <= s.last => Closed(u, t)
<1> DEFINE u == Resolve(s, n, s.last)
<1>1. s.last \in Nat
  BY DEF Kept, Storage
<1>2. \E e \in s.log : e.kind \in {"observed", "resolved"} /\ e.at = s.last
  BY <1>1 DEF Kept
<1>3. /\ Grown(s, n, u) /\ Extends(s.log, n, u.log) /\ u.last = s.last
      /\ (\A r \in s.rows : r.at <= s.last) => Closed(u, s.last)
  BY <1>1, <1>2, ResolveFacts
<1> HIDE DEF u
<1>4. ASSUME NEW t \in Nat, t <= s.last, \A r \in u.rows : r.kind = "firing" => r.at < t
      PROVE  ~ Open(u)
  <2>1. s.rows \subseteq u.rows
    BY <1>3 DEF Grown
  <2>2. \A r \in s.rows : r.at <= s.last
    <3> TAKE r \in s.rows
    <3>1. r.kind \in {"firing", "resolved"} /\ r.at \in Nat
      BY RowsKept
    <3>2. CASE r.kind = "firing"
      BY <1>1, <1>4, <2>1, <3>1, <3>2
    <3>3. CASE r.kind = "resolved"
      BY <3>3 DEF Kept
    <3> QED BY <3>1, <3>2, <3>3
  <2>3. \A r \in u.rows : r.kind = "firing" => r.at < s.last
    <3>1. Kept(u)
      BY <1>3 DEF Grown
    <3>2. \A r \in u.rows : r.at \in Nat
      BY <3>1, RowsKept
    <3> QED BY <1>1, <1>4, <3>2
  <2> QED BY <1>3, <2>2, <2>3 DEF Closed
<1>5. \A t \in Nat : t <= s.last => Closed(u, t)
  BY <1>4 DEF Closed
<1> QED BY <1>3, <1>5 DEF u

(* What the events of E leave behind when s became u by them: their rows,   *)
(* the newest heartbeat, and the incident closed by it if it is newest.     *)
Took(s, E, u) ==
  /\ \A e \in E : IsIncident(e) => RowOf(e) \in u.rows
  /\ \A e \in E : e.kind = "observed" => e.at <= u.last
  /\ \A t \in Nat :
       (s.last <= t /\ \A e \in E : e.kind \in {"observed", "resolved"} => e.at <= t) =>
          /\ u.last <= t
          /\ (\E e \in E : e.kind = "observed" /\ e.at = t) => Closed(u, t)

(* Steps follow one another. *)
LEMMA GrownTwice ==
  ASSUME NEW s, NEW n, NEW a, NEW u, s.last \in Nat, Grown(s, n, a), Grown(a, n, u)
  PROVE  Grown(s, n, u)
<1>1. a.last \in Nat /\ u.last \in Nat
  BY DEF Grown, Kept, Storage
<1>2. \A e \in a.log : e \in HeartbeatEvent
  BY DEF Grown, Kept, Storage
<1>3. \A e \in u.log \ s.log : /\ e.kind = "resolved" /\ e.origin = n
                               /\ e.at <= u.last /\ RowOf(e) \in u.rows
  <2> TAKE e \in u.log \ s.log
  <2>1. CASE e \in a.log
    <3>1. e.kind = "resolved" /\ e.origin = n /\ e.at <= a.last /\ RowOf(e) \in a.rows /\ e.at \in Nat
      BY <1>2, <2>1 DEF Grown, HeartbeatEvent
    <3> QED BY <1>1, <3>1 DEF Grown
  <2>2. CASE e \notin a.log
    BY <2>2 DEF Grown
  <2> QED BY <2>1, <2>2
<1>4. \A t \in Nat : t <= s.last /\ Closed(s, t) => Closed(u, t)
  <2> HIDE DEF Closed
  <2> QED BY <1>1 DEF Grown
<1> QED BY <1>1, <1>3, <1>4 DEF Grown

LEMMA ExtendsTwice ==
  ASSUME NEW L, NEW n, NEW M, NEW K, Extends(L, n, M), Extends(M, n, K), L \subseteq M, M \subseteq K,
         IsFiniteSet(K), K \subseteq HeartbeatEvent, \A e \in M \ L : e.kind = "resolved"
  PROVE  Extends(L, n, K)
<1>1. IsFiniteSet(M) /\ IsFiniteSet(L)
  BY FS_Subset
<1>2. Count(L, n) \in Nat /\ Count(M, n) \in Nat /\ Count(K, n) \in Nat
  BY <1>1, CountNat
<1>3. \A e \in K : e.seq \in Nat
  BY DEF HeartbeatEvent
<1>4. Count(L, n) <= Count(K, n)
  BY <1>2 DEF Extends, InSequence
<1>5. ASSUME Counted(L, n)
      PROVE  Counted(K, n) /\ \A e \in K \ L : Count(L, n) < e.seq
  <2>1. Counted(M, n) /\ Counted(K, n) /\ Count(L, n) <= Count(M, n)
    BY <1>5 DEF Extends, InSequence
  <2>2. \A e \in K \ L : Count(L, n) < e.seq
    BY <1>2, <1>3, <1>5, <2>1 DEF Extends, InSequence
  <2> QED BY <2>1, <2>2
<1>6. ASSUME Backed(L)
      PROVE  \A e \in K \ L : e.at \in Observations(L)
  <2>1. \A e \in M \ L : e.at \in Observations(L)
    BY <1>6 DEF Extends, InSequence
  <2>2. Observations(M) = Observations(L)
    BY DEF Observations
  <2>3. Backed(M)
    BY <1>6, <2>1, <2>2 DEF Backed
  <2> QED BY <2>1, <2>2, <2>3 DEF Extends, InSequence
<1> QED BY <1>4, <1>5, <1>6 DEF Extends, InSequence

LEMMA TookTwice ==
  ASSUME NEW s, NEW n, NEW a, NEW u, NEW E, NEW F, E \cup F \subseteq HeartbeatEvent,
         s.last \in Nat, Grown(s, n, a), Grown(a, n, u), Took(s, E, a), Took(a, F, u)
  PROVE  Took(s, E \cup F, u)
<1>1. a.last \in Nat /\ u.last \in Nat /\ a.last <= u.last /\ a.rows \subseteq u.rows
  BY DEF Grown, Kept, Storage
<1>2. \A e \in E \cup F : e.at \in Nat
  BY DEF HeartbeatEvent
<1>3. \A e \in E \cup F : IsIncident(e) => RowOf(e) \in u.rows
  BY <1>1 DEF Took
<1>4. \A e \in E \cup F : e.kind = "observed" => e.at <= u.last
  BY <1>1, <1>2 DEF Took
<1>5. ASSUME NEW t \in Nat, s.last <= t,
             \A e \in E \cup F : e.kind \in {"observed", "resolved"} => e.at <= t
      PROVE  u.last <= t /\ ((\E e \in E \cup F : e.kind = "observed" /\ e.at = t) => Closed(u, t))
  <2> HIDE DEF Closed
  <2>1. a.last <= t /\ ((\E e \in E : e.kind = "observed" /\ e.at = t) => Closed(a, t))
    BY <1>5 DEF Took
  <2>2. u.last <= t /\ ((\E e \in F : e.kind = "observed" /\ e.at = t) => Closed(u, t))
    BY <1>5, <2>1 DEF Took
  <2>3. ASSUME NEW e \in E, e.kind = "observed", e.at = t
        PROVE  Closed(u, t)
    <3>1. t <= a.last
      BY <2>3 DEF Took
    <3> QED BY <2>1, <2>3, <3>1 DEF Grown
  <2>4. \A e \in E \cup F : e \in E \/ e \in F
    OBVIOUS
  <2> QED BY <2>2, <2>3, <2>4
<1> QED BY <1>3, <1>4, <1>5 DEF Took

(* project_heartbeat_observation *)
LEMMA ObserveFacts ==
  ASSUME NEW s, Kept(s), s.known, NEW n \in Watcher, NEW e \in s.log, e.kind = "observed"
  PROVE  LET u == Observe(s, n, e.at)
         IN  Grown(s, n, u) /\ Extends(s.log, n, u.log) /\ Took(s, {e}, u)
<1> DEFINE b == [s EXCEPT !.last = Later(s.last, e.at)]
           u == Observe(s, n, e.at)
<1>1. /\ s \in Storage /\ s.last \in Nat /\ e \in HeartbeatEvent /\ e.at \in Nat
      /\ Later(s.last, e.at) \in Nat
  BY DEF Kept, Storage, HeartbeatEvent, Later
<1>2. u = Resolve(b, n, e.at)
  BY DEF Observe
<1>3. /\ b \in Storage /\ b.log = s.log /\ b.rows = s.rows /\ b.known = s.known
      /\ b.last = Later(s.last, e.at)
  BY <1>1 DEF Storage
<1> HIDE DEF b, u
<1>4. /\ s.last <= b.last /\ e.at <= b.last /\ b.last \in Nat
      /\ b.last = s.last \/ b.last = e.at
  BY <1>1, <1>3 DEF Later
<1>5. Kept(b)
  <2>1. b.last = 0 \/ \E x \in b.log : x.kind \in {"observed", "resolved"} /\ x.at = b.last
    BY <1>3, <1>4 DEF Kept
  <2>2. \A r \in b.rows : r.kind = "resolved" => r.at <= b.last
    <3>1. \A r \in s.rows : r.at \in Nat
      BY RowsKept
    <3> QED BY <1>1, <1>3, <1>4, <3>1 DEF Kept
  <2> QED BY <1>3, <2>1, <2>2 DEF Kept
<1>6. /\ Grown(b, n, u) /\ Extends(b.log, n, u.log) /\ u.last = b.last
      /\ (\A r \in b.rows : r.at <= e.at) => Closed(u, e.at)
  BY <1>1, <1>2, <1>3, <1>4, <1>5, ResolveFacts
<1>7. \A t : Closed(b, t) <=> Closed(s, t)
  BY <1>3 DEF Closed, Open
<1>8. Grown(s, n, u)
  <2> HIDE DEF Closed
  <2> QED BY <1>1, <1>3, <1>4, <1>6, <1>7 DEF Grown
<1>9. Took(s, {e}, u)
  <2>1. ASSUME NEW t \in Nat, s.last <= t, e.at <= t
        PROVE  u.last <= t /\ (e.at = t => Closed(u, t))
    <3>1. u.last <= t
      BY <1>4, <1>6, <2>1
    <3>2. ASSUME e.at = t, \A r \in u.rows : r.kind = "firing" => r.at < t
          PROVE  ~ Open(u)
      <4>1. \A r \in b.rows : r.at <= e.at
        <5> TAKE r \in b.rows
        <5>1. /\ r.kind \in {"firing", "resolved"} /\ r.at \in Nat /\ r \in s.rows
          BY <1>3, RowsKept
        <5>2. CASE r.kind = "firing"
          BY <1>6, <3>2, <5>1, <5>2 DEF Grown
        <5>3. CASE r.kind = "resolved"
          <6>1. r.at <= s.last
            BY <5>1, <5>3 DEF Kept
          <6> QED BY <1>1, <2>1, <3>2, <5>1, <6>1
        <5> QED BY <5>1, <5>2, <5>3
      <4> QED BY <1>6, <3>2, <4>1 DEF Closed
    <3> QED BY <3>1, <3>2 DEF Closed
  <2> QED BY <1>4, <1>6, <2>1 DEF Took, IsIncident
<1> QED BY <1>3, <1>6, <1>8, <1>9 DEF u

(* _project_incident_event, reconcile_heartbeat_incident *)
LEMMA ReconcileFacts ==
  ASSUME NEW s, Kept(s), s.known, NEW n \in Watcher, NEW e \in s.log, IsIncident(e)
  PROVE  LET u == ProjectIncident(s, n, e)
         IN  Grown(s, n, u) /\ Extends(s.log, n, u.log) /\ Took(s, {e}, u)
<1> DEFINE b == [s EXCEPT !.rows = s.rows \cup {RowOf(e)}]
           u == ProjectIncident(s, n, e)
<1>1. /\ s \in Storage /\ s.last \in Nat /\ e \in HeartbeatEvent /\ e.at \in Nat /\ Proper(e)
      /\ IsFiniteSet(s.log) /\ s.log \subseteq HeartbeatEvent
  BY DEF Kept, Storage, HeartbeatEvent
<1>2. /\ RowOf(e) \in [kind : HeartbeatKind, occ : Nat, at : Nat, id : {0}]
      /\ RowOf(e).kind = e.kind /\ RowOf(e).at = e.at
  BY <1>1 DEF RowOf, Report, HeartbeatEvent
<1>3. u = Reconcile(b, n, RowOf(e))
  BY DEF ProjectIncident
<1>4. /\ b \in Storage /\ b.log = s.log /\ b.rows = s.rows \cup {RowOf(e)} /\ b.known = s.known
      /\ b.last = s.last
  BY <1>1, <1>2 DEF Storage
<1> HIDE DEF b, u
<1>5. \A r \in b.rows : \E x \in b.log : IsIncident(x) /\ r = RowOf(x)
  BY <1>4 DEF Kept
<1>6. CASE e.kind = "resolved"
  <2>1. u = [b EXCEPT !.last = Later(s.last, e.at), !.missed = FALSE]
    BY <1>2, <1>3, <1>4, <1>6 DEF Reconcile
  <2>2. Later(s.last, e.at) \in Nat /\ s.last <= Later(s.last, e.at) /\ e.at <= Later(s.last, e.at)
        /\ Later(s.last, e.at) \in {s.last, e.at}
    BY <1>1 DEF Later
  <2>3. /\ u \in Storage /\ u.log = s.log /\ u.rows = s.rows \cup {RowOf(e)} /\ u.known = s.known
        /\ u.last = Later(s.last, e.at)
    BY <1>4, <2>1, <2>2 DEF Storage
  <2>4. Kept(u)
    <3>1. u.last = 0 \/ \E x \in u.log : x.kind \in {"observed", "resolved"} /\ x.at = u.last
      BY <1>6, <2>2, <2>3 DEF Kept
    <3>2. \A r \in u.rows : r.kind = "resolved" => r.at <= u.last
      <4> TAKE r \in u.rows
      <4>1. CASE r = RowOf(e)
        BY <1>2, <2>2, <2>3, <4>1
      <4>2. CASE r # RowOf(e)
        <5>1. r \in s.rows /\ r.at \in Nat
          BY <2>3, <4>2, RowsKept
        <5> QED BY <1>1, <2>2, <2>3, <5>1 DEF Kept
      <4> QED BY <4>1, <4>2
    <3> QED BY <1>4, <1>5, <2>3, <3>1, <3>2 DEF Kept
  <2>5. Grown(s, n, u)
    <3>1. \A r \in u.rows \ s.rows : r.kind = "resolved"
      BY <1>2, <1>6, <2>3
    <3>2. ~ Open(s) => ~ Open(u)
      BY <2>3, <2>4, <3>1, ResolutionsKeepClosed
    <3>3. \A t \in Nat : t <= s.last /\ Closed(s, t) => Closed(u, t)
      BY <2>3, <3>2 DEF Closed
    <3> QED BY <2>2, <2>3, <2>4, <3>3 DEF Grown
  <2>6. Extends(s.log, n, u.log)
    BY <1>1, <2>3, CountNat DEF Extends, InSequence
  <2>7. Took(s, {e}, u)
    BY <1>1, <1>6, <2>2, <2>3 DEF Took
  <2> QED BY <2>5, <2>6, <2>7 DEF u
<1>7. CASE e.kind = "firing"
  <2>1. e.at > 0
    BY <1>1, <1>7 DEF Proper
  <2>2. Kept(b)
    <3>1. \A r \in b.rows : r.kind = "resolved" => r.at <= b.last
      BY <1>2, <1>4, <1>7 DEF Kept
    <3> QED BY <1>4, <1>5, <3>1 DEF Kept
  <2>3. CASE s.last >= e.at
    <3>1. u = Resolve(b, n, b.last)
      BY <1>2, <1>3, <1>4, <1>7, <2>3 DEF Reconcile
    <3>2. b.last > 0
      BY <1>1, <1>4, <2>1, <2>3
    <3>3. /\ Grown(b, n, u) /\ Extends(b.log, n, u.log) /\ u.last = b.last
          /\ \A t \in Nat : t <= b.last => Closed(u, t)
      BY <2>2, <3>1, <3>2, NewestCloses
    <3> HIDE DEF Closed
    <3>4. Grown(s, n, u)
      BY <1>4, <3>3 DEF Grown
    <3>5. RowOf(e) \in u.rows
      BY <1>4, <3>3 DEF Grown
    <3>6. Took(s, {e}, u)
      BY <1>1, <1>4, <1>7, <3>3, <3>5 DEF Took
    <3> QED BY <1>4, <3>3, <3>4, <3>6 DEF u
  <2>4. CASE ~ (s.last >= e.at)
    <3>1. u = [b EXCEPT !.missed = TRUE]
      BY <1>2, <1>3, <1>4, <1>7, <2>4 DEF Reconcile
    <3>2. /\ u \in Storage /\ u.log = b.log /\ u.rows = b.rows /\ u.known = b.known
          /\ u.last = b.last
      BY <1>4, <3>1 DEF Storage
    <3>3. Kept(u)
      BY <2>2, <3>2 DEF Kept
    <3>4. ASSUME NEW t \in Nat, t <= s.last
          PROVE  Closed(u, t)
      <4>1. RowOf(e) \in u.rows /\ RowOf(e).kind = "firing" /\ ~ (RowOf(e).at < t)
        BY <1>1, <1>2, <1>4, <1>7, <2>4, <3>2, <3>4
      <4> QED BY <4>1 DEF Closed
    <3> HIDE DEF Closed
    <3>5. Grown(s, n, u)
      BY <1>1, <1>4, <3>2, <3>3, <3>4 DEF Grown
    <3>6. Extends(s.log, n, u.log)
      BY <1>1, <1>4, <3>2, CountNat DEF Extends, InSequence
    <3>7. Took(s, {e}, u)
      BY <1>1, <1>4, <1>7, <3>2 DEF Took
    <3> QED BY <3>5, <3>6, <3>7 DEF u
  <2> QED BY <2>3, <2>4
<1> QED BY <1>6, <1>7 DEF IsIncident

(* A page has a last event. *)
LEMMA FinalIsIn ==
  ASSUME NEW E, IsFiniteSet(E), E \subseteq HeartbeatEvent, E # {}
  PROVE  Final(E) \in E
<1> DEFINE O == {e \in E : ~ IsIncident(e)}
           D == IF O = {} THEN E ELSE O
           Place(e) == [at |-> e.at, id |-> e.occ, occ |-> 0, kind |-> "any"]
           R == {Place(e) : e \in D}
           f == [e \in D |-> Place(e)]
<1>1. D \subseteq E /\ D # {} /\ IsFiniteSet(D)
  BY FS_Subset
<1>2. \A e \in E : e.at \in Nat /\ e.occ \in Nat
  BY DEF HeartbeatEvent
<1>3. IsFiniteSet(R)
  <2> HIDE DEF Place
  <2>1. f \in Surjection(D, R)
    BY DEF Surjection
  <2> HIDE DEF R, f, D
  <2> QED BY <1>1, <2>1, FS_Surjection
<1>4. OrderedRows(R)
  <2>1. \A r \in R : r.at \in Nat /\ r.id \in Nat /\ r.occ \in Nat /\ r.kind # "firing"
    BY <1>1, <1>2
  <2> HIDE DEF R
  <2> QED BY <1>3, <2>1 DEF OrderedRows
<1>5. PICK l \in R : \A r \in R : ~ Before(l, r)
  <2>1. R # {}
    BY <1>1
  <2> HIDE DEF R
  <2> QED BY <1>4, <2>1, LatestIsLast
<1>6. PICK e \in D : l = Place(e)
  OBVIOUS
<1>7. \A x \in D : ~ (e.at < x.at \/ (e.at = x.at /\ e.occ < x.occ))
  <2> TAKE x \in D
  <2>1. ~ Before(Place(e), Place(x))
    BY <1>5, <1>6
  <2> QED BY <2>1 DEF Before
<1>8. \A x \in E : ~ Comes(e, x)
  <2> TAKE x \in E
  <2>1. CASE O = {}
    BY <1>1, <1>7, <2>1 DEF Comes
  <2>2. CASE O # {}
    BY <1>7, <2>2 DEF Comes
  <2> QED BY <2>1, <2>2
<1> QED BY <1>1, <1>8 DEF Final

(* f[F] is what s becomes by the events of F, for the parts F in D. *)
Projects(f, s, n, D) ==
  f = [F \in D |-> IF F = {} THEN s ELSE ProjectEvent(f[F \ {Final(F)}], n, Final(F))]

(* There is such a fold over every page. *)
LEMMA ProjectionExists ==
  ASSUME NEW s, NEW n, NEW E, IsFiniteSet(E), E \subseteq HeartbeatEvent
  PROVE  \E f : Projects(f, s, n, SUBSET E)
<1> DEFINE N == Cardinality(E)
           D(k) == {F \in SUBSET E : Cardinality(F) <= k}
           Step(p, F) == ProjectEvent(p, n, Final(F))
           Q == {k \in 0 .. N : \E f : Projects(f, s, n, D(k))}
<1>1. /\ N \in Nat
      /\ \A F \in SUBSET E : IsFiniteSet(F) /\ Cardinality(F) \in Nat /\ Cardinality(F) <= N
                             /\ (Cardinality(F) = 0 <=> F = {})
  BY FS_Subset, FS_CardinalityType, FS_EmptySet
<1>2. \A F \in SUBSET E : F # {} =>
        /\ F \ {Final(F)} \in SUBSET E
        /\ Cardinality(F \ {Final(F)}) = Cardinality(F) - 1
  <2> SUFFICES ASSUME NEW F \in SUBSET E, F # {}
               PROVE  Cardinality(F \ {Final(F)}) = Cardinality(F) - 1
    OBVIOUS
  <2>1. Final(F) \in F
    BY <1>1, FinalIsIn
  <2> QED BY <1>1, <2>1, SmallerPart
<1>3. 0 \in Q
  <2> DEFINE f == [F \in D(0) |-> s]
  <2>1. \A F \in D(0) : F = {}
    BY <1>1
  <2> HIDE DEF D, Step
  <2>2. f = [F \in D(0) |-> IF F = {} THEN s ELSE Step(f[F \ {Final(F)}], F)]
    BY <2>1
  <2> HIDE DEF f
  <2>3. Projects(f, s, n, D(0))
    BY <2>2, Zenon DEF Projects, Step
  <2> QED BY <1>1, <2>3
<1>4. ASSUME NEW k \in 0 .. N, k < N, k \in Q
      PROVE  k + 1 \in Q
  <2>1. PICK f : Projects(f, s, n, D(k))
    BY <1>4
  <2>2. f = [F \in D(k) |-> IF F = {} THEN s ELSE Step(f[F \ {Final(F)}], F)]
    BY <2>1, Zenon DEF Projects
  <2> HIDE DEF Step
  <2> DEFINE g == [F \in D(k + 1) |-> IF F = {} THEN s ELSE Step(f[F \ {Final(F)}], F)]
  <2>3. \A F \in D(k) : F \in D(k + 1) /\ g[F] = f[F]
    <3>1. \A F \in D(k) : F \in D(k + 1)
      BY <1>1, <1>4
    <3>2. \A F \in D(k) : f[F] = IF F = {} THEN s ELSE Step(f[F \ {Final(F)}], F)
      BY <2>2, Zenon
    <3> HIDE DEF D
    <3> QED BY <3>1, <3>2
  <2>4. \A F \in D(k + 1) : F # {} => F \ {Final(F)} \in D(k)
    BY <1>1, <1>2, <1>4
  <2>5. g = [F \in D(k + 1) |-> IF F = {} THEN s ELSE Step(g[F \ {Final(F)}], F)]
    <3> HIDE DEF D
    <3>1. \A F \in D(k + 1) : g[F] = IF F = {} THEN s ELSE Step(g[F \ {Final(F)}], F)
      BY <2>3, <2>4
    <3>2. DOMAIN g = D(k + 1) /\ g = [F \in D(k + 1) |-> g[F]]
      OBVIOUS
    <3> HIDE DEF g
    <3> QED BY <3>1, <3>2
  <2> HIDE DEF g, D
  <2>6. Projects(g, s, n, D(k + 1))
    BY <2>5, Zenon DEF Projects, Step
  <2>7. k + 1 \in 0 .. N
    BY <1>1, <1>4
  <2> QED BY <2>6, <2>7
<1>5. N \in Q
  <2>1. 0 .. N \subseteq Q
    <3> HIDE DEF Q, N
    <3> QED BY <1>1, <1>3, <1>4, SetInduction
  <2>2. N \in 0 .. N
    BY <1>1
  <2> HIDE DEF Q
  <2> QED BY <2>1, <2>2
<1>6. D(N) = SUBSET E
  BY <1>1
<1>7. \E f : Projects(f, s, n, D(N))
  BY <1>5
<1> HIDE DEF D
<1> QED BY <1>6, <1>7

(* A page, event by event. *)
LEMMA PageFacts ==
  ASSUME NEW s, Kept(s), NEW n \in Watcher, NEW E, E \subseteq s.log, \A e \in E : ~ IsSource(e)
  PROVE  LET u == ProjectEvents(s, n, E)
         IN  /\ s.known => Grown(s, n, u) /\ Extends(s.log, n, u.log) /\ Took(s, E, u)
             /\ ~ s.known => u = s
<1> DEFINE after == CHOOSE after : after = [F \in SUBSET E |->
                      IF F = {} THEN s ELSE ProjectEvent(after[F \ {Final(F)}], n, Final(F))]
           N == Cardinality(E)
           Good(F, u) == /\ s.known => Grown(s, n, u) /\ Extends(s.log, n, u.log) /\ Took(s, F, u)
                         /\ ~ s.known => u = s
           Q == {k \in 0 .. N : \A F \in SUBSET E : Cardinality(F) = k => Good(F, after[F])}
<1>0. /\ IsFiniteSet(s.log) /\ s.log \subseteq HeartbeatEvent /\ s.last \in Nat
      /\ IsFiniteSet(E) /\ E \subseteq HeartbeatEvent
  BY FS_Subset DEF Kept, Storage
<1>1. ProjectEvents(s, n, E) = after[E]
  BY DEF ProjectEvents
<1>2. PICK f : Projects(f, s, n, SUBSET E)
  BY <1>0, ProjectionExists
<1>3. f = [F \in SUBSET E |->
             IF F = {} THEN s ELSE ProjectEvent(f[F \ {Final(F)}], n, Final(F))]
  BY <1>2, Zenon DEF Projects
<1>4. after = [F \in SUBSET E |->
                 IF F = {} THEN s ELSE ProjectEvent(after[F \ {Final(F)}], n, Final(F))]
  BY <1>3, Zenon
<1> HIDE DEF after
<1>5. after[{}] = s
  BY <1>4
<1>6. \A F \in SUBSET E : F # {} => after[F] = ProjectEvent(after[F \ {Final(F)}], n, Final(F))
  BY <1>4, Zenon
<1>7. /\ N \in Nat
      /\ \A F \in SUBSET E : IsFiniteSet(F) /\ Cardinality(F) \in Nat /\ Cardinality(F) <= N
                             /\ (Cardinality(F) = 0 <=> F = {})
  BY <1>0, FS_Subset, FS_CardinalityType, FS_EmptySet
<1>8. 0 \in Q
  <2>1. Grown(s, n, s)
    BY <1>0 DEF Grown
  <2>2. Extends(s.log, n, s.log)
    BY <1>0, CountNat DEF Extends, InSequence
  <2>3. Took(s, {}, s)
    BY DEF Took
  <2>4. \A F \in SUBSET E : Cardinality(F) = 0 => F = {}
    BY <1>7
  <2> QED BY <1>5, <1>7, <2>1, <2>2, <2>3, <2>4
<1>9. ASSUME NEW k \in 0 .. N, k < N, k \in Q
      PROVE  k + 1 \in Q
  <2> SUFFICES ASSUME NEW F \in SUBSET E, Cardinality(F) = k + 1 PROVE Good(F, after[F])
    BY <1>7, <1>9
  <2> DEFINE x == Final(F)
             G == F \ {x}
             a == after[G]
             u == after[F]
  <2>1. F # {} /\ IsFiniteSet(F)
    BY <1>7
  <2>2. x \in F
    BY <1>0, <2>1, FinalIsIn
  <2>3. Cardinality(G) = k /\ G \in SUBSET E /\ F = G \cup {x}
    BY <1>7, <2>1, <2>2, SmallerPart
  <2>4. u = ProjectEvent(a, n, x)
    BY <1>6, <2>1
  <2>5. Good(G, a)
    BY <1>9, <2>3
  <2> HIDE DEF x, a, u, G
  <2>6. x \in s.log /\ x \in HeartbeatEvent /\ ~ IsSource(x)
    BY <1>0, <2>2
  <2>7. ASSUME s.known
        PROVE  Grown(s, n, u) /\ Extends(s.log, n, u.log) /\ Took(s, F, u)
    <3>1. Grown(s, n, a) /\ Extends(s.log, n, a.log) /\ Took(s, G, a)
      BY <2>5, <2>7
    <3>2. Kept(a) /\ a.known /\ x \in a.log
      BY <2>6, <2>7, <3>1 DEF Grown
    <3>3. Grown(a, n, u) /\ Extends(a.log, n, u.log) /\ Took(a, {x}, u)
      <4>1. CASE IsIncident(x)
        BY <2>4, <3>2, <4>1, ReconcileFacts DEF ProjectEvent
      <4>2. CASE ~ IsIncident(x)
        <5>1. x.kind = "observed"
          BY <2>6, <4>2 DEF IsIncident, IsSource, HeartbeatEvent, HeartbeatKind
        <5> QED BY <2>4, <3>2, <4>2, <5>1, ObserveFacts DEF ProjectEvent
      <4> QED BY <4>1, <4>2
    <3>4. Grown(s, n, u)
      BY <1>0, <3>1, <3>3, GrownTwice
    <3>5. Extends(s.log, n, u.log)
      <4>1. /\ s.log \subseteq a.log /\ a.log \subseteq u.log
            /\ IsFiniteSet(u.log) /\ u.log \subseteq HeartbeatEvent
            /\ \A e \in a.log \ s.log : e.kind = "resolved"
        BY <3>1, <3>3 DEF Grown, Kept, Storage
      <4> QED BY <3>1, <3>3, <4>1, ExtendsTwice
    <3>6. Took(s, F, u)
      <4>1. G \cup {x} \subseteq HeartbeatEvent
        BY <1>0, <2>3, <2>6
      <4> QED BY <1>0, <2>3, <2>6, <3>1, <3>3, <4>1, TookTwice
    <3> QED BY <3>4, <3>5, <3>6
  <2>8. ASSUME ~ s.known
        PROVE  u = s
    BY <2>4, <2>5, <2>8 DEF ProjectEvent, ProjectIncident, Observe
  <2> QED BY <2>7, <2>8 DEF u
<1>10. N \in Q
  <2>1. 0 .. N \subseteq Q
    <3> HIDE DEF Q, N
    <3> QED BY <1>7, <1>8, <1>9, SetInduction
  <2>2. N \in 0 .. N
    BY <1>7
  <2> HIDE DEF Q
  <2> QED BY <2>1, <2>2
<1>11. Good(E, after[E])
  BY <1>10
<1> QED BY <1>1, <1>11

LEMMA InSequenceTwice ==
  ASSUME NEW L, NEW n, NEW M, NEW K, InSequence(L, n, M), InSequence(M, n, K), L \subseteq M, M \subseteq K,
         IsFiniteSet(K), K \subseteq HeartbeatEvent
  PROVE  InSequence(L, n, K)
<1>1. IsFiniteSet(M) /\ IsFiniteSet(L)
  BY FS_Subset
<1>2. Count(L, n) \in Nat /\ Count(M, n) \in Nat /\ Count(K, n) \in Nat
  BY <1>1, CountNat
<1>3. \A e \in K : e.seq \in Nat
  BY DEF HeartbeatEvent
<1>4. Count(L, n) <= Count(K, n)
  BY <1>2 DEF InSequence
<1>5. ASSUME Counted(L, n)
      PROVE  Counted(K, n) /\ \A e \in K \ L : Count(L, n) < e.seq
  <2>1. Counted(M, n) /\ Counted(K, n) /\ Count(L, n) <= Count(M, n)
    BY <1>5 DEF InSequence
  <2>2. \A e \in K \ L : Count(L, n) < e.seq
    BY <1>2, <1>3, <1>5, <2>1 DEF InSequence
  <2> QED BY <2>1, <2>2
<1> QED BY <1>4, <1>5 DEF InSequence

(* An event of n added to a log is numbered after those of n. *)
LEMMA OneMoreInSequence ==
  ASSUME NEW L, IsFiniteSet(L), L \subseteq HeartbeatEvent, NEW n, NEW e,
         e.origin = n, e.seq = 1 + Count(L, n)
  PROVE  InSequence(L, n, L \cup {e})
<1>1. /\ Counted(L, n) => Counted(L \cup {e}, n)
      /\ Count(L, n) <= Count(L \cup {e}, n) /\ Count(L, n) < e.seq
  BY OneMoreCounted
<1>2. \A x \in (L \cup {e}) \ L : x = e
  OBVIOUS
<1> QED BY <1>1, <1>2 DEF InSequence

(* evaluate_heartbeats: it fires when the source is due, after the newest   *)
(* heartbeat the node knows of.                                             *)
LEMMA EvaluateFacts ==
  ASSUME HeartbeatAssumption, NEW s, Kept(s), NEW n \in Watcher
  PROVE  LET u == Evaluate(s, n)
         IN  /\ Kept(u) /\ u.known = s.known /\ u.last = s.last
             /\ s.log \subseteq u.log /\ s.rows \subseteq u.rows
             /\ \A e \in u.log \ s.log : /\ e.kind = "firing" /\ e.origin = n /\ RowOf(e) \in u.rows
                                         /\ e.at = s.last + Window
             /\ InSequence(s.log, n, u.log)
             /\ Due(s) => \E r \in u.rows : r.kind = "firing" /\ r.at = s.last + Window
             /\ ~ Due(s) => u = s
<1>0. PICK k \in HeartbeatKind : k = "firing"
  BY DEF HeartbeatKind
<1> DEFINE u == Evaluate(s, n)
           due == s.last + Window
<1>1. /\ s \in Storage /\ IsFiniteSet(s.log) /\ s.last \in Nat /\ s.log \subseteq HeartbeatEvent
      /\ Count(s.log, n) \in Nat
  BY CountNat DEF Kept, Storage
<1>2. due \in Nat /\ due % 2 = 1
  <2>1. s.last % 2 = 0
    BY <1>1 DEF Kept, Proper
  <2> QED BY <1>1, <2>1 DEF HeartbeatAssumption
<1>d. PICK d \in Nat : d = due
  BY <1>2
<1>o. PICK o \in Nat : o = due
  BY <1>2
<1> DEFINE i == Ingest(s, n, k, o, d)
           c == Report(k, o, d)
           e == NewEvent(s, n, k, o, d)
<1>3. CASE Due(s)
  <2>1. u = [i EXCEPT !.missed = TRUE]
    BY <1>0, <1>3, <1>d, <1>o DEF Evaluate
  <2>2. /\ e.kind = "firing" /\ e.origin = n /\ e.at = d /\ e.occ = d
        /\ e.seq = 1 + Count(s.log, n) /\ c.kind = "firing" /\ c.at = d
    BY <1>0, <1>d, <1>o DEF NewEvent, Report
  <2> HIDE DEF due, u
  <2>3. /\ i \in Storage /\ IsFiniteSet(i.log) /\ e \in HeartbeatEvent /\ RowOf(e) = c
        /\ i.rows = s.rows \cup {c} /\ i.known = s.known /\ i.last = s.last
        /\ c \in s.rows => i.log = s.log
        /\ c \notin s.rows => i.log = s.log \cup {e}
    <3>1. i \in Storage /\ IsFiniteSet(i.log)
      BY <1>1, IngestStored
    <3>2. e \in HeartbeatEvent /\ RowOf(e) = c
      BY <1>1, IngestStored
    <3>3. i.known = s.known /\ i.last = s.last
      BY <1>1, IngestKeeps
    <3>4. i.rows = s.rows \cup {c}
      BY <1>1, IngestRow
    <3>5. c \in s.rows => i.log = s.log
      BY <1>1, IngestKeeps
    <3>6. c \notin s.rows => i.log = s.log \cup {e}
      BY <1>1, IngestGrows
    <3> HIDE DEF i, c, e
    <3> QED BY <3>1, <3>2, <3>3, <3>4, <3>5, <3>6
  <2> HIDE DEF i, c, e
  <2>4. /\ u \in Storage /\ u.log = i.log /\ u.rows = i.rows /\ u.known = s.known
        /\ u.last = s.last
    BY <2>1, <2>3 DEF Storage
  <2>5. Kept(u)
    <3>1. \A x \in u.log : Proper(x)
      BY <1>2, <1>d, <2>2, <2>3, <2>4 DEF Kept, Proper
    <3>2. u.last = 0 \/ \E x \in u.log : x.kind \in {"observed", "resolved"} /\ x.at = u.last
      BY <2>3, <2>4 DEF Kept
    <3>3. \A r \in u.rows : \E x \in u.log : IsIncident(x) /\ r = RowOf(x)
      <4> TAKE r \in u.rows
      <4>1. CASE r \in s.rows
        BY <2>3, <2>4, <4>1 DEF Kept
      <4>2. CASE r \notin s.rows
        BY <2>2, <2>3, <2>4, <4>2 DEF IsIncident
      <4> QED BY <4>1, <4>2
    <3>4. \A r \in u.rows : r.kind = "resolved" => r.at <= u.last
      BY <2>2, <2>3, <2>4 DEF Kept
    <3> QED BY <2>3, <2>4, <3>1, <3>2, <3>3, <3>4 DEF Kept
  <2>6. \A x \in u.log \ s.log : /\ x.kind = "firing" /\ x.origin = n /\ RowOf(x) \in u.rows
                                 /\ x.at = d
    BY <2>2, <2>3, <2>4
  <2>7. InSequence(s.log, n, u.log)
    <3>1. InSequence(s.log, n, s.log \cup {e})
      BY <1>1, <2>2, OneMoreInSequence
    <3>2. CASE u.log = s.log
      BY <1>1, <3>2 DEF InSequence
    <3> QED BY <2>3, <2>4, <3>1, <3>2
  <2>8. \E r \in u.rows : r.kind = "firing" /\ r.at = d
    BY <2>2, <2>3, <2>4
  <2> QED BY <1>3, <1>d, <2>3, <2>4, <2>5, <2>6, <2>7, <2>8 DEF u, due
<1>4. CASE ~ Due(s)
  <2>1. u = s
    BY <1>4 DEF Evaluate
  <2>2. InSequence(s.log, n, s.log)
    BY <1>1 DEF InSequence
  <2> HIDE DEF u
  <2> QED BY <1>4, <2>1, <2>2 DEF u
<1> QED BY <1>3, <1>4

(* A resolution that joins a log comes after a heartbeat of the same origin *)
(* or by one of another.                                                    *)
Paired(L, n, M) ==
  \A e \in M \ L : e.kind = "resolved" =>
     \E f \in M : f.kind = "observed" /\ f.at = e.at /\ (f.origin = n => f.seq < e.seq)

(* ingest_heartbeat *)
LEMMA BeatFacts ==
  ASSUME HeartbeatAssumption, NEW s, Kept(s), s.known, NEW n \in Watcher,
         now \in Nat, now % 2 = 0, s.last <= now
  PROVE  LET u == Observe(Append(Evaluate(s, n), n, "observed", 0, now), n, now)
         IN  /\ Kept(u) /\ u.known /\ u.last = now /\ Closed(u, now)
             /\ s.log \subseteq u.log /\ s.rows \subseteq u.rows
             /\ \A e \in u.log \ s.log : /\ e.origin = n
                                         /\ IsIncident(e) => RowOf(e) \in u.rows
                                         /\ e.kind # "source"
                                         /\ e.kind = "observed" => e.at = now
                                         /\ e.kind = "firing" => Due(s) /\ e.at = s.last + Window
                                         /\ e.kind = "resolved" => e.at <= now
             /\ InSequence(s.log, n, u.log)
             /\ Backed(s.log) /\ Counted(s.log, n) => Paired(s.log, n, u.log)
<1>0. PICK k \in HeartbeatKind : k = "observed"
  BY DEF HeartbeatKind
<1>z. PICK z \in Nat : z = 0
  OBVIOUS
<1>t. PICK t \in Nat : t = now
  OBVIOUS
<1> DEFINE a == Evaluate(s, n)
           b == Append(a, n, k, z, t)
           e == NewEvent(a, n, k, z, t)
           u == Observe(b, n, now)
<1>1. /\ Kept(a) /\ a.known /\ a.last = s.last
      /\ s.log \subseteq a.log /\ s.rows \subseteq a.rows
      /\ \A x \in a.log \ s.log : /\ x.kind = "firing" /\ x.origin = n /\ RowOf(x) \in a.rows
                                  /\ x.at = s.last + Window
      /\ InSequence(s.log, n, a.log)
      /\ ~ Due(s) => a = s
  BY EvaluateFacts
<1>2. u = Observe(Append(Evaluate(s, n), n, "observed", 0, now), n, now)
  BY <1>0, <1>t, <1>z
<1>3. e.kind = "observed" /\ e.origin = n /\ e.at = now /\ e.seq = 1 + Count(a.log, n)
  BY <1>0, <1>t DEF NewEvent
<1> HIDE DEF a
<1>4. /\ a \in Storage /\ IsFiniteSet(a.log) /\ a.log \subseteq HeartbeatEvent
      /\ Count(a.log, n) \in Nat /\ s.last \in Nat
  BY <1>1, CountNat DEF Kept, Storage
<1>5. /\ b \in Storage /\ IsFiniteSet(b.log) /\ e \in HeartbeatEvent
      /\ b.log = a.log \cup {e} /\ b.known = a.known /\ b.last = a.last /\ b.rows = a.rows
  <2>1. b \in Storage /\ IsFiniteSet(b.log)
    BY <1>4, AppendFacts
  <2>2. e \in HeartbeatEvent
    BY <1>4, AppendFacts
  <2>3. b.log = a.log \cup {e}
    <3>1. b = [a EXCEPT !.log = a.log \cup {e}]
      BY DEF Append, NewEvent, Count, OwnIn
    <3> HIDE DEF b, e
    <3> QED BY <1>4, <3>1 DEF Storage
  <2>4. b.known = a.known /\ b.last = a.last /\ b.rows = a.rows
    BY <1>4, AppendFacts
  <2> HIDE DEF b, e
  <2> QED BY <2>1, <2>2, <2>3, <2>4
<1> HIDE DEF b, e, u
<1>6. Kept(b)
  <2>1. \A x \in b.log : Proper(x)
    BY <1>1, <1>3, <1>5 DEF Kept, Proper
  <2>2. b.last = 0 \/ \E x \in b.log : x.kind \in {"observed", "resolved"} /\ x.at = b.last
    BY <1>1, <1>5 DEF Kept
  <2>3. \A r \in b.rows : \E x \in b.log : IsIncident(x) /\ r = RowOf(x)
    BY <1>1, <1>5 DEF Kept
  <2>4. \A r \in b.rows : r.kind = "resolved" => r.at <= b.last
    BY <1>1, <1>5 DEF Kept
  <2> QED BY <1>5, <2>1, <2>2, <2>3, <2>4 DEF Kept
<1>7. Grown(b, n, u) /\ Extends(b.log, n, u.log) /\ Took(b, {e}, u)
  <2>1. e \in b.log /\ b.known
    BY <1>1, <1>5
  <2> QED BY <1>3, <1>6, <2>1, ObserveFacts DEF u
<1>8. u.last = now /\ Closed(u, now)
  <2> HIDE DEF Closed
  <2>1. now <= u.last /\ u.last \in Nat
    BY <1>3, <1>7 DEF Took, Grown, Kept, Storage
  <2>2. u.last <= now /\ Closed(u, now)
    BY <1>1, <1>3, <1>5, <1>7 DEF Took
  <2> QED BY <2>1, <2>2
<1>9. Kept(u) /\ u.known /\ s.log \subseteq u.log /\ s.rows \subseteq u.rows
  BY <1>1, <1>5, <1>7 DEF Grown
<1>10. \A x \in u.log : x \in s.log \/ x \in a.log \ s.log \/ x = e \/ x \in u.log \ b.log
  BY <1>5
<1>11. \A x \in u.log \ s.log : /\ x.origin = n
                                /\ IsIncident(x) => RowOf(x) \in u.rows
                                /\ x.kind # "source"
                                /\ x.kind = "observed" => x.at = now
                                /\ x.kind = "firing" => Due(s) /\ x.at = s.last + Window
                                /\ x.kind = "resolved" => x.at <= now
  <2> TAKE x \in u.log \ s.log
  <2>1. CASE x \in a.log \ s.log
    BY <1>1, <1>5, <1>7, <2>1 DEF Grown
  <2>2. CASE x = e
    BY <1>3, <2>2 DEF IsIncident
  <2>3. CASE x \in u.log \ b.log
    BY <1>7, <1>8, <2>3 DEF Grown
  <2> QED BY <1>10, <2>1, <2>2, <2>3
<1>12. IsFiniteSet(u.log) /\ u.log \subseteq HeartbeatEvent
  BY <1>9 DEF Kept, Storage
<1>13. InSequence(s.log, n, b.log)
  <2>1. InSequence(a.log, n, a.log \cup {e})
    BY <1>3, <1>4, OneMoreInSequence
  <2>2. InSequence(a.log, n, b.log) /\ IsFiniteSet(b.log) /\ b.log \subseteq HeartbeatEvent
    BY <1>5, <2>1 DEF Storage
  <2> QED BY <1>1, <1>5, <2>2, InSequenceTwice
<1>14. InSequence(s.log, n, u.log)
  BY <1>1, <1>5, <1>7, <1>12, <1>13, InSequenceTwice DEF Grown, Extends
<1>15. ASSUME Backed(s.log), Counted(s.log, n)
       PROVE  Paired(s.log, n, u.log)
  <2> SUFFICES ASSUME NEW x \in u.log \ s.log, x.kind = "resolved"
               PROVE  \E f \in u.log : f.kind = "observed" /\ f.at = x.at
                                       /\ (f.origin = n => f.seq < x.seq)
    BY DEF Paired
  <2>1. x \in u.log \ b.log
    BY <1>1, <1>3, <1>10
  <2>2. Backed(b.log)
    <3>1. Observations(s.log) \subseteq Observations(b.log)
      BY <1>1, <1>5 DEF Observations
    <3>2. \A y \in b.log : y.kind = "resolved" => y \in s.log
      BY <1>1, <1>3, <1>5
    <3> QED BY <1>15, <3>1, <3>2 DEF Backed
  <2>3. PICK f \in b.log : f.kind = "observed" /\ f.at = x.at
    BY <1>7, <2>1, <2>2 DEF Extends, Observations
  <2>4. Counted(b.log, n)
    BY <1>13, <1>15 DEF InSequence
  <2>5. ASSUME f.origin = n
        PROVE  f.seq < x.seq
    <3>1. f.seq <= Count(b.log, n) /\ Count(b.log, n) < x.seq
      BY <1>7, <2>1, <2>4, <2>5 DEF Counted, OwnIn, Extends, InSequence
    <3>2. Count(b.log, n) \in Nat /\ f.seq \in Nat /\ x.seq \in Nat
      BY <1>5, <1>12, CountNat DEF Storage, HeartbeatEvent
    <3> QED BY <3>1, <3>2
  <2>6. f \in u.log
    BY <1>7 DEF Grown
  <2> QED BY <2>3, <2>5, <2>6
<1> QED BY <1>2, <1>8, <1>9, <1>11, <1>14, <1>15

(* apply_cluster_events: b is the log with the page, and the source if it   *)
(* came. F are the events that are projected on it.                         *)
Received(s, E) ==
  [s EXCEPT !.log = s.log \cup E, !.known = s.known \/ \E e \in E : IsSource(e)]

LEMMA ApplyFacts ==
  ASSUME NEW s, Kept(s), NEW n \in Watcher, NEW E, E \subseteq HeartbeatEvent, IsFiniteSet(E),
         \A e \in E : Proper(e)
  PROVE  LET b == Received(s, E)
             u == ApplyPage(s, n, E)
         IN  /\ Kept(b) /\ b.log = s.log \cup E /\ b.rows = s.rows /\ b.last = s.last
             /\ b.known <=> (s.known \/ \E e \in E : IsSource(e))
             /\ ~ b.known => u = b
             /\ b.known => /\ Grown(b, n, u) /\ Extends(b.log, n, u.log)
                           /\ \E F \in SUBSET b.log :
                                /\ \A e \in E : IsSource(e) \/ e \in F
                                /\ s.known \/ \A e \in b.log : IsIncident(e) => e \in F
                                /\ Took(b, F, u)
<1> DEFINE b == Received(s, E)
           u == ApplyPage(s, n, E)
           base == [s EXCEPT !.log = s.log \cup E]
           G == {e \in E : ~ IsSource(e)}
           I == {e \in b.log : IsIncident(e)}
<1>1. s \in Storage /\ IsFiniteSet(s.log) /\ IsFiniteSet(s.log \cup E) /\ s.known \in BOOLEAN
  BY FS_Union DEF Kept, Storage
<1>2. (s.known \/ \E e \in E : IsSource(e)) \in BOOLEAN
  OBVIOUS
<1>3. /\ b \in Storage /\ b.log = s.log \cup E /\ b.rows = s.rows /\ b.last = s.last
      /\ b.known = (s.known \/ \E e \in E : IsSource(e))
  BY <1>1, <1>2 DEF Storage, Received
<1>4. Kept(b)
  <2> HIDE DEF b
  <2> QED BY <1>1, <1>3 DEF Kept
<1>5. CASE ~ \E e \in E : IsSource(e)
  <2>1. b = base
    <3>1. (s.known \/ \E e \in E : IsSource(e)) = s.known
      BY <1>1, <1>5
    <3>2. b = [s EXCEPT !.log = s.log \cup E, !.known = s.known]
      BY <3>1 DEF Received
    <3> QED BY <1>1, <3>2 DEF Storage
  <2>2. G = E
    BY <1>5
  <2>3. u = ProjectEvents(b, n, E)
    BY <1>5, <2>1, <2>2 DEF ApplyPage
  <2> HIDE DEF b, u
  <2>4. /\ b.known => Grown(b, n, u) /\ Extends(b.log, n, u.log) /\ Took(b, E, u)
        /\ ~ b.known => u = b
    BY <1>3, <1>4, <1>5, <2>3, PageFacts
  <2>5. E \in SUBSET b.log
    BY <1>3
  <2>6. b.known => s.known
    BY <1>3, <1>5
  <2> QED BY <1>3, <1>4, <2>4, <2>5, <2>6 DEF b, u
<1>6. CASE \E e \in E : IsSource(e)
  <2> DEFINE r == ProjectEvents(b, n, I)
  <2>1. b = [base EXCEPT !.known = TRUE]
    <3>1. b = [s EXCEPT !.log = s.log \cup E, !.known = TRUE]
      <4>1. (s.known \/ \E e \in E : IsSource(e)) = TRUE
        BY <1>6
      <4> QED BY <4>1 DEF Received
    <3> QED BY <1>1, <3>1 DEF Storage
  <2>2. base.log = b.log /\ b.known
    BY <1>1, <1>3, <1>6 DEF Storage
  <2>3. r = ProjectSource(base, n)
    BY <2>1, <2>2 DEF ProjectSource
  <2>4. u = ProjectEvents(r, n, G)
    BY <1>6, <2>3 DEF ApplyPage
  <2> HIDE DEF b, u, r, base
  <2>5. Grown(b, n, r) /\ Extends(b.log, n, r.log) /\ Took(b, I, r)
    <3>1. I \subseteq b.log /\ \A e \in I : ~ IsSource(e)
      BY DEF IsIncident, IsSource
    <3> HIDE DEF I
    <3> QED BY <1>4, <2>2, <3>1, PageFacts DEF r
  <2>6. Grown(r, n, u) /\ Extends(r.log, n, u.log) /\ Took(r, G, u)
    <3>1. Kept(r) /\ r.known /\ G \subseteq r.log /\ \A e \in G : ~ IsSource(e)
      BY <1>3, <2>2, <2>5 DEF Grown
    <3> HIDE DEF G
    <3> QED BY <2>4, <3>1, PageFacts
  <2>7. b.last \in Nat /\ b.log \subseteq HeartbeatEvent
    BY <1>3 DEF Storage
  <2>8. Grown(b, n, u)
    BY <2>5, <2>6, <2>7, GrownTwice
  <2>9. Extends(b.log, n, u.log)
    <3>1. /\ b.log \subseteq r.log /\ r.log \subseteq u.log
          /\ IsFiniteSet(u.log) /\ u.log \subseteq HeartbeatEvent
          /\ \A e \in r.log \ b.log : e.kind = "resolved"
      BY <2>5, <2>6 DEF Grown, Kept, Storage
    <3> QED BY <2>5, <2>6, <3>1, ExtendsTwice
  <2>10. Took(b, I \cup G, u)
    <3>1. I \cup G \subseteq HeartbeatEvent
      BY <2>7
    <3> HIDE DEF I, G
    <3> QED BY <2>5, <2>6, <2>7, <3>1, TookTwice
  <2>11. /\ I \cup G \in SUBSET b.log /\ \A e \in E : IsSource(e) \/ e \in I \cup G
         /\ \A e \in b.log : IsIncident(e) => e \in I \cup G
    BY <1>3
  <2> HIDE DEF I, G
  <2> QED BY <1>3, <1>4, <2>2, <2>8, <2>9, <2>10, <2>11 DEF b, u
<1> QED BY <1>5, <1>6

-----------------------------------------------------------------------------
(* The invariant of the monitor: what a node stores fits together and has   *)
(* happened; an event is at its origin too; and whoever has the source has  *)
(* a row for each incident event.                                           *)
HeldInv(s) ==
  /\ Kept(s)
  /\ \A e \in s.log : e.at <= now /\ e \in node[e.origin].log
  /\ s.known => \A e \in s.log : IsIncident(e) => RowOf(e) \in s.rows
  /\ ~ s.known => s.rows = {} /\ s.last = 0

MonitorInv ==
  /\ now \in Nat /\ now % 2 = 0
  /\ node \in [Watcher -> Storage]
  /\ \A n \in Watcher : HeldInv(node[n])

(* An observation a node has is no newer than the newest it knows of.       *)
CoverInv ==
  \A n \in Watcher : node[n].known => \A t \in Observations(node[n].log) : t <= node[n].last

(* And the incident is closed before it.                                    *)
ClosedInv ==
  \A n \in Watcher : node[n].known => \A t \in Observations(node[n].log) : Closed(node[n], t)

(* The source comes before its heartbeats, and a heartbeat before what it   *)
(* resolves.                                                                *)
SourceFirst == \A n \in Watcher : ~ node[n].known => Observations(node[n].log) = {}
BeatFirst == \A n \in Watcher : Backed(node[n].log)

(* One node moves, and events it gets are of its own or at their origin.    *)
LEMMA HeldStep ==
  ASSUME MonitorInv, now' = now, NEW n \in Watcher, NEW u, node' = [node EXCEPT ![n] = u],
         Kept(u), node[n].log \subseteq u.log,
         \A e \in u.log \ node[n].log : e.at <= now /\ (e.origin = n \/ e \in node[e.origin].log),
         u.known => \A e \in u.log : IsIncident(e) => RowOf(e) \in u.rows,
         ~ u.known => u.rows = {} /\ u.last = 0
  PROVE  MonitorInv'
<1>1. u \in Storage
  BY DEF Kept
<1>2. node' \in [Watcher -> Storage] /\ node'[n] = u /\ \A m \in Watcher \ {n} : node'[m] = node[m]
  BY <1>1 DEF MonitorInv
<1>3. \A m \in Watcher : node[m].log \subseteq node'[m].log
  BY <1>2
<1>4. \A m \in Watcher : \A e \in node[m].log : e.origin \in Watcher
  BY DEF MonitorInv, Storage, HeartbeatEvent
<1>5. \A e \in u.log : e.at <= now' /\ e \in node'[e.origin].log
  <2> TAKE e \in u.log
  <2>1. e.origin \in Watcher
    BY <1>1 DEF Storage, HeartbeatEvent
  <2>2. CASE e \in node[n].log
    BY <1>3, <2>1, <2>2 DEF MonitorInv, HeldInv
  <2>3. CASE e \notin node[n].log
    BY <1>2, <1>3, <2>1, <2>3
  <2> QED BY <2>2, <2>3
<1>6. HeldInv(u)'
  BY <1>5 DEF HeldInv, Kept
<1>7. ASSUME NEW m \in Watcher
      PROVE  HeldInv(node[m])'
  <2>1. CASE m = n
    BY <1>2, <1>6, <2>1 DEF HeldInv
  <2>2. CASE m # n
    <3>1. HeldInv(node[m]) /\ node'[m] = node[m]
      BY <1>2, <2>2 DEF MonitorInv
    <3>2. \A e \in node'[m].log : e.at <= now' /\ e \in node'[e.origin].log
      BY <1>3, <1>4, <3>1 DEF HeldInv
    <3> QED BY <3>1, <3>2 DEF HeldInv
  <2> QED BY <2>1, <2>2
<1> QED BY <1>2, <1>7 DEF MonitorInv

(* The newest heartbeat a node knows of has happened. *)
LEMMA LastHappened ==
  ASSUME MonitorInv, NEW n \in Watcher
  PROVE  /\ Kept(node[n]) /\ node[n].last \in Nat /\ node[n].last <= now
         /\ node[n].log \subseteq HeartbeatEvent /\ IsFiniteSet(node[n].log)
BY DEF MonitorInv, HeldInv, Kept, Storage

(* A heartbeat: the node hears of nothing but its own events. *)
LEMMA BeatStep ==
  ASSUME MonitorInv, NEW n \in Watcher, Beat(n)
  PROVE  LET s == node[n]
             u == node'[n]
         IN  /\ MonitorInv' /\ now' = now
             /\ s.known /\ u.known /\ u.last = now /\ Closed(u, now)
             /\ s.log \subseteq u.log
             /\ \A e \in u.log \ s.log : /\ e.origin = n /\ e.kind # "source"
                                         /\ e.kind = "observed" => e.at = now
                                         /\ e.kind = "firing" => Due(s)
             /\ InSequence(s.log, n, u.log)
             /\ Backed(s.log) /\ Counted(s.log, n) => Paired(s.log, n, u.log)
             /\ \A m \in Watcher \ {n} : node'[m] = node[m]
<1> DEFINE s == node[n]
           u == Observe(Append(Evaluate(s, n), n, "observed", 0, now), n, now)
<1>1. Kept(s) /\ s.known /\ s.last \in Nat /\ s.last <= now /\ now \in Nat /\ now % 2 = 0
  BY LastHappened DEF Beat, MonitorInv
<1>2. /\ Kept(u) /\ u.known /\ u.last = now /\ Closed(u, now)
      /\ s.log \subseteq u.log /\ s.rows \subseteq u.rows
      /\ \A e \in u.log \ s.log : /\ e.origin = n
                                  /\ IsIncident(e) => RowOf(e) \in u.rows
                                  /\ e.kind # "source"
                                  /\ e.kind = "observed" => e.at = now
                                  /\ e.kind = "firing" => Due(s) /\ e.at = s.last + Window
                                  /\ e.kind = "resolved" => e.at <= now
      /\ InSequence(s.log, n, u.log)
      /\ Backed(s.log) /\ Counted(s.log, n) => Paired(s.log, n, u.log)
  <2> HIDE DEF s
  <2> QED BY <1>1, HeartbeatAssumption, BeatFacts
<1>3. node' = [node EXCEPT ![n] = u] /\ now' = now
  BY DEF Beat
<1> HIDE DEF u
<1>4. node'[n] = u /\ \A m \in Watcher \ {n} : node'[m] = node[m]
  BY <1>3 DEF MonitorInv
<1>5. \A e \in u.log \ s.log : e.at <= now /\ e.origin = n
  <2> TAKE e \in u.log \ s.log
  <2>1. e \in HeartbeatEvent
    BY <1>2 DEF Kept, Storage
  <2>2. e.at \in Nat /\ e.kind \in {"firing", "resolved", "observed"}
    BY <1>2, <2>1 DEF HeartbeatEvent, HeartbeatKind
  <2>3. Due(s) => s.last + Window < now
    BY <1>1, HeartbeatAssumption DEF Due, HeartbeatAssumption
  <2> QED BY <1>1, <1>2, <2>2, <2>3, HeartbeatAssumption DEF HeartbeatAssumption
<1>6. \A e \in u.log : IsIncident(e) => RowOf(e) \in u.rows
  BY <1>1, <1>2 DEF MonitorInv, HeldInv
<1>7. MonitorInv'
  BY <1>2, <1>3, <1>5, <1>6, HeldStep
<1> QED BY <1>1, <1>2, <1>3, <1>4, <1>7

(* A scan that finds the source due. *)
LEMMA ScanStep ==
  ASSUME MonitorInv, NEW n \in Watcher, Scan(n)
  PROVE  LET s == node[n]
             u == node'[n]
         IN  /\ MonitorInv' /\ now' = now
             /\ Due(s) /\ s.known /\ u.known /\ u.last = s.last
             /\ s.log \subseteq u.log
             /\ \A e \in u.log \ s.log : e.origin = n /\ e.kind = "firing"
             /\ \E r \in u.rows : r.kind = "firing" /\ r.at = s.last + Window
             /\ InSequence(s.log, n, u.log)
             /\ \A m \in Watcher \ {n} : node'[m] = node[m]
<1> DEFINE s == node[n]
           u == Evaluate(s, n)
<1>1. /\ Kept(s) /\ Due(s) /\ s.known /\ s.last \in Nat /\ now \in Nat
      /\ s.last + Window < now
  BY LastHappened, HeartbeatAssumption DEF Scan, MonitorInv, Due, HeartbeatAssumption
<1>2. /\ Kept(u) /\ u.known = s.known /\ u.last = s.last
      /\ s.log \subseteq u.log /\ s.rows \subseteq u.rows
      /\ \A e \in u.log \ s.log : /\ e.kind = "firing" /\ e.origin = n /\ RowOf(e) \in u.rows
                                  /\ e.at = s.last + Window
      /\ InSequence(s.log, n, u.log)
      /\ Due(s) => \E r \in u.rows : r.kind = "firing" /\ r.at = s.last + Window
  <2> HIDE DEF s
  <2> QED BY <1>1, HeartbeatAssumption, EvaluateFacts
<1>3. node' = [node EXCEPT ![n] = u] /\ now' = now
  BY DEF Scan
<1> HIDE DEF u
<1>4. node'[n] = u /\ \A m \in Watcher \ {n} : node'[m] = node[m]
  BY <1>3 DEF MonitorInv
<1>5. \A e \in u.log \ s.log : e.at <= now /\ e.origin = n
  BY <1>1, <1>2, HeartbeatAssumption DEF HeartbeatAssumption
<1>6. \A e \in u.log : IsIncident(e) => RowOf(e) \in u.rows
  BY <1>1, <1>2 DEF MonitorInv, HeldInv
<1>7. u.known
  BY <1>1, <1>2
<1>8. MonitorInv'
  BY <1>2, <1>3, <1>5, <1>6, <1>7, HeldStep
<1> QED BY <1>1, <1>2, <1>3, <1>4, <1>7, <1>8

(* A page of p: E joins the log, F is projected. *)
LEMMA LearnStep ==
  ASSUME MonitorInv, NEW n \in Watcher, NEW p \in Peers[n], LearnFrom(n, p)
  PROVE  \E E \in SUBSET (node[p].log \ node[n].log) :
         LET s == node[n]
             u == node'[n]
             b == Received(s, E)
         IN  /\ MonitorInv' /\ now' = now /\ p \in Watcher
             /\ \A e \in E, f \in (node[p].log \ node[n].log) \ E : e.origin = f.origin => e.seq < f.seq
             /\ \A e \in E : e \in HeartbeatEvent /\ e.origin # n /\ e \in node[e.origin].log
             /\ Kept(b) /\ b.log = s.log \cup E /\ b.rows = s.rows /\ b.last = s.last
             /\ b.known <=> (s.known \/ \E e \in E : IsSource(e))
             /\ ~ b.known => u = b
             /\ b.known => /\ Grown(b, n, u) /\ Extends(b.log, n, u.log)
                           /\ \E F \in SUBSET b.log :
                                /\ \A e \in E : IsSource(e) \/ e \in F
                                /\ Took(b, F, u)
             /\ \A m \in Watcher \ {n} : node'[m] = node[m]
<1> DEFINE s == node[n]
<1>1. p \in Watcher
  BY HeartbeatAssumption DEF HeartbeatAssumption
<1>2. PICK E \in SUBSET (node[p].log \ node[n].log) :
        /\ \A e \in E, f \in (node[p].log \ node[n].log) \ E : e.origin = f.origin => e.seq < f.seq
        /\ node' = [node EXCEPT ![n] = ApplyPage(node[n], n, E)]
        /\ now' = now
  BY DEF LearnFrom
<1> DEFINE b == Received(s, E)
           u == ApplyPage(s, n, E)
<1>3. /\ Kept(s) /\ IsFiniteSet(E) /\ E \subseteq HeartbeatEvent
      /\ \A e \in E : Proper(e) /\ e.at <= now /\ e \in node[e.origin].log /\ e \notin s.log
  BY <1>1, FS_Subset, LastHappened DEF MonitorInv, HeldInv, Kept
<1>4. /\ Kept(b) /\ b.log = s.log \cup E /\ b.rows = s.rows /\ b.last = s.last
      /\ b.known <=> (s.known \/ \E e \in E : IsSource(e))
      /\ ~ b.known => u = b
      /\ b.known => /\ Grown(b, n, u) /\ Extends(b.log, n, u.log)
                    /\ \E F \in SUBSET b.log :
                         /\ \A e \in E : IsSource(e) \/ e \in F
                         /\ s.known \/ \A e \in b.log : IsIncident(e) => e \in F
                         /\ Took(b, F, u)
  <2> HIDE DEF s
  <2> QED BY <1>3, ApplyFacts
<1> HIDE DEF b, u
<1>5. node'[n] = u /\ \A m \in Watcher \ {n} : node'[m] = node[m]
  BY <1>2 DEF MonitorInv, u
<1>6. HeldInv(s) /\ now \in Nat /\ s.last \in Nat /\ s.last <= now
  BY LastHappened DEF MonitorInv
<1>7. \A e \in b.log : e.at <= now
  BY <1>3, <1>4, <1>6 DEF HeldInv
<1>8. MonitorInv'
  <2>1. CASE ~ b.known
    <3>1. u.log = s.log \cup E /\ ~ u.known /\ u.rows = {} /\ u.last = 0 /\ Kept(u)
      BY <1>4, <1>6, <2>1 DEF HeldInv
    <3>2. \A e \in u.log \ s.log : e.at <= now /\ (e.origin = n \/ e \in node[e.origin].log)
      BY <1>3, <3>1
    <3> HIDE DEF s
    <3> QED BY <1>2, <3>1, <3>2, HeldStep DEF s, u
  <2>2. CASE b.known
    <3>1. PICK F \in SUBSET b.log :
             /\ \A e \in E : IsSource(e) \/ e \in F
             /\ s.known \/ \A e \in b.log : IsIncident(e) => e \in F
             /\ Took(b, F, u)
      BY <1>4, <2>2
    <3>2. Grown(b, n, u)
      BY <1>4, <2>2
    <3>3. u.last <= now /\ u.last \in Nat
      BY <1>4, <1>6, <1>7, <3>1, <3>2 DEF Took, Grown, Kept, Storage
    <3>4. Kept(u) /\ s.log \subseteq u.log /\ u.known /\ u.log \subseteq HeartbeatEvent
      BY <1>4, <2>2, <3>2 DEF Grown, Kept, Storage
    <3>5. \A e \in u.log \ s.log : e.at <= now /\ (e.origin = n \/ e \in node[e.origin].log)
      <4> TAKE e \in u.log \ s.log
      <4>1. CASE e \in E
        BY <1>3, <4>1
      <4>2. CASE e \notin E
        <5>1. e \in u.log \ b.log /\ e.at \in Nat
          BY <1>4, <3>4, <4>2 DEF HeartbeatEvent
        <5> QED BY <1>6, <3>2, <3>3, <5>1 DEF Grown
      <4> QED BY <4>1, <4>2
    <3>6. \A e \in u.log : IsIncident(e) => RowOf(e) \in u.rows
      <4> SUFFICES ASSUME NEW e \in u.log, IsIncident(e) PROVE RowOf(e) \in u.rows
        OBVIOUS
      <4>1. CASE e \notin b.log
        BY <3>2, <4>1 DEF Grown
      <4>2. CASE e \in F
        BY <3>1, <4>2 DEF Took
      <4>3. CASE e \in s.log /\ s.known
        BY <1>4, <1>6, <3>2, <4>3 DEF HeldInv, Grown
      <4>4. CASE e \in E /\ e \notin F
        BY <3>1, <4>4 DEF IsSource, IsIncident
      <4> QED BY <1>4, <3>1, <4>1, <4>2, <4>3, <4>4
    <3> HIDE DEF s
    <3> QED BY <1>2, <3>4, <3>5, <3>6, HeldStep DEF s, u
  <2> QED BY <2>1, <2>2
<1>9. \A e \in E : e \in HeartbeatEvent /\ e.origin # n /\ e \in node[e.origin].log
  BY <1>3
<1>10. b.known => /\ Grown(b, n, u) /\ Extends(b.log, n, u.log)
                  /\ \E F \in SUBSET b.log :
                       /\ \A e \in E : IsSource(e) \/ e \in F
                       /\ Took(b, F, u)
  BY <1>4
<1> HIDE DEF s
<1>11. WITNESS E \in SUBSET (node[p].log \ node[n].log)
<1> QED BY <1>1, <1>2, <1>4, <1>5, <1>8, <1>9, <1>10 DEF s, b

(* At first there is the source, where it was created. *)
LEMMA MonitorBegins ==
  ASSUME MonitorInit
  PROVE  /\ MonitorInv
         /\ \A n \in Watcher \ {Creator} : ~ node[n].known /\ node[n].log = {}
         /\ node[Creator].known
         /\ \E e : /\ node[Creator].log = {e} /\ e \in HeartbeatEvent
                   /\ e.kind = "source" /\ e.origin = Creator /\ e.seq = 1
<1> DEFINE c == Stored(Creator)
<1>0. PICK k \in HeartbeatKind : k = "source"
  BY DEF HeartbeatKind
<1>z. PICK z \in Nat : z = 0
  OBVIOUS
<1>y. PICK y \in Nat : y = 0
  OBVIOUS
<1>w. PICK w \in Watcher : w = Creator
  BY HeartbeatAssumption DEF HeartbeatAssumption
<1> DEFINE a == Append(c, w, k, z, y)
           e == NewEvent(c, w, k, z, y)
           u == node[Creator]
<1>1. Creator \in Watcher
  BY HeartbeatAssumption DEF HeartbeatAssumption
<1>s. \A n : LET r == Stored(n)
             IN  r.log = {} /\ ~ r.known /\ r.last = 0 /\ r.rows = {} /\ r \in Storage
  BY DEF Stored, Storage
<1>2. /\ c.log = {} /\ ~ c.known /\ c.last = 0 /\ c.rows = {} /\ c \in Storage
  BY <1>s
<1>3. IsFiniteSet(c.log)
  BY <1>2, FS_EmptySet
<1>4. /\ a \in Storage /\ IsFiniteSet(a.log) /\ e \in HeartbeatEvent
      /\ a.log = c.log \cup {e} /\ a.known = c.known /\ a.last = c.last /\ a.rows = c.rows
  <2> HIDE DEF c
  <2>1. a \in Storage /\ IsFiniteSet(a.log) /\ e \in HeartbeatEvent
    BY <1>2, <1>3, AppendFacts, SMTT(30)
  <2>2. a = [c EXCEPT !.log = c.log \cup {e}]
    BY DEF Append, NewEvent, Count, OwnIn
  <2>3. /\ a.log = c.log \cup {e} /\ a.known = c.known /\ a.last = c.last /\ a.rows = c.rows
    <3> HIDE DEF a, e
    <3> QED BY <1>2, <2>2 DEF Storage
  <2> HIDE DEF a, e
  <2> QED BY <2>1, <2>3
<1>5. e.kind = "source" /\ e.origin = Creator /\ e.seq = 1 /\ e.at = 0
  <2>1. OwnIn(c.log, Creator) = {}
    BY <1>2 DEF OwnIn
  <2>2. Count(c.log, Creator) = 0
    BY <2>1, FS_EmptySet DEF Count
  <2> HIDE DEF c
  <2> QED BY <1>0, <1>w, <1>y, <1>z, <2>2 DEF NewEvent
<1>6. u = [a EXCEPT !.known = TRUE]
  BY <1>0, <1>1, <1>w, <1>y, <1>z DEF MonitorInit
<1>7. \A n \in Watcher \ {Creator} : node[n] = Stored(n)
  BY DEF MonitorInit
<1> HIDE DEF a, e
<1>8. /\ u \in Storage /\ IsFiniteSet(u.log) /\ u.log = {e} /\ u.known /\ u.last = 0 /\ u.rows = {}
  <2> HIDE DEF c, u
  <2>1. u \in Storage /\ u.log = a.log /\ u.known /\ u.last = a.last /\ u.rows = a.rows
    BY <1>4, <1>6 DEF Storage
  <2> QED BY <1>2, <1>4, <2>1
<1>9. HeldInv(u)
  <2> HIDE DEF u
  <2>1. Kept(u)
    BY <1>5, <1>8 DEF Kept, Proper
  <2>2. now = 0
    BY DEF MonitorInit
  <2> QED BY <1>5, <1>8, <2>1, <2>2 DEF HeldInv, IsIncident, u
<1>10. ASSUME NEW n \in Watcher \ {Creator}
       PROVE  HeldInv(node[n]) /\ node[n] \in Storage /\ ~ node[n].known /\ node[n].log = {}
  <2>1. node[n].log = {} /\ ~ node[n].known /\ node[n].last = 0 /\ node[n].rows = {} /\ node[n] \in Storage
    BY <1>7, <1>s
  <2>2. Kept(node[n])
    BY <2>1, FS_EmptySet DEF Kept
  <2> QED BY <2>1, <2>2 DEF HeldInv
<1>11. node \in [Watcher -> Storage]
  <2>1. node = [n \in Watcher |-> node[n]]
    BY DEF MonitorInit
  <2> HIDE DEF c
  <2> QED BY <1>8, <1>10, <2>1
<1>12. MonitorInv
  <2>1. now \in Nat /\ now % 2 = 0
    BY DEF MonitorInit
  <2> QED BY <1>9, <1>10, <1>11, <2>1 DEF MonitorInv
<1> QED BY <1>4, <1>5, <1>8, <1>10, <1>12

LEMMA MonitorStep ==
  ASSUME MonitorInv, [MonitorNext]_monitorVars
  PROVE  MonitorInv'
<1>1. CASE Tick
  <2>1. /\ now' \in Nat /\ now' % 2 = 0 /\ now <= now' /\ node' = node /\ now \in Nat
    BY <1>1 DEF Tick, MonitorInv
  <2>2. ASSUME NEW n \in Watcher
        PROVE  HeldInv(node[n])'
    <3>1. HeldInv(node[n]) /\ \A e \in node[n].log : e.at \in Nat
      BY DEF MonitorInv, Storage, HeartbeatEvent
    <3>2. \A e \in node[n].log : e.at <= now'
      BY <2>1, <3>1 DEF HeldInv
    <3> QED BY <2>1, <3>1, <3>2 DEF HeldInv
  <2> QED BY <2>1, <2>2 DEF MonitorInv
<1>2. CASE UNCHANGED monitorVars
  BY <1>2 DEF monitorVars, MonitorInv, HeldInv
<1>3. ASSUME NEW n \in Watcher, Beat(n)
      PROVE  MonitorInv'
  BY <1>3, BeatStep
<1>4. ASSUME NEW n \in Watcher, Scan(n)
      PROVE  MonitorInv'
  BY <1>4, ScanStep
<1>5. ASSUME NEW n \in Watcher, NEW p \in Peers[n], LearnFrom(n, p)
      PROVE  MonitorInv'
  BY <1>5, LearnStep
<1> QED BY <1>1, <1>2, <1>3, <1>4, <1>5 DEF MonitorNext

LEMMA MonitorInductive == MonitorSpec => []MonitorInv
<1>1. MonitorInit => MonitorInv
  BY MonitorBegins
<1>2. MonitorInv /\ [MonitorNext]_monitorVars => MonitorInv'
  BY MonitorStep
<1> QED BY <1>1, <1>2, PTL DEF MonitorSpec

(* A node that has the source knows of all heartbeats it has. *)
LEMMA CoverStep ==
  ASSUME MonitorInv, SourceFirst, CoverInv, [MonitorNext]_monitorVars
  PROVE  CoverInv'
<1> SUFFICES ASSUME NEW m \in Watcher, node'[m].known, NEW e \in node'[m].log, e.kind = "observed"
             PROVE  e.at <= node'[m].last
  BY DEF CoverInv, Observations
<1>1. CASE node'[m] = node[m]
  BY <1>1 DEF CoverInv, Observations
<1>2. \A x \in node[m].log : x.kind = "observed" => node[m].known /\ x.at <= node[m].last /\ x.at \in Nat
  BY LastHappened DEF CoverInv, SourceFirst, Observations, HeartbeatEvent
<1>3. CASE Beat(m)
  <2>1. e \notin node[m].log => e.at = now
    BY <1>3, BeatStep
  <2>2. node'[m].last = now
    BY <1>3, BeatStep
  <2>3. now \in Nat /\ node[m].last \in Nat /\ node[m].last <= now
    BY LastHappened DEF MonitorInv
  <2> QED BY <1>2, <2>1, <2>2, <2>3
<1>4. CASE Scan(m)
  <2>1. e \in node[m].log /\ node'[m].last = node[m].last
    BY <1>4, ScanStep
  <2> QED BY <1>2, <2>1
<1>5. ASSUME NEW p \in Peers[m], LearnFrom(m, p)
      PROVE  e.at <= node'[m].last
  <2> DEFINE s == node[m]
             u == node'[m]
  <2>1. PICK E \in SUBSET (node[p].log \ node[m].log) :
          LET b == Received(s, E)
          IN  /\ b.log = s.log \cup E /\ b.last = s.last /\ MonitorInv'
              /\ ~ b.known => u = b
              /\ b.known => /\ Grown(b, m, u)
                            /\ \E F \in SUBSET b.log : /\ \A x \in E : IsSource(x) \/ x \in F
                                                       /\ Took(b, F, u)
    BY <1>5, LearnStep
  <2> DEFINE b == Received(s, E)
  <2> HIDE DEF b, s, u
  <2>2. Grown(b, m, u) /\ \E F \in SUBSET b.log : /\ \A x \in E : IsSource(x) \/ x \in F
                                                 /\ Took(b, F, u)
    BY <2>1 DEF b, u
  <2>3. e \in s.log \/ e \in E
    BY <2>1, <2>2 DEF Grown, u, b
  <2>4. CASE e \in s.log
    <3>1. e.at <= s.last /\ e.at \in Nat /\ s.last \in Nat
      BY <1>2, <2>4, LastHappened DEF s
    <3>2. s.last <= u.last /\ u.last \in Nat
      BY <2>1, <2>2 DEF Grown, Kept, Storage, b
    <3> QED BY <3>1, <3>2 DEF u
  <2>5. CASE e \in E
    BY <2>2, <2>5 DEF IsSource, Took, u
  <2> QED BY <2>3, <2>4, <2>5
<1>6. CASE Tick \/ UNCHANGED monitorVars
  BY <1>1, <1>6 DEF Tick, monitorVars
<1>7. ASSUME NEW n \in Watcher, n # m, Beat(n) \/ Scan(n) \/ \E p \in Peers[n] : LearnFrom(n, p)
      PROVE  node'[m] = node[m]
  BY <1>7 DEF Beat, Scan, LearnFrom, MonitorInv
<1> QED BY <1>1, <1>3, <1>4, <1>5, <1>6, <1>7 DEF MonitorNext

LEMMA ClosedAtFirst ==
  ASSUME NEW s, Kept(s)
  PROVE  Closed(s, 0)
<1> SUFFICES ASSUME \A r \in s.rows : r.kind = "firing" => r.at < 0, s.rows # {}
             PROVE  Covered(s.rows)
  BY RowsKept DEF Closed
<1>1. \A r \in s.rows : r.kind = "resolved"
  BY RowsKept
<1> QED BY <1>1 DEF Covered

(* Its incident is closed before each of them. *)
LEMMA ClosedStep ==
  ASSUME MonitorInv, SourceFirst, BeatFirst', CoverInv, ClosedInv, [MonitorNext]_monitorVars
  PROVE  ClosedInv'
<1> SUFFICES ASSUME NEW m \in Watcher, node'[m].known, NEW o \in node'[m].log, o.kind = "observed"
             PROVE  Closed(node'[m], o.at)
  BY DEF ClosedInv, Observations
<1> DEFINE s == node[m]
           u == node'[m]
           t == o.at
<1>0. MonitorInv' /\ CoverInv'
  BY MonitorStep, CoverStep
<1>1. /\ Kept(u) /\ u.last \in Nat /\ t \in Nat /\ t <= u.last
      /\ \A r \in u.rows : r.at \in Nat
  <2>1. Kept(u) /\ u.last \in Nat /\ u.log \subseteq HeartbeatEvent
    BY <1>0 DEF MonitorInv, HeldInv, Kept, Storage
  <2>2. t <= u.last
    BY <1>0 DEF CoverInv, Observations
  <2> HIDE DEF u
  <2> QED BY <2>1, <2>2, RowsKept DEF HeartbeatEvent, u
<1>2. CASE u = s
  BY <1>2 DEF ClosedInv, Observations
<1>3. ASSUME NEW v \in Nat, t <= v, Closed(u, v)
      PROVE  Closed(u, t)
  <2>1. (\A r \in u.rows : r.kind = "firing" => r.at < t) =>
            \A r \in u.rows : r.kind = "firing" => r.at < v
    BY <1>1, <1>3
  <2> QED BY <1>3, <2>1 DEF Closed
<1>4. CASE Beat(m)
  <2>1. Closed(u, now) /\ u.last = now
    BY <1>4, BeatStep
  <2> QED BY <1>1, <1>3, <2>1
<1>5. CASE Scan(m)
  <2>1. /\ o \in s.log /\ u.last = s.last
        /\ \E r \in u.rows : r.kind = "firing" /\ r.at = s.last + Window
    BY <1>5, ScanStep
  <2>2. ~ \A r \in u.rows : r.kind = "firing" => r.at < t
    BY <1>1, <2>1, HeartbeatAssumption DEF HeartbeatAssumption
  <2> QED BY <2>2 DEF Closed
<1>6. ASSUME NEW p \in Peers[m], LearnFrom(m, p)
      PROVE  Closed(u, t)
  <2>1. PICK E \in SUBSET (node[p].log \ node[m].log) :
          LET b == Received(s, E)
          IN  /\ Kept(b) /\ b.log = s.log \cup E /\ b.rows = s.rows /\ b.last = s.last
              /\ ~ b.known => u = b
              /\ b.known => /\ Grown(b, m, u)
                            /\ \E F \in SUBSET b.log : /\ \A x \in E : IsSource(x) \/ x \in F
                                                       /\ Took(b, F, u)
    BY <1>6, LearnStep
  <2> DEFINE b == Received(s, E)
  <2>2. Backed(u.log)
    BY DEF BeatFirst
  <2>3. \A x \in s.log : x.kind = "observed" => /\ s.known /\ x.at \in Nat /\ x.at <= s.last
                                                /\ Closed(s, x.at)
    BY LastHappened DEF SourceFirst, CoverInv, ClosedInv, Observations, HeartbeatEvent
  <2> HIDE DEF b, s, u
  <2>4. Grown(b, m, u)
    BY <2>1 DEF b, u
  <2>5. PICK F \in SUBSET b.log : (\A x \in E : IsSource(x) \/ x \in F) /\ Took(b, F, u)
    BY <2>1 DEF b, u
  <2>6. /\ b.log = s.log \cup E /\ b.rows = s.rows /\ b.last = s.last /\ b.last \in Nat
        /\ b.last <= u.last
    BY <2>1, <2>4 DEF b, Kept, Storage, Grown
  <2>7. CASE u.last = 0
    <3>1. Closed(u, 0)
      BY <1>1, ClosedAtFirst
    <3> QED BY <1>1, <1>3, <2>7, <3>1
  <2>8. CASE u.last # 0
    <3>1. PICK x \in u.log : x.kind = "observed" /\ x.at = u.last
      <4>1. PICK y \in u.log : y.kind \in {"observed", "resolved"} /\ y.at = u.last
        BY <1>1, <2>8 DEF Kept
      <4> QED BY <2>2, <4>1 DEF Backed, Observations
    <3>2. x \in s.log \/ x \in E
      BY <2>4, <2>6, <3>1 DEF Grown
    <3>3. CASE x \in s.log
      <4>1. u.last <= b.last /\ Closed(s, u.last)
        BY <2>3, <2>6, <3>1, <3>3
      <4>2. Closed(b, u.last)
        BY <2>6, <4>1 DEF Closed, Open
      <4>3. Closed(u, u.last)
        <5> HIDE DEF Closed
        <5> QED BY <1>1, <2>4, <4>1, <4>2 DEF Grown
      <4> QED BY <1>1, <1>3, <4>3
    <3>4. CASE x \in E
      <4>1. x \in F
        BY <2>5, <3>1, <3>4 DEF IsSource
      <4>2. \A y \in F : y.kind \in {"observed", "resolved"} => y.at <= u.last
        <5> TAKE y \in F
        <5>1. CASE y.kind = "observed"
          BY <2>5, <5>1 DEF Took
        <5>2. CASE y.kind = "resolved"
          <6>1. RowOf(y) \in u.rows /\ RowOf(y).kind = "resolved" /\ RowOf(y).at = y.at
            BY <2>5, <5>2 DEF Took, IsIncident, RowOf, Report
          <6> QED BY <1>1, <6>1 DEF Kept
        <5> QED BY <5>1, <5>2
      <4>3. Closed(u, u.last)
        <5> HIDE DEF Closed
        <5> QED BY <1>1, <2>5, <2>6, <3>1, <4>1, <4>2 DEF Took
      <4> QED BY <1>1, <1>3, <4>3
    <3> QED BY <3>2, <3>3, <3>4
  <2> QED BY <2>7, <2>8 DEF u
<1>7. CASE Tick \/ UNCHANGED monitorVars
  BY <1>2, <1>7 DEF Tick, monitorVars
<1>8. ASSUME NEW n \in Watcher, n # m, Beat(n) \/ Scan(n) \/ \E p \in Peers[n] : LearnFrom(n, p)
      PROVE  u = s
  BY <1>8 DEF Beat, Scan, LearnFrom, MonitorInv
<1> QED BY <1>2, <1>4, <1>5, <1>6, <1>7, <1>8 DEF MonitorNext

(* Where replication keeps two orders of cause and effect - no node learns  *)
(* of a heartbeat before its source (SourceFirst), or of a resolution before*)
(* the heartbeat behind it (BeatFirst) - a node that knows of a heartbeat   *)
(* after every firing shows the incident closed, on any number of nodes.    *)
THEOREM HeartbeatsClose == MonitorSpec /\ []SourceFirst /\ []BeatFirst => []BeatResolves
<1>1. MonitorInit => CoverInv /\ ClosedInv
  <2> SUFFICES ASSUME MonitorInit PROVE \A n \in Watcher : Observations(node[n].log) = {}
    BY DEF CoverInv, ClosedInv
  <2>1. \A n \in Watcher : \A e \in node[n].log : e.kind = "source"
    BY MonitorBegins
  <2> QED BY <2>1 DEF Observations
<1>2. MonitorInv /\ SourceFirst /\ BeatFirst' /\ CoverInv /\ ClosedInv /\ [MonitorNext]_monitorVars
        => CoverInv' /\ ClosedInv'
  BY CoverStep, ClosedStep
<1>3. MonitorInv /\ ClosedInv => BeatResolves
  <2> SUFFICES ASSUME MonitorInv, ClosedInv, NEW n \in Watcher, NEW t \in Observations(node[n].log),
                      node[n].known, \A e \in node[n].log : e.kind = "firing" => e.at < t
               PROVE  ~ Open(node[n])
    BY DEF BeatResolves
  <2>1. \A r \in node[n].rows : r.kind = "firing" => r.at < t
    <3> TAKE r \in node[n].rows
    <3>1. PICK e \in node[n].log : r = RowOf(e)
      BY DEF MonitorInv, HeldInv, Kept
    <3> QED BY <3>1 DEF RowOf, Report
  <2>2. Closed(node[n], t)
    BY DEF ClosedInv
  <2> QED BY <2>1, <2>2 DEF Closed
<1> QED BY <1>1, <1>2, <1>3, MonitorInductive, PTL DEF MonitorSpec

(* Under the same order of source and heartbeats, no node fires in spite of *)
(* a heartbeat that it knows of.                                            *)
THEOREM NoMissIsFalse == MonitorSpec /\ []SourceFirst => NoFalseMiss
<1> DEFINE Fires == \A n \in Watcher : \A e \in node'[n].log \ node[n].log :
                       (e.kind = "firing" /\ e.origin = n) =>
                          \A t \in Observations(node[n].log) : t + Window < now
<1>1. MonitorInit => CoverInv
  <2> SUFFICES ASSUME MonitorInit PROVE \A n \in Watcher : Observations(node[n].log) = {}
    BY DEF CoverInv
  <2>1. \A n \in Watcher : \A e \in node[n].log : e.kind = "source"
    BY MonitorBegins
  <2> QED BY <2>1 DEF Observations
<1>2. MonitorInv /\ SourceFirst /\ CoverInv /\ [MonitorNext]_monitorVars => CoverInv'
  BY CoverStep
<1>3. MonitorInv /\ CoverInv /\ [MonitorNext]_monitorVars => [Fires]_monitorVars
  <2> SUFFICES ASSUME MonitorInv, CoverInv, [MonitorNext]_monitorVars,
                      NEW n \in Watcher, NEW e \in node'[n].log \ node[n].log,
                      e.kind = "firing", e.origin = n,
                      NEW t \in Observations(node[n].log)
               PROVE  t + Window < now
    OBVIOUS
  <2>1. Due(node[n]) => t + Window < now
    <3> SUFFICES ASSUME Due(node[n]) PROVE t + Window < now
      OBVIOUS
    <3>1. t <= node[n].last /\ node[n].last + Window < now
      BY LastHappened, HeartbeatAssumption DEF Due, CoverInv, MonitorInv, HeartbeatAssumption
    <3>2. t \in Nat /\ node[n].last \in Nat /\ now \in Nat /\ Window \in Nat
      BY LastHappened, HeartbeatAssumption
         DEF Observations, HeartbeatEvent, MonitorInv, HeartbeatAssumption
    <3> QED BY <3>1, <3>2
  <2>2. CASE Beat(n)
    BY <2>1, <2>2, BeatStep
  <2>3. CASE Scan(n)
    BY <2>1, <2>3, ScanStep
  <2>4. ASSUME NEW p \in Peers[n], LearnFrom(n, p)
        PROVE  FALSE
    <3> DEFINE s == node[n]
               u == node'[n]
    <3>1. PICK E \in SUBSET (node[p].log \ node[n].log) :
            LET b == Received(s, E)
            IN  /\ b.log = s.log \cup E /\ \A x \in E : x.origin # n
                /\ ~ b.known => u = b
                /\ b.known => Grown(b, n, u)
      BY <2>4, LearnStep
    <3> QED BY <3>1 DEF Grown
  <2>5. ASSUME NEW m \in Watcher, m # n, Beat(m) \/ Scan(m) \/ \E p \in Peers[m] : LearnFrom(m, p)
        PROVE  FALSE
    BY <2>5 DEF Beat, Scan, LearnFrom, MonitorInv
  <2>6. CASE Tick \/ UNCHANGED monitorVars
    BY <2>6 DEF Tick, monitorVars
  <2> QED BY <2>2, <2>3, <2>4, <2>5, <2>6 DEF MonitorNext
<1>4. MonitorSpec /\ []SourceFirst => [][Fires]_monitorVars
  <2> HIDE DEF Fires
  <2> QED BY <1>1, <1>2, <1>3, MonitorInductive, PTL DEF MonitorSpec
<1> QED BY <1>4 DEF NoFalseMiss

-----------------------------------------------------------------------------
(* Two nodes: a page of the other is a beginning of what it has not sent.   *)
TwoWatchers == \E m : Watcher = {Creator, m}

(* A node numbers its events in order, and has those of another in the      *)
(* order of their numbers.                                                  *)
OrderInv ==
  /\ \A n \in Watcher : Counted(node[n].log, n)
  /\ \A n \in Watcher : \A e \in node[n].log : \A f \in node[e.origin].log :
        f.origin = e.origin /\ f.seq < e.seq => f \in node[n].log

(* The source is the first event of its creator, and nobody has events of   *)
(* its own before it has the source.                                        *)
CreatedInv ==
  /\ node[Creator].known
  /\ \A n \in Watcher :
       /\ node[n].known <=> \E e \in node[n].log : IsSource(e)
       /\ ~ node[n].known => OwnIn(node[n].log, n) = {}
       /\ \A e \in node[n].log : IF IsSource(e) THEN e.origin = Creator /\ e.seq = 1
                                 ELSE e.origin = Creator => e.seq > 1

(* What a node resolved it resolved by a heartbeat that it had.             *)
PairedInv == \A n \in Watcher : Paired({e \in node[n].log : e.origin # n}, n, node[n].log)

WatchersInv == OrderInv /\ CreatedInv /\ PairedInv

(* Then the source is first, and so is the heartbeat of a resolution.       *)
LEMMA SourceIsFirst ==
  ASSUME TwoWatchers, MonitorInv, WatchersInv
  PROVE  SourceFirst
<1> SUFFICES ASSUME NEW n \in Watcher, ~ node[n].known, NEW e \in node[n].log, e.kind = "observed"
             PROVE  FALSE
  BY DEF SourceFirst, Observations
<1>1. n # Creator /\ e.origin # n
  BY DEF WatchersInv, CreatedInv, OwnIn
<1>2. e.origin = Creator
  <2>1. e.origin \in Watcher
    BY LastHappened DEF HeartbeatEvent
  <2> QED BY <1>1, <2>1 DEF TwoWatchers
<1>3. e.seq > 1
  BY <1>2 DEF WatchersInv, CreatedInv, IsSource
<1>4. Creator \in Watcher
  BY HeartbeatAssumption DEF HeartbeatAssumption
<1>5. PICK z \in node[Creator].log : IsSource(z) /\ z.origin = Creator /\ z.seq = 1
  BY <1>4 DEF WatchersInv, CreatedInv
<1>6. z \in node[n].log
  BY <1>2, <1>3, <1>5 DEF WatchersInv, OrderInv
<1> QED BY <1>5, <1>6 DEF WatchersInv, CreatedInv

LEMMA BeatIsFirst ==
  ASSUME TwoWatchers, MonitorInv, WatchersInv
  PROVE  BeatFirst
<1> SUFFICES ASSUME NEW n \in Watcher, NEW e \in node[n].log, e.kind = "resolved"
             PROVE  \E f \in node[n].log : f.kind = "observed" /\ f.at = e.at
  BY DEF BeatFirst, Backed, Observations
<1>1. e.origin \in Watcher /\ e \in node[e.origin].log
  BY LastHappened DEF HeartbeatEvent, MonitorInv, HeldInv
<1>2. PICK f \in node[e.origin].log :
         f.kind = "observed" /\ f.at = e.at /\ (f.origin = e.origin => f.seq < e.seq)
  BY <1>1 DEF WatchersInv, PairedInv, Paired
<1>3. f.origin \in Watcher /\ f \in node[f.origin].log
  BY <1>1, <1>2, LastHappened DEF HeartbeatEvent, MonitorInv, HeldInv
<1>4. CASE e.origin = n
  BY <1>2, <1>4
<1>5. CASE e.origin # n /\ f.origin = e.origin
  BY <1>2, <1>5 DEF WatchersInv, OrderInv
<1>6. CASE e.origin # n /\ f.origin # e.origin
  <2>1. f.origin = n
    BY <1>1, <1>3, <1>6 DEF TwoWatchers
  <2> QED BY <1>2, <1>3, <2>1
<1> QED BY <1>4, <1>5, <1>6

(* One node moves, and keeps to the order.                                  *)
LEMMA WatcherMoves ==
  ASSUME MonitorInv, MonitorInv', WatchersInv, NEW n \in Watcher,
         \A m \in Watcher \ {n} : node'[m] = node[m],
         node[n].log \subseteq node'[n].log,
         node[n].known => node'[n].known,
         node'[n].known <=> \E e \in node'[n].log : IsSource(e),
         ~ node'[n].known => OwnIn(node'[n].log, n) = {},
         Counted(node'[n].log, n),
         \A e \in node'[n].log \ node[n].log :
            IF e.origin = n THEN Count(node[n].log, n) < e.seq /\ ~ IsSource(e)
            ELSE /\ e \in node[e.origin].log
                 /\ \A f \in node[e.origin].log :
                      f.origin = e.origin /\ f.seq < e.seq => f \in node'[n].log,
         \A e \in node'[n].log \ node[n].log : (e.origin = n /\ e.kind = "resolved") =>
            \E f \in node'[n].log : f.kind = "observed" /\ f.at = e.at
                                    /\ (f.origin = n => f.seq < e.seq)
  PROVE  WatchersInv'
<1> DEFINE s == node[n]
           u == node'[n]
<1>1. /\ \A m \in Watcher : \A e \in node[m].log : /\ e.origin \in Watcher /\ e.seq \in Nat
                                                 /\ e \in node[e.origin].log
      /\ \A e \in u.log : e.origin \in Watcher /\ e.seq \in Nat
      /\ Count(s.log, n) \in Nat
  <2>1. \A m \in Watcher : \A e \in node[m].log : e.origin \in Watcher /\ e.seq \in Nat
                                                /\ e \in node[e.origin].log
    BY LastHappened DEF HeartbeatEvent, MonitorInv, HeldInv
  <2>2. \A e \in u.log : e.origin \in Watcher /\ e.seq \in Nat
    BY DEF MonitorInv, HeldInv, Kept, Storage, HeartbeatEvent
  <2>3. Count(s.log, n) \in Nat
    BY LastHappened, CountNat
  <2> QED BY <2>1, <2>2, <2>3
<1>2. ASSUME NEW m \in Watcher
      PROVE  Counted(node'[m].log, m)
  <2>1. CASE m = n
    BY <2>1
  <2>2. CASE m # n
    BY <2>2 DEF WatchersInv, OrderInv
  <2> QED BY <2>1, <2>2
<1>3. ASSUME NEW m \in Watcher, NEW e \in node'[m].log, NEW f \in node'[e.origin].log,
             f.origin = e.origin, f.seq < e.seq
      PROVE  f \in node'[m].log
  <2>1. CASE e.origin = m
    BY <2>1
  <2>2. CASE e.origin # m /\ m = n
    <3>1. e.origin \in Watcher \ {n} /\ f \in node[e.origin].log
      BY <1>1, <2>2
    <3>2. CASE e \in s.log
      BY <1>3, <2>2, <3>1, <3>2 DEF WatchersInv, OrderInv
    <3>3. CASE e \notin s.log
      BY <1>3, <2>2, <3>1, <3>3
    <3> QED BY <3>2, <3>3
  <2>3. CASE e.origin # m /\ m # n
    <3>1. e \in node[m].log /\ node'[m] = node[m]
      BY <2>3
    <3>2. f \in node[e.origin].log => f \in node[m].log
      BY <1>3, <3>1 DEF WatchersInv, OrderInv
    <3>3. CASE e.origin # n
      BY <1>1, <3>1, <3>2, <3>3
    <3>4. CASE e.origin = n /\ f \notin s.log
      <4>1. Count(s.log, n) < f.seq /\ f.seq \in Nat
        BY <1>1, <1>3, <3>4
      <4>2. e \in OwnIn(s.log, n) /\ e.seq \in Nat
        BY <1>1, <3>1, <3>4 DEF OwnIn
      <4>3. e.seq <= Count(s.log, n)
        BY <4>2 DEF WatchersInv, OrderInv, Counted
      <4> QED BY <1>1, <1>3, <4>1, <4>2, <4>3
    <3> QED BY <3>1, <3>2, <3>3, <3>4
  <2> QED BY <2>1, <2>2, <2>3
<1>4. OrderInv'
  <2>1. /\ \A m \in Watcher : Counted(node'[m].log, m)
        /\ \A m \in Watcher : \A e \in node'[m].log : \A f \in node'[e.origin].log :
              f.origin = e.origin /\ f.seq < e.seq => f \in node'[m].log
    BY <1>2, <1>3
  <2> QED BY <2>1 DEF OrderInv, Counted, OwnIn, Count
<1>5. ASSUME NEW e \in u.log
      PROVE  IF IsSource(e) THEN e.origin = Creator /\ e.seq = 1
             ELSE e.origin = Creator => e.seq > 1
  <2>1. CASE e \in s.log
    BY <2>1 DEF WatchersInv, CreatedInv
  <2>2. CASE e \notin s.log /\ e.origin # n
    BY <1>1, <2>2 DEF WatchersInv, CreatedInv
  <2>3. CASE e \notin s.log /\ e.origin = n
    <3>1. ~ IsSource(e) /\ Count(s.log, n) < e.seq /\ e.seq \in Nat
      BY <1>1, <2>3
    <3>2. ASSUME n = Creator
          PROVE  1 <= Count(s.log, n)
      <4>1. PICK z \in s.log : z.origin = n /\ z.seq = 1
        BY <3>2 DEF WatchersInv, CreatedInv
      <4>2. z \in OwnIn(s.log, n)
        BY <4>1 DEF OwnIn
      <4> QED BY <4>1, <4>2 DEF WatchersInv, OrderInv, Counted
    <3> QED BY <1>1, <2>3, <3>1, <3>2
  <2> QED BY <2>1, <2>2, <2>3
<1>6. CreatedInv'
  <2>1. node'[Creator].known
    BY HeartbeatAssumption DEF WatchersInv, CreatedInv, HeartbeatAssumption
  <2>2. ASSUME NEW m \in Watcher
        PROVE  /\ node'[m].known <=> \E e \in node'[m].log : IsSource(e)
               /\ ~ node'[m].known => OwnIn(node'[m].log, m) = {}
               /\ \A e \in node'[m].log : IF IsSource(e) THEN e.origin = Creator /\ e.seq = 1
                                          ELSE e.origin = Creator => e.seq > 1
    <3>1. CASE m = n
      BY <1>5, <3>1
    <3>2. CASE m # n
      BY <3>2 DEF WatchersInv, CreatedInv
    <3> QED BY <3>1, <3>2
  <2> QED BY <2>1, <2>2 DEF CreatedInv, IsSource, OwnIn
<1>7. ASSUME NEW m \in Watcher, NEW e \in node'[m].log, e.origin = m, e.kind = "resolved"
      PROVE  \E f \in node'[m].log : f.kind = "observed" /\ f.at = e.at
                                     /\ (f.origin = m => f.seq < e.seq)
  <2>1. ASSUME e \in node[m].log
        PROVE  \E f \in node[m].log : f.kind = "observed" /\ f.at = e.at
                                      /\ (f.origin = m => f.seq < e.seq)
    BY <1>7, <2>1 DEF WatchersInv, PairedInv, Paired
  <2>2. node[m].log \subseteq node'[m].log
    BY DEF MonitorInv
  <2>3. CASE e \notin node[m].log
    <3>1. m = n
      BY <2>3
    <3> QED BY <1>7, <2>3, <3>1
  <2> QED BY <2>1, <2>2, <2>3
<1>8. PairedInv'
  BY <1>7 DEF PairedInv, Paired
<1> QED BY <1>4, <1>6, <1>8 DEF WatchersInv

LEMMA WatchersStep ==
  ASSUME TwoWatchers, MonitorInv, WatchersInv, [MonitorNext]_monitorVars
  PROVE  WatchersInv'
<1>1. MonitorInv'
  BY MonitorStep
<1>2. BeatFirst
  BY BeatIsFirst
<1>3. CASE Tick \/ UNCHANGED monitorVars
  <2>1. node' = node
    BY <1>3 DEF Tick, monitorVars
  <2> QED BY <2>1 DEF WatchersInv, OrderInv, CreatedInv, PairedInv, Counted, OwnIn, Count, Paired,
                      IsSource
<1>4. ASSUME NEW n \in Watcher, Beat(n)
      PROVE  WatchersInv'
  <2> DEFINE s == node[n]
             u == node'[n]
  <2>1. /\ s.known /\ u.known /\ s.log \subseteq u.log
        /\ \A e \in u.log \ s.log : e.origin = n /\ e.kind # "source"
        /\ InSequence(s.log, n, u.log)
        /\ Backed(s.log) /\ Counted(s.log, n) => Paired(s.log, n, u.log)
        /\ \A m \in Watcher \ {n} : node'[m] = node[m]
    BY <1>4, BeatStep
  <2>2. Counted(s.log, n) /\ Backed(s.log) /\ \E e \in s.log : IsSource(e)
    BY <1>2, <2>1 DEF WatchersInv, OrderInv, CreatedInv, BeatFirst
  <2>3. Counted(u.log, n) /\ \A e \in u.log \ s.log : Count(s.log, n) < e.seq
    BY <2>1, <2>2 DEF InSequence
  <2>4. \E e \in u.log : IsSource(e)
    BY <2>1, <2>2
  <2>5. \A e \in u.log \ s.log : (e.origin = n /\ e.kind = "resolved") =>
           \E f \in u.log : f.kind = "observed" /\ f.at = e.at /\ (f.origin = n => f.seq < e.seq)
    BY <2>1, <2>2 DEF Paired
  <2>6. \A e \in u.log \ s.log : e.origin = n /\ Count(s.log, n) < e.seq /\ ~ IsSource(e)
    BY <2>1, <2>3 DEF IsSource
  <2> QED BY <1>1, <2>1, <2>3, <2>4, <2>5, <2>6, WatcherMoves
<1>5. ASSUME NEW n \in Watcher, Scan(n)
      PROVE  WatchersInv'
  <2> DEFINE s == node[n]
             u == node'[n]
  <2>1. /\ s.known /\ u.known /\ s.log \subseteq u.log
        /\ \A e \in u.log \ s.log : e.origin = n /\ e.kind = "firing"
        /\ InSequence(s.log, n, u.log)
        /\ \A m \in Watcher \ {n} : node'[m] = node[m]
    BY <1>5, ScanStep
  <2>2. Counted(s.log, n) /\ \E e \in s.log : IsSource(e)
    BY <2>1 DEF WatchersInv, OrderInv, CreatedInv
  <2>3. Counted(u.log, n) /\ \A e \in u.log \ s.log : Count(s.log, n) < e.seq
    BY <2>1, <2>2 DEF InSequence
  <2>4. \E e \in u.log : IsSource(e)
    BY <2>1, <2>2
  <2>5. \A e \in u.log \ s.log : /\ e.origin = n /\ Count(s.log, n) < e.seq /\ ~ IsSource(e)
                                 /\ e.kind # "resolved"
    BY <2>1, <2>3 DEF IsSource
  <2> QED BY <1>1, <2>1, <2>3, <2>4, <2>5, WatcherMoves
<1>6. ASSUME NEW n \in Watcher, NEW p \in Peers[n], LearnFrom(n, p)
      PROVE  WatchersInv'
  <2> DEFINE s == node[n]
             u == node'[n]
  <2>1. PICK E \in SUBSET (node[p].log \ node[n].log) :
          LET b == Received(s, E)
          IN  /\ p \in Watcher
              /\ \A e \in E, f \in (node[p].log \ node[n].log) \ E : e.origin = f.origin => e.seq < f.seq
              /\ \A e \in E : e \in HeartbeatEvent /\ e.origin # n /\ e \in node[e.origin].log
              /\ Kept(b) /\ b.log = s.log \cup E
              /\ b.known <=> (s.known \/ \E e \in E : IsSource(e))
              /\ ~ b.known => u = b
              /\ b.known => Grown(b, n, u) /\ Extends(b.log, n, u.log)
              /\ \A m \in Watcher \ {n} : node'[m] = node[m]
    BY <1>6, LearnStep
  <2> DEFINE b == Received(s, E)
  <2>2. /\ s.known <=> \E e \in s.log : IsSource(e)
        /\ ~ s.known => OwnIn(s.log, n) = {}
        /\ Counted(s.log, n) /\ Backed(s.log)
    BY <1>2 DEF WatchersInv, OrderInv, CreatedInv, BeatFirst
  <2>3. /\ \A e \in s.log : e.origin \in Watcher /\ e.seq \in Nat
        /\ Count(s.log, n) \in Nat
    BY LastHappened, CountNat DEF HeartbeatEvent
  <2> HIDE DEF b, s, u
  <2>4. /\ b.log = s.log \cup E
        /\ b.known <=> (s.known \/ \E e \in E : IsSource(e))
        /\ b.log \subseteq HeartbeatEvent /\ IsFiniteSet(b.log)
        /\ ~ b.known => u = b
        /\ b.known => Grown(b, n, u) /\ Extends(b.log, n, u.log)
    BY <2>1 DEF b, u, Kept, Storage
  <2>5. OwnIn(b.log, n) = OwnIn(s.log, n) /\ Count(b.log, n) = Count(s.log, n)
    <3>1. OwnIn(b.log, n) = OwnIn(s.log, n)
      BY <2>1, <2>4 DEF OwnIn
    <3> QED BY <3>1 DEF Count
  <2>6. Counted(b.log, n)
    BY <2>2, <2>5 DEF Counted
  <2>7. \A e \in E : e.origin = p
    <3> TAKE e \in E
    <3>1. e.origin \in Watcher \ {n}
      BY <2>1 DEF HeartbeatEvent
    <3>2. p # n
      BY <2>1
    <3> QED BY <2>1, <3>1, <3>2 DEF TwoWatchers
  <2>8. \A e \in E : /\ e.origin # n /\ e \in node[e.origin].log
                     /\ \A f \in node[e.origin].log :
                          f.origin = e.origin /\ f.seq < e.seq => f \in b.log
    <3> SUFFICES ASSUME NEW e \in E, NEW f \in node[p].log, f.origin = p, f.seq < e.seq,
                        f \notin s.log, f \notin E
                 PROVE  FALSE
      BY <2>1, <2>4, <2>7
    <3>1. e.seq < f.seq
      BY <2>1, <2>7 DEF s
    <3>2. e.seq \in Nat /\ f.seq \in Nat
      BY <2>1, LastHappened DEF HeartbeatEvent
    <3> QED BY <3>1, <3>2
  <2>9. Backed(b.log)
    <3> SUFFICES ASSUME NEW e \in b.log, e.kind = "resolved"
                 PROVE  \E f \in b.log : f.kind = "observed" /\ f.at = e.at
      BY DEF Backed, Observations
    <3>1. CASE e \in s.log
      BY <2>2, <2>4, <3>1 DEF Backed, Observations
    <3>2. CASE e \in E
      <4>1. PICK f \in node[p].log :
              f.kind = "observed" /\ f.at = e.at /\ (f.origin = p => f.seq < e.seq)
        BY <2>1, <2>7, <3>2 DEF WatchersInv, PairedInv, Paired
      <4>2. CASE f.origin = p
        BY <2>7, <2>8, <3>2, <4>1, <4>2
      <4>3. CASE f.origin # p
        <5>1. f.origin \in Watcher /\ f \in node[f.origin].log
          BY <2>1, LastHappened DEF HeartbeatEvent, MonitorInv, HeldInv
        <5>2. p # n
          BY <2>1, <2>7, <3>2
        <5>3. f.origin = n
          BY <2>1, <4>3, <5>1, <5>2 DEF TwoWatchers
        <5> QED BY <2>4, <4>1, <5>1, <5>3 DEF s
      <4> QED BY <4>2, <4>3
    <3> QED BY <2>4, <3>1, <3>2
  <2>10. /\ s.log \subseteq u.log /\ b.log \subseteq u.log
         /\ u.known <=> b.known
         /\ \A e \in u.log \ b.log : /\ e.kind = "resolved" /\ e.origin = n /\ b.known
                                     /\ Count(s.log, n) < e.seq
                                     /\ e.at \in Observations(b.log)
         /\ Counted(u.log, n)
    <3>1. CASE ~ b.known
      BY <2>4, <2>6, <3>1
    <3>2. CASE b.known
      BY <2>4, <2>5, <2>6, <2>9, <3>2 DEF Grown, Extends, InSequence
    <3> QED BY <3>1, <3>2
  <2>11. u.known <=> \E e \in u.log : IsSource(e)
    BY <2>2, <2>4, <2>10 DEF IsSource
  <2>12. ~ u.known => OwnIn(u.log, n) = {}
    <3>1. ~ u.known => OwnIn(u.log, n) = OwnIn(b.log, n)
      BY <2>4, <2>10
    <3> QED BY <2>2, <2>4, <2>5, <2>10, <3>1
  <2>13. \A e \in u.log \ s.log : e \in E \/ e \in u.log \ b.log
    BY <2>4
  <2>14. \A e \in u.log \ s.log :
            IF e.origin = n THEN Count(s.log, n) < e.seq /\ ~ IsSource(e)
            ELSE /\ e \in node[e.origin].log
                 /\ \A f \in node[e.origin].log :
                      f.origin = e.origin /\ f.seq < e.seq => f \in u.log
    <3> TAKE e \in u.log \ s.log
    <3>1. CASE e \in E
      BY <2>8, <2>10, <3>1
    <3>2. CASE e \in u.log \ b.log
      BY <2>10, <3>2 DEF IsSource
    <3> QED BY <2>13, <3>1, <3>2
  <2>15. \A e \in u.log \ s.log : (e.origin = n /\ e.kind = "resolved") =>
            \E f \in u.log : f.kind = "observed" /\ f.at = e.at /\ (f.origin = n => f.seq < e.seq)
    <3> SUFFICES ASSUME NEW e \in u.log \ s.log, e.origin = n
                 PROVE  \E f \in u.log : f.kind = "observed" /\ f.at = e.at
                                         /\ (f.origin = n => f.seq < e.seq)
      OBVIOUS
    <3>1. e \in u.log \ b.log
      BY <2>8, <2>13
    <3>2. PICK f \in b.log : f.kind = "observed" /\ f.at = e.at
      BY <2>10, <3>1 DEF Observations
    <3>3. ASSUME f.origin = n
          PROVE  f.seq < e.seq
      <4>1. f \in OwnIn(b.log, n) /\ f.seq \in Nat
        BY <2>4, <3>3 DEF OwnIn, HeartbeatEvent
      <4>2. f.seq <= Count(s.log, n) /\ Count(s.log, n) < e.seq
        BY <2>5, <2>6, <2>10, <3>1, <4>1 DEF Counted
      <4>3. e.seq \in Nat
        BY <1>1 DEF MonitorInv, HeldInv, Kept, Storage, HeartbeatEvent, u
      <4> QED BY <2>3, <4>1, <4>2, <4>3
    <3> QED BY <2>10, <3>2, <3>3
  <2>16. s.known => u.known
    BY <2>4, <2>10
  <2> QED BY <1>1, <2>1, <2>10, <2>11, <2>12, <2>14, <2>15, <2>16, WatcherMoves DEF s, u
<1> QED BY <1>3, <1>4, <1>5, <1>6 DEF MonitorNext

LEMMA WatchersInductive == TwoWatchers => (MonitorSpec => [](SourceFirst /\ BeatFirst))
<1> SUFFICES ASSUME TwoWatchers PROVE MonitorSpec => [](SourceFirst /\ BeatFirst)
  OBVIOUS
<1>1. MonitorInit => WatchersInv
  <2> SUFFICES ASSUME MonitorInit PROVE WatchersInv
    OBVIOUS
  <2>1. Creator \in Watcher
    BY HeartbeatAssumption DEF HeartbeatAssumption
  <2>2. PICK e : /\ node[Creator].log = {e} /\ e \in HeartbeatEvent
                 /\ e.kind = "source" /\ e.origin = Creator /\ e.seq = 1
    BY MonitorBegins
  <2>3. node[Creator].known /\ \A n \in Watcher \ {Creator} : ~ node[n].known /\ node[n].log = {}
    BY MonitorBegins
  <2>4. OwnIn({e}, Creator) = {e} /\ Count({e}, Creator) = 1
    <3>1. OwnIn({e}, Creator) = {e}
      BY <2>2 DEF OwnIn
    <3>2. Cardinality({e}) = 1
      BY FS_Singleton
    <3> QED BY <3>1, <3>2 DEF Count
  <2>5. OrderInv
    <3>1. \A n \in Watcher : Counted(node[n].log, n)
      <4>1. Counted(node[Creator].log, Creator)
        BY <2>2, <2>4 DEF Counted
      <4>2. \A n \in Watcher \ {Creator} : Counted(node[n].log, n)
        BY <2>3 DEF Counted, OwnIn
      <4> QED BY <4>1, <4>2
    <3>2. \A n \in Watcher : \A x \in node[n].log : n = Creator /\ x = e
      BY <2>2, <2>3
    <3> QED BY <2>2, <3>1, <3>2 DEF OrderInv
  <2>6. CreatedInv
    BY <2>2, <2>3 DEF CreatedInv, IsSource, OwnIn
  <2>7. PairedInv
    <3>1. \A n \in Watcher : \A x \in node[n].log : x.kind # "resolved"
      BY <2>2, <2>3
    <3> QED BY <3>1 DEF PairedInv, Paired
  <2> QED BY <2>5, <2>6, <2>7 DEF WatchersInv
<1>2. MonitorInv /\ WatchersInv /\ [MonitorNext]_monitorVars => WatchersInv'
  BY WatchersStep
<1>3. MonitorInv /\ WatchersInv => SourceFirst /\ BeatFirst
  BY SourceIsFirst, BeatIsFirst
<1> QED BY <1>1, <1>2, <1>3, MonitorInductive, PTL DEF MonitorSpec

(* A cluster of two nodes keeps that order by itself: each learns from the  *)
(* other, in the order of its numbers.                                      *)
THEOREM PairsClose == TwoWatchers => (MonitorSpec => []BeatResolves)
<1> SUFFICES ASSUME TwoWatchers PROVE MonitorSpec => []BeatResolves
  OBVIOUS
<1> QED BY WatchersInductive, HeartbeatsClose, PTL

(* Nor does a node of such a pair fire in spite of a heartbeat it knows of. *)
THEOREM PairsMissRightly == TwoWatchers => (MonitorSpec => NoFalseMiss)
<1> SUFFICES ASSUME TwoWatchers PROVE MonitorSpec => NoFalseMiss
  OBVIOUS
<1>1. MonitorSpec => []SourceFirst
  BY WatchersInductive, PTL
<1> QED BY <1>1, NoMissIsFalse

-----------------------------------------------------------------------------
(* The stored columns                                                       *)

OperatorKind == {"acknowledged", "silenced", "resolved", "commented"}

(* q is p but for what an operator's row o has made of the status, which no *)
(* later firing has undone.                                                 *)
Near(p, q, o) ==
  /\ p \in State /\ q \in State /\ q.starts = p.starts
  /\ \/ q.status = p.status
     \/ /\ q.status = o.kind
        /\ o.kind = "resolved" => p.starts <= o.at
        /\ o.kind # "resolved" => p.status # "resolved"

(* A row after the operator's keeps two such states together: a firing after*)
(* the resolution of an operator starts an occurrence of its own.           *)
LEMMA NearStep ==
  ASSUME NEW p, NEW q, NEW o, o.kind \in OperatorKind, o.at \in Nat, Near(p, q, o), NEW r,
         r.occ \in Nat, r.kind \in OperatorKind \cup {"firing"},
         r.kind = "firing" => r.occ > o.at
  PROVE  Near(ApplyRow(p, r), ApplyRow(q, r), o)
<1> DEFINE u == ApplyRow(p, r)
           v == ApplyRow(q, r)
<1> SUFFICES Near(u, v, o)
  OBVIOUS
<1>1. p \in State /\ q \in State /\ u \in State /\ v \in State
  BY ApplyRowState DEF Near
<1>2. CASE r.kind = "firing"
  <2>1. u = ApplyFiring(p, r) /\ v = ApplyFiring(q, r)
    BY <1>2 DEF ApplyRow
  <2> HIDE DEF u, v
  <2> QED BY <1>1, <1>2, <2>1 DEF Near, ApplyFiring, State, OperatorKind
<1>3. CASE r.kind = "resolved"
  <2>1. u = ApplyResolved(p, r) /\ v = ApplyResolved(q, r)
    BY <1>3 DEF ApplyRow
  <2> HIDE DEF u, v
  <2> QED BY <1>1, <1>3, <2>1 DEF Near, ApplyResolved, State, OperatorKind
<1>4. CASE r.kind \in {"acknowledged", "silenced"}
  <2>1. /\ u.starts = p.starts /\ v.starts = q.starts
        /\ u.status = IF p.status = "resolved" THEN "resolved" ELSE r.kind
        /\ v.status = IF q.status = "resolved" THEN "resolved" ELSE r.kind
    BY <1>1, <1>4 DEF ApplyRow, State
  <2> HIDE DEF u, v
  <2> QED BY <1>1, <1>4, <2>1 DEF Near, State, OperatorKind
<1>5. CASE r.kind = "commented"
  BY <1>5 DEF ApplyRow, Near
<1> QED BY <1>2, <1>3, <1>4, <1>5 DEF OperatorKind

(* The operator's row itself, as the last one. *)
LEMMA NearBegins ==
  ASSUME NEW p \in State, NEW o, o.kind \in OperatorKind, o.occ \in Nat, o.at \in Nat,
         p.starts <= o.at
  PROVE  Near(p, ApplyRow(p, o), o)
<1> DEFINE v == ApplyRow(p, o)
<1> SUFFICES Near(p, v, o)
  OBVIOUS
<1>1. v \in State
  BY ApplyRowState
<1>2. v.starts = p.starts
  BY DEF OperatorKind, ApplyRow, ApplyResolved, State
<1>3. \/ v.status = p.status
      \/ v.status = o.kind /\ (o.kind # "resolved" => p.status # "resolved")
  BY DEF OperatorKind, ApplyRow, ApplyResolved, State
<1> HIDE DEF v
<1> QED BY <1>1, <1>2, <1>3 DEF Near

(* A row of an operator, put anywhere into a timeline, moves no occurrence  *)
(* and leaves the status alone or makes it what the operator asked for.     *)
LEMMA InsertedRow ==
  ASSUME NEW U, Rows(U), FiringsStart(U), \A r \in U : r.kind \in OperatorKind \cup {"firing"},
         NEW o \in U, o.kind \in OperatorKind, \A r \in Firings(U) : r.at # o.at
  PROVE  Near(project_incident(U \ {o}), project_incident(U), o)
<1>1. PICK g : /\ \A R \in SUBSET U : project_incident(R) = g[R]
               /\ g[{}] = NoEvents
               /\ \A S \in SUBSET U : S # {} =>
                    g[S] = ApplyRow(g[S \ {Latest(S)}], Latest(S))
  BY OneFold
<1> DEFINE N == Cardinality(U)
           Together(S) == o \in S => Near(g[S \ {o}], g[S], o)
           Q == {k \in 0 .. N : \A S \in SUBSET U : Cardinality(S) = k => Together(S)}
<1>2. /\ N \in Nat
      /\ \A S \in SUBSET U : Rows(S) /\ IsFiniteSet(S) /\ Cardinality(S) \in Nat
                             /\ (Cardinality(S) = 0 <=> S = {})
  BY FS_Subset, FS_CardinalityType, FS_EmptySet DEF Rows
<1>3. 0 \in Q
  <2>1. \A S \in SUBSET U : Cardinality(S) = 0 => Together(S)
    BY <1>2
  <2> HIDE DEF Together
  <2> QED BY <1>2, <2>1
<1>4. ASSUME NEW k \in 0 .. N, k < N, k \in Q
      PROVE  k + 1 \in Q
  <2>1. ASSUME NEW S \in SUBSET U, Cardinality(S) = k + 1, o \in S
        PROVE  Near(g[S \ {o}], g[S], o)
    <3> DEFINE l == Latest(S)
    <3>1. l \in S /\ \A q \in S : q # l => Before(q, l) /\ ~ Before(l, q)
      BY <1>2, <2>1, LatestIsStrict
    <3>2. g[S] = ApplyRow(g[S \ {l}], l)
      BY <1>1, <2>1
    <3>3. \A r \in U : r.at \in Nat /\ r.occ \in Nat /\ r.id \in Nat
      BY DEF Rows
    <3> HIDE DEF l
    <3>4. CASE l = o
      <4> DEFINE p == g[S \ {o}]
      <4>1. Follows(p, S \ {o})
        <5>1. OrderedRows(S \ {o}) /\ FiringsStart(S \ {o})
          BY <1>2, RowsOrdered DEF FiringsStart, Firings
        <5> QED BY <1>1, <5>1, ProjectionFollows
      <4> HIDE DEF p
      <4>2. p \in State /\ p.starts \in Nat
        BY <4>1 DEF Follows, State
      <4>3. p.starts <= o.at
        <5>1. CASE p.starts # 0
          <6>1. PICK r \in Firings(S \ {o}) : r.occ = p.starts
            BY <4>1, <5>1 DEF Follows
          <6>2. r \in S /\ r \in U /\ r # o /\ r.at = r.occ
            BY <6>1 DEF Firings, FiringsStart
          <6> QED BY <3>1, <3>3, <3>4, <6>1, <6>2 DEF Before
        <5> QED BY <3>3, <5>1
      <4>4. Near(p, ApplyRow(p, o), o)
        BY <3>3, <4>2, <4>3, NearBegins
      <4> QED BY <3>2, <3>4, <4>4 DEF p
    <3>5. CASE l # o
      <4> DEFINE T == S \ {l}
      <4>1. Near(g[T \ {o}], g[T], o)
        <5>1. Cardinality(T) = k /\ T \in SUBSET U /\ o \in T
          BY <1>2, <2>1, <3>1, <3>5, SmallerPart
        <5> HIDE DEF T
        <5> QED BY <1>4, <5>1
      <4>2. g[S \ {o}] = ApplyRow(g[T \ {o}], l)
        <5>1. l \in S \ {o} /\ S \ {o} \in SUBSET U /\ (S \ {o}) \ {l} = T \ {o}
          BY <3>1, <3>5
        <5>2. Latest(S \ {o}) = l
          <6>1. /\ Latest(S \ {o}) \in S \ {o}
                /\ \A q \in S \ {o} : q # Latest(S \ {o}) => ~ Before(Latest(S \ {o}), q)
            BY <1>2, <5>1, LatestIsStrict
          <6> QED BY <3>1, <5>1, <6>1
        <5> QED BY <1>1, <5>1, <5>2
      <4>3. l.occ \in Nat /\ l.kind \in OperatorKind \cup {"firing"} /\ o.at \in Nat
        BY <3>1, <3>3
      <4>4. ASSUME l.kind = "firing" PROVE l.occ > o.at
        <5>1. l \in Firings(U) /\ l.at = l.occ /\ l.at # o.at
          BY <3>1, <4>4 DEF Firings, FiringsStart
        <5>2. Before(o, l)
          BY <2>1, <3>1, <3>5
        <5> QED BY <3>1, <3>3, <5>1, <5>2 DEF Before
      <4> HIDE DEF T
      <4>5. Near(ApplyRow(g[T \ {o}], l), ApplyRow(g[T], l), o)
        BY <4>1, <4>3, <4>4, NearStep
      <4> QED BY <3>2, <4>2, <4>5 DEF T
    <3> QED BY <3>4, <3>5
  <2>2. \A S \in SUBSET U : Cardinality(S) = k + 1 => Together(S)
    BY <2>1
  <2> HIDE DEF Together
  <2> QED BY <1>2, <1>4, <2>2
<1>5. N \in Q
  <2>1. 0 .. N \subseteq Q
    <3> HIDE DEF Q, N
    <3> QED BY <1>2, <1>3, <1>4, SetInduction
  <2> QED BY <1>2, <2>1
<1>6. Near(g[U \ {o}], g[U], o)
  <2>1. U \in SUBSET U
    OBVIOUS
  <2> QED BY <1>5, <2>1
<1> QED BY <1>1, <1>6

-----------------------------------------------------------------------------
(* Who has loaded what *)

Told == Intake \cup Remote \cup Elsewhere

(* Every row told to this node is an event of its own, a firing happens at  *)
(* the start of its occurrence, and no operator acts in the same microsecond*)
(* as any of them.                                                          *)
OperatorsApart ==
  /\ \A r, q \in Told : r.id = q.id => r = q
  /\ \A r \in Told : r.at \notin Instant /\ r.id \notin Instant
  /\ \A r \in Told : r.kind = "firing" => r.at = r.occ /\ r.occ > 0

(* A row that an operator adds here. *)
Acted(r) ==
  r \in Row /\ r.kind \in OperatorKind /\ r.at \in Instant /\ r.id = r.at

(* Rows have ids of their own; an operator's row is of an instant of its    *)
(* own, and asks for another status than the one that was loaded.           *)
HandlersInv ==
  /\ DOMAIN handler = Thread \cup {Loop}
  /\ handler[Loop].row \subseteq Intake
  /\ IsFiniteSet(rows)
  /\ \A r \in rows : r \in Told \/ Acted(r)
  /\ \A r, q \in rows : r.id = q.id => r = q
  /\ stored.starts \in Nat
  /\ stored # NoIncident => rows # {}
  /\ \A h \in Thread : \A r \in handler[h].row :
       /\ Acted(r)
       /\ handler[h].seen # NoIncident /\ rows # {}
       /\ r.kind # "commented" => handler[h].seen.status # r.kind
       /\ \A q \in rows : q.at # r.at
       /\ \A g \in Thread : \A q \in handler[g].row : q.at = r.at => g = h /\ q = r

(* One who has loaded what is stored brings the columns to the projection.  *)
LEMMA FreshWrite ==
  ASSUME NEW r, rows' = rows \cup {r}, stored' = Written(stored, r)
  PROVE  StoredIsProjection'
<1> DEFINE p == project_incident(rows \cup {r})
<1>1. /\ stored'.status = IF p.status # stored.status THEN p.status ELSE stored.status
      /\ stored'.starts = IF stored = NoIncident /\ p.starts = 0 THEN r.occ
                          ELSE IF p.starts # 0 /\ p.starts # stored.starts THEN p.starts
                          ELSE stored.starts
  BY DEF Written
<1>2. project_incident(rows') = p
  OBVIOUS
<1> HIDE DEF p
<1> QED BY <1>1, <1>2 DEF StoredIsProjection

LEMMA LoadersKept == HandlerSpec => [](DOMAIN handler = Thread \cup {Loop})
<1>1. HandlerInit => DOMAIN handler = Thread \cup {Loop}
  BY DEF HandlerInit
<1>2. DOMAIN handler = Thread \cup {Loop} /\ [HandlerNext]_handlerVars
        => (DOMAIN handler = Thread \cup {Loop})'
  BY DEF HandlerNext, LoadForReport, LoadForOperator, Commit, Abort, ApplyRemote, handlerVars
<1> QED BY <1>1, <1>2, PTL DEF HandlerSpec

(* A lost update lasts until the next writer who has loaded what is stored: *)
(* whatever the rows are.                                                   *)
THEOREM FreshWritersRepair == HandlerSpec => FreshWriterRepairs
<1> DEFINE Repairs == (/\ rows' # rows
                       /\ \A h \in Thread \cup {Loop} :
                            handler'[h] # handler[h] => handler[h].seen = stored)
                         => StoredIsProjection'
<1>1. DOMAIN handler = Thread \cup {Loop} /\ [HandlerNext]_handlerVars => [Repairs]_handlerVars
  <2> SUFFICES ASSUME DOMAIN handler = Thread \cup {Loop}, HandlerNext, rows' # rows,
                      \A h \in Thread \cup {Loop} :
                        handler'[h] # handler[h] => handler[h].seen = stored
               PROVE  StoredIsProjection'
    BY DEF handlerVars
  <2>1. CASE \E h \in Thread \cup {Loop} : Commit(h)
    <3>1. PICK h \in Thread \cup {Loop} : Commit(h)
      BY <2>1
    <3>2. PICK r \in handler[h].row : /\ rows' = rows \cup {r}
                                      /\ stored' = Written(handler[h].seen, r)
                                      /\ handler' = [handler EXCEPT ![h] = Idle]
      BY <3>1 DEF Commit
    <3>3. handler'[h] # handler[h]
      BY <3>2 DEF Idle
    <3>4. handler[h].seen = stored
      BY <3>3
    <3> QED BY <3>2, <3>4, FreshWrite
  <2>2. CASE \E r \in Remote \cup Elsewhere : ApplyRemote(r)
    BY <2>2, FreshWrite DEF ApplyRemote
  <2> QED BY <2>1, <2>2 DEF HandlerNext, LoadForReport, LoadForOperator, Abort
<1> QED BY <1>1, LoadersKept, PTL DEF HandlerSpec, FreshWriterRepairs

(* One more row, told or acted. *)
LEMMA RowAdded ==
  ASSUME HandlersAssumption, OperatorsApart, HandlersInv, NEW r, r \in Told \/ Acted(r),
         Acted(r) => \A q \in rows : q.at # r.at
  PROVE  /\ IsFiniteSet(rows \cup {r})
         /\ \A q \in rows \cup {r} : q \in Row /\ (q \in Told \/ Acted(q))
         /\ \A q, s \in rows \cup {r} : q.id = s.id => q = s
         /\ Rows(rows \cup {r}) /\ FiringsStart(rows \cup {r})
<1>1. IsFiniteSet(rows \cup {r})
  BY FS_AddElement DEF HandlersInv
<1>2. \A q \in rows \cup {r} : q \in Row /\ (q \in Told \/ Acted(q))
  BY DEF HandlersInv, HandlersAssumption, Told, Acted
<1>3. ASSUME NEW q \in rows, q.id = r.id PROVE q = r
  BY <1>3 DEF HandlersInv, OperatorsApart, Acted
<1>4. \A q, s \in rows : q.id = s.id => q = s
  BY DEF HandlersInv
<1>5. \A q, s \in rows \cup {r} : q.id = s.id => q = s
  BY <1>3, <1>4
<1> DEFINE U == rows \cup {r}
<1> HIDE DEF U
<1>6. Rows(U)
  BY <1>1, <1>2, <1>5 DEF U, Rows, Row
<1>7. FiringsStart(U)
  BY <1>2 DEF U, FiringsStart, Firings, OperatorsApart, Acted, OperatorKind
<1> QED BY <1>1, <1>2, <1>5, <1>6, <1>7 DEF U

(* An operator who acts on a stale load never breaks the agreement.         *)
LEMMA OperatorWrite ==
  ASSUME HandlersAssumption, OperatorsApart, HandlersInv, NEW h \in Thread, Commit(h),
         StoredIsProjection
  PROVE  StoredIsProjection'
<1>1. PICK r \in handler[h].row : rows' = rows \cup {r} /\ stored' = Written(handler[h].seen, r)
  BY DEF Commit
<1>2. /\ Acted(r) /\ handler[h].seen # NoIncident /\ rows # {}
      /\ r.kind # "commented" => handler[h].seen.status # r.kind
      /\ \A q \in rows : q.at # r.at
  BY DEF HandlersInv
<1> DEFINE U == rows \cup {r}
           p == project_incident(rows)
           q == project_incident(U)
           seen == handler[h].seen
<1>3. /\ IsFiniteSet(U) /\ \A x \in U : x \in Row /\ (x \in Told \/ Acted(x))
      /\ Rows(U) /\ FiringsStart(U)
  BY <1>2, RowAdded
<1>6. \A x \in U : x.kind \in OperatorKind \cup {"firing"}
  BY <1>3 DEF Row, OperatorKind
<1>7. \A x \in Firings(U) : x.at # r.at
  BY <1>2 DEF Firings, Acted, OperatorKind
<1>8. r \in U /\ r.kind \in OperatorKind /\ U \ {r} = rows
  BY <1>2 DEF Acted
<1>9. Near(p, q, r)
  <2> HIDE DEF U
  <2>1. Near(project_incident(U \ {r}), project_incident(U), r)
    BY <1>3, <1>6, <1>7, <1>8, InsertedRow
  <2> QED BY <1>8, <2>1
<1>10. stored.status = p.status /\ (p.starts # 0 => stored.starts = p.starts)
  BY <1>2 DEF StoredIsProjection
<1>11. /\ stored'.status = IF q.status # seen.status THEN q.status ELSE stored.status
       /\ stored'.starts = IF seen = NoIncident /\ q.starts = 0 THEN r.occ
                           ELSE IF q.starts # 0 /\ q.starts # seen.starts THEN q.starts
                           ELSE stored.starts
  BY <1>1 DEF Written
<1>12. project_incident(rows') = q
  BY <1>1
<1> HIDE DEF p, q, U, seen
<1>13. q.starts = p.starts /\ (q.status = p.status \/ (q.status = r.kind /\ r.kind # "commented"))
  BY <1>9 DEF Near, State
<1>14. stored'.status = q.status
  BY <1>2, <1>10, <1>11, <1>13 DEF seen
<1>15. q.starts # 0 => stored'.starts = q.starts
  BY <1>10, <1>11, <1>13
<1> QED BY <1>12, <1>14, <1>15 DEF StoredIsProjection

LEMMA HandlersBegin == HandlersAssumption /\ HandlerInit => HandlersInv
BY FS_EmptySet DEF HandlersAssumption, HandlerInit, HandlersInv, Idle, NoIncident

(* A row of an operator is taken up at an instant of its own.               *)
LEMMA OperatorLoads ==
  ASSUME HandlersAssumption, OperatorsApart, HandlersInv, NEW h \in Thread,
         NEW kind \in {"acknowledged", "silenced", "resolved", "commented"}, NEW t \in Instant,
         LoadForOperator(h, kind, t)
  PROVE  HandlersInv'
<1> DEFINE r == [kind |-> kind, at |-> t, id |-> t,
                 occ |-> IF kind = "resolved" THEN stored.starts ELSE 0]
<1>1. /\ rows' = rows /\ stored' = stored
      /\ stored # NoIncident /\ rows # {}
      /\ kind # "commented" => stored.status # kind
      /\ \A q \in rows : q.at # t
      /\ \A g \in Thread : \A q \in handler[g].row : q.at # t
  BY DEF LoadForOperator, HandlersInv
<1>2. handler' = [handler EXCEPT ![h] = [seen |-> stored, row |-> {r}]]
  BY DEF LoadForOperator
<1>3. r.kind = kind /\ r.at = t /\ Acted(r)
  BY DEF HandlersAssumption, HandlersInv, Acted, OperatorKind, Row
<1> HIDE DEF r
<1>4. /\ DOMAIN handler' = Thread \cup {Loop}
      /\ handler'[Loop] = handler[Loop]
      /\ handler'[h].seen = stored /\ handler'[h].row = {r}
      /\ \A g \in Thread : g # h => handler'[g] = handler[g]
  BY <1>2 DEF HandlersInv, HandlersAssumption
<1>5. ASSUME NEW g \in Thread, NEW x \in handler'[g].row
      PROVE  /\ Acted(x)
             /\ handler'[g].seen # NoIncident /\ rows # {}
             /\ x.kind # "commented" => handler'[g].seen.status # x.kind
             /\ \A q \in rows : q.at # x.at
  <2>1. CASE g = h
    BY <1>1, <1>3, <1>4, <1>5, <2>1
  <2>2. CASE g # h
    BY <1>4, <1>5, <2>2 DEF HandlersInv
  <2> QED BY <2>1, <2>2
<1>6. ASSUME NEW f \in Thread, NEW x \in handler'[f].row, NEW g \in Thread, NEW q \in handler'[g].row,
             q.at = x.at
      PROVE  g = f /\ q = x
  <2>1. \A d \in Thread : \A z \in handler'[d].row :
           (d = h /\ z = r) \/ (d # h /\ z \in handler[d].row /\ z.at # t)
    BY <1>1, <1>4
  <2>2. CASE f = h /\ g = h
    BY <1>6, <2>1, <2>2
  <2>3. CASE f # h /\ g # h
    BY <1>6, <2>1, <2>3 DEF HandlersInv
  <2> QED BY <1>3, <1>6, <2>1, <2>2, <2>3
<1> QED BY <1>1, <1>4, <1>5, <1>6 DEF HandlersInv, Acted

(* A row is written; the writer is done, and no other loads change.         *)
LEMMA RowWritten ==
  ASSUME HandlersAssumption, OperatorsApart, HandlersInv, NEW r, r \in Told \/ Acted(r),
         NEW seen, rows' = rows \cup {r}, stored' = Written(seen, r),
         DOMAIN handler' = Thread \cup {Loop}, handler'[Loop] \in {handler[Loop], Idle},
         \A g \in Thread : \/ handler'[g] = Idle
                           \/ /\ handler'[g] = handler[g]
                              /\ \A q \in handler[g].row : q.at # r.at,
         Acted(r) => \A q \in rows : q.at # r.at
  PROVE  HandlersInv'
<1> DEFINE U == rows \cup {r}
           p == project_incident(U)
<1>1. /\ IsFiniteSet(U) /\ \A x \in U : x \in Row /\ (x \in Told \/ Acted(x))
      /\ \A x, s \in U : x.id = s.id => x = s
      /\ Rows(U) /\ FiringsStart(U) /\ U # {}
  BY RowAdded
<1>2. p.starts \in Nat /\ r.occ \in Nat
  <2> HIDE DEF U
  <2>1. Follows(p, U)
    BY <1>1, RowsOrdered, ProjectionFollows
  <2>2. r \in U
    BY DEF U
  <2> QED BY <1>1, <2>1, <2>2 DEF Follows, State, Row
<1>3. stored'.starts \in Nat
  <2>1. stored'.starts = IF seen = NoIncident /\ p.starts = 0 THEN r.occ
                         ELSE IF p.starts # 0 /\ p.starts # seen.starts THEN p.starts
                         ELSE stored.starts
    BY DEF Written
  <2> HIDE DEF p
  <2> QED BY <1>2, <2>1 DEF HandlersInv
<1> HIDE DEF p, U
<1>4. rows' = U /\ \A q \in U : q \in rows \/ q = r
  BY DEF U
<1>5. handler'[Loop].row \subseteq Intake
  BY DEF HandlersInv, Idle
<1>6. \A g \in Thread : \A q \in handler'[g].row :
         handler'[g] = handler[g] /\ q \in handler[g].row /\ q.at # r.at
  BY DEF Idle
<1>7. ASSUME NEW g \in Thread, NEW x \in handler'[g].row
      PROVE  /\ Acted(x)
             /\ handler'[g].seen # NoIncident /\ U # {}
             /\ x.kind # "commented" => handler'[g].seen.status # x.kind
             /\ \A q \in U : q.at # x.at
             /\ \A d \in Thread : \A q \in handler'[d].row : q.at = x.at => d = g /\ q = x
  BY <1>1, <1>4, <1>6 DEF HandlersInv
<1>8. /\ IsFiniteSet(rows') /\ \A q \in rows' : q \in Told \/ Acted(q)
      /\ \A q, s \in rows' : q.id = s.id => q = s
      /\ stored' # NoIncident => rows' # {}
  BY <1>1, <1>4
<1>9. \A g \in Thread : \A x \in handler'[g].row :
        /\ Acted(x)
        /\ handler'[g].seen # NoIncident /\ rows' # {}
        /\ x.kind # "commented" => handler'[g].seen.status # x.kind
        /\ \A q \in rows' : q.at # x.at
        /\ \A d \in Thread : \A q \in handler'[d].row : q.at = x.at => d = g /\ q = x
  BY <1>4, <1>7
<1> QED BY <1>3, <1>5, <1>8, <1>9 DEF HandlersInv, Acted

LEMMA HandlersStep ==
  ASSUME HandlersAssumption, OperatorsApart, HandlersInv, [HandlerNext]_handlerVars
  PROVE  HandlersInv'
<1>1. ASSUME NEW r \in Intake, LoadForReport(r) PROVE HandlersInv'
  <2>1. /\ rows' = rows /\ stored' = stored /\ DOMAIN handler' = Thread \cup {Loop}
        /\ handler'[Loop].row = {r}
        /\ \A g \in Thread : handler'[g] = handler[g]
    BY <1>1 DEF LoadForReport, HandlersInv, HandlersAssumption
  <2> QED BY <2>1 DEF HandlersInv, Acted
<1>2. ASSUME NEW h \in Thread, NEW kind \in {"acknowledged", "silenced", "resolved", "commented"},
             NEW t \in Instant, LoadForOperator(h, kind, t)
      PROVE  HandlersInv'
  BY <1>2, OperatorLoads
<1>3. ASSUME NEW h \in Thread \cup {Loop}, Commit(h) PROVE HandlersInv'
  <2>1. PICK r \in handler[h].row : /\ rows' = rows \cup {r}
                                    /\ stored' = Written(handler[h].seen, r)
                                    /\ handler' = [handler EXCEPT ![h] = Idle]
    BY <1>3 DEF Commit
  <2>2. /\ DOMAIN handler' = Thread \cup {Loop} /\ handler'[h] = Idle
        /\ \A g \in Thread \cup {Loop} : g # h => handler'[g] = handler[g]
    BY <2>1 DEF HandlersInv
  <2>3. CASE h = Loop
    <3>1. r \in Told /\ r.at \notin Instant
      BY <2>3 DEF HandlersInv, Told, OperatorsApart
    <3>2. ~ Acted(r) /\ \A g \in Thread : \A q \in handler[g].row : q.at # r.at
      BY <3>1 DEF HandlersInv, Acted
    <3> QED BY <2>1, <2>2, <2>3, <3>1, <3>2, RowWritten DEF HandlersAssumption
  <2>4. CASE h \in Thread
    <3>1. Acted(r) /\ \A q \in rows : q.at # r.at
      BY <2>4 DEF HandlersInv
    <3>2. \A g \in Thread : g # h => \A q \in handler[g].row : q.at # r.at
      BY <2>4 DEF HandlersInv
    <3>3. handler'[Loop] \in {handler[Loop], Idle}
      BY <2>2
    <3> QED BY <2>1, <2>2, <3>1, <3>2, <3>3, RowWritten
  <2> QED BY <2>3, <2>4
<1>4. ASSUME NEW h \in Thread \cup {Loop}, Abort(h) PROVE HandlersInv'
  <2>1. /\ rows' = rows /\ stored' = stored /\ DOMAIN handler' = Thread \cup {Loop}
        /\ \A g \in Thread \cup {Loop} : handler'[g] = handler[g] \/ handler'[g] = Idle
    BY <1>4 DEF Abort, HandlersInv
  <2>2. \A g \in Thread \cup {Loop} : \A q \in handler'[g].row :
           handler'[g] = handler[g] /\ q \in handler[g].row
    BY <2>1 DEF Idle
  <2> QED BY <2>1, <2>2 DEF HandlersInv, Acted
<1>5. ASSUME NEW r \in Remote \cup Elsewhere, ApplyRemote(r) PROVE HandlersInv'
  <2>1. r \in Told /\ r.at \notin Instant
    BY DEF Told, OperatorsApart
  <2>2. ~ Acted(r) /\ \A g \in Thread : \A q \in handler[g].row : q.at # r.at
    BY <2>1 DEF HandlersInv, Acted
  <2>3. rows' = rows \cup {r} /\ stored' = Written(stored, r) /\ handler' = handler
    BY <1>5 DEF ApplyRemote
  <2>4. DOMAIN handler = Thread \cup {Loop}
    BY DEF HandlersInv
  <2> QED BY <2>1, <2>2, <2>3, <2>4, RowWritten
<1>6. CASE UNCHANGED handlerVars
  BY <1>6 DEF handlerVars, HandlersInv, Acted
<1> QED BY <1>1, <1>2, <1>3, <1>4, <1>5, <1>6 DEF HandlerNext

LEMMA HandlersInductive == OperatorsApart => (HandlerSpec => []HandlersInv)
<1> SUFFICES ASSUME OperatorsApart PROVE HandlerSpec => []HandlersInv
  OBVIOUS
<1>1. HandlerInit => HandlersInv
  BY HandlersBegin, HandlersAssumption
<1>2. HandlersInv /\ [HandlerNext]_handlerVars => HandlersInv'
  BY HandlersStep, HandlersAssumption
<1> QED BY <1>1, <1>2, PTL DEF HandlerSpec

(* Of all writers only the intake ever breaks the agreement of the columns  *)
(* with the timeline, and only after the incident has changed under it:     *)
(* operators on any number of threads, with whatever loads, do not.         *)
THEOREM OperatorsNeverDiverge == OperatorsApart => (HandlerSpec => OnlyStaleReportsDiverge)
<1> SUFFICES ASSUME OperatorsApart PROVE HandlerSpec => OnlyStaleReportsDiverge
  OBVIOUS
<1> DEFINE Blamed == (rows' # rows /\ ~ StoredIsProjection' /\ StoredIsProjection)
                       => (handler'[Loop] # handler[Loop] /\ handler[Loop].seen # stored)
<1>1. HandlersInv /\ [HandlerNext]_handlerVars => [Blamed]_handlerVars
  <2> SUFFICES ASSUME HandlersInv, HandlerNext, rows' # rows, StoredIsProjection,
                      ~ StoredIsProjection'
               PROVE  handler'[Loop] # handler[Loop] /\ handler[Loop].seen # stored
    BY DEF handlerVars
  <2>1. ASSUME NEW r \in Remote \cup Elsewhere, ApplyRemote(r) PROVE FALSE
    BY <2>1, FreshWrite DEF ApplyRemote
  <2>2. ASSUME NEW h \in Thread, Commit(h) PROVE FALSE
    BY <2>2, OperatorWrite, HandlersAssumption
  <2>3. Commit(Loop)
    BY <2>1, <2>2 DEF HandlerNext, LoadForReport, LoadForOperator, Abort
  <2>4. PICK r \in handler[Loop].row : /\ rows' = rows \cup {r}
                                       /\ stored' = Written(handler[Loop].seen, r)
                                       /\ handler' = [handler EXCEPT ![Loop] = Idle]
    BY <2>3 DEF Commit
  <2>5. handler'[Loop] # handler[Loop]
    BY <2>4 DEF HandlersInv, Idle
  <2>6. handler[Loop].seen # stored
    BY <2>4, FreshWrite
  <2> QED BY <2>5, <2>6
<1> QED BY <1>1, HandlersInductive, PTL DEF HandlerSpec, OnlyStaleReportsDiverge
=============================================================================
