------------------------- MODULE StatisticsCacheProofs -------------------------
(***************************************************************************)
(* Proofs about StatisticsCache, for any number of threads and rows and any *)
(* lifetimes: the snapshot implements SharedSnapshot, what requests are     *)
(* given is recent, the cohorts of a window follow the projection of its    *)
(* rows, a window loses nothing that begins in it, and the buckets of its   *)
(* timeline add up.                                                         *)
(***************************************************************************)
EXTENDS StatisticsCache, FiniteSetTheorems, WellFoundedInduction, TLAPS

ThreadState == [pc : {"idle", "missed", "looked", "owner", "refresh", "cold"},
             stale : Int, taken : Nat \cup {None}]

TypeInv ==
  /\ setup \in Setups
  /\ now \in Nat
  /\ entry.taken \in Nat \cup {None}
  /\ entry.taken <= now
  /\ owner \in Thread \cup {Nobody}
  /\ thread \in [Thread -> ThreadState]

(* Who looks again or refreshes holds the lock. *)
OneOwner == \A t \in Thread : thread[t].pc \in {"owner", "refresh"} => owner = t

(* What the owner has read from the database is newer than the entry. *)
RefreshIsNewer ==
  \A t \in Thread :
     /\ thread[t].taken <= now
     /\ (thread[t].pc = "refresh" /\ thread[t].taken # None) => entry.taken <= thread[t].taken
     /\ thread[t].pc \in {"missed", "looked", "owner"} => thread[t].taken = None

IndInv == TypeInv /\ OneOwner /\ RefreshIsNewer

(* What may become of the entry in a step that takes no time. *)
EntryStep ==
  \/ UNCHANGED entry
  \/ entry' = NoEntry
  \/ /\ entry'.taken \in Nat
     /\ entry.taken <= entry'.taken
     /\ entry'.taken <= now
-----------------------------------------------------------------------------
LEMMA InitEstablishesIndInv == Init => IndInv
BY DEF Init, IndInv, ThreadState, TypeInv, OneOwner, RefreshIsNewer, NoEntry, Idle, None

LEMMA KeptIsEntryOrNone == Kept = entry \/ Kept = NoEntry
BY DEF Kept

LEMMA StepPreservesIndInv ==
  ASSUME IndInv, [Next]_vars
  PROVE  IndInv' /\ (now' = now => EntryStep) /\ (now' # now => Shared!Tick)
<1> USE CacheAssumption DEF IndInv
<1>1. CASE UNCHANGED vars
  BY <1>1 DEF vars, TypeInv, OneOwner, RefreshIsNewer, EntryStep
<1>2. CASE Tick
  BY <1>2 DEF Tick, ThreadState, TypeInv, OneOwner, RefreshIsNewer, Shared!Tick, None
<1>3. ASSUME NEW r \in setup.rows, Arrive(r)
      PROVE  IndInv' /\ now' = now /\ EntryStep
  BY <1>3 DEF Arrive, TypeInv, OneOwner, RefreshIsNewer, EntryStep
<1>4. ASSUME NEW t \in Thread, Request(t)
      PROVE  IndInv' /\ now' = now /\ EntryStep
  BY <1>4, KeptIsEntryOrNone
     DEF Request, At, Idle, NoEntry, None, ThreadState, TypeInv, OneOwner, RefreshIsNewer, EntryStep
<1>5. ASSUME NEW t \in Thread, LookForStale(t)
      PROVE  IndInv' /\ now' = now /\ EntryStep
  <2>1. Kept.taken \in Nat \cup {None} /\ Kept.taken <= now
    BY KeptIsEntryOrNone DEF TypeInv, NoEntry, None
  <2>2. /\ UNCHANGED <<setup, now, owner>>
        /\ entry' = Kept
        /\ thread' = [thread EXCEPT ![t].pc = "looked", ![t].stale = Kept.taken]
        /\ thread[t].pc = "missed"
    BY <1>5 DEF LookForStale, At
  <2>3. TypeInv'
    <3>1. PICK taken \in Nat \cup {None} : taken = Kept.taken
      BY <2>1
    <3>2. thread' = [thread EXCEPT ![t].pc = "looked", ![t].stale = taken]
      BY <2>2, <3>1
    <3>3. thread[t] \in ThreadState /\ taken \in Int
      BY DEF TypeInv, None
    <3>4. [thread[t] EXCEPT !.pc = "looked", !.stale = taken] \in ThreadState
      BY <3>3 DEF ThreadState
    <3>5. thread' \in [Thread -> ThreadState]
      BY <3>2, <3>4 DEF TypeInv
    <3> QED BY <2>1, <2>2, <3>5 DEF TypeInv
  <2>4. OneOwner'
    BY <2>2 DEF ThreadState, TypeInv, OneOwner
  <2>5. EntryStep
    BY <2>2, KeptIsEntryOrNone DEF EntryStep
  <2>6. RefreshIsNewer'
    BY <2>2, KeptIsEntryOrNone DEF ThreadState, TypeInv, RefreshIsNewer, NoEntry, None
  <2> QED BY <2>2, <2>3, <2>4, <2>5, <2>6
<1>6. ASSUME NEW t \in Thread, AcquireRefresh(t)
      PROVE  IndInv' /\ now' = now /\ EntryStep
  BY <1>6 DEF AcquireRefresh, At, Goto, ThreadState, TypeInv, OneOwner, RefreshIsNewer, EntryStep
<1>7. ASSUME NEW t \in Thread, Follow(t)
      PROVE  IndInv' /\ now' = now /\ EntryStep
  BY <1>7 DEF Follow, At, Goto, Answer, Idle, None, ThreadState, TypeInv, OneOwner, RefreshIsNewer, EntryStep
<1>8. ASSUME NEW t \in Thread, LookAgain(t)
      PROVE  IndInv' /\ now' = now /\ EntryStep
  BY <1>8, KeptIsEntryOrNone
     DEF LookAgain, At, Goto, Answer, Idle, NoEntry, None, ThreadState, TypeInv, OneOwner, RefreshIsNewer, EntryStep
<1>9. ASSUME NEW t \in Thread, BeginCompute(t)
      PROVE  IndInv' /\ now' = now /\ EntryStep
  BY <1>9 DEF BeginCompute, None, ThreadState, TypeInv, OneOwner, RefreshIsNewer, EntryStep
<1>10. ASSUME NEW t \in Thread, Put(t)
       PROVE  IndInv' /\ now' = now /\ EntryStep
  BY <1>10 DEF Put, At, Answer, Idle, None, ThreadState, TypeInv, OneOwner, RefreshIsNewer, EntryStep
<1>11. ASSUME NEW t \in Thread, FailRefresh(t)
       PROVE  IndInv' /\ now' = now /\ EntryStep
  BY <1>11, KeptIsEntryOrNone
     DEF FailRefresh, At, Answer, Idle, NoEntry, None, ThreadState, TypeInv, OneOwner, RefreshIsNewer, EntryStep
<1>12. ASSUME NEW t \in Thread, FinishCold(t)
       PROVE  IndInv' /\ now' = now /\ EntryStep
  BY <1>12 DEF FinishCold, At, Answer, Idle, None, ThreadState, TypeInv, OneOwner, RefreshIsNewer, EntryStep
<1> QED
  BY <1>1, <1>2, <1>3, <1>4, <1>5, <1>6, <1>7, <1>8, <1>9, <1>10, <1>11, <1>12
     DEF Next, Step, Tick, TypeInv

LEMMA IndInvHolds == Spec => []IndInv
<1>1. IndInv /\ [Next]_vars => IndInv'
  BY StepPreservesIndInv
<1> QED BY <1>1, InitEstablishesIndInv, PTL DEF Spec

(* The statistics of a window are a SharedSnapshot: whatever threads miss,  *)
(* follow, refresh and fail at the same time, a snapshot is replaced only by*)
(* one that was read from the database no earlier.                          *)
THEOREM StatisticsImplementSharedSnapshot == Spec => ImplementsSharedSnapshot
<1>1. Init => Shared!Init
  BY DEF Init, Shared!Init, NoEntry, None
<1>2. IndInv /\ [Next]_vars => [Shared!Next]_<<now, entry.taken>>
  <2> SUFFICES ASSUME IndInv, [Next]_vars
               PROVE  Shared!Next \/ UNCHANGED <<now, entry.taken>>
    OBVIOUS
  <2>1. CASE now' # now
    BY <2>1, StepPreservesIndInv DEF Shared!Next
  <2>2. CASE now' = now
    <3>1. EntryStep
      BY <2>2, StepPreservesIndInv
    <3>2. CASE UNCHANGED entry
      BY <2>2, <3>2
    <3>3. CASE entry' = NoEntry
      BY <2>2, <3>3 DEF NoEntry, None, Shared!Drop, Shared!Next
    <3>4. CASE /\ entry'.taken \in Nat
               /\ entry.taken <= entry'.taken
               /\ entry'.taken <= now
      BY <2>2, <3>4 DEF IndInv, TypeInv, None, Shared!Publish, Shared!Next
    <3> QED BY <3>1, <3>2, <3>3, <3>4 DEF EntryStep
  <2> QED BY <2>1, <2>2
<1> QED BY <1>1, <1>2, IndInvHolds, PTL DEF Spec, ImplementsSharedSnapshot, Shared!Spec
-----------------------------------------------------------------------------
(* Nothing that may still be given is too old: neither what is served from  *)
(* the cache, nor what a computation under way has read, nor what a thread  *)
(* has just found past its freshness.                                       *)
Recent ==
  /\ entry.stale \in Int
  /\ entry.taken = None => entry.stale = None
  /\ entry.stale <= entry.taken + StaleTtl + MaxCompute
  /\ \A t \in Thread :
       /\ thread[t].taken # None => now <= thread[t].taken + MaxCompute
       /\ thread[t].pc = "looked" =>
            /\ t \in setup.threads
            /\ thread[t].stale # None => now <= thread[t].stale + StaleTtl + MaxCompute
  /\ answer \in Int /\ AnswersAreRecent

LEMMA InitIsRecent == Init => Recent
BY CacheAssumption
   DEF Init, Recent, AnswersAreRecent, NoEntry, Idle, None

(* Alive bounds the age of what is served. *)
LEMMA AliveIsRecent ==
  ASSUME IndInv, Recent, Alive
  PROVE  /\ entry.taken \in Nat
         /\ now - entry.taken <= StaleTtl + MaxCompute
<1>1. entry.stale > now
  BY DEF Alive
<1>2. entry.taken \in Nat
  <2>1. CASE entry.taken = None
    BY <1>1, <2>1, CacheAssumption DEF Recent, IndInv, TypeInv, None
  <2> QED BY <2>1 DEF IndInv, TypeInv
<1> QED BY <1>1, <1>2, CacheAssumption DEF Recent, IndInv, TypeInv

LEMMA KeptIsRecent ==
  ASSUME IndInv, Recent
  PROVE  /\ Kept.stale \in Int /\ Kept.taken \in Int
         /\ Kept.taken = None => Kept.stale = None
         /\ Kept.stale <= Kept.taken + StaleTtl + MaxCompute
         /\ Kept.taken # None => now <= Kept.taken + StaleTtl + MaxCompute
<1>1. CASE Alive
  BY <1>1, AliveIsRecent, CacheAssumption DEF Kept, Recent, IndInv, TypeInv
<1>2. CASE ~ Alive
  BY <1>2, CacheAssumption DEF Kept, NoEntry, None
<1> QED BY <1>1, <1>2

LEMMA StepKeepsRecent ==
  ASSUME IndInv, Recent, [Next]_vars
  PROVE  Recent'
<1> USE CacheAssumption DEF AnswersAreRecent
<1>0. thread \in [Thread -> ThreadState] /\ now \in Nat
  BY DEF IndInv, TypeInv
<1>1. CASE UNCHANGED vars
  BY <1>1 DEF vars, Recent
<1>2. CASE Tick
  BY <1>0, <1>2 DEF Tick, At, Recent, ThreadState, None
<1>3. ASSUME NEW r \in setup.rows, Arrive(r)
      PROVE  Recent'
  BY <1>3 DEF Arrive, Recent
<1>4. ASSUME NEW t \in Thread, Request(t)
      PROVE  Recent'
  <2>1. CASE Fresh
    <3>1. /\ Alive
          /\ entry' = Kept
          /\ answer' = now - entry.taken
          /\ UNCHANGED <<setup, now, thread>>
      BY <1>4, <2>1 DEF Request, Fresh
    <3>2. answer' \in Int /\ answer' <= StaleTtl + MaxCompute
      BY <1>0, <3>1, AliveIsRecent
    <3>3. /\ entry'.stale \in Int
          /\ entry'.taken = None => entry'.stale = None
          /\ entry'.stale <= entry'.taken + StaleTtl + MaxCompute
      BY <3>1, KeptIsRecent
    <3> QED BY <3>1, <3>2, <3>3 DEF Recent
  <2>2. CASE ~ Fresh
    BY <1>0, <1>4, <2>2, KeptIsRecent DEF Request, Idle, Recent, ThreadState
  <2> QED BY <2>1, <2>2
<1>5. ASSUME NEW t \in Thread, LookForStale(t)
      PROVE  Recent'
  BY <1>0, <1>5, KeptIsRecent DEF LookForStale, At, Recent, ThreadState
<1>6. ASSUME NEW t \in Thread, AcquireRefresh(t)
      PROVE  Recent'
  BY <1>0, <1>6 DEF AcquireRefresh, Goto, Recent, ThreadState
<1>7. ASSUME NEW t \in Thread, Follow(t)
      PROVE  Recent'
  BY <1>0, <1>7 DEF Follow, At, Goto, Answer, Idle, Recent, ThreadState, None
<1>8. ASSUME NEW t \in Thread, LookAgain(t)
      PROVE  Recent'
  <2>1. CASE Fresh
    BY <1>0, <1>8, <2>1, AliveIsRecent, KeptIsRecent DEF LookAgain, Answer, Idle, Fresh, Recent
  <2>2. CASE ~ Fresh
    BY <1>0, <1>8, <2>2, KeptIsRecent DEF LookAgain, Goto, Recent, ThreadState
  <2> QED BY <2>1, <2>2
<1>9. ASSUME NEW t \in Thread, BeginCompute(t)
      PROVE  Recent'
  BY <1>0, <1>9 DEF BeginCompute, Recent, ThreadState
<1>10. ASSUME NEW t \in Thread, Put(t)
       PROVE  Recent'
  BY <1>0, <1>10 DEF Put, Answer, Idle, Recent, ThreadState, None
<1>11. ASSUME NEW t \in Thread, FailRefresh(t)
       PROVE  Recent'
  <2>1. CASE Alive
    BY <1>0, <1>11, <2>1, AliveIsRecent, KeptIsRecent DEF FailRefresh, Answer, Idle, Recent
  <2>2. CASE ~ Alive
    BY <1>0, <1>11, <2>2, KeptIsRecent DEF FailRefresh, Idle, Recent, ThreadState
  <2> QED BY <2>1, <2>2
<1>12. ASSUME NEW t \in Thread, FinishCold(t)
       PROVE  Recent'
  BY <1>0, <1>12 DEF FinishCold, Answer, Idle, Recent, ThreadState, None
<1> QED
  BY <1>1, <1>2, <1>3, <1>4, <1>5, <1>6, <1>7, <1>8, <1>9, <1>10, <1>11, <1>12
     DEF Next, Step

(* The bound of docs/source-integrations.md, for any lifetimes: what a      *)
(* request is given was read no longer ago than a snapshot may be served and*)
(* a computation may take, also when its own refresh has failed.            *)
THEOREM AnswersStayRecent == Spec => []AnswersAreRecent
<1>1. IndInv /\ Recent /\ [Next]_vars => Recent'
  BY StepKeepsRecent
<1>2. Recent => AnswersAreRecent
  BY DEF Recent
<1> QED BY <1>1, <1>2, InitIsRecent, IndInvHolds, PTL DEF Spec
-----------------------------------------------------------------------------
(* The folds over rows                                                      *)

(* Induction, with a set in the place of a predicate. *)
LEMMA SetInduction ==
  ASSUME NEW N \in Nat, NEW S, 0 \in S,
         \A i \in 0 .. N : (i < N /\ i \in S) => i + 1 \in S
  PROVE  0 .. N \subseteq S
<1> SUFFICES ASSUME (0 .. N) \ S # {} PROVE FALSE
  OBVIOUS
<1> DEFINE T == (0 .. N) \ S
<1>1. T \subseteq Nat /\ T # {}
  OBVIOUS
<1>2. PICK x \in T : \A y \in T : ~ (<<y, x>> \in OpToRel(<, Nat))
  <2> HIDE DEF T
  <2> QED BY <1>1, NatLessThanWellFounded, WFMin
<1>3. \A y \in T : ~ (y < x)
  BY <1>1, <1>2 DEF OpToRel
<1>4. x \in 1 .. N /\ x - 1 \in 0 .. N /\ x - 1 < x
  OBVIOUS
<1>5. x - 1 \in S
  BY <1>3, <1>4
<1>6. (x - 1) + 1 = x /\ x - 1 < N
  BY <1>4
<1> QED BY <1>4, <1>5, <1>6

(* Rows that the projection can put in order: no two have the same id. *)
Rows(R) ==
  /\ IsFiniteSet(R)
  /\ \A r \in R : r.at \in Nat /\ r.id \in Nat /\ r.occ \in Nat
  /\ \A r, q \in R : r.id = q.id => r = q

(* A part of the timeline is smaller without one of its rows. *)
LEMMA SmallerPart ==
  ASSUME NEW S, IsFiniteSet(S), NEW x \in S
  PROVE  /\ IsFiniteSet(S \ {x}) /\ Cardinality(S) \in Nat /\ Cardinality(S) > 0
         /\ Cardinality(S \ {x}) = Cardinality(S) - 1
<1>1. IsFiniteSet(S \ {x}) /\ Cardinality(S \ {x}) = Cardinality(S) - 1
  BY FS_RemoveElement
<1>2. Cardinality(S) \in Nat /\ Cardinality(S \ {x}) \in Nat
  BY <1>1, FS_CardinalityType
<1> QED BY <1>1, <1>2

(* A part of the timeline with rows has a last one. *)
LEMMA LatestIsLast ==
  ASSUME NEW R, Rows(R), R # {}
  PROVE  /\ Latest(R) \in R
         /\ \A q \in R : q # Latest(R) => Before(q, Latest(R)) /\ ~ Before(Latest(R), q)
<1> DEFINE N == Cardinality(R)
           HasLast(S) == \E r \in S : \A q \in S : ~ Before(r, q)
           Q == {k \in 0 .. N : \A S \in SUBSET R : S # {} /\ Cardinality(S) = k => HasLast(S)}
<1>1. /\ N \in Nat
      /\ \A S \in SUBSET R : IsFiniteSet(S) /\ Cardinality(S) \in Nat
                             /\ (Cardinality(S) = 0 <=> S = {})
  BY FS_Subset, FS_CardinalityType, FS_EmptySet DEF Rows
<1>2. 0 \in Q
  BY <1>1
<1>3. ASSUME NEW k \in 0 .. N, k < N, k \in Q
      PROVE  k + 1 \in Q
  <2> SUFFICES ASSUME NEW S \in SUBSET R, S # {}, Cardinality(S) = k + 1 PROVE HasLast(S)
    BY <1>1, <1>3
  <2>1. PICK x \in S : TRUE
    OBVIOUS
  <2>2. Cardinality(S \ {x}) = k /\ S \ {x} \in SUBSET R
    BY <1>1, SmallerPart
  <2>3. CASE S \ {x} = {}
    <3>1. \A q \in S : q = x
      BY <2>3
    <3>2. x.at \in Nat /\ x.id \in Nat
      BY DEF Rows
    <3> QED BY <3>1, <3>2 DEF Before
  <2>4. CASE S \ {x} # {}
    <3>1. PICK y \in S \ {x} : \A q \in S \ {x} : ~ Before(y, q)
      BY <1>3, <2>2, <2>4
    <3>2. \A q \in S : q.at \in Nat /\ q.id \in Nat
      BY DEF Rows
    <3>3. CASE Before(y, x)
      <4>1. \A q \in S : ~ Before(x, q)
        BY <3>1, <3>2, <3>3 DEF Before
      <4> QED BY <4>1
    <3>4. CASE ~ Before(y, x)
      BY <3>1, <3>4
    <3> QED BY <3>3, <3>4
  <2> QED BY <2>3, <2>4
<1>4. HasLast(R)
  <2>1. 0 .. N \subseteq Q
    <3> HIDE DEF Q, N
    <3> QED BY <1>1, <1>2, <1>3, SetInduction
  <2>2. N \in Q
    BY <1>1, <2>1
  <2> QED BY <2>2
<1>5. Latest(R) \in R /\ \A q \in R : ~ Before(Latest(R), q)
  BY <1>4 DEF Latest
<1>6. ASSUME NEW q \in R, q # Latest(R)
      PROVE  Before(q, Latest(R))
  BY <1>5, <1>6 DEF Before, Rows
<1> QED BY <1>5, <1>6

(* A fold over every part of the rows, whatever a row does to a value v of  *)
(* V: step[r][v].                                                           *)
FoldOf(f, D, e, step) ==
  f = [S \in D |-> IF S = {} THEN e ELSE step[Latest(S)][f[S \ {Latest(S)}]]]

(* A part of rows is rows, and loses one row at a time. *)
LEMMA PartOfRows ==
  ASSUME NEW R, Rows(R), NEW S \in SUBSET R
  PROVE  /\ Rows(S) /\ Cardinality(S) \in Nat /\ Cardinality(S) <= Cardinality(R)
         /\ Cardinality(S) = 0 <=> S = {}
         /\ S # {} => /\ Latest(S) \in S /\ S \ {Latest(S)} \in SUBSET R
                      /\ Cardinality(S \ {Latest(S)}) = Cardinality(S) - 1
<1>1. IsFiniteSet(S) /\ Cardinality(S) \in Nat /\ Cardinality(S) <= Cardinality(R)
      /\ (Cardinality(S) = 0 <=> S = {})
  BY FS_Subset, FS_CardinalityType, FS_EmptySet DEF Rows
<1>2. Rows(S)
  BY <1>1 DEF Rows
<1>3. S # {} => Latest(S) \in S
  BY <1>2, LatestIsLast
<1>4. S # {} => Cardinality(S \ {Latest(S)}) = Cardinality(S) - 1
  BY <1>1, <1>3, SmallerPart
<1> QED BY <1>1, <1>2, <1>3, <1>4

(* There is such a fold, and its values are in V. *)
LEMMA FoldExists ==
  ASSUME NEW R, Rows(R), NEW V, NEW e \in V,
         NEW step, \A r \in R : \A v \in V : step[r][v] \in V
  PROVE  \E f : FoldOf(f, SUBSET R, e, step) /\ \A S \in SUBSET R : f[S] \in V
<1> DEFINE N == Cardinality(R)
           D(k) == {S \in SUBSET R : Cardinality(S) <= k}
           Q == {k \in 0 .. N : \E f : FoldOf(f, D(k), e, step) /\ \A S \in D(k) : f[S] \in V}
<1>1. /\ N \in Nat
      /\ \A S \in SUBSET R : Cardinality(S) \in Nat /\ Cardinality(S) <= N
                             /\ (Cardinality(S) = 0 <=> S = {})
  BY PartOfRows
<1>2. \A S \in SUBSET R : S # {} =>
        /\ Latest(S) \in R
        /\ S \ {Latest(S)} \in SUBSET R
        /\ Cardinality(S \ {Latest(S)}) = Cardinality(S) - 1
  BY PartOfRows
<1>3. 0 \in Q
  <2> DEFINE f == [S \in D(0) |-> e]
  <2>1. \A S \in D(0) : S = {}
    BY <1>1
  <2> HIDE DEF D
  <2>2. f = [S \in D(0) |-> IF S = {} THEN e ELSE step[Latest(S)][f[S \ {Latest(S)}]]]
    BY <2>1
  <2>3. \A S \in D(0) : f[S] \in V
    OBVIOUS
  <2> HIDE DEF f
  <2>4. FoldOf(f, D(0), e, step)
    BY <2>2, Zenon DEF FoldOf
  <2> QED BY <1>1, <2>3, <2>4
<1>4. ASSUME NEW k \in 0 .. N, k < N, k \in Q
      PROVE  k + 1 \in Q
  <2>1. PICK f : FoldOf(f, D(k), e, step) /\ \A S \in D(k) : f[S] \in V
    BY <1>4
  <2>2. f = [S \in D(k) |-> IF S = {} THEN e ELSE step[Latest(S)][f[S \ {Latest(S)}]]]
    BY <2>1, Zenon DEF FoldOf
  <2> DEFINE g == [S \in D(k + 1) |->
                     IF S = {} THEN e ELSE step[Latest(S)][f[S \ {Latest(S)}]]]
  <2>3. \A S \in D(k) : S \in D(k + 1) /\ g[S] = f[S]
    <3>1. \A S \in D(k) : S \in D(k + 1)
      BY <1>1, <1>4
    <3>2. \A S \in D(k) : f[S] = IF S = {} THEN e ELSE step[Latest(S)][f[S \ {Latest(S)}]]
      BY <2>2, Zenon
    <3> HIDE DEF D
    <3> QED BY <3>1, <3>2
  <2>4. \A S \in D(k + 1) : S # {} => S \ {Latest(S)} \in D(k) /\ Latest(S) \in R
    BY <1>1, <1>2, <1>4
  <2>5. g = [S \in D(k + 1) |-> IF S = {} THEN e ELSE step[Latest(S)][g[S \ {Latest(S)}]]]
    <3> HIDE DEF D
    <3>1. \A S \in D(k + 1) :
            g[S] = IF S = {} THEN e ELSE step[Latest(S)][g[S \ {Latest(S)}]]
      BY <2>3, <2>4
    <3>2. DOMAIN g = D(k + 1) /\ g = [S \in D(k + 1) |-> g[S]]
      OBVIOUS
    <3> HIDE DEF g
    <3> QED BY <3>1, <3>2
  <2>6. \A S \in D(k + 1) : g[S] \in V
    <3> HIDE DEF D
    <3> QED BY <2>1, <2>4
  <2> HIDE DEF g, D
  <2>7. FoldOf(g, D(k + 1), e, step)
    BY <2>5, Zenon DEF FoldOf
  <2>8. k + 1 \in 0 .. N
    BY <1>1, <1>4
  <2> QED BY <2>6, <2>7, <2>8
<1>5. N \in Q
  <2>1. 0 .. N \subseteq Q
    <3> HIDE DEF Q, N
    <3> QED BY <1>1, <1>3, <1>4, SetInduction
  <2>2. N \in 0 .. N
    BY <1>1
  <2> HIDE DEF Q
  <2> QED BY <2>1, <2>2
<1>6. D(N) = SUBSET R
  BY <1>1
<1>7. \E f : FoldOf(f, D(N), e, step) /\ \A S \in D(N) : f[S] \in V
  BY <1>5
<1> HIDE DEF D
<1> QED BY <1>6, <1>7

(* Induction over the parts of a timeline: what holds without rows, and with*)
(* one more row that is later than the others, holds of all.                *)
LEMMA PartInduction ==
  ASSUME NEW R, Rows(R), NEW Good, {} \in Good,
         \A S \in SUBSET R : S # {} /\ S \ {Latest(S)} \in Good => S \in Good
  PROVE  SUBSET R \subseteq Good
<1> DEFINE N == Cardinality(R)
           Q == {k \in 0 .. N : \A S \in SUBSET R : Cardinality(S) = k => S \in Good}
<1>1. \A S \in SUBSET R : Cardinality(S) \in 0 .. N /\ (Cardinality(S) = 0 <=> S = {})
  <2>1. TAKE S \in SUBSET R
  <2>2. /\ Cardinality(S) \in Nat /\ Cardinality(S) <= N
        /\ Cardinality(S) = 0 <=> S = {}
    BY PartOfRows
  <2>3. N \in Nat
    BY FS_CardinalityType DEF Rows
  <2> QED BY <2>2, <2>3
<1>2. N \in Nat
  BY FS_CardinalityType DEF Rows
<1>3. 0 \in Q
  BY <1>1, <1>2
<1>4. ASSUME NEW k \in 0 .. N, k < N, k \in Q
      PROVE  k + 1 \in Q
  <2>1. ASSUME NEW S \in SUBSET R, Cardinality(S) = k + 1
        PROVE  S \in Good
    <3>1. S # {}
      BY <1>1, <2>1
    <3>2. S \ {Latest(S)} \in SUBSET R /\ Cardinality(S \ {Latest(S)}) = k
      BY <2>1, <3>1, PartOfRows
    <3> QED BY <1>4, <3>1, <3>2
  <2>2. k + 1 \in 0 .. N
    BY <1>2, <1>4
  <2> QED BY <2>1, <2>2
<1>5. 0 .. N \subseteq Q
  <2> HIDE DEF Q, N
  <2> QED BY <1>2, <1>3, <1>4, SetInduction
<1> QED BY <1>1, <1>5
-----------------------------------------------------------------------------
(* What a row does to the cohorts                                           *)

Cohorts(R) ==
  [fired : BOOLEAN, severity : {"unknown"} \cup {r.severity : r \in R}, acked : Int, resolved : Int]

Starts == {D \in SUBSET (Int \ {0}) : IsFiniteSet(D)}

CountState(R) ==
  {s \in [cohorts : UNION {[D -> Cohorts(R)] : D \in Starts}, current : Nat, resolved : BOOLEAN] :
     s.current = 0 \/ s.current \in DOMAIN s.cohorts}

(* The rows of a timeline that count, under their keys. *)
CountRows(R) ==
  /\ Rows(R)
  /\ \A r \in R : /\ r.kind \in LifecycleKinds /\ r.id # 0 /\ r.key = r.id
                  /\ r.kind = "firing" => r.at = r.occ /\ r.occ # 0

CohortAt(s, k) == IF k \in DOMAIN s.cohorts THEN s.cohorts[k] ELSE NoCohort

(* A state in which cohort k is c and what else there is stays. *)
PutCohort(s, k, c) == [x \in DOMAIN s.cohorts \cup {k} |-> IF x = k THEN c ELSE s.cohorts[x]]

CountOf(C, current, resolved) == [cohorts |-> C, current |-> current, resolved |-> resolved]

(* What a state of the fold is made of. *)
LEMMA CountStateIs ==
  ASSUME NEW R, NEW s \in CountState(R)
  PROVE  /\ s = CountOf(s.cohorts, s.current, s.resolved)
         /\ s.cohorts \in [DOMAIN s.cohorts -> Cohorts(R)]
         /\ DOMAIN s.cohorts \in SUBSET (Int \ {0}) /\ IsFiniteSet(DOMAIN s.cohorts)
         /\ s.current \in Nat /\ s.resolved \in BOOLEAN
         /\ s.current = 0 \/ s.current \in DOMAIN s.cohorts
<1>1. /\ s \in [cohorts : UNION {[D -> Cohorts(R)] : D \in Starts}, current : Nat, resolved : BOOLEAN]
      /\ s.current = 0 \/ s.current \in DOMAIN s.cohorts
  BY DEF CountState
<1>2. PICK D \in Starts : s.cohorts \in [D -> Cohorts(R)]
  BY <1>1
<1>3. D = DOMAIN s.cohorts
  BY <1>2
<1>4. s = CountOf(s.cohorts, s.current, s.resolved) /\ s.current \in Nat /\ s.resolved \in BOOLEAN
  BY <1>1 DEF CountOf
<1> QED BY <1>1, <1>2, <1>3, <1>4 DEF Starts

(* A state stays one when a cohort of it is put or replaced. *)
LEMMA CountStateOf ==
  ASSUME NEW R, NEW s \in CountState(R), NEW k \in Int \ {0}, NEW c \in Cohorts(R),
         NEW current \in Nat, current = 0 \/ current = k \/ current \in DOMAIN s.cohorts,
         NEW resolved \in BOOLEAN
  PROVE  CountOf(PutCohort(s, k, c), current, resolved) \in CountState(R)
<1> DEFINE D == DOMAIN s.cohorts \cup {k}
           C == PutCohort(s, k, c)
<1>1. D \in Starts
  BY CountStateIs, FS_AddElement DEF Starts
<1>2. C \in [D -> Cohorts(R)]
  BY CountStateIs DEF PutCohort
<1> DEFINE U == UNION {[E -> Cohorts(R)] : E \in Starts}
<1>3. C \in U /\ DOMAIN C = D
  <2> HIDE DEF C, D
  <2> QED BY <1>1, <1>2
<1>4. current = 0 \/ current \in DOMAIN C
  BY <1>3
<1> HIDE DEF C
<1>5. CountOf(C, current, resolved) \in [cohorts : U, current : Nat, resolved : BOOLEAN]
  <2> HIDE DEF U
  <2> QED BY <1>3 DEF CountOf
<1>6. CountOf(C, current, resolved).current = current /\ CountOf(C, current, resolved).cohorts = C
  BY DEF CountOf
<1> QED BY <1>4, <1>5, <1>6, Zenon DEF CountState, C

(* The cohort at a start, also when there is none yet, is a cohort. *)
LEMMA NoCohortTyped ==
  ASSUME NEW R, NEW s \in CountState(R), NEW k
  PROVE  CohortAt(s, k) \in Cohorts(R)
<1>1. NoCohort \in Cohorts(R)
  BY DEF NoCohort, Cohorts, None
<1> QED BY <1>1, CountStateIs DEF CohortAt

(* Making a cohort known puts what is at its start. *)
LEMMA WithCohortIs ==
  ASSUME NEW R, NEW s \in CountState(R), NEW k
  PROVE  WithCohort(s, k) = CountOf(PutCohort(s, k, CohortAt(s, k)), s.current, s.resolved)
<1>1. [c \in DOMAIN s.cohorts \cup {k} |-> IF c \in DOMAIN s.cohorts THEN s.cohorts[c] ELSE NoCohort]
        = PutCohort(s, k, CohortAt(s, k))
  BY DEF PutCohort, CohortAt
<1>2. s = CountOf(s.cohorts, s.current, s.resolved)
  BY CountStateIs
<1>3. WithCohort(s, k) = [s EXCEPT !.cohorts = PutCohort(s, k, CohortAt(s, k))]
  BY <1>1 DEF WithCohort
<1> HIDE DEF PutCohort
<1> QED BY <1>2, <1>3 DEF CountOf

(* What a row does, written with PutCohort. *)
Opens(s, r) == s.current = 0 \/ r.occ > s.current \/ s.resolved

(* A firing puts its cohort, and opens it. *)
LEMMA FiringCounts ==
  ASSUME NEW R, CountRows(R), NEW r \in R, r.kind = "firing", NEW s \in CountState(R)
  PROVE  CountRow(s, r) = CountOf(PutCohort(s, r.occ, Reported(CohortAt(s, r.occ), r)),
                                  IF Opens(s, r) THEN r.occ ELSE s.current,
                                  IF Opens(s, r) THEN FALSE ELSE s.resolved)
<1> DEFINE k == WithCohort(s, r.occ)
           a == CohortAt(s, r.occ)
           c == Reported(a, r)
           o == [k EXCEPT !.cohorts[r.occ] = Reported(@, r)]
<1>1. CountRow(s, r) = IF Opens(s, r) THEN [o EXCEPT !.current = r.occ, !.resolved = FALSE] ELSE o
  BY DEF CountRow, CountFiring, Opens
<1>2. k = CountOf(PutCohort(s, r.occ, a), s.current, s.resolved)
  BY WithCohortIs
<1>3. o = [k EXCEPT !.cohorts = [k.cohorts EXCEPT ![r.occ] = Reported(k.cohorts[r.occ], r)]]
  OBVIOUS
<1>4. k.cohorts = PutCohort(s, r.occ, a) /\ k.cohorts[r.occ] = a
  BY <1>2 DEF CountOf, PutCohort
<1>5. [k.cohorts EXCEPT ![r.occ] = Reported(k.cohorts[r.occ], r)] = PutCohort(s, r.occ, c)
  <2> HIDE DEF k, a
  <2> QED BY <1>4 DEF PutCohort
<1>6. o = CountOf(PutCohort(s, r.occ, c), s.current, s.resolved)
  <2> HIDE DEF k, o, c, a
  <2> QED BY <1>2, <1>3, <1>5 DEF CountOf
<1> HIDE DEF o, k, c
<1> QED BY <1>1, <1>6 DEF CountOf, c

(* An acknowledgement puts the current cohort, once, while it is open. *)
LEMMA AcknowledgedCounts ==
  ASSUME NEW R, NEW r, r.kind = "acknowledged", NEW s \in CountState(R)
  PROVE  CountRow(s, r) =
           IF s.current = 0 \/ s.resolved \/ CohortAt(s, s.current).acked # None THEN s
           ELSE CountOf(PutCohort(s, s.current, [CohortAt(s, s.current) EXCEPT !.acked = r.at]),
                        s.current, s.resolved)
<1> DEFINE k == s.current
           a == CohortAt(s, k)
<1>1. CountRow(s, r) = IF k = 0 \/ s.resolved \/ s.cohorts[k].acked # None THEN s
                       ELSE [s EXCEPT !.cohorts[k].acked = r.at]
  BY DEF CountRow, CountAcknowledged
<1>2. CASE k = 0
  BY <1>1, <1>2
<1>3. CASE k # 0
  <2>1. k \in DOMAIN s.cohorts /\ a = s.cohorts[k]
    BY <1>3, CountStateIs DEF CohortAt
  <2>2. [s.cohorts EXCEPT ![k] = [a EXCEPT !.acked = r.at]] = PutCohort(s, k, [a EXCEPT !.acked = r.at])
    <3>1. DOMAIN s.cohorts \cup {k} = DOMAIN s.cohorts
      BY <2>1
    <3>2. s.cohorts = [x \in DOMAIN s.cohorts |-> s.cohorts[x]]
      BY CountStateIs
    <3> DEFINE c == [a EXCEPT !.acked = r.at]
    <3>3. PutCohort(s, k, c) = [x \in DOMAIN s.cohorts |-> IF x = k THEN c ELSE s.cohorts[x]]
      BY <3>1 DEF PutCohort
    <3> HIDE DEF c, k
    <3> QED BY <3>2, <3>3 DEF c
  <2>3. [s EXCEPT !.cohorts[k].acked = r.at]
          = [s EXCEPT !.cohorts = [s.cohorts EXCEPT ![k] = [a EXCEPT !.acked = r.at]]]
    BY <2>1
  <2>4. [s EXCEPT !.cohorts = PutCohort(s, k, [a EXCEPT !.acked = r.at])]
          = CountOf(PutCohort(s, k, [a EXCEPT !.acked = r.at]), s.current, s.resolved)
    BY CountStateIs DEF CountOf
  <2> QED BY <1>1, <2>1, <2>2, <2>3, <2>4
<1> QED BY <1>2, <1>3

(* The cohort that a resolution ends, and what is then known of it. *)
Ends(s, r) ==
  IF r.occ # 0 THEN r.occ ELSE IF s.current # 0 /\ ~ s.resolved THEN s.current ELSE - r.key

Ended(c, r) == [c EXCEPT !.resolved = IF c.resolved = None THEN r.at ELSE c.resolved]

Closes(s, r) == r.occ = 0 \/ s.current = 0 \/ r.occ >= s.current

(* A resolution puts the cohort it ends, and closes the current one. *)
LEMMA ResolvedCounts ==
  ASSUME NEW R, NEW r, r.kind = "resolved", NEW s \in CountState(R)
  PROVE  CountRow(s, r) = CountOf(PutCohort(s, Ends(s, r), Ended(CohortAt(s, Ends(s, r)), r)),
                                  s.current, IF Closes(s, r) THEN TRUE ELSE s.resolved)
<1> DEFINE own == Ends(s, r)
           k == WithCohort(s, own)
           a == CohortAt(s, own)
           c == Ended(a, r)
           o == [k EXCEPT !.cohorts[own].resolved = IF @ = None THEN r.at ELSE @]
<1>1. CountRow(s, r) = IF Closes(s, r) THEN [o EXCEPT !.resolved = TRUE] ELSE o
  BY DEF CountRow, CountResolved, Closes, Ends
<1> HIDE DEF own
<1>2. k = CountOf(PutCohort(s, own, a), s.current, s.resolved)
  BY WithCohortIs
<1>3. o = [k EXCEPT !.cohorts = [k.cohorts EXCEPT ![own] = Ended(k.cohorts[own], r)]]
  BY DEF Ended
<1>4. k.cohorts = PutCohort(s, own, a) /\ k.cohorts[own] = a
  BY <1>2 DEF CountOf, PutCohort
<1>5. [k.cohorts EXCEPT ![own] = Ended(k.cohorts[own], r)] = PutCohort(s, own, c)
  <2> HIDE DEF k, a
  <2> QED BY <1>4 DEF PutCohort
<1>6. o = CountOf(PutCohort(s, own, c), s.current, s.resolved)
  <2> HIDE DEF k, o, c, a
  <2> QED BY <1>2, <1>3, <1>5 DEF CountOf
<1> HIDE DEF o, k, c
<1> QED BY <1>1, <1>6 DEF CountOf, c, own

(* A row takes a state of the fold to another. *)
LEMMA CountTyped ==
  ASSUME NEW R, CountRows(R), NEW r \in R, NEW s \in CountState(R)
  PROVE  CountRow(s, r) \in CountState(R)
<1>1. /\ r.at \in Nat /\ r.occ \in Nat /\ r.key \in Int \ {0}
      /\ s.current \in Nat /\ s.resolved \in BOOLEAN
      /\ s.current = 0 \/ s.current \in DOMAIN s.cohorts
  BY CountStateIs DEF CountRows, Rows
<1>2. CASE r.kind = "firing"
  <2> DEFINE a == CohortAt(s, r.occ)
  <2>1. a \in Cohorts(R)
    BY NoCohortTyped
  <2>2. Reported(a, r) \in Cohorts(R)
    <3> HIDE DEF a
    <3> QED BY <2>1 DEF Reported, Cohorts
  <2>3. r.occ \in Int \ {0}
    BY <1>1, <1>2 DEF CountRows
  <2> DEFINE current  == IF Opens(s, r) THEN r.occ ELSE s.current
             resolved == IF Opens(s, r) THEN FALSE ELSE s.resolved
  <2>4. /\ current \in Nat /\ resolved \in BOOLEAN
        /\ current = 0 \/ current = r.occ \/ current \in DOMAIN s.cohorts
    BY <1>1
  <2>5. CountRow(s, r) = CountOf(PutCohort(s, r.occ, Reported(a, r)), current, resolved)
    BY <1>2, FiringCounts
  <2> HIDE DEF a, current, resolved
  <2> QED BY <2>2, <2>3, <2>4, <2>5, CountStateOf
<1>3. CASE r.kind = "acknowledged"
  <2> DEFINE a == CohortAt(s, s.current)
             c == [a EXCEPT !.acked = r.at]
  <2>1. a \in Cohorts(R)
    BY NoCohortTyped
  <2>2. c \in Cohorts(R)
    <3> HIDE DEF a
    <3> QED BY <1>1, <2>1 DEF Cohorts
  <2>3. s.current # 0 => CountOf(PutCohort(s, s.current, c), s.current, s.resolved) \in CountState(R)
    BY <1>1, <2>2, CountStateOf
  <2> QED BY <1>3, <2>3, AcknowledgedCounts
<1>4. CASE r.kind = "resolved"
  <2> DEFINE a == CohortAt(s, Ends(s, r))
  <2>1. a \in Cohorts(R)
    BY NoCohortTyped
  <2>2. Ended(a, r) \in Cohorts(R)
    <3> HIDE DEF a
    <3> QED BY <1>1, <2>1 DEF Ended, Cohorts
  <2>3. Ends(s, r) \in Int \ {0}
    BY <1>1 DEF Ends
  <2> DEFINE resolved == IF Closes(s, r) THEN TRUE ELSE s.resolved
  <2>4. resolved \in BOOLEAN
    BY <1>1
  <2>5. CountRow(s, r) = CountOf(PutCohort(s, Ends(s, r), Ended(a, r)), s.current, resolved)
    BY <1>4, ResolvedCounts
  <2> HIDE DEF a, resolved
  <2> QED BY <1>1, <2>2, <2>3, <2>4, <2>5, CountStateOf
<1> QED BY <1>2, <1>3, <1>4 DEF CountRows, LifecycleKinds

-----------------------------------------------------------------------------
(* The two folds, one row after the other                                   *)

(* The cohorts of rows are those without the last row, and that row. *)
LEMMA CountedStep ==
  ASSUME NEW R, CountRows(R)
  PROVE  /\ CountedRows({}) = BeforeFirst
         /\ \A T \in SUBSET R : CountedRows(T) \in CountState(R)
         /\ R # {} => CountedRows(R) = CountRow(CountedRows(R \ {Latest(R)}), Latest(R))
<1> DEFINE V    == CountState(R)
           step == [r \in R |-> [v \in V |-> CountRow(v, r)]]
           Rec(h, T) == h = [S \in SUBSET T |->
                               IF S = {} THEN BeforeFirst ELSE CountRow(h[S \ {Latest(S)}], Latest(S))]
<1>1. Rows(R)
  BY DEF CountRows
<1>2. BeforeFirst \in V
  <2>1. << >> \in [{} -> Cohorts(R)] /\ DOMAIN << >> = {}
    OBVIOUS
  <2>2. {} \in Starts
    BY FS_EmptySet DEF Starts
  <2> DEFINE U == UNION {[D -> Cohorts(R)] : D \in Starts}
  <2>3. << >> \in U
    BY <2>1, <2>2
  <2>4. BeforeFirst \in [cohorts : U, current : Nat, resolved : BOOLEAN] /\ BeforeFirst.current = 0
    <3> HIDE DEF U
    <3> QED BY <2>3 DEF BeforeFirst
  <2> QED BY <2>4, Zenon DEF CountState
<1>3. \A r \in R : \A v \in V : step[r][v] \in V
  <2> TAKE r \in R
  <2> TAKE v \in V
  <2>1. step[r][v] = CountRow(v, r)
    OBVIOUS
  <2> QED BY <2>1, CountTyped
<1>4. PICK f : FoldOf(f, SUBSET R, BeforeFirst, step) /\ \A S \in SUBSET R : f[S] \in V
  <2> HIDE DEF step, V
  <2> QED BY <1>1, <1>2, <1>3, FoldExists
<1>5. \A S \in SUBSET R : S # {} => Latest(S) \in R /\ Latest(S) \in S /\ S \ {Latest(S)} \in SUBSET R
  BY <1>1, PartOfRows
<1>6. /\ f[{}] = BeforeFirst
      /\ \A S \in SUBSET R : S # {} => f[S] = CountRow(f[S \ {Latest(S)}], Latest(S))
  <2>1. \A S \in SUBSET R : f[S] = IF S = {} THEN BeforeFirst ELSE step[Latest(S)][f[S \ {Latest(S)}]]
    BY <1>4, Zenon DEF FoldOf
  <2>2. \A r \in R : \A v \in V : step[r][v] = CountRow(v, r)
    OBVIOUS
  <2> HIDE DEF step, V
  <2> QED BY <1>4, <1>5, <2>1, <2>2
<1>7. ASSUME NEW T \in SUBSET R
      PROVE  CountedRows(T) = f[T]
  <2> DEFINE h == CHOOSE h : Rec(h, T)
             g == [S \in SUBSET T |-> f[S]]
  <2>1. CountedRows(T) = h[T]
    BY DEF CountedRows
  <2>2. \A S \in SUBSET T : S \in SUBSET R /\ S \ {Latest(S)} \in SUBSET T
    OBVIOUS
  <2>3. g = [S \in SUBSET T |-> IF S = {} THEN BeforeFirst ELSE CountRow(g[S \ {Latest(S)}], Latest(S))]
    <3>1. \A S \in SUBSET T :
            g[S] = IF S = {} THEN BeforeFirst ELSE CountRow(g[S \ {Latest(S)}], Latest(S))
      BY <1>6, <2>2
    <3>2. DOMAIN g = SUBSET T /\ g = [S \in SUBSET T |-> g[S]]
      OBVIOUS
    <3> HIDE DEF g
    <3> QED BY <3>1, <3>2
  <2> HIDE DEF g
  <2>4. Rec(h, T)
    BY <2>3, Zenon
  <2> HIDE DEF h
  <2>5. \A S \in SUBSET T : h[S] = IF S = {} THEN BeforeFirst ELSE CountRow(h[S \ {Latest(S)}], Latest(S))
    BY <2>4, Zenon
  <2> DEFINE Good == {S \in SUBSET T : h[S] = f[S]}
  <2>6. {} \in Good
    BY <1>6, <2>5
  <2>7. \A S \in SUBSET T : S # {} /\ S \ {Latest(S)} \in Good => S \in Good
    BY <1>6, <2>2, <2>5
  <2>8. SUBSET T \subseteq Good
    <3>1. Rows(T)
      BY <1>1, PartOfRows
    <3> HIDE DEF Good
    <3> QED BY <2>6, <2>7, <3>1, PartInduction
  <2> QED BY <2>1, <2>8
<1>8. {} \in SUBSET R /\ R \in SUBSET R
  OBVIOUS
<1> QED BY <1>4, <1>5, <1>6, <1>7, <1>8

(* Effect tabulates ApplyRow. *)
LEMMA EffectIsApplyRow ==
  ASSUME NEW R, NEW p \in State, NEW r \in R
  PROVE  Effect(R)[<<p, r>>] = ApplyRow(p, r)
<1> HIDE DEF State
<1> QED BY DEF Effect

(* So is the projection of the rows. *)
LEMMA ProjectedStep ==
  ASSUME NEW R, Rows(R)
  PROVE  /\ project_incident({}) = NoEvents
         /\ project_incident(R) \in State
         /\ R # {} => project_incident(R) = ApplyRow(project_incident(R \ {Latest(R)}), Latest(R))
<1> DEFINE V    == State
           step == [r \in R |-> [v \in V |-> ApplyRow(v, r)]]
           Rec(h, T) == h = [S \in SUBSET T |->
                               IF S = {} THEN NoEvents ELSE Effect(T)[<<h[S \ {Latest(S)}], Latest(S)>>]]
<1>1. NoEvents \in V
  BY DEF NoEvents, State
<1>2. \A r \in R : \A v \in V : step[r][v] \in V
  <2> TAKE r \in R
  <2> TAKE v \in V
  <2>1. step[r][v] = ApplyRow(v, r)
    OBVIOUS
  <2>2. r.occ \in Nat
    BY DEF Rows
  <2> QED BY <2>1, <2>2 DEF ApplyRow, ApplyFiring, ApplyResolved, State
<1>3. PICK f : FoldOf(f, SUBSET R, NoEvents, step) /\ \A S \in SUBSET R : f[S] \in V
  <2> HIDE DEF step, V
  <2> QED BY <1>1, <1>2, FoldExists
<1>4. \A S \in SUBSET R : S # {} => Latest(S) \in R /\ Latest(S) \in S /\ S \ {Latest(S)} \in SUBSET R
  BY PartOfRows
<1>5. /\ f[{}] = NoEvents
      /\ \A S \in SUBSET R : S # {} => f[S] = ApplyRow(f[S \ {Latest(S)}], Latest(S))
  <2>1. \A S \in SUBSET R : f[S] = IF S = {} THEN NoEvents ELSE step[Latest(S)][f[S \ {Latest(S)}]]
    BY <1>3, Zenon DEF FoldOf
  <2>2. \A r \in R : \A v \in V : step[r][v] = ApplyRow(v, r)
    OBVIOUS
  <2> HIDE DEF step, V
  <2> QED BY <1>3, <1>4, <2>1, <2>2
<1>6. ASSUME NEW T \in SUBSET R
      PROVE  project_incident(T) = f[T]
  <2> DEFINE h == CHOOSE h : Rec(h, T)
             g == [S \in SUBSET T |-> f[S]]
  <2>1. project_incident(T) = h[T]
    BY DEF project_incident
  <2>2. /\ \A S \in SUBSET T : S \in SUBSET R /\ S \ {Latest(S)} \in SUBSET T
        /\ \A S \in SUBSET T : S # {} => Latest(S) \in T
    <3>1. Rows(T)
      BY PartOfRows
    <3> QED BY <3>1, PartOfRows
  <2>3. \A S \in SUBSET T : S # {} =>
          f[S] = Effect(T)[<<f[S \ {Latest(S)}], Latest(S)>>]
    <3> SUFFICES ASSUME NEW S \in SUBSET T, S # {}
                 PROVE  f[S] = Effect(T)[<<f[S \ {Latest(S)}], Latest(S)>>]
      OBVIOUS
    <3>1. f[S \ {Latest(S)}] \in State /\ Latest(S) \in T
      BY <1>3, <2>2
    <3> QED BY <1>5, <2>2, <3>1, EffectIsApplyRow
  <2>4. g = [S \in SUBSET T |-> IF S = {} THEN NoEvents ELSE Effect(T)[<<g[S \ {Latest(S)}], Latest(S)>>]]
    <3>1. \A S \in SUBSET T :
            g[S] = IF S = {} THEN NoEvents ELSE Effect(T)[<<g[S \ {Latest(S)}], Latest(S)>>]
      BY <1>5, <2>2, <2>3
    <3>2. DOMAIN g = SUBSET T /\ g = [S \in SUBSET T |-> g[S]]
      OBVIOUS
    <3> HIDE DEF g
    <3> QED BY <3>1, <3>2
  <2> HIDE DEF g
  <2>5. Rec(h, T)
    BY <2>4, Zenon
  <2> HIDE DEF h
  <2>6. \A S \in SUBSET T :
          h[S] = IF S = {} THEN NoEvents ELSE Effect(T)[<<h[S \ {Latest(S)}], Latest(S)>>]
    BY <2>5, Zenon
  <2> DEFINE Good == {S \in SUBSET T : h[S] = f[S]}
  <2>7. {} \in Good
    BY <1>5, <2>6
  <2>8. \A S \in SUBSET T : S # {} /\ S \ {Latest(S)} \in Good => S \in Good
    BY <2>2, <2>6, <2>3
  <2>9. SUBSET T \subseteq Good
    <3>1. Rows(T)
      BY PartOfRows
    <3> HIDE DEF Good
    <3> QED BY <2>7, <2>8, <3>1, PartInduction
  <2> QED BY <2>1, <2>9
<1>7. {} \in SUBSET R /\ R \in SUBSET R
  OBVIOUS
<1> QED BY <1>3, <1>4, <1>5, <1>6, <1>7

-----------------------------------------------------------------------------
(* Cohorts mirror the projection                                            *)

(* Row r acknowledges cohort k. *)
AckedBy(S, r, k) ==
  /\ r.kind = "acknowledged"
  /\ project_incident(UpTo(S, r)).starts = k
  /\ project_incident(UpTo(S, r)).status = "acknowledged"

Mirrors(S) ==
  LET s == CountedRows(S)
      p == project_incident(S)
  IN  /\ s.current = p.starts
      /\ s.resolved <=> p.status = "resolved"
      /\ \A k \in Int \ {0} : CohortAt(s, k).acked # None <=> \E r \in S : AckedBy(S, r, k)

(* What is at a start after a cohort has been put. *)
LEMMA CohortAfter ==
  ASSUME NEW s, NEW k, NEW c, NEW current, NEW resolved, NEW x
  PROVE  CohortAt(CountOf(PutCohort(s, k, c), current, resolved), x) = IF x = k THEN c ELSE CohortAt(s, x)
BY DEF CohortAt, CountOf, PutCohort

(* The rows up to a row do not change with one that is later.               *)
LEMMA UpToEarlier ==
  ASSUME NEW S, Rows(S), S # {}
  PROVE  /\ UpTo(S, Latest(S)) = S
         /\ \A r \in S \ {Latest(S)} : UpTo(S, r) = UpTo(S \ {Latest(S)}, r)
BY LatestIsLast DEF UpTo

(* The last row does the same to the cohorts and to the projection. *)
LEMMA MirrorStep ==
  ASSUME NEW R, CountRows(R), NEW S \in SUBSET R, S # {}, Mirrors(S \ {Latest(S)})
  PROVE  Mirrors(S)
<1> DEFINE l  == Latest(S)
           T  == S \ {l}
           s0 == CountedRows(T)
           p0 == project_incident(T)
           s  == CountedRows(S)
           p  == project_incident(S)
<1>1. Rows(S) /\ l \in S /\ l \in R /\ T \in SUBSET R /\ CountRows(S)
  BY PartOfRows DEF CountRows
<1>2. s0 \in CountState(R) /\ s \in CountState(R) /\ s = CountRow(s0, l)
  <2>1. s0 \in CountState(R) /\ s \in CountState(R)
    BY <1>1, CountedStep
  <2>2. s = CountRow(s0, l)
    BY <1>1, CountedStep
  <2> QED BY <2>1, <2>2
<1>3. p = ApplyRow(p0, l) /\ p0 \in State
  <2>1. Rows(T)
    BY <1>1, PartOfRows DEF CountRows
  <2> QED BY <1>1, <2>1, ProjectedStep
<1>4. /\ s0.current = p0.starts
      /\ s0.resolved <=> p0.status = "resolved"
      /\ \A k \in Int \ {0} : CohortAt(s0, k).acked # None <=> \E r \in T : AckedBy(T, r, k)
  BY DEF Mirrors
<1>5. \A k : (\E r \in S : AckedBy(S, r, k)) <=>
               \/ \E r \in T : AckedBy(T, r, k)
               \/ l.kind = "acknowledged" /\ p.starts = k /\ p.status = "acknowledged"
  <2>1. UpTo(S, l) = S /\ \A r \in T : UpTo(S, r) = UpTo(T, r)
    BY <1>1, UpToEarlier
  <2>2. \A k : \A r \in T : AckedBy(S, r, k) <=> AckedBy(T, r, k)
    BY <2>1 DEF AckedBy
  <2>3. \A k : AckedBy(S, l, k) <=> l.kind = "acknowledged" /\ p.starts = k /\ p.status = "acknowledged"
    BY <2>1 DEF AckedBy
  <2>4. \A k : (\E r \in S : AckedBy(S, r, k)) <=> AckedBy(S, l, k) \/ \E r \in T : AckedBy(S, r, k)
    BY <1>1
  <2> HIDE DEF T, l, p
  <2> QED BY <2>2, <2>3, <2>4
<1>6. /\ s0.current \in Nat /\ s0.resolved \in BOOLEAN /\ l.at \in Nat /\ l.occ \in Nat
      /\ \A k : CohortAt(s0, k) \in Cohorts(R)
  BY <1>1, <1>2, CountStateIs, NoCohortTyped DEF CountRows, Rows
<1> SUFFICES /\ s.current = p.starts
             /\ s.resolved <=> p.status = "resolved"
             /\ \A k \in Int \ {0} : CohortAt(s, k).acked # None <=>
                  \/ CohortAt(s0, k).acked # None
                  \/ l.kind = "acknowledged" /\ p.starts = k /\ p.status = "acknowledged"
  BY <1>4, <1>5 DEF Mirrors
<1> HIDE DEF l, T, s0, p0, s, p
<1>7. CASE l.kind = "firing"
  <2> DEFINE c == Reported(CohortAt(s0, l.occ), l)
  <2>1. s = CountOf(PutCohort(s0, l.occ, c), IF Opens(s0, l) THEN l.occ ELSE s0.current,
                    IF Opens(s0, l) THEN FALSE ELSE s0.resolved)
    BY <1>1, <1>2, <1>7, FiringCounts
  <2>2. c.acked = CohortAt(s0, l.occ).acked
    BY <1>6 DEF Reported, Cohorts
  <2>3. p = IF Opens(s0, l) THEN [status |-> "open", starts |-> l.occ, acked |-> FALSE] ELSE p0
    BY <1>3, <1>4, <1>6, <1>7 DEF ApplyRow, ApplyFiring, Opens
  <2> HIDE DEF c
  <2>4. \A k : CohortAt(s, k) = IF k = l.occ THEN c ELSE CohortAt(s0, k)
    <3> DEFINE current  == IF Opens(s0, l) THEN l.occ ELSE s0.current
               resolved == IF Opens(s0, l) THEN FALSE ELSE s0.resolved
    <3>1. s = CountOf(PutCohort(s0, l.occ, c), current, resolved)
      BY <2>1
    <3> HIDE DEF current, resolved
    <3> QED BY <3>1, CohortAfter
  <2>5. /\ s.current = IF Opens(s0, l) THEN l.occ ELSE s0.current
        /\ s.resolved = IF Opens(s0, l) THEN FALSE ELSE s0.resolved
    BY <2>1 DEF CountOf
  <2> QED BY <1>4, <1>7, <2>2, <2>3, <2>4, <2>5
<1>8. CASE l.kind = "resolved"
  <2> DEFINE own == Ends(s0, l)
             c == Ended(CohortAt(s0, own), l)
  <2>1. s = CountOf(PutCohort(s0, own, c), s0.current, IF Closes(s0, l) THEN TRUE ELSE s0.resolved)
    BY <1>2, <1>8, ResolvedCounts
  <2>2. c.acked = CohortAt(s0, own).acked
    <3> HIDE DEF own
    <3> QED BY <1>6 DEF Ended, Cohorts
  <2>3. p = IF Closes(s0, l) THEN [p0 EXCEPT !.status = "resolved"] ELSE p0
    BY <1>3, <1>4, <1>8 DEF ApplyRow, ApplyResolved, Closes
  <2> HIDE DEF c, own
  <2>4. \A k : CohortAt(s, k) = IF k = own THEN c ELSE CohortAt(s0, k)
    <3> DEFINE resolved == IF Closes(s0, l) THEN TRUE ELSE s0.resolved
    <3>1. s = CountOf(PutCohort(s0, own, c), s0.current, resolved)
      BY <2>1
    <3> HIDE DEF resolved
    <3> QED BY <3>1, CohortAfter
  <2>5. s.current = s0.current /\ s.resolved = IF Closes(s0, l) THEN TRUE ELSE s0.resolved
    BY <2>1 DEF CountOf
  <2>6. /\ p.starts = p0.starts
        /\ p.status = IF Closes(s0, l) THEN "resolved" ELSE p0.status
    BY <1>3, <2>3 DEF State
  <2> QED BY <1>4, <1>8, <2>2, <2>4, <2>5, <2>6
<1>9. CASE l.kind = "acknowledged"
  <2> DEFINE k0 == s0.current
             c  == [CohortAt(s0, k0) EXCEPT !.acked = l.at]
  <2>1. s = IF k0 = 0 \/ s0.resolved \/ CohortAt(s0, k0).acked # None THEN s0
            ELSE CountOf(PutCohort(s0, k0, c), k0, s0.resolved)
    BY <1>2, <1>9, AcknowledgedCounts
  <2>2. c.acked = l.at /\ l.at # None
    BY <1>6 DEF Cohorts, None
  <2>3. /\ p.starts = p0.starts
        /\ p.status = IF s0.resolved THEN "resolved" ELSE "acknowledged"
    BY <1>3, <1>4, <1>9 DEF ApplyRow, State
  <2> HIDE DEF c
  <2>4. CASE k0 = 0 \/ s0.resolved \/ CohortAt(s0, k0).acked # None
    BY <1>4, <1>9, <2>1, <2>3, <2>4
  <2>5. CASE ~ (k0 = 0 \/ s0.resolved \/ CohortAt(s0, k0).acked # None)
    <3>1. \A k : CohortAt(s, k) = IF k = k0 THEN c ELSE CohortAt(s0, k)
      BY <2>1, <2>5, CohortAfter
    <3>2. s.current = k0 /\ s.resolved = s0.resolved
      BY <2>1, <2>5 DEF CountOf
    <3> QED BY <1>4, <1>9, <2>2, <2>3, <2>5, <3>1, <3>2
  <2> QED BY <2>4, <2>5
<1>10. l.kind \in LifecycleKinds
  BY <1>1 DEF CountRows
<1> QED BY <1>7, <1>8, <1>9, <1>10 DEF LifecycleKinds

(* So they agree on any rows that count. *)
LEMMA CohortsMirror ==
  ASSUME NEW R, CountRows(R)
  PROVE  Mirrors(R)
<1> DEFINE Good == {S \in SUBSET R : Mirrors(S)}
<1>1. Mirrors({})
  <2>1. CountedRows({}) = BeforeFirst /\ project_incident({}) = NoEvents
    BY CountedStep, ProjectedStep DEF CountRows
  <2>2. DOMAIN BeforeFirst.cohorts = {} /\ BeforeFirst.current = 0 /\ ~ BeforeFirst.resolved
    BY DEF BeforeFirst
  <2>3. \A k : CohortAt(BeforeFirst, k).acked = None
    BY <2>2 DEF CohortAt, NoCohort
  <2> QED BY <2>1, <2>2, <2>3 DEF Mirrors, NoEvents
<1>2. SUBSET R \subseteq Good
  <2>1. \A S \in SUBSET R : S # {} /\ S \ {Latest(S)} \in Good => S \in Good
    BY MirrorStep
  <2>2. {} \in Good
    BY <1>1
  <2> HIDE DEF Good
  <2> QED BY <2>1, <2>2, PartInduction DEF CountRows
<1> QED BY <1>2

(* The rows of this behaviour count, under their keys. *)
RowsInv ==
  /\ setup \in Setups
  /\ rows \subseteq setup.rows
  /\ now \in Nat

(* Rows come only from the setup. *)
LEMMA RowsInvHolds == Spec => []RowsInv
<1>1. Init => RowsInv
  BY DEF Init, RowsInv
<1>2. RowsInv /\ [Next]_vars => RowsInv'
  <2> SUFFICES ASSUME RowsInv, [Next]_vars PROVE RowsInv'
    OBVIOUS
  <2>1. CASE Tick
    BY <2>1 DEF RowsInv, Tick
  <2>2. ASSUME NEW r \in setup.rows, Arrive(r)
        PROVE  RowsInv'
    BY <2>2 DEF RowsInv, Arrive
  <2>3. CASE UNCHANGED <<setup, now, rows>>
    BY <2>3 DEF RowsInv
  <2>4. ASSUME NEW t \in Thread, Request(t) \/ Step(t)
        PROVE  UNCHANGED <<setup, now, rows>>
    BY <2>4 DEF Request, Step, LookForStale, AcquireRefresh, Follow, LookAgain, BeginCompute, Put,
                FailRefresh, FinishCold
  <2> QED BY <2>1, <2>2, <2>3, <2>4 DEF Next, vars
<1> QED BY <1>1, <1>2, PTL DEF Spec

(* Lifecycle rows in the order of their keys are rows that count. *)
LEMMA KeyedRows ==
  ASSUME RowsInv, NEW L \in SUBSET rows, \A r \in L : r.kind \in LifecycleKinds
  PROVE  CountRows(ByKey(L))
<1> DEFINE K == ByKey(L)
           f == [r \in L |-> [r EXCEPT !.id = r.key]]
<1>1. /\ IsFiniteSet(setup.rows) /\ L \subseteq setup.rows
      /\ \A r \in L : /\ "id" \in DOMAIN r
                      /\ r.at \in Nat /\ r.occ \in Nat /\ r.key \in Nat \ {0}
                      /\ r.kind = "firing" => r.at = r.occ /\ r.occ # 0
      /\ \A r, q \in L : r.key = q.key => r = q
  BY CacheAssumption DEF RowsInv
<1>2. IsFiniteSet(K)
  <2>1. IsFiniteSet(L)
    BY <1>1, FS_Subset
  <2>2. f \in Surjection(L, K)
    BY DEF Surjection, ByKey
  <2> HIDE DEF f, K
  <2> QED BY <2>1, <2>2, FS_Surjection
<1>3. \A x \in K : \E r \in L :
        /\ x = [r EXCEPT !.id = r.key]
        /\ x.at = r.at /\ x.occ = r.occ /\ x.kind = r.kind /\ x.key = r.key /\ x.id = r.key
  <2>1. TAKE x \in K
  <2>2. PICK r \in L : x = [r EXCEPT !.id = r.key]
    BY DEF ByKey
  <2>3. x.at = r.at /\ x.occ = r.occ /\ x.kind = r.kind /\ x.key = r.key
    BY <2>2
  <2>4. x.id = r.key
    BY <1>1, <2>2
  <2> QED BY <2>2, <2>3, <2>4
<1> HIDE DEF K
<1>4. \A x, y \in K : x.id = y.id => x = y
  BY <1>1, <1>3
<1>5. Rows(K)
  BY <1>1, <1>2, <1>3, <1>4 DEF Rows
<1>6. \A x \in K : /\ x.kind \in LifecycleKinds /\ x.id # 0 /\ x.key = x.id
                   /\ x.kind = "firing" => x.at = x.occ /\ x.occ # 0
  BY <1>1, <1>3
<1> QED BY <1>5, <1>6 DEF CountRows, K

(* On the rows of any window, whatever instants they share and in whatever  *)
(* order they came, the statistics see the occurrences that the incident's  *)
(* own projection went through: the code's "Mirror project_incident".       *)
THEOREM CohortsFollowProjection == Spec => []CohortsMirrorProjection
<1>1. ASSUME RowsInv
      PROVE  CohortsMirrorProjection
  <2> SUFFICES ASSUME NEW ends \in 1 .. now
               PROVE  LET R == ByKey(LifecycleRows(Lifecycle, ends))
                          s == Counted(Lifecycle, ends)
                          P(r) == project_incident(UpTo(R, r))
                      IN  R # {} =>
                           /\ s.current = project_incident(R).starts
                           /\ s.resolved <=> project_incident(R).status = "resolved"
                           /\ \A k \in DOMAIN s.cohorts :
                                s.cohorts[k].acked # None <=>
                                  \E r \in R : r.kind = "acknowledged" /\ P(r).starts = k
                                                 /\ P(r).status = "acknowledged"
    BY DEF CohortsMirrorProjection
  <2> DEFINE L == LifecycleRows(Lifecycle, ends)
             R == ByKey(L)
             s == Counted(Lifecycle, ends)
  <2>1. L \in SUBSET rows /\ \A r \in L : r.kind \in LifecycleKinds
    BY DEF LifecycleRows, Lifecycle
  <2>2. CountRows(R)
    BY <1>1, <2>1, KeyedRows
  <2>3. s = CountedRows(R)
    BY DEF Counted
  <2> HIDE DEF R, s
  <2>4. Mirrors(R) /\ s \in CountState(R)
    BY <2>2, <2>3, CohortsMirror, CountedStep
  <2>5. \A k \in DOMAIN s.cohorts : k \in Int \ {0} /\ CohortAt(s, k) = s.cohorts[k]
    BY <2>4, CountStateIs DEF CohortAt
  <2>6. /\ s.current = project_incident(R).starts
        /\ s.resolved <=> project_incident(R).status = "resolved"
        /\ \A k \in Int \ {0} : CohortAt(s, k).acked # None <=> \E r \in R : AckedBy(R, r, k)
    BY <2>3, <2>4 DEF Mirrors
  <2>7. \A k \in DOMAIN s.cohorts : s.cohorts[k].acked # None <=> \E r \in R : AckedBy(R, r, k)
    BY <2>5, <2>6
  <2> QED BY <2>6, <2>7 DEF AckedBy, R, s
<1> QED BY <1>1, RowsInvHolds, PTL

-----------------------------------------------------------------------------
(* A window loses nothing of the occurrences that begin in it               *)

(* Resolutions are dated after the beginning of their occurrence. *)
ResolvedLater(R) == \A r \in R : r.kind = "resolved" => r.at >= r.occ

(* What is known after a cohort has been put. *)
LEMMA PutDomain ==
  ASSUME NEW s, NEW k, NEW c, NEW current, NEW resolved
  PROVE  /\ DOMAIN CountOf(PutCohort(s, k, c), current, resolved).cohorts = DOMAIN s.cohorts \cup {k}
         /\ CountOf(PutCohort(s, k, c), current, resolved).current = current
         /\ CountOf(PutCohort(s, k, c), current, resolved).resolved = resolved
BY DEF CountOf, PutCohort

(* What is before a window are cohorts before it. *)
LEMMA OldCohorts ==
  ASSUME NEW R, CountRows(R), ResolvedLater(R), NEW from \in Int, \A r \in R : r.at < from
  PROVE  \A k \in DOMAIN CountedRows(R).cohorts : k < from
<1> DEFINE Below(S) == \A k \in DOMAIN CountedRows(S).cohorts : k < from
           Good == {S \in SUBSET R : Below(S)}
<1>1. Below({})
  <2>1. CountedRows({}) = BeforeFirst
    BY CountedStep
  <2>2. DOMAIN BeforeFirst.cohorts = {}
    BY DEF BeforeFirst
  <2> QED BY <2>1, <2>2
<1>2. ASSUME NEW S \in SUBSET R, S # {}, Below(S \ {Latest(S)})
      PROVE  Below(S)
  <2> DEFINE l  == Latest(S)
             s0 == CountedRows(S \ {l})
             s  == CountedRows(S)
  <2>1. l \in R /\ S \ {l} \in SUBSET R /\ CountRows(S)
    BY <1>2, PartOfRows DEF CountRows
  <2>2. s0 \in CountState(R) /\ s = CountRow(s0, l)
    BY <1>2, <2>1, CountedStep
  <2>3. /\ l.at \in Nat /\ l.occ \in Nat /\ l.key \in Nat \ {0} /\ l.at < from
        /\ l.kind = "resolved" => l.at >= l.occ
        /\ l.kind = "firing" => l.at = l.occ
        /\ s0.current = 0 \/ s0.current \in DOMAIN s0.cohorts
    BY <2>1, <2>2, CountStateIs DEF CountRows, Rows, ResolvedLater
  <2>4. \A k \in DOMAIN s0.cohorts : k < from
    BY <1>2
  <2> HIDE DEF l, s0, s
  <2>5. CASE l.kind = "firing"
    <3>1. DOMAIN s.cohorts = DOMAIN s0.cohorts \cup {l.occ}
      <4> DEFINE c == Reported(CohortAt(s0, l.occ), l)
                 current == IF Opens(s0, l) THEN l.occ ELSE s0.current
                 resolved == IF Opens(s0, l) THEN FALSE ELSE s0.resolved
      <4>1. s = CountOf(PutCohort(s0, l.occ, c), current, resolved)
        BY <2>1, <2>2, <2>5, FiringCounts
      <4> HIDE DEF c, current, resolved
      <4> QED BY <4>1, PutDomain
    <3> QED BY <2>3, <2>4, <2>5, <3>1 DEF s
  <2>6. CASE l.kind = "acknowledged"
    <3>1. s = s0 \/ (s0.current # 0 /\ DOMAIN s.cohorts = DOMAIN s0.cohorts \cup {s0.current})
      <4> DEFINE c == [CohortAt(s0, s0.current) EXCEPT !.acked = l.at]
      <4>1. s = s0 \/ (s0.current # 0 /\ s = CountOf(PutCohort(s0, s0.current, c), s0.current, s0.resolved))
        BY <2>1, <2>2, <2>6, AcknowledgedCounts
      <4> HIDE DEF c
      <4> QED BY <4>1, PutDomain
    <3> QED BY <2>3, <2>4, <3>1 DEF s
  <2>7. CASE l.kind = "resolved"
    <3>1. DOMAIN s.cohorts = DOMAIN s0.cohorts \cup {Ends(s0, l)}
      <4> DEFINE own == Ends(s0, l)
                 c == Ended(CohortAt(s0, own), l)
                 resolved == IF Closes(s0, l) THEN TRUE ELSE s0.resolved
      <4>1. s = CountOf(PutCohort(s0, own, c), s0.current, resolved)
        BY <2>2, <2>7, ResolvedCounts
      <4> HIDE DEF own, c, resolved
      <4>2. DOMAIN s.cohorts = DOMAIN s0.cohorts \cup {own}
        BY <4>1, PutDomain
      <4> QED BY <4>2 DEF own
    <3>2. Ends(s0, l) < from
      BY <2>3, <2>4, <2>7 DEF Ends
    <3> QED BY <2>4, <3>1, <3>2 DEF s
  <2> QED BY <2>1, <2>5, <2>6, <2>7 DEF CountRows, LifecycleKinds, l
<1>3. SUBSET R \subseteq Good
  <2>1. \A S \in SUBSET R : S # {} /\ S \ {Latest(S)} \in Good => S \in Good
    BY <1>2
  <2>2. {} \in Good
    BY <1>1
  <2> HIDE DEF Good
  <2> QED BY <2>1, <2>2, PartInduction DEF CountRows
<1> QED BY <1>3

(* Two states that agree on what begins at from or later: also on the       *)
(* current occurrence, unless it is an earlier one, or none, in both.       *)
AgreeFrom(from, a, c) ==
  /\ \A k \in Int : k >= from =>
       /\ k \in DOMAIN a.cohorts <=> k \in DOMAIN c.cohorts
       /\ CohortAt(a, k) = CohortAt(c, k)
  /\ \/ a.current >= from /\ a.current = c.current /\ a.resolved = c.resolved
     \/ a.current < from /\ c.current = 0

(* A later row does the same to states that agree from an instant on. *)
LEMMA AgreementStays ==
  ASSUME NEW R, CountRows(R), ResolvedLater(R), NEW from \in Nat \ {0},
         NEW l \in R, l.at >= from,
         NEW a \in CountState(R), NEW c \in CountState(R), AgreeFrom(from, a, c)
  PROVE  AgreeFrom(from, CountRow(a, l), CountRow(c, l))
<1> DEFINE x == CountRow(a, l)
           y == CountRow(c, l)
<1>1. /\ l.at \in Nat /\ l.occ \in Nat /\ l.key \in Nat \ {0}
      /\ a.current \in Nat /\ c.current \in Nat
  BY CountStateIs DEF CountRows, Rows
<1>2. CASE l.kind = "firing"
  <2> DEFINE ca == Reported(CohortAt(a, l.occ), l)
             cc == Reported(CohortAt(c, l.occ), l)
             cur(s) == IF Opens(s, l) THEN l.occ ELSE s.current
             res(s) == IF Opens(s, l) THEN FALSE ELSE s.resolved
  <2>1. /\ x = CountOf(PutCohort(a, l.occ, ca), cur(a), res(a))
        /\ y = CountOf(PutCohort(c, l.occ, cc), cur(c), res(c))
    BY <1>2, FiringCounts
  <2>2. l.occ >= from /\ l.occ \in Int
    BY <1>1, <1>2 DEF CountRows
  <2>3. ca = cc
    BY <2>2 DEF AgreeFrom
  <2>4. \/ a.current >= from /\ cur(a) >= from /\ cur(a) = cur(c) /\ res(a) = res(c)
        \/ cur(a) = l.occ /\ cur(c) = l.occ /\ ~ res(a) /\ ~ res(c)
    <3>1. CASE a.current >= from /\ a.current = c.current /\ a.resolved = c.resolved
      BY <1>1, <2>2, <3>1 DEF Opens
    <3>2. CASE a.current < from /\ c.current = 0
      <4>1. Opens(a, l) /\ Opens(c, l)
        BY <1>1, <2>2, <3>2 DEF Opens
      <4> QED BY <4>1
    <3> QED BY <3>1, <3>2 DEF AgreeFrom
  <2>5. cur(a) >= from /\ cur(a) = cur(c) /\ res(a) = res(c)
    <3>1. res(a) \in BOOLEAN /\ res(c) \in BOOLEAN
      BY CountStateIs
    <3> QED BY <2>2, <2>4, <3>1
  <2> HIDE DEF ca, cc, cur, res
  <2>6. /\ \A k : CohortAt(x, k) = IF k = l.occ THEN ca ELSE CohortAt(a, k)
        /\ \A k : CohortAt(y, k) = IF k = l.occ THEN cc ELSE CohortAt(c, k)
    BY <2>1, CohortAfter
  <2>7. /\ DOMAIN x.cohorts = DOMAIN a.cohorts \cup {l.occ} /\ x.current = cur(a) /\ x.resolved = res(a)
        /\ DOMAIN y.cohorts = DOMAIN c.cohorts \cup {l.occ} /\ y.current = cur(c) /\ y.resolved = res(c)
    BY <2>1, PutDomain
  <2> HIDE DEF x, y
  <2> QED BY <2>3, <2>5, <2>6, <2>7 DEF AgreeFrom, x, y
<1>3. CASE l.kind = "acknowledged"
  <2> DEFINE ack(s) == [CohortAt(s, s.current) EXCEPT !.acked = l.at]
             same(s) == s.current = 0 \/ s.resolved \/ CohortAt(s, s.current).acked # None
  <2>1. /\ x = IF same(a) THEN a ELSE CountOf(PutCohort(a, a.current, ack(a)), a.current, a.resolved)
        /\ y = IF same(c) THEN c ELSE CountOf(PutCohort(c, c.current, ack(c)), c.current, c.resolved)
    BY <1>3, AcknowledgedCounts
  <2>2. CASE a.current >= from /\ a.current = c.current /\ a.resolved = c.resolved
    <3>1. a.current \in Int /\ CohortAt(a, a.current) = CohortAt(c, c.current)
      BY <1>1, <2>2 DEF AgreeFrom
    <3>2. (same(a) <=> same(c)) /\ ack(a) = ack(c)
      BY <2>2, <3>1
    <3>3. CASE same(a)
      BY <2>1, <3>2, <3>3
    <3>4. CASE ~ same(a)
      <4> DEFINE d == ack(a)
      <4>1. /\ x = CountOf(PutCohort(a, a.current, d), a.current, a.resolved)
            /\ y = CountOf(PutCohort(c, c.current, d), c.current, c.resolved)
        BY <2>1, <3>2, <3>4
      <4> HIDE DEF x, y, d, same, ack
      <4>2. /\ \A k : CohortAt(x, k) = IF k = a.current THEN d ELSE CohortAt(a, k)
            /\ \A k : CohortAt(y, k) = IF k = c.current THEN d ELSE CohortAt(c, k)
        BY <4>1, CohortAfter
      <4>3. /\ DOMAIN x.cohorts = DOMAIN a.cohorts \cup {a.current}
            /\ x.current = a.current /\ x.resolved = a.resolved
            /\ DOMAIN y.cohorts = DOMAIN c.cohorts \cup {c.current}
            /\ y.current = c.current /\ y.resolved = c.resolved
        BY <4>1, PutDomain
      <4> QED BY <2>2, <4>2, <4>3 DEF AgreeFrom, x, y
    <3> QED BY <3>3, <3>4
  <2>3. CASE a.current < from /\ c.current = 0
    <3>1. y = c
      BY <2>1, <2>3
    <3>2. CASE same(a)
      BY <2>1, <3>1, <3>2
    <3>3. CASE ~ same(a)
      <4> DEFINE d == ack(a)
      <4>1. x = CountOf(PutCohort(a, a.current, d), a.current, a.resolved)
        BY <2>1, <3>3
      <4> HIDE DEF x, y, d, same, ack
      <4>2. \A k : CohortAt(x, k) = IF k = a.current THEN d ELSE CohortAt(a, k)
        BY <4>1, CohortAfter
      <4>3. /\ DOMAIN x.cohorts = DOMAIN a.cohorts \cup {a.current}
            /\ x.current = a.current
        BY <4>1, PutDomain
      <4>4. \A k \in Int : k >= from => k # a.current
        BY <1>1, <2>3
      <4> QED BY <2>3, <3>1, <4>2, <4>3, <4>4 DEF AgreeFrom, x, y
    <3> QED BY <3>2, <3>3
  <2> QED BY <2>2, <2>3 DEF AgreeFrom
<1>4. CASE l.kind = "resolved"
  <2> DEFINE end(s) == Ended(CohortAt(s, Ends(s, l)), l)
             res(s) == IF Closes(s, l) THEN TRUE ELSE s.resolved
             ea == Ends(a, l)
             ec == Ends(c, l)
             da == end(a)
             dc == end(c)
             ra == res(a)
             rc == res(c)
  <2>1. /\ x = CountOf(PutCohort(a, ea, da), a.current, ra)
        /\ y = CountOf(PutCohort(c, ec, dc), c.current, rc)
    BY <1>4, ResolvedCounts
  <2>2. (ea = ec) \/ (ea < from /\ ec < from)
    BY <1>1 DEF AgreeFrom, Ends
  <2>3. ea \in Int /\ ec \in Int
    BY <1>1 DEF Ends
  <2>4. ea = ec /\ ea >= from => da = dc
    BY <2>3 DEF AgreeFrom
  <2>5. a.current = c.current /\ a.resolved = c.resolved => ra = rc
    BY DEF Closes
  <2> HIDE DEF end, res, ea, ec, da, dc, ra, rc
  <2>6. /\ \A k : CohortAt(x, k) = IF k = ea THEN da ELSE CohortAt(a, k)
        /\ \A k : CohortAt(y, k) = IF k = ec THEN dc ELSE CohortAt(c, k)
    BY <2>1, CohortAfter
  <2>7. /\ DOMAIN x.cohorts = DOMAIN a.cohorts \cup {ea} /\ x.current = a.current /\ x.resolved = ra
        /\ DOMAIN y.cohorts = DOMAIN c.cohorts \cup {ec} /\ y.current = c.current /\ y.resolved = rc
    BY <2>1, PutDomain
  <2> HIDE DEF x, y
  <2>8. \A k \in Int : k >= from =>
          /\ k \in DOMAIN x.cohorts <=> k \in DOMAIN y.cohorts
          /\ CohortAt(x, k) = CohortAt(y, k)
    BY <2>2, <2>3, <2>4, <2>6, <2>7 DEF AgreeFrom
  <2> QED BY <2>5, <2>7, <2>8 DEF AgreeFrom, x, y
<1> QED BY <1>2, <1>3, <1>4 DEF CountRows, LifecycleKinds

(* A part of rows that count is rows that count. *)
LEMMA PartCounts ==
  ASSUME NEW R, CountRows(R), NEW S \in SUBSET R
  PROVE  CountRows(S) /\ CountedRows(S) \in CountState(R)
BY PartOfRows, CountedStep DEF CountRows

(* Leaving out the rows before an instant changes nothing of the cohorts    *)
(* that begin at it or later.                                               *)
LEMMA LaterRowsAgree ==
  ASSUME NEW A, CountRows(A), ResolvedLater(A), NEW from \in Nat \ {0},
         NEW W, W = {r \in A : r.at >= from}
  PROVE  AgreeFrom(from, CountedRows(A), CountedRows(W))
<1> DEFINE Old == A \ W
           Good == {T \in SUBSET W : AgreeFrom(from, CountedRows(Old \cup T), CountedRows(T))}
<1>1. /\ Old \in SUBSET A /\ W \in SUBSET A /\ A = Old \cup W
      /\ \A r \in W : r.at >= from
      /\ \A r \in A : r.at \in Nat /\ r.id \in Nat
  BY DEF CountRows, Rows
<1>2. \A r \in Old : r.at < from
  <2>1. TAKE r \in Old
  <2>2. r.at \in Nat /\ ~ (r.at >= from)
    BY <1>1
  <2> QED BY <2>2
<1> HIDE DEF Old
<1>3. {} \in Good
  <2> DEFINE a == CountedRows(Old)
  <2>1. CountRows(Old) /\ ResolvedLater(Old)
    BY <1>1, PartCounts DEF ResolvedLater
  <2>2. \A k \in DOMAIN a.cohorts : k < from
    BY <1>2, <2>1, OldCohorts
  <2>3. a.current = 0 \/ a.current \in DOMAIN a.cohorts
    BY <1>1, PartCounts, CountStateIs
  <2>4. a.current < from
    BY <2>2, <2>3
  <2>5. CountedRows({}) = BeforeFirst
    BY CountedStep
  <2>6. DOMAIN BeforeFirst.cohorts = {} /\ BeforeFirst.current = 0
    BY DEF BeforeFirst
  <2> HIDE DEF a
  <2>7. AgreeFrom(from, a, BeforeFirst)
    <3>1. \A k \in Int : k >= from => k \notin DOMAIN a.cohorts
      <4>1. TAKE k \in Int
      <4>2. k \in DOMAIN a.cohorts => k < from
        BY <2>2
      <4> QED BY <4>2
    <3> QED BY <2>4, <2>6, <3>1 DEF AgreeFrom, CohortAt
  <2>8. Old \cup {} = Old
    OBVIOUS
  <2> QED BY <2>5, <2>7, <2>8 DEF a
<1>4. ASSUME NEW T \in SUBSET W, T # {}, T \ {Latest(T)} \in Good
      PROVE  T \in Good
  <2> DEFINE l == Latest(T)
             U == Old \cup T
             a == CountedRows(U \ {l})
             c == CountedRows(T \ {l})
  <2>1. CountRows(T) /\ CountRows(U) /\ T \in SUBSET A /\ U \in SUBSET A
    BY <1>1, PartCounts
  <2>2. l \in T /\ \A q \in T : q # l => Before(q, l) /\ ~ Before(l, q)
    BY <1>4, <2>1, LatestIsLast DEF CountRows
  <2>3. Latest(U) = l
    <3> DEFINE m == Latest(U)
    <3>1. m \in U /\ \A q \in U : q # m => Before(q, m) /\ ~ Before(m, q)
      BY <2>1, <2>2, LatestIsLast DEF CountRows
    <3> HIDE DEF m, U, l
    <3>2. l \in U
      BY <2>2 DEF U
    <3> SUFFICES ASSUME m # l PROVE FALSE
      BY DEF m, l
    <3>3. Before(l, m) /\ ~ Before(m, l)
      BY <3>1, <3>2
    <3>4. CASE m \in T
      BY <2>2, <3>3, <3>4
    <3>5. CASE m \in Old
      <4>1. m.at < from /\ l.at >= from /\ m.at \in Nat /\ l.at \in Nat
        BY <1>1, <1>2, <2>1, <2>2, <3>5
      <4> QED BY <3>3, <4>1 DEF Before
    <3> QED BY <3>1, <3>4, <3>5 DEF U
  <2>4. CountedRows(U) = CountRow(a, l) /\ CountedRows(T) = CountRow(c, l)
    BY <2>1, <2>2, <2>3, CountedStep
  <2>5. U \ {l} = Old \cup (T \ {l})
    BY <2>2 DEF Old
  <2>6. AgreeFrom(from, a, c)
    BY <1>4, <2>5
  <2>7. a \in CountState(A) /\ c \in CountState(A) /\ l \in A /\ l.at >= from
    <3>1. U \ {l} \in SUBSET A /\ T \ {l} \in SUBSET A /\ l \in A /\ l \in W
      BY <2>1, <2>2
    <3> HIDE DEF U, l
    <3> QED BY <1>1, <3>1, PartCounts
  <2> HIDE DEF a, c, l, U
  <2>8. AgreeFrom(from, CountRow(a, l), CountRow(c, l))
    BY <2>6, <2>7, AgreementStays
  <2> QED BY <2>4, <2>8 DEF U
<1>5. SUBSET W \subseteq Good
  <2>1. Rows(W)
    BY <1>1, PartCounts DEF CountRows
  <2> HIDE DEF Good
  <2> QED BY <1>3, <1>4, <2>1, PartInduction
<1> QED BY <1>1, <1>5

(* An occurrence that begins in a window is counted there as the whole      *)
(* history counts it, whatever was dated before the window: for any window, *)
(* unless a resolution is dated before its own occurrence.                  *)
THEOREM WindowsLoseNothing == Spec => []WindowLosesNothing
<1>1. ASSUME RowsInv
      PROVE  WindowLosesNothing
  <2> SUFFICES ASSUME \A r \in Lifecycle : r.kind = "resolved" => r.at >= r.occ,
                      NEW ends \in 1 .. now
               PROVE  LET C == incident_cohorts(Lifecycle, ends)
                          All == CountedRows(ByKey({r \in Lifecycle : r.kind \in LifecycleKinds
                                                                       /\ r.at < ends})).cohorts
                      IN  Started(All, ends) = Started(C, ends)
                          /\ \A k \in Started(C, ends) : C[k] = All[k]
    BY DEF WindowLosesNothing
  <2> DEFINE H == {r \in Lifecycle : r.kind \in LifecycleKinds /\ r.at < ends}
             L == LifecycleRows(Lifecycle, ends)
             A == ByKey(H)
             W == ByKey(L)
             a == CountedRows(A)
             c == CountedRows(W)
             from == ends - Window
  <2>1. /\ H \in SUBSET rows /\ L \in SUBSET rows /\ from \in Int /\ ends \in Int
        /\ \A r \in H : r.kind \in LifecycleKinds /\ r.at \in Nat
        /\ \A r \in L : r.kind \in LifecycleKinds
        /\ L = {r \in H : r.at >= from}
    <3>1. \A r \in rows : r.at \in Nat
      BY <1>1, CacheAssumption DEF RowsInv
    <3>2. from \in Int /\ ends \in Int /\ Window \in Nat
      BY <1>1, WindowAssumption DEF RowsInv
    <3> QED BY <3>1, <3>2 DEF LifecycleRows, Lifecycle, Within
  <2>2. CountRows(A) /\ CountRows(W)
    BY <1>1, <2>1, KeyedRows
  <2>3. incident_cohorts(Lifecycle, ends) = c.cohorts
    BY DEF incident_cohorts, Counted
  <2>4. \A k \in DOMAIN a.cohorts \cup DOMAIN c.cohorts : k \in Int
    <3>1. a \in CountState(A) /\ c \in CountState(W)
      BY <2>2, PartCounts
    <3> HIDE DEF a, c
    <3> QED BY <3>1, CountStateIs
  <2>5. W = {x \in A : x.at >= from}
    <3>1. \A r : [r EXCEPT !.id = r.key].at = r.at
      OBVIOUS
    <3> QED BY <2>1, <3>1 DEF ByKey
  <2>6. ResolvedLater(A)
    <3>1. \A r \in H : r.kind = "resolved" => r.at >= r.occ
      OBVIOUS
    <3> HIDE DEF H
    <3> SUFFICES ASSUME NEW x \in A, x.kind = "resolved" PROVE x.at >= x.occ
      BY DEF ResolvedLater
    <3>2. PICK r \in H : x = [r EXCEPT !.id = r.key]
      BY DEF ByKey
    <3>3. x.at = r.at /\ x.occ = r.occ /\ x.kind = r.kind
      BY <3>2
    <3> QED BY <3>1, <3>3
  <2>7. \A k \in Int : k >= from => /\ k \in DOMAIN a.cohorts <=> k \in DOMAIN c.cohorts
                                    /\ CohortAt(a, k) = CohortAt(c, k)
    <3>1. CASE from > 0
      <4>1. from \in Nat \ {0}
        BY <2>1, <3>1
      <4> HIDE DEF A, W, from
      <4>2. AgreeFrom(from, a, c)
        BY <2>2, <2>5, <2>6, <4>1, LaterRowsAgree
      <4> QED BY <4>2 DEF AgreeFrom
    <3>2. CASE ~ (from > 0)
      <4>1. H = L
        BY <2>1, <3>2
      <4> QED BY <4>1
    <3> QED BY <3>1, <3>2
  <2>8. \A k \in Int : Within(k, ends) => k >= from
    BY <2>1, WindowAssumption DEF Within
  <2> HIDE DEF a, c, from
  <2>9. \A k \in Int : Within(k, ends) =>
          /\ k \in DOMAIN a.cohorts <=> k \in DOMAIN c.cohorts
          /\ k \in DOMAIN a.cohorts => a.cohorts[k] = c.cohorts[k]
    BY <2>7, <2>8 DEF CohortAt
  <2>10. Started(a.cohorts, ends) = Started(c.cohorts, ends)
    BY <2>4, <2>9 DEF Started
  <2>11. \A k \in Started(c.cohorts, ends) : c.cohorts[k] = a.cohorts[k]
    BY <2>4, <2>9 DEF Started
  <2> QED BY <2>3, <2>10, <2>11 DEF a
<1> QED BY <1>1, RowsInvHolds, PTL
-----------------------------------------------------------------------------
(* What is counted is counted in one bucket                                 *)

(* The window is a whole number of buckets, at least one. *)
LEMMA WholeBuckets ==
  /\ Window \div BucketSize \in Nat \ {0}
  /\ Window = BucketSize * (Window \div BucketSize)
  /\ Buckets = 0 .. (Window \div BucketSize) - 1
BY WindowAssumption DEF Buckets

(* What is within the window has a bucket. *)
LEMMA WithinHasBucket ==
  ASSUME NEW ends \in Int, NEW x \in Int, Within(x, ends)
  PROVE  BucketIndex(x, ends) \in Buckets
<1> DEFINE n == Window \div BucketSize
           y == x - (ends - Window)
           q == y \div BucketSize
<1>1. y \in Nat /\ y < Window /\ BucketSize \in Nat \ {0} /\ n \in Nat \ {0}
  BY WindowAssumption, WholeBuckets DEF Within
<1>2. BucketIndex(x, ends) = q
  BY DEF BucketIndex
<1>3. Window = BucketSize * n
  BY WholeBuckets
<1> HIDE DEF y, n
<1>4. q \in Nat /\ BucketSize * q <= y
  BY <1>1
<1>5. q < n
  <2> HIDE DEF q
  <2> SUFFICES ASSUME q >= n PROVE FALSE
    BY <1>1, <1>4
  <2>1. BucketSize * q >= BucketSize * n
    BY <1>1, <1>4
  <2> QED BY <1>1, <1>3, <1>4, <2>1
<1> QED BY <1>1, <1>2, <1>4, <1>5, WholeBuckets DEF n

(* The recursive sum is the last of the sums up to a bucket. *)
LEMMA TotalIs ==
  ASSUME NEW T, NEW f, NEW c \in [Buckets -> Nat],
         \A b \in Buckets : c[b] = T[b][f] + IF b = 0 THEN 0 ELSE c[b - 1]
  PROVE  Total(T, f) = c[(Window \div BucketSize) - 1]
<1> DEFINE Sums(g) == g = [b \in Buckets |-> T[b][f] + IF b = 0 THEN 0 ELSE g[b - 1]]
           h == CHOOSE g : Sums(g)
           last == (Window \div BucketSize) - 1
           S == {b \in 0 .. last : h[b] = c[b]}
<1>1. Sums(c)
  OBVIOUS
<1>2. Sums(h)
  <2> HIDE DEF Sums
  <2> QED BY <1>1
<1>3. Total(T, f) = h[last]
  BY DEF Total
<1>4. last \in Nat /\ Buckets = 0 .. last
  BY WholeBuckets
<1> HIDE DEF h, last
<1>5. \A b \in 0 .. last : h[b] = T[b][f] + IF b = 0 THEN 0 ELSE h[b - 1]
  BY <1>2, <1>4
<1>6. 0 \in S
  BY <1>4, <1>5
<1>7. ASSUME NEW i \in 0 .. last, i < last, i \in S
      PROVE  i + 1 \in S
  <2>1. i + 1 \in 0 .. last /\ i + 1 # 0 /\ (i + 1) - 1 = i
    BY <1>4, <1>7
  <2>2. h[i + 1] = T[i + 1][f] + h[i] /\ c[i + 1] = T[i + 1][f] + c[i]
    BY <1>4, <1>5, <2>1
  <2> QED BY <1>7, <2>1, <2>2
<1>8. 0 .. last \subseteq S
  <2> HIDE DEF S
  <2> QED BY <1>4, <1>6, <1>7, SetInduction
<1> QED BY <1>3, <1>4, <1>8 DEF last

(* What of X has bucket b, by a function and by an instant. *)
PutIn(X, B, b) == {x \in X : B[x] = b}
DatedIn(X, at, ends, b) == {x \in X : BucketIndex(at[x], ends) = b}

(* The sizes of the buckets of a finite set add up to its size. *)
LEMMA CountedInBuckets ==
  ASSUME NEW X, IsFiniteSet(X), NEW B \in [X -> Buckets], NEW T, NEW f,
         \A b \in Buckets : T[b][f] = Cardinality(PutIn(X, B, b))
  PROVE  Total(T, f) = Cardinality(X)
<1> DEFINE last == (Window \div BucketSize) - 1
           In(b) == PutIn(X, B, b)
           UpToB(b) == {x \in X : B[x] <= b}
           c == [b \in Buckets |-> Cardinality(UpToB(b))]
<1>1. last \in Nat /\ Buckets = 0 .. last
  BY WholeBuckets
<1>2. \A b : /\ IsFiniteSet(In(b)) /\ Cardinality(In(b)) \in Nat
             /\ IsFiniteSet(UpToB(b)) /\ Cardinality(UpToB(b)) \in Nat
  BY FS_Subset, FS_CardinalityType DEF PutIn
<1>3. c \in [Buckets -> Nat]
  BY <1>2
<1>4. ASSUME NEW b \in Buckets
      PROVE  c[b] = T[b][f] + IF b = 0 THEN 0 ELSE c[b - 1]
  <2>1. c[b] = Cardinality(UpToB(b)) /\ T[b][f] = Cardinality(In(b))
    OBVIOUS
  <2>2. \A x \in X : B[x] \in 0 .. last
    BY <1>1
  <2>3. CASE b = 0
    <3>1. UpToB(b) = In(b)
      BY <2>2, <2>3 DEF PutIn
    <3> HIDE DEF In, UpToB, c
    <3>2. c[b] = T[b][f] /\ T[b][f] \in Nat
      BY <1>2, <2>1, <3>1
    <3> QED BY <2>3, <3>2
  <2>4. CASE b # 0
    <3>1. b - 1 \in Buckets
      BY <1>1, <2>4
    <3>2. c[b - 1] = Cardinality(UpToB(b - 1))
      BY <3>1
    <3>3. UpToB(b) = In(b) \cup UpToB(b - 1) /\ In(b) \cap UpToB(b - 1) = {}
      BY <1>1, <2>2 DEF PutIn
    <3> HIDE DEF In, UpToB, c
    <3>4. Cardinality(UpToB(b)) = Cardinality(In(b)) + Cardinality(UpToB(b - 1)) - Cardinality({})
      BY <1>2, <3>3, FS_Union
    <3>5. Cardinality({}) = 0
      BY FS_EmptySet
    <3> QED BY <1>2, <2>1, <2>4, <3>2, <3>4, <3>5
  <2> QED BY <2>3, <2>4
<1>5. UpToB(last) = X
  BY <1>1
<1>6. c[last] = Cardinality(X)
  BY <1>1, <1>5
<1> HIDE DEF c
<1>7. Total(T, f) = c[last]
  BY <1>3, <1>4, TotalIs
<1> QED BY <1>6, <1>7

(* The timeline of one figure is that figure's set, bucket by bucket. *)
LEMMA FigureInBuckets ==
  ASSUME NEW X, IsFiniteSet(X), NEW at, NEW ends \in Int,
         \A x \in X : at[x] \in Int /\ Within(at[x], ends), NEW T, NEW f,
         \A b \in Buckets : T[b][f] = Cardinality(DatedIn(X, at, ends, b))
  PROVE  Total(T, f) = Cardinality(X)
<1> DEFINE B == [x \in X |-> BucketIndex(at[x], ends)]
<1>1. B \in [X -> Buckets]
  BY WithinHasBucket
<1>2. ASSUME NEW b \in Buckets
      PROVE  T[b][f] = Cardinality(PutIn(X, B, b))
  <2>1. PutIn(X, B, b) = DatedIn(X, at, ends, b)
    BY DEF PutIn, DatedIn
  <2> QED BY <2>1
<1> HIDE DEF B
<1> QED BY <1>1, <1>2, CountedInBuckets

(* The receipts that are counted. *)
Succeeded(D) == {d \in D : d.succeeded}
Failed(D) == {d \in D : ~ d.succeeded}

(* The cohorts counted are finitely many, and dated within the window. *)
LEMMA CohortsWithin ==
  ASSUME NEW R, NEW s \in CountState(R), NEW ends \in Int
  PROVE  LET C == s.cohorts
         IN  /\ IsFiniteSet(Started(C, ends)) /\ IsFiniteSet(Resolved(C, ends))
             /\ \A k \in Started(C, ends) : k \in Int /\ Within(k, ends)
             /\ \A k \in Resolved(C, ends) : C[k].resolved \in Int /\ Within(C[k].resolved, ends)
<1> DEFINE C == s.cohorts
<1>1. C \in [DOMAIN C -> Cohorts(R)] /\ DOMAIN C \in SUBSET (Int \ {0}) /\ IsFiniteSet(DOMAIN C)
  BY CountStateIs
<1> HIDE DEF C
<1>2. Started(C, ends) \subseteq DOMAIN C /\ Resolved(C, ends) \subseteq DOMAIN C
  BY DEF Started, Resolved
<1>3. IsFiniteSet(Started(C, ends)) /\ IsFiniteSet(Resolved(C, ends))
  BY <1>1, <1>2, FS_Subset
<1>4. \A k \in Started(C, ends) : k \in Int /\ Within(k, ends)
  BY <1>1 DEF Started
<1>5. \A k \in Resolved(C, ends) : C[k].resolved \in Int /\ Within(C[k].resolved, ends)
  BY <1>1 DEF Resolved, Cohorts
<1> QED BY <1>3, <1>4, <1>5 DEF C

(* So are the receipts counted. *)
LEMMA ReceiptsWithin ==
  ASSUME RowsInv, NEW ends \in Int
  PROVE  LET D == Receipts(Delivered, ends)
         IN  /\ IsFiniteSet(Succeeded(D)) /\ IsFiniteSet(Failed(D))
             /\ \A d \in D : d.at \in Int /\ Within(d.at, ends)
<1> DEFINE Q == {q \in rows : q.kind \in ReceiptKinds}
           f == [r \in Q |-> [at |-> r.at, succeeded |-> r.kind = "delivery_succeeded", channel |-> r.occ]]
           D == Receipts(Delivered, ends)
<1>1. IsFiniteSet(Q) /\ \A r \in Q : r.at \in Nat
  <2>1. IsFiniteSet(setup.rows) /\ Q \subseteq setup.rows /\ \A r \in setup.rows : r.at \in Nat
    BY CacheAssumption DEF RowsInv
  <2> HIDE DEF Q
  <2> QED BY <2>1, FS_Subset
<1>2. IsFiniteSet(Delivered)
  <2>1. f \in Surjection(Q, Delivered)
    BY DEF Surjection, Delivered
  <2> HIDE DEF f, Q
  <2> QED BY <1>1, <2>1, FS_Surjection
<1>3. \A d \in Delivered : d.at \in Nat
  <2> SUFFICES ASSUME NEW d \in Delivered PROVE d.at \in Nat
    OBVIOUS
  <2>1. PICK r \in Q : d = [at |-> r.at, succeeded |-> r.kind = "delivery_succeeded", channel |-> r.occ]
    BY DEF Delivered
  <2>2. d.at = r.at
    BY <2>1
  <2> QED BY <1>1, <2>2
<1>4. D \subseteq Delivered /\ \A d \in D : Within(d.at, ends)
  BY DEF Receipts
<1>5. Succeeded(D) \subseteq Delivered /\ Failed(D) \subseteq Delivered
  BY <1>4 DEF Succeeded, Failed
<1> HIDE DEF D
<1>6. IsFiniteSet(Succeeded(D)) /\ IsFiniteSet(Failed(D))
  BY <1>2, <1>5, FS_Subset
<1> QED BY <1>3, <1>4, <1>6 DEF D

(* What is counted is counted in one bucket of the timeline: for any window *)
(* that is a whole number of buckets, at whatever instant rows are dated.   *)
THEOREM BucketsAlwaysAddUp == Spec => []BucketsAddUp
<1>1. ASSUME RowsInv
      PROVE  BucketsAddUp
  <2> DEFINE Sn(ends) == Snapshot(Lifecycle, Delivered, ends)
  <2> SUFFICES ASSUME NEW ends \in 0 .. now
               PROVE  \A f \in {"started", "resolved", "delivered", "failed"} :
                         Total(Sn(ends).timeline, f) = Sn(ends)[f]
    BY DEF BucketsAddUp
  <2> DEFINE L == LifecycleRows(Lifecycle, ends)
             s == CountedRows(ByKey(L))
             C == s.cohorts
             D == Receipts(Delivered, ends)
             TL == Timeline(Lifecycle, Delivered, ends)
  <2>1. ends \in Int /\ L \in SUBSET rows /\ \A r \in L : r.kind \in LifecycleKinds
    BY <1>1 DEF RowsInv, LifecycleRows, Lifecycle
  <2>2. s \in CountState(ByKey(L))
    <3>1. CountRows(ByKey(L))
      BY <1>1, <2>1, KeyedRows
    <3> QED BY <3>1, PartCounts
  <2>3. incident_cohorts(Lifecycle, ends) = C
    BY DEF incident_cohorts, Counted
  <2> HIDE DEF s
  <2>4. /\ Sn(ends).timeline = TL
        /\ Sn(ends)["started"] = Cardinality(Started(C, ends))
        /\ Sn(ends)["resolved"] = Cardinality(Resolved(C, ends))
        /\ Sn(ends)["delivered"] = Cardinality(Succeeded(D))
        /\ Sn(ends)["failed"] = Cardinality(Failed(D))
    BY <2>3 DEF Snapshot, Succeeded, Failed
  <2>5. \A b \in Buckets :
          /\ TL[b]["started"] = Cardinality({k \in Started(C, ends) : BucketIndex(k, ends) = b})
          /\ TL[b]["resolved"] = Cardinality({k \in Resolved(C, ends) : BucketIndex(C[k].resolved, ends) = b})
          /\ TL[b]["delivered"] = Cardinality({d \in D : d.succeeded /\ BucketIndex(d.at, ends) = b})
          /\ TL[b]["failed"] = Cardinality({d \in D : ~ d.succeeded /\ BucketIndex(d.at, ends) = b})
    BY <2>3 DEF Timeline
  <2> HIDE DEF C, D, TL, Sn, L
  <2>6. /\ IsFiniteSet(Started(C, ends)) /\ IsFiniteSet(Resolved(C, ends))
        /\ \A k \in Started(C, ends) : k \in Int /\ Within(k, ends)
        /\ \A k \in Resolved(C, ends) : C[k].resolved \in Int /\ Within(C[k].resolved, ends)
    BY <2>1, <2>2, CohortsWithin DEF C
  <2>7. /\ IsFiniteSet(Succeeded(D)) /\ IsFiniteSet(Failed(D))
        /\ \A d \in D : d.at \in Int /\ Within(d.at, ends)
    BY <1>1, <2>1, ReceiptsWithin DEF D
  <2>8. Total(TL, "started") = Cardinality(Started(C, ends))
    <3> DEFINE X == Started(C, ends)
               at == [k \in X |-> k]
    <3>1. \A b \in Buckets : TL[b]["started"] = Cardinality(DatedIn(X, at, ends, b))
      <4>1. TAKE b \in Buckets
      <4>2. DatedIn(X, at, ends, b) = {k \in X : BucketIndex(k, ends) = b}
        BY DEF DatedIn
      <4> QED BY <2>5, <4>2
    <3>2. \A x \in X : at[x] \in Int /\ Within(at[x], ends)
      BY <2>6
    <3>3. IsFiniteSet(X)
      BY <2>6
    <3> HIDE DEF X, at
    <3>4. Total(TL, "started") = Cardinality(X)
      BY <2>1, <3>1, <3>2, <3>3, FigureInBuckets
    <3> QED BY <3>4 DEF X
  <2>9. Total(TL, "resolved") = Cardinality(Resolved(C, ends))
    <3> DEFINE X == Resolved(C, ends)
               at == [k \in X |-> C[k].resolved]
    <3>1. \A b \in Buckets : TL[b]["resolved"] = Cardinality(DatedIn(X, at, ends, b))
      <4>1. TAKE b \in Buckets
      <4>2. DatedIn(X, at, ends, b) = {k \in X : BucketIndex(C[k].resolved, ends) = b}
        BY DEF DatedIn
      <4> QED BY <2>5, <4>2
    <3>2. \A x \in X : at[x] \in Int /\ Within(at[x], ends)
      BY <2>6
    <3>3. IsFiniteSet(X)
      BY <2>6
    <3> HIDE DEF X, at
    <3>4. Total(TL, "resolved") = Cardinality(X)
      BY <2>1, <3>1, <3>2, <3>3, FigureInBuckets
    <3> QED BY <3>4 DEF X
  <2>10. Total(TL, "delivered") = Cardinality(Succeeded(D))
    <3> DEFINE X == Succeeded(D)
               at == [d \in X |-> d.at]
    <3>1. \A b \in Buckets : TL[b]["delivered"] = Cardinality(DatedIn(X, at, ends, b))
      <4>1. TAKE b \in Buckets
      <4>2. DatedIn(X, at, ends, b) = {d \in D : d.succeeded /\ BucketIndex(d.at, ends) = b}
        BY DEF DatedIn, Succeeded
      <4> QED BY <2>5, <4>2
    <3>2. \A x \in X : at[x] \in Int /\ Within(at[x], ends)
      BY <2>7 DEF Succeeded
    <3>3. IsFiniteSet(X)
      BY <2>7
    <3> HIDE DEF X, at
    <3>4. Total(TL, "delivered") = Cardinality(X)
      BY <2>1, <3>1, <3>2, <3>3, FigureInBuckets
    <3> QED BY <3>4 DEF X
  <2>11. Total(TL, "failed") = Cardinality(Failed(D))
    <3> DEFINE X == Failed(D)
               at == [d \in X |-> d.at]
    <3>1. \A b \in Buckets : TL[b]["failed"] = Cardinality(DatedIn(X, at, ends, b))
      <4>1. TAKE b \in Buckets
      <4>2. DatedIn(X, at, ends, b) = {d \in D : ~ d.succeeded /\ BucketIndex(d.at, ends) = b}
        BY DEF DatedIn, Failed
      <4> QED BY <2>5, <4>2
    <3>2. \A x \in X : at[x] \in Int /\ Within(at[x], ends)
      BY <2>7 DEF Failed
    <3>3. IsFiniteSet(X)
      BY <2>7
    <3> HIDE DEF X, at
    <3>4. Total(TL, "failed") = Cardinality(X)
      BY <2>1, <3>1, <3>2, <3>3, FigureInBuckets
    <3> QED BY <3>4 DEF X
  <2> QED BY <2>4, <2>8, <2>9, <2>10, <2>11
<1> QED BY <1>1, RowsInvHolds, PTL
=============================================================================
