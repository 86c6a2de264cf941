---------------------- MODULE NotificationDeliveryProofs ----------------------
(***************************************************************************)
(* Proofs about NotificationDelivery for every number of nodes, targets,    *)
(* attempts and faults and every set of clusters: SingleCaller,             *)
(* DoneMeansSettled, ReceiptsConverge, NoCallWhenSettled and                *)
(* ReceiptsKeepSuccess.                                                     *)
(*                                                                          *)
(* The argument: the events a node has of an origin are a beginning of what *)
(* the origin has written (HistoryInv); a writer that hears of no other     *)
(* never lowers an attempt and stops at a final result (StreamInv,          *)
(* WriterInv), so that applying its receipts in order and replaying them    *)
(* all give the last one (DeliveryInv); in a cluster whose nodes know each  *)
(* other the one writer of a target is the node that ranks first, and what  *)
(* the others pass over is settled for good (OwnerInv).                     *)
(***************************************************************************)
EXTENDS NotificationDelivery, FiniteSetTheorems, WellFoundedInduction, TLAPS

(* Induction, with a set in the place of a predicate. *)
LEMMA SetInduction ==
  ASSUME NEW N \in Nat, NEW S, 0 \in S,
         \A i \in 0 .. N : (i < N /\ i \in S) => i + 1 \in S
  PROVE  0 .. N \subseteq S
<1> SUFFICES ASSUME (0 .. N) \ S # {} PROVE FALSE
  OBVIOUS
<1> DEFINE T == (0 .. N) \ S
<1>1. T \subseteq Nat /\ T # {}
  OBVIOUS
<1>2. PICK x \in T : \A y \in T : ~ (<<y, x>> \in OpToRel(<, Nat))
  <2> HIDE DEF T
  <2> QED BY <1>1, NatLessThanWellFounded, WFMin
<1>3. \A y \in T : ~ (y < x)
  BY <1>1, <1>2 DEF OpToRel
<1>4. x \in 1 .. N /\ x - 1 \in 0 .. N /\ x - 1 < x
  OBVIOUS
<1>5. x - 1 \in S
  BY <1>3, <1>4
<1>6. (x - 1) + 1 = x /\ x - 1 < N
  BY <1>4
<1> QED BY <1>4, <1>5, <1>6

-----------------------------------------------------------------------------
(* The rows and events of the model *)

Status == {"none", "sending", "retrying", "succeeded", "failed"}
DeliveryRow == [status : Status, attempt : Nat]

AlertEvent == [kind : {"alert"}, origin : Node, seq : Nat \ {0}]
ReceiptEvent == [kind : {"receipt"}, origin : Node, seq : Nat \ {0},
                 target : Target, status : Status \ {"none"}, attempt : Nat]
Event == AlertEvent \cup ReceiptEvent

IsReceipt(e, t) == e.kind = "receipt" /\ e.target = t

About(L, t) == {e \in Entries(L) : e.kind = "receipt" /\ e.target = t}

Row(r) == [status |-> r.status, attempt |-> r.attempt]

(* What an appended event adds to a log. *)
LEMMA EntriesAppend ==
  ASSUME NEW L \in Seq(Event), NEW e \in Event
  PROVE  /\ Append(L, e) \in Seq(Event) /\ Len(Append(L, e)) = Len(L) + 1
         /\ Entries(Append(L, e)) = Entries(L) \cup {e}
         /\ \A i \in DOMAIN L : i \in DOMAIN Append(L, e) /\ Append(L, e)[i] = L[i]
         /\ Append(L, e)[Len(L) + 1] = e
         /\ DOMAIN Append(L, e) = 1 .. Len(L) + 1
<1> DEFINE M == Append(L, e)
<1>1. M \in Seq(Event) /\ Len(M) = Len(L) + 1 /\ DOMAIN M = 1 .. Len(L) + 1
  OBVIOUS
<1>2. DOMAIN L = 1 .. Len(L) /\ Len(L) \in Nat
  OBVIOUS
<1>3. \A i \in 1 .. Len(L) : M[i] = L[i]
  OBVIOUS
<1>4. M[Len(L) + 1] = e
  OBVIOUS
<1> HIDE DEF M
<1>5. Entries(M) = Entries(L) \cup {e}
  <2>1. \A i \in DOMAIN M : i \in DOMAIN L \/ i = Len(L) + 1
    BY <1>1, <1>2
  <2>2. Len(L) + 1 \in DOMAIN M /\ \A i \in DOMAIN L : i \in DOMAIN M
    BY <1>1, <1>2
  <2> QED BY <1>2, <1>3, <1>4, <2>1, <2>2 DEF Entries
<1> QED BY <1>1, <1>2, <1>3, <1>4, <1>5 DEF M

(* The receipts of a target in a log have a last one. *)
LEMMA LastPosition ==
  ASSUME NEW L \in Seq(Event), NEW t, About(L, t) # {}
  PROVE  \E l \in DOMAIN L : /\ IsReceipt(L[l], t)
                             /\ \A i \in DOMAIN L : IsReceipt(L[i], t) => i <= l
<1> DEFINE T == {Len(L) - i : i \in {j \in DOMAIN L : IsReceipt(L[j], t)}}
<1>1. DOMAIN L = 1 .. Len(L) /\ Len(L) \in Nat
  OBVIOUS
<1>2. PICK j \in DOMAIN L : IsReceipt(L[j], t)
  BY DEF About, Entries, IsReceipt
<1>3. Len(L) - j \in T /\ T \subseteq Nat
  BY <1>1, <1>2
<1>4. PICK x \in T : \A y \in T : ~ (<<y, x>> \in OpToRel(<, Nat))
  <2> HIDE DEF T
  <2> QED BY <1>3, NatLessThanWellFounded, WFMin
<1>5. \A y \in T : ~ (y < x)
  BY <1>3, <1>4 DEF OpToRel
<1>6. PICK l \in DOMAIN L : IsReceipt(L[l], t) /\ x = Len(L) - l
  OBVIOUS
<1>7. ASSUME NEW i \in DOMAIN L, IsReceipt(L[i], t) PROVE i <= l
  <2>1. Len(L) - i \in T
    BY <1>7
  <2> HIDE DEF T
  <2> QED BY <1>1, <1>5, <1>6, <2>1
<1> QED BY <1>6, <1>7

-----------------------------------------------------------------------------
(* The replay of receipts: a function that is defined by recursion over the *)
(* log, so first that there is one.                                         *)

OneStep(L, t, d, i) ==
  IF L[i].kind = "receipt" /\ L[i].target = t THEN Applied(d, L[i]) ELSE d

Runs(f, N, L, t, d) ==
  f = [i \in 0 .. N |-> IF i = 0 THEN d ELSE OneStep(L, t, f[i - 1], i)]

(* There is a run of the replay over every log. *)
LEMMA RunExists ==
  ASSUME NEW L, NEW t, NEW d, NEW N \in Nat
  PROVE  \E f : Runs(f, N, L, t, d)
<1> DEFINE S == {k \in 0 .. N : \E f : Runs(f, k, L, t, d)}
<1>1. 0 \in S
  <2> DEFINE f == [i \in 0 .. 0 |-> d]
  <2>1. \A i \in 0 .. 0 : i = 0 /\ f[i] = d
    OBVIOUS
  <2>2. f = [i \in 0 .. 0 |-> IF i = 0 THEN d ELSE OneStep(L, t, f[i - 1], i)]
    OBVIOUS
  <2>3. Runs(f, 0, L, t, d)
    BY <2>2 DEF Runs
  <2> HIDE DEF f
  <2> QED BY <2>3
<1>2. ASSUME NEW k \in 0 .. N, k < N, k \in S
      PROVE  k + 1 \in S
  <2>1. PICK f : Runs(f, k, L, t, d)
    BY <1>2
  <2> DEFINE g == [i \in 0 .. k + 1 |-> IF i <= k THEN f[i] ELSE OneStep(L, t, f[k], k + 1)]
  <2>2. \A i \in 0 .. k : f[i] = IF i = 0 THEN d ELSE OneStep(L, t, f[i - 1], i)
    BY <2>1 DEF Runs
  <2>3. \A i \in 0 .. k + 1 : g[i] = IF i = 0 THEN d ELSE OneStep(L, t, g[i - 1], i)
    <3> TAKE i \in 0 .. k + 1
    <3>1. CASE i = 0
      BY <2>2, <3>1
    <3>2. CASE i \in 1 .. k
      <4>1. g[i] = f[i] /\ g[i - 1] = f[i - 1] /\ i \in 0 .. k /\ i # 0
        BY <3>2
      <4> HIDE DEF g
      <4> QED BY <2>2, <4>1
    <3>3. CASE i = k + 1
      <4>1. g[i] = OneStep(L, t, f[k], k + 1) /\ g[k] = f[k] /\ i - 1 = k /\ i # 0
        BY <3>3
      <4> HIDE DEF g
      <4> QED BY <4>1, <3>3
    <3> QED BY <3>1, <3>2, <3>3
  <2>4. DOMAIN g = 0 .. k + 1 /\ g = [i \in 0 .. k + 1 |-> g[i]]
    OBVIOUS
  <2> HIDE DEF g
  <2>5. Runs(g, k + 1, L, t, d)
    BY <2>3, <2>4 DEF Runs
  <2>6. k + 1 \in 0 .. N
    BY <1>2
  <2> QED BY <2>5, <2>6
<1>3. 0 .. N \subseteq S
  <2> HIDE DEF S
  <2> QED BY <1>1, <1>2, SetInduction
<1> QED BY <1>3

(* _replay_delivery_receipts is such a run. *)
LEMMA ReplayedRuns ==
  ASSUME NEW L \in Seq(Event), NEW t, NEW d
  PROVE  \E f : /\ Replayed(L, t, d) = f[Len(L)]
                /\ f[0] = d
                /\ \A i \in 1 .. Len(L) : f[i] = OneStep(L, t, f[i - 1], i)
<1> DEFINE after == CHOOSE after : after = [i \in 0 .. Len(L) |->
              IF i = 0 THEN d
        ELSE IF L[i].kind = "receipt" /\ L[i].target = t THEN Applied(after[i - 1], L[i])
        ELSE after[i - 1]]
<1>1. Replayed(L, t, d) = after[Len(L)]
  BY DEF Replayed
<1>2. Len(L) \in Nat
  OBVIOUS
<1>3. PICK f : Runs(f, Len(L), L, t, d)
  BY <1>2, RunExists
<1>4. f = [i \in 0 .. Len(L) |->
              IF i = 0 THEN d
        ELSE IF L[i].kind = "receipt" /\ L[i].target = t THEN Applied(f[i - 1], L[i])
        ELSE f[i - 1]]
  BY <1>3, Zenon DEF Runs, OneStep
<1>5. after = [i \in 0 .. Len(L) |->
              IF i = 0 THEN d
        ELSE IF L[i].kind = "receipt" /\ L[i].target = t THEN Applied(after[i - 1], L[i])
        ELSE after[i - 1]]
  BY <1>4, Zenon
<1> HIDE DEF after
<1>6. after[0] = d
  BY <1>2, <1>5
<1>7. \A i \in 1 .. Len(L) : after[i] = OneStep(L, t, after[i - 1], i)
  BY <1>2, <1>5 DEF OneStep
<1> QED BY <1>1, <1>6, <1>7

(* Without a receipt of the target nothing is replayed. *)
LEMMA ReplayedNone ==
  ASSUME NEW L \in Seq(Event), NEW t, NEW d, About(L, t) = {}
  PROVE  Replayed(L, t, d) = d
<1>1. PICK f : /\ Replayed(L, t, d) = f[Len(L)]
               /\ f[0] = d
               /\ \A i \in 1 .. Len(L) : f[i] = OneStep(L, t, f[i - 1], i)
  BY ReplayedRuns
<1>2. Len(L) \in Nat /\ DOMAIN L = 1 .. Len(L)
  OBVIOUS
<1>3. \A i \in 1 .. Len(L) : f[i] = f[i - 1]
  BY <1>1, <1>2 DEF OneStep, About, Entries
<1> DEFINE S == {k \in 0 .. Len(L) : f[k] = d}
<1>4. 0 \in S
  BY <1>1, <1>2
<1>5. \A i \in 0 .. Len(L) : (i < Len(L) /\ i \in S) => i + 1 \in S
  <2> TAKE i \in 0 .. Len(L)
  <2> HAVE i < Len(L) /\ i \in S
  <2>1. i + 1 \in 1 .. Len(L) /\ (i + 1) - 1 = i
    BY <1>2
  <2> QED BY <1>3, <2>1
<1>6. 0 .. Len(L) \subseteq S
  <2> HIDE DEF S
  <2> QED BY <1>2, <1>4, <1>5, SetInduction
<1> QED BY <1>1, <1>2, <1>6

(* A replay never lowers the number of the attempt and keeps a success. *)
LEMMA ReplayedKeeps ==
  ASSUME NEW L \in Seq(Event), NEW t, NEW d \in DeliveryRow
  PROVE  /\ Replayed(L, t, d) \in DeliveryRow
         /\ d.attempt <= Replayed(L, t, d).attempt
         /\ d.status = "succeeded" => Replayed(L, t, d).status = "succeeded"
<1>1. PICK f : /\ Replayed(L, t, d) = f[Len(L)]
               /\ f[0] = d
               /\ \A i \in 1 .. Len(L) : f[i] = OneStep(L, t, f[i - 1], i)
  BY ReplayedRuns
<1>2. Len(L) \in Nat /\ DOMAIN L = 1 .. Len(L)
  OBVIOUS
<1> DEFINE S == {k \in 0 .. Len(L) : /\ f[k] \in DeliveryRow
                                     /\ d.attempt <= f[k].attempt
                                     /\ d.status = "succeeded" => f[k].status = "succeeded"}
<1>3. 0 \in S
  BY <1>1, <1>2 DEF DeliveryRow
<1>4. \A i \in 0 .. Len(L) : (i < Len(L) /\ i \in S) => i + 1 \in S
  <2> TAKE i \in 0 .. Len(L)
  <2> HAVE i < Len(L) /\ i \in S
  <2>1. i + 1 \in 1 .. Len(L) /\ (i + 1) - 1 = i
    BY <1>2
  <2>2. f[i + 1] = OneStep(L, t, f[i], i + 1) /\ L[i + 1] \in Event
    BY <1>1, <1>2, <2>1
  <2>3. f[i] \in DeliveryRow /\ d.attempt <= f[i].attempt
        /\ (d.status = "succeeded" => f[i].status = "succeeded")
    OBVIOUS
  <2>4. CASE L[i + 1].kind = "receipt" /\ L[i + 1].target = t
    <3>1. L[i + 1] \in ReceiptEvent
      BY <2>2, <2>4 DEF Event, AlertEvent
    <3>2. f[i + 1] = Applied(f[i], L[i + 1])
      BY <2>2, <2>4 DEF OneStep
    <3>3. /\ f[i + 1] \in DeliveryRow /\ f[i].attempt <= f[i + 1].attempt
          /\ f[i].status = "succeeded" => f[i + 1].status = "succeeded"
      BY <2>3, <3>1, <3>2 DEF Applied, DeliveryRow, ReceiptEvent
    <3>4. d.attempt <= f[i + 1].attempt
      BY <2>3, <3>3 DEF DeliveryRow
    <3> QED BY <2>1, <2>3, <3>3, <3>4
  <2>5. CASE ~ (L[i + 1].kind = "receipt" /\ L[i + 1].target = t)
    <3>1. f[i + 1] = f[i]
      BY <2>2, <2>5 DEF OneStep
    <3> QED BY <2>1, <2>3, <3>1
  <2> QED BY <2>4, <2>5
<1>5. 0 .. Len(L) \subseteq S
  <2> HIDE DEF S
  <2> QED BY <1>2, <1>3, <1>4, SetInduction
<1>6. Len(L) \in S
  BY <1>2, <1>5
<1> QED BY <1>1, <1>6

(* When attempts never fall and a success is the last word, a replay ends   *)
(* with the last receipt, if it starts from nothing beyond it.              *)
LEMMA ReplayedLast ==
  ASSUME NEW L \in Seq(Event), NEW t, NEW d \in DeliveryRow,
         NEW l \in DOMAIN L, IsReceipt(L[l], t),
         \A i \in DOMAIN L : IsReceipt(L[i], t) =>
            /\ i <= l
            /\ L[i].attempt <= L[l].attempt
            /\ i < l => L[i].status # "succeeded",
         d.attempt <= L[l].attempt,
         d.status = "succeeded" => L[l].status = "succeeded"
  PROVE  Replayed(L, t, d) = Row(L[l])
<1>1. PICK f : /\ Replayed(L, t, d) = f[Len(L)]
               /\ f[0] = d
               /\ \A i \in 1 .. Len(L) : f[i] = OneStep(L, t, f[i - 1], i)
  BY ReplayedRuns
<1>2. Len(L) \in Nat /\ DOMAIN L = 1 .. Len(L) /\ l \in 1 .. Len(L)
  OBVIOUS
<1>3. L[l] \in ReceiptEvent
  BY DEF Event, AlertEvent, IsReceipt
<1> DEFINE S == {k \in 0 .. Len(L) :
                   /\ k < l => /\ f[k] \in DeliveryRow
                               /\ f[k].attempt <= L[l].attempt
                               /\ f[k].status = "succeeded" => L[l].status = "succeeded"
                   /\ l <= k => f[k] = Row(L[l])}
<1>4. 0 \in S
  BY <1>1, <1>2
<1>5. ASSUME NEW i \in 0 .. Len(L), i < Len(L), i \in S
      PROVE  i + 1 \in S
  <2>1. i + 1 \in 1 .. Len(L) /\ (i + 1) - 1 = i
    BY <1>2, <1>5
  <2>2. f[i + 1] = OneStep(L, t, f[i], i + 1) /\ L[i + 1] \in Event
    BY <1>1, <1>2, <2>1
  <2>3. CASE i + 1 < l
    <3>1. /\ f[i] \in DeliveryRow /\ f[i].attempt <= L[l].attempt
          /\ f[i].status = "succeeded" => L[l].status = "succeeded"
      BY <1>2, <1>5, <2>3
    <3>2. CASE IsReceipt(L[i + 1], t)
      <4>1. L[i + 1] \in ReceiptEvent
        BY <2>2, <3>2 DEF Event, AlertEvent, IsReceipt
      <4>2. L[i + 1].attempt <= L[l].attempt /\ L[i + 1].status # "succeeded"
        BY <1>2, <2>1, <2>3, <3>2
      <4>3. f[i + 1] = Applied(f[i], L[i + 1])
        BY <2>2, <3>2 DEF OneStep, IsReceipt
      <4>4. /\ f[i + 1] \in DeliveryRow /\ f[i + 1].attempt <= L[l].attempt
            /\ f[i + 1].status = "succeeded" => f[i].status = "succeeded"
        BY <1>3, <3>1, <4>1, <4>2, <4>3 DEF Applied, DeliveryRow, ReceiptEvent
      <4> QED BY <1>2, <2>1, <2>3, <3>1, <4>4
    <3>3. CASE ~ IsReceipt(L[i + 1], t)
      <4>1. f[i + 1] = f[i]
        BY <2>2, <3>3 DEF OneStep, IsReceipt
      <4> QED BY <1>2, <2>1, <2>3, <3>1, <4>1
    <3> QED BY <3>2, <3>3
  <2>4. CASE i + 1 = l
    <3>1. /\ f[i] \in DeliveryRow /\ f[i].attempt <= L[l].attempt
          /\ f[i].status = "succeeded" => L[l].status = "succeeded"
      BY <1>2, <1>5, <2>4
    <3>2. f[l] = Applied(f[i], L[l])
      BY <2>2, <2>4 DEF OneStep, IsReceipt
    <3>3. f[l] = Row(L[l])
      BY <1>3, <3>1, <3>2 DEF Applied, Row, DeliveryRow, ReceiptEvent
    <3> QED BY <1>2, <2>1, <2>4, <3>3
  <2>5. CASE l < i + 1
    <3>1. ~ IsReceipt(L[i + 1], t) /\ l <= i
      BY <1>2, <2>1, <2>5
    <3>2. f[i + 1] = f[i] /\ f[i] = Row(L[l])
      BY <1>5, <2>2, <3>1 DEF OneStep, IsReceipt
    <3> QED BY <1>2, <2>1, <3>1, <3>2
  <2> QED BY <1>2, <2>1, <2>3, <2>4, <2>5
<1>6. 0 .. Len(L) \subseteq S
  <2> HIDE DEF S
  <2> QED BY <1>2, <1>4, <1>5, SetInduction
<1>7. Len(L) \in S /\ l <= Len(L)
  BY <1>2, <1>6
<1> QED BY <1>1, <1>7

-----------------------------------------------------------------------------
(* The invariants *)

WorkerState ==
  {Resting}
    \cup [phase : {"targets"}, todo : SUBSET setup.targets, pending : BOOLEAN]
    \cup {w \in [phase : {"owner", "sending"}, todo : SUBSET setup.targets,
                 pending : BOOLEAN, target : setup.targets, attempt : Nat] : w.target \in w.todo}

TypeOK ==
  /\ setup \in Setups
  /\ log \in [Node -> Seq(Event)]
  /\ item \in [Node -> {"none", "queued", "locked", "done"}]
  /\ delivery \in [Node -> [Target -> DeliveryRow]]
  /\ worker \in [Node -> WorkerState]
  /\ view \in [Node -> SUBSET Node]
  /\ calls \in [Node -> [Target -> Nat]]

(* A log holds the events of an origin in the order of their numbers; they  *)
(* are a beginning of what the origin has logged itself, and the number it  *)
(* takes next is a new one.                                                 *)
InOrder(L) ==
  \A i, j \in DOMAIN L : (i < j /\ L[i].origin = L[j].origin) => L[i].seq < L[j].seq

HistoryInv ==
  /\ \A n \in Node : InOrder(log[n])
  /\ \A n \in Node : \A e \in Entries(log[n]) : e \in Entries(log[e.origin])
  /\ \A n \in Node : \A e \in Entries(log[n]) : \A f \in Entries(log[e.origin]) :
        (f.origin = e.origin /\ f.seq < e.seq) => f \in Entries(log[n])
  /\ \A n \in Node : \A e \in Entries(log[n]) : e.origin = n => e.seq < NextSeq(n)

(* The worker of n is at the call of t, or on the way to it.                *)
Sending(n, t) == worker[n].phase = "sending" /\ worker[n].target = t
BusyAt(n, t) == worker[n].phase \in {"owner", "sending"} /\ worker[n].target = t

(* An item is there when the alert is, locked when it is worked on; without *)
(* it nothing is delivered.                                                 *)
ItemInv ==
  \A n \in Node :
     /\ item[n] = "none" <=> (\A e \in Entries(log[n]) : e.kind # "alert")
     /\ worker[n] # Resting => item[n] = "locked"
     /\ item[n] = "none" => /\ \A t \in Target : delivery[n][t] = NoDelivery
                            /\ \A t \in Target : \A r \in About(log[n], t) : r.origin # n

(* The receipts a node writes about a target: attempts never fall and a     *)
(* success is the last word, whatever receipts of others come in between.   *)
StreamInv ==
  \A o \in Node, t \in Target : \A r \in About(log[o], t) :
     r.origin = o =>
       /\ r.attempt <= delivery[o][t].attempt
       /\ r.status = "succeeded" => delivery[o][t].status = "succeeded" /\ ~ Sending(o, t)
       /\ \A s \in About(log[o], t) :
             (s.origin = o /\ r.seq < s.seq) => r.attempt <= s.attempt /\ r.status # "succeeded"

(* All receipts of t in the log L are written by o.                         *)
Alone(L, t, o) == \A r \in About(L, t) : r.origin = o

IsLast(L, t, r) == r \in About(L, t) /\ \A s \in About(L, t) : s.seq <= r.seq

(* The delivery is that of the last receipt.                                *)
UpToDate(n, t) ==
  IF About(log[n], t) = {} THEN delivery[n][t] = NoDelivery
  ELSE \E r \in About(log[n], t) : IsLast(log[n], t, r) /\ delivery[n][t] = Row(r)

(* n has looked at the receipts of t: the alert came from another node, or  *)
(* it was reported here before the first of them.                           *)
Settled(n, t) ==
  \E i \in DOMAIN log[n] :
     /\ log[n][i].kind = "alert"
     /\ \/ log[n][i].origin # n
        \/ \A j \in DOMAIN log[n] : IsReceipt(log[n][j], t) => i < j

(* With the receipts of one writer only, the delivery is one of them, and   *)
(* the last when n has looked at them all.                                  *)
DeliveryInv ==
  \A n \in Node, t \in Target, o \in Node :
     Alone(log[n], t, o) =>
       /\ delivery[n][t] = NoDelivery \/ \E r \in About(log[n], t) : delivery[n][t] = Row(r)
       /\ Settled(n, t) => UpToDate(n, t)
       /\ (o = n /\ item[n] # "none") => Settled(n, t)
       /\ (/\ o # n /\ About(log[n], t) # {}
           /\ \A e \in Entries(log[o]) : e.kind = "alert" => e.origin = n)
            => Settled(n, t)

(* A writer that hears of no other stops at a final result, and while it    *)
(* calls the provider has no result of this attempt.                        *)
WriterInv ==
  \A o \in Node, t \in Target :
     Alone(log[o], t, o) =>
       /\ \A r \in About(log[o], t) : r.status \in Terminal => IsLast(log[o], t, r)
       /\ Sending(o, t) =>
            /\ delivery[o][t].status = "sending"
            /\ \A r \in About(log[o], t) : r.attempt = delivery[o][t].attempt => r.status = "sending"

First(n, t) ==
  /\ n \in setup.nodes
  /\ \E i \in DOMAIN setup.order[t] :
        /\ setup.order[t][i] = n
        /\ \A j \in DOMAIN setup.order[t] : setup.order[t][j] \in setup.nodes => i <= j

(* When the nodes know each other, only the one that ranks first calls and  *)
(* writes receipts, and what a node has passed over is settled for good.    *)
OwnerInv ==
  /\ \A n \in Node : setup.known[n] \subseteq view[n]
  /\ \A n \in Node : (worker[n] # Resting \/ item[n] # "none") => n \in setup.nodes
  /\ Converged => \A n \in Node, t \in Target :
        (\/ calls[n][t] > 0 \/ BusyAt(n, t)
         \/ \E r \in About(log[n], t) : r.origin = n) => First(n, t)
  /\ Converged => \A n \in Node : \A t \in setup.targets :
        Eligible(n, t) =>
          /\ item[n] = "done" => delivery[n][t].status \in Terminal
          /\ (worker[n] # Resting /\ ~ worker[n].pending /\ t \notin worker[n].todo)
               => delivery[n][t].status \in Terminal

(* What the members of WorkerState are. *)
LEMMA WorkerStates ==
  ASSUME TypeOK, NEW n \in Node
  PROVE  /\ worker[n].phase \in {"rest", "targets", "owner", "sending"}
         /\ worker[n].phase = "rest" <=> worker[n] = Resting
         /\ worker[n] # Resting => worker[n].todo \subseteq setup.targets /\ worker[n].pending \in BOOLEAN
         /\ worker[n].phase \in {"owner", "sending"} =>
              worker[n].target \in worker[n].todo /\ worker[n].target \in setup.targets
<1>1. worker[n] \in WorkerState
  BY DEF TypeOK
<1>2. CASE worker[n] = Resting
  BY <1>2 DEF Resting
<1>3. CASE worker[n] \in [phase : {"targets"}, todo : SUBSET setup.targets, pending : BOOLEAN]
  BY <1>3 DEF Resting
<1>4. CASE worker[n] \in {w \in [phase : {"owner", "sending"}, todo : SUBSET setup.targets,
                 pending : BOOLEAN, target : setup.targets, attempt : Nat] : w.target \in w.todo}
  BY <1>4 DEF Resting
<1> QED BY <1>1, <1>2, <1>3, <1>4 DEF WorkerState

(* What the setups are.                                                     *)
LEMMA SetupFacts ==
  ASSUME TypeOK
  PROVE  /\ setup.nodes \subseteq Node /\ setup.targets \subseteq Target
         /\ \A t \in Target : /\ setup.order[t] \in Seq(Node)
                              /\ \A i, j \in DOMAIN setup.order[t] :
                                    setup.order[t][i] = setup.order[t][j] => i = j
         /\ setup.known \in [Node -> SUBSET Node]
         /\ \A n \in Node : n \in setup.known[n]
BY DeliveryAssumption DEF TypeOK, Setup

-----------------------------------------------------------------------------
(* The history *)

(* A log is finite, and so is what it has of one origin. *)
LEMMA FiniteLog ==
  ASSUME TypeOK, NEW n \in Node
  PROVE  IsFiniteSet({e \in Entries(log[n]) : e.origin = n})
<1> DEFINE L == log[n]
<1>1. L \in Seq(Event) /\ DOMAIN L = 1 .. Len(L) /\ Len(L) \in Nat
  BY DEF TypeOK
<1>2. IsFiniteSet(DOMAIN L)
  BY <1>1, FS_Interval
<1>3. L \in Surjection(DOMAIN L, Entries(L))
  BY <1>1 DEF Surjection, Entries
<1> HIDE DEF L
<1>4. IsFiniteSet(Entries(L))
  BY <1>2, <1>3, FS_Surjection
<1>5. IsFiniteSet({e \in Entries(L) : e.origin = n})
  BY <1>4, FS_Subset
<1> QED BY <1>5 DEF L

(* The number a node takes next is positive. *)
LEMMA NextSeqNat ==
  ASSUME TypeOK, NEW n \in Node
  PROVE  NextSeq(n) \in Nat \ {0}
<1>1. Cardinality({e \in Entries(log[n]) : e.origin = n}) \in Nat
  BY FiniteLog, FS_CardinalityType
<1> QED BY <1>1 DEF NextSeq

(* The entries of a log are events.                                         *)
LEMMA EntriesEvents ==
  ASSUME TypeOK, NEW n \in Node
  PROVE  /\ \A e \in Entries(log[n]) : e \in Event /\ e.origin \in Node /\ e.seq \in Nat \ {0}
         /\ \A t \in Target : \A r \in About(log[n], t) :
               r \in ReceiptEvent /\ r \in Entries(log[n])
BY DEF TypeOK, Entries, About, Event, AlertEvent, ReceiptEvent

(* Events of one origin and number are one event, in whichever logs.        *)
LEMMA SameNumber ==
  ASSUME TypeOK, HistoryInv, NEW n \in Node, NEW m \in Node,
         NEW e \in Entries(log[n]), NEW f \in Entries(log[m]),
         e.origin = f.origin, e.seq = f.seq
  PROVE  e = f
<1> DEFINE o == e.origin
<1>1. o \in Node /\ e \in Entries(log[o]) /\ f \in Entries(log[o])
  BY EntriesEvents DEF HistoryInv
<1>2. PICK i \in DOMAIN log[o] : e = log[o][i]
  BY <1>1 DEF Entries
<1>3. PICK j \in DOMAIN log[o] : f = log[o][j]
  BY <1>1 DEF Entries
<1>4. InOrder(log[o]) /\ DOMAIN log[o] \subseteq Nat
  BY <1>1 DEF HistoryInv, TypeOK
<1>5. e.seq \in Nat
  BY EntriesEvents
<1>6. ~ (i < j) /\ ~ (j < i)
  BY <1>2, <1>3, <1>4, <1>5 DEF InOrder
<1>7. i = j
  BY <1>4, <1>6
<1> QED BY <1>2, <1>3, <1>7

(* The event of an origin that n lacks first comes after all it has.        *)
Missing(n, m, e) ==
  /\ e \in Entries(log[m]) \ Entries(log[n])
  /\ \A f \in Entries(log[m]) \ Entries(log[n]) : f.origin = e.origin => e.seq <= f.seq

(* What replication brings next is new to n and comes after all that n has  *)
(* of its origin.                                                           *)
LEMMA MissingComesLater ==
  ASSUME TypeOK, HistoryInv, NEW n \in Node, NEW m \in Node, NEW e, Missing(n, m, e)
  PROVE  /\ e \in Event /\ e.origin \in Node \ {n} /\ e \in Entries(log[e.origin])
         /\ \A g \in Entries(log[n]) : g.origin = e.origin => g.seq < e.seq
         /\ \A f \in Entries(log[e.origin]) :
               (f.origin = e.origin /\ f.seq < e.seq) => f \in Entries(log[n])
<1>1. e \in Event /\ e.origin \in Node /\ e.seq \in Nat /\ e \in Entries(log[e.origin])
  BY EntriesEvents DEF Missing, HistoryInv
<1>2. e.origin # n
  BY <1>1 DEF Missing
<1>3. ASSUME NEW g \in Entries(log[n]), g.origin = e.origin
      PROVE  g.seq < e.seq
  <2>1. g.seq \in Nat
    BY EntriesEvents
  <2>2. CASE g.seq = e.seq
    BY <1>1, <1>3, <2>2, SameNumber DEF Missing
  <2>3. CASE e.seq < g.seq
    <3>1. e \in Entries(log[g.origin])
      BY <1>1, <1>3
    <3>2. e \in Entries(log[n])
      BY <1>3, <2>3, <3>1 DEF HistoryInv
    <3> QED BY <3>2 DEF Missing
  <2> QED BY <1>1, <2>1, <2>2, <2>3
<1>4. ASSUME NEW f \in Entries(log[e.origin]), f.origin = e.origin, f.seq < e.seq
      PROVE  f \in Entries(log[n])
  <2>1. f \in Entries(log[m])
    BY <1>4 DEF HistoryInv, Missing
  <2>2. f.seq \in Nat
    BY <1>1, EntriesEvents
  <2> QED BY <1>1, <1>4, <2>1, <2>2 DEF Missing
<1> QED BY <1>1, <1>2, <1>3, <1>4

(* An event is appended to the log of n.                                    *)
Appended(n, e) == log' = [log EXCEPT ![n] = Append(log[n], e)]

(* What an appended event does to the logs. *)
LEMMA AppendedLogs ==
  ASSUME TypeOK, NEW n \in Node, NEW e \in Event, Appended(n, e)
  PROVE  /\ log' \in [Node -> Seq(Event)]
         /\ log'[n] = Append(log[n], e) /\ log[n] \in Seq(Event)
         /\ \A m \in Node \ {n} : log'[m] = log[m]
         /\ Entries(log'[n]) = Entries(log[n]) \cup {e}
         /\ \A m \in Node : Entries(log[m]) \subseteq Entries(log'[m])
         /\ \A m \in Node : \A g \in Entries(log'[m]) : g \in Entries(log[m]) \/ (m = n /\ g = e)
<1>1. log[n] \in Seq(Event)
  BY DEF TypeOK
<1>2. log'[n] = Append(log[n], e) /\ log' \in [Node -> Seq(Event)]
      /\ \A m \in Node \ {n} : log'[m] = log[m]
  BY <1>1, EntriesAppend DEF Appended, TypeOK
<1>3. Entries(log'[n]) = Entries(log[n]) \cup {e}
  BY <1>1, <1>2, EntriesAppend
<1> QED BY <1>1, <1>2, <1>3

(* A log stays in order when the new event comes after those of its origin. *)
LEMMA AppendInOrder ==
  ASSUME NEW L \in Seq(Event), NEW e \in Event, InOrder(L),
         \A g \in Entries(L) : g.origin = e.origin => g.seq < e.seq
  PROVE  InOrder(Append(L, e))
<1>1. /\ \A i \in DOMAIN L : i \in DOMAIN Append(L, e) /\ Append(L, e)[i] = L[i]
      /\ Append(L, e)[Len(L) + 1] = e
      /\ DOMAIN Append(L, e) = 1 .. Len(L) + 1
  BY EntriesAppend
<1>2. DOMAIN L = 1 .. Len(L) /\ Len(L) \in Nat
  OBVIOUS
<1> DEFINE M == Append(L, e)
<1> HIDE DEF M
<1>3. ASSUME NEW i \in DOMAIN M, NEW j \in DOMAIN M, i < j, M[i].origin = M[j].origin
      PROVE  M[i].seq < M[j].seq
  <2>1. i \in DOMAIN L /\ M[i] = L[i] /\ L[i] \in Entries(L)
    BY <1>1, <1>2, <1>3 DEF M, Entries
  <2>2. CASE j \in DOMAIN L
    BY <1>1, <1>3, <2>1, <2>2 DEF M, InOrder
  <2>3. CASE j = Len(L) + 1
    BY <1>1, <1>3, <2>1, <2>3 DEF M
  <2> QED BY <1>1, <1>2, <2>2, <2>3 DEF M
<1> QED BY <1>3 DEF InOrder, M

(* Replication keeps the histories sound. *)
LEMMA LearnedHistory ==
  ASSUME TypeOK, HistoryInv, NEW n \in Node, NEW m \in Node, NEW e, Missing(n, m, e),
         Appended(n, e)
  PROVE  HistoryInv'
<1>1. /\ e \in Event /\ e.origin \in Node \ {n} /\ e \in Entries(log[e.origin])
      /\ \A g \in Entries(log[n]) : g.origin = e.origin => g.seq < e.seq
      /\ \A f \in Entries(log[e.origin]) :
               (f.origin = e.origin /\ f.seq < e.seq) => f \in Entries(log[n])
  BY MissingComesLater
<1>2. /\ log'[n] = Append(log[n], e) /\ log[n] \in Seq(Event)
      /\ \A k \in Node \ {n} : log'[k] = log[k]
      /\ Entries(log'[n]) = Entries(log[n]) \cup {e}
      /\ \A k \in Node : Entries(log[k]) \subseteq Entries(log'[k])
      /\ \A k \in Node : \A g \in Entries(log'[k]) : g \in Entries(log[k]) \/ (k = n /\ g = e)
  BY <1>1, AppendedLogs
<1>3. \A k \in Node : InOrder(log'[k])
  BY <1>1, <1>2, AppendInOrder DEF HistoryInv
<1>4. ASSUME NEW k \in Node, NEW g \in Entries(log'[k])
      PROVE  g \in Entries(log'[g.origin])
  <2>1. CASE g \in Entries(log[k])
    <3>1. g.origin \in Node /\ g \in Entries(log[g.origin])
      BY <2>1, EntriesEvents DEF HistoryInv
    <3> QED BY <1>2, <3>1
  <2>2. CASE g = e
    BY <1>1, <1>2, <2>2
  <2> QED BY <1>2, <2>1, <2>2
<1>5. ASSUME NEW k \in Node, NEW g \in Entries(log'[k]), NEW f \in Entries(log'[g.origin]),
             f.origin = g.origin, f.seq < g.seq
      PROVE  f \in Entries(log'[k])
  <2>1. g.origin \in Node
    BY <1>1, <1>2, EntriesEvents
  <2>2. f \in Entries(log[g.origin])
    BY <1>1, <1>2, <1>5, <2>1
  <2>3. CASE g \in Entries(log[k])
    BY <1>2, <1>5, <2>2, <2>3 DEF HistoryInv
  <2>4. CASE k = n /\ g = e
    BY <1>1, <1>2, <1>5, <2>2, <2>4
  <2> QED BY <1>2, <2>3, <2>4
<1>6. {g \in Entries(log'[n]) : g.origin = n} = {g \in Entries(log[n]) : g.origin = n}
  BY <1>1, <1>2
<1>7. \A k \in Node : NextSeq(k)' = NextSeq(k)
  BY <1>2, <1>6 DEF NextSeq
<1>8. ASSUME NEW k \in Node, NEW g \in Entries(log'[k]), g.origin = k
      PROVE  g.seq < NextSeq(k)'
  <2>1. g \in Entries(log[k])
    BY <1>1, <1>2, <1>8
  <2>2. g.seq < NextSeq(k)
    BY <1>8, <2>1 DEF HistoryInv
  <2> QED BY <1>7, <2>2
<1> QED BY <1>3, <1>4, <1>5, <1>8 DEF HistoryInv

(* So does an event a node writes itself. *)
LEMMA OwnHistory ==
  ASSUME TypeOK, HistoryInv, NEW n \in Node, NEW e \in Event, e.origin = n, e.seq = NextSeq(n),
         Appended(n, e)
  PROVE  HistoryInv'
<1>1. \A g \in Entries(log[n]) : g.origin = e.origin => g.seq < e.seq
  BY DEF HistoryInv
<1>2. /\ log'[n] = Append(log[n], e) /\ log[n] \in Seq(Event)
      /\ \A k \in Node \ {n} : log'[k] = log[k]
      /\ Entries(log'[n]) = Entries(log[n]) \cup {e}
      /\ \A k \in Node : Entries(log[k]) \subseteq Entries(log'[k])
      /\ \A k \in Node : \A g \in Entries(log'[k]) : g \in Entries(log[k]) \/ (k = n /\ g = e)
  BY AppendedLogs
<1>3. \A k \in Node : InOrder(log'[k])
  BY <1>1, <1>2, AppendInOrder DEF HistoryInv
<1>4. \A k \in Node : \A g \in Entries(log'[k]) : g \in Entries(log'[g.origin])
  BY <1>2, EntriesEvents DEF HistoryInv
<1>5. ASSUME NEW k \in Node, NEW g \in Entries(log'[k]), NEW f \in Entries(log'[g.origin]),
             f.origin = g.origin, f.seq < g.seq
      PROVE  f \in Entries(log'[k])
  <2>1. g.origin \in Node
    BY <1>2, EntriesEvents
  <2>2. CASE k = n /\ g = e
    BY <1>5, <2>2
  <2>3. CASE g \in Entries(log[k])
    <3>1. g.seq \in Nat /\ g \in Entries(log[g.origin])
      BY <2>3, EntriesEvents DEF HistoryInv
    <3>2. f \in Entries(log[g.origin])
      <4>1. SUFFICES ASSUME g.origin = n, f = e PROVE FALSE
        BY <1>2, <2>1
      <4>2. g.seq < e.seq /\ e.seq \in Nat
        BY <1>1, <3>1, <4>1, NextSeqNat
      <4> QED BY <1>5, <3>1, <4>1, <4>2
    <3>3. f \in Entries(log[k])
      BY <1>5, <2>3, <3>2 DEF HistoryInv
    <3> QED BY <1>2, <3>3
  <2> QED BY <1>2, <2>2, <2>3
<1>6. NextSeq(n)' = NextSeq(n) + 1
  <2> DEFINE S == {g \in Entries(log[n]) : g.origin = n}
  <2>1. {g \in Entries(log'[n]) : g.origin = n} = S \cup {e}
    BY <1>2
  <2>2. e \notin S
    BY <1>1, NextSeqNat
  <2>3. IsFiniteSet(S)
    BY FiniteLog
  <2> HIDE DEF S
  <2>4. Cardinality(S \cup {e}) = Cardinality(S) + 1 /\ Cardinality(S) \in Nat
    BY <2>2, <2>3, FS_AddElement, FS_CardinalityType
  <2>5. NextSeq(n)' = 1 + Cardinality(S \cup {e}) /\ NextSeq(n) = 1 + Cardinality(S)
    BY <2>1 DEF NextSeq, S
  <2> QED BY <2>4, <2>5
<1>7. \A k \in Node \ {n} : NextSeq(k)' = NextSeq(k)
  BY <1>2 DEF NextSeq
<1>8. ASSUME NEW k \in Node, NEW g \in Entries(log'[k]), g.origin = k
      PROVE  g.seq < NextSeq(k)'
  <2>1. CASE k # n
    BY <1>2, <1>7, <1>8, <2>1 DEF HistoryInv
  <2>2. CASE k = n /\ g = e
    BY <1>6, <2>2, NextSeqNat
  <2>3. CASE k = n /\ g \in Entries(log[n])
    <3>1. g.seq < NextSeq(n) /\ g.seq \in Nat
      BY <1>8, <2>3, EntriesEvents DEF HistoryInv
    <3> QED BY <1>6, <2>3, <3>1, NextSeqNat
  <2> QED BY <1>2, <2>1, <2>2, <2>3
<1> QED BY <1>3, <1>4, <1>5, <1>8 DEF HistoryInv

-----------------------------------------------------------------------------
(* What an appended event does to the receipts of a target                  *)

(* The receipts of a target after an event is appended. *)
LEMMA AppendedAbout ==
  ASSUME TypeOK, NEW n \in Node, NEW e \in Event, Appended(n, e), NEW t \in Target
  PROVE  /\ IsReceipt(e, t) => About(log'[n], t) = About(log[n], t) \cup {e}
         /\ ~ IsReceipt(e, t) => About(log'[n], t) = About(log[n], t)
         /\ \A m \in Node \ {n} : About(log'[m], t) = About(log[m], t)
<1>1. /\ Entries(log'[n]) = Entries(log[n]) \cup {e}
      /\ \A m \in Node \ {n} : log'[m] = log[m]
  BY AppendedLogs
<1>2. IsReceipt(e, t) => About(log'[n], t) = About(log[n], t) \cup {e}
  BY <1>1 DEF About, IsReceipt
<1>3. ~ IsReceipt(e, t) => About(log'[n], t) = About(log[n], t)
  BY <1>1 DEF About, IsReceipt
<1>4. \A m \in Node \ {n} : About(log'[m], t) = About(log[m], t)
  BY <1>1 DEF About
<1> QED BY <1>2, <1>3, <1>4

(* A node that has looked at its receipts has so after an append, and an    *)
(* alert of another node makes it look.                                     *)
LEMMA AppendedSettled ==
  ASSUME TypeOK, NEW n \in Node, NEW e \in Event, Appended(n, e), NEW t \in Target
  PROVE  /\ Settled(n, t) => Settled(n, t)'
         /\ e.kind = "receipt" => (Settled(n, t)' => Settled(n, t))
         /\ (e.kind = "alert" /\ (e.origin # n \/ About(log[n], t) = {})) => Settled(n, t)'
         /\ \A m \in Node \ {n} : Settled(m, t)' <=> Settled(m, t)
<1> DEFINE L == log[n]
           M == log'[n]
<1>1. /\ \A i \in DOMAIN L : i \in DOMAIN M /\ M[i] = L[i]
      /\ M[Len(L) + 1] = e /\ DOMAIN M = 1 .. Len(L) + 1
      /\ DOMAIN L = 1 .. Len(L) /\ Len(L) \in Nat
  BY AppendedLogs, EntriesAppend
<1>2. \A m \in Node \ {n} : log'[m] = log[m]
  BY AppendedLogs
<1> HIDE DEF L, M
<1>3. Settled(n, t) <=> \E i \in DOMAIN L : /\ L[i].kind = "alert"
                                            /\ \/ L[i].origin # n
                                               \/ \A j \in DOMAIN L : IsReceipt(L[j], t) => i < j
  BY DEF Settled, L
<1>4. Settled(n, t)' <=> \E i \in DOMAIN M : /\ M[i].kind = "alert"
                                             /\ \/ M[i].origin # n
                                                \/ \A j \in DOMAIN M : IsReceipt(M[j], t) => i < j
  BY DEF Settled, M
<1>5. ASSUME Settled(n, t) PROVE Settled(n, t)'
  <2>1. PICK i \in DOMAIN L : /\ L[i].kind = "alert"
                              /\ \/ L[i].origin # n
                                 \/ \A j \in DOMAIN L : IsReceipt(L[j], t) => i < j
    BY <1>3, <1>5
  <2>2. i \in DOMAIN M /\ M[i] = L[i] /\ i < Len(L) + 1
    BY <1>1
  <2>3. (\A j \in DOMAIN L : IsReceipt(L[j], t) => i < j)
          => \A j \in DOMAIN M : IsReceipt(M[j], t) => i < j
    <3>1. \A j \in DOMAIN M : j \in DOMAIN L \/ j = Len(L) + 1
      BY <1>1
    <3> QED BY <1>1, <2>2, <3>1
  <2> QED BY <1>4, <2>1, <2>2, <2>3
<1>6. ASSUME e.kind = "receipt", Settled(n, t)' PROVE Settled(n, t)
  <2>1. PICK i \in DOMAIN M : /\ M[i].kind = "alert"
                              /\ \/ M[i].origin # n
                                 \/ \A j \in DOMAIN M : IsReceipt(M[j], t) => i < j
    BY <1>4, <1>6
  <2>2. i \in DOMAIN L /\ M[i] = L[i]
    BY <1>1, <1>6, <2>1
  <2> QED BY <1>1, <1>3, <2>1, <2>2
<1>7. ASSUME e.kind = "alert", e.origin # n \/ About(log[n], t) = {} PROVE Settled(n, t)'
  <2>1. Len(L) + 1 \in DOMAIN M /\ M[Len(L) + 1] = e
    BY <1>1
  <2>2. CASE e.origin # n
    BY <1>4, <1>7, <2>1, <2>2
  <2>3. CASE About(log[n], t) = {}
    <3>1. \A j \in DOMAIN L : ~ IsReceipt(L[j], t)
      BY <2>3 DEF About, Entries, IsReceipt, L
    <3>2. \A j \in DOMAIN M : j \in DOMAIN L \/ j = Len(L) + 1
      BY <1>1
    <3>3. \A j \in DOMAIN M : ~ IsReceipt(M[j], t)
      BY <1>1, <1>7, <3>1, <3>2 DEF IsReceipt
    <3> QED BY <1>4, <1>7, <2>1, <3>3
  <2> QED BY <1>7, <2>2, <2>3
<1>8. \A m \in Node \ {n} : Settled(m, t)' <=> Settled(m, t)
  BY <1>2 DEF Settled
<1> QED BY <1>5, <1>6, <1>7, <1>8

(* The receipts of one writer, wherever they are, follow its own log.       *)
LEMMA AloneStream ==
  ASSUME TypeOK, HistoryInv, StreamInv, NEW n \in Node, NEW t \in Target,
         NEW r \in About(log[n], t), NEW s \in About(log[n], t),
         r.origin = s.origin, r.seq < s.seq
  PROVE  r.attempt <= s.attempt /\ r.status # "succeeded"
<1> DEFINE o == r.origin
<1>1. o \in Node /\ r \in Entries(log[o]) /\ s \in Entries(log[o])
  BY EntriesEvents DEF HistoryInv, About
<1>2. r \in About(log[o], t) /\ s \in About(log[o], t)
  BY <1>1 DEF About
<1> QED BY <1>1, <1>2 DEF StreamInv

(* The replay of the receipts of one writer ends with the last of them.     *)
LEMMA ReplayedAlone ==
  ASSUME NEW L \in Seq(Event), InOrder(L), NEW t, NEW o, Alone(L, t, o), NEW d \in DeliveryRow,
         \A r, s \in About(L, t) : r.seq < s.seq => r.attempt <= s.attempt /\ r.status # "succeeded",
         d = NoDelivery \/ \E r \in About(L, t) : d = Row(r)
  PROVE  IF About(L, t) = {} THEN Replayed(L, t, d) = NoDelivery
         ELSE \E r \in About(L, t) : IsLast(L, t, r) /\ Replayed(L, t, d) = Row(r)
<1>1. CASE About(L, t) = {}
  BY <1>1, ReplayedNone
<1>2. CASE About(L, t) # {}
  <2>1. PICK l \in DOMAIN L : /\ IsReceipt(L[l], t)
                              /\ \A i \in DOMAIN L : IsReceipt(L[i], t) => i <= l
    BY <1>2, LastPosition
  <2>2. DOMAIN L \subseteq Nat
    OBVIOUS
  <2>3. \A i \in DOMAIN L : IsReceipt(L[i], t) =>
           /\ L[i] \in About(L, t) /\ L[i].origin = o
           /\ L[i] \in ReceiptEvent /\ L[i].seq \in Nat /\ L[i].attempt \in Nat
    BY DEF About, Entries, IsReceipt, Alone, Event, AlertEvent, ReceiptEvent
  <2>4. ASSUME NEW i \in DOMAIN L, IsReceipt(L[i], t)
        PROVE  /\ i <= l
               /\ L[i].attempt <= L[l].attempt
               /\ i < l => L[i].status # "succeeded"
               /\ L[i].seq <= L[l].seq
    <3>1. i <= l
      BY <2>1, <2>4
    <3>2. CASE i = l
      BY <2>1, <2>2, <2>3, <3>2
    <3>3. CASE i < l
      <4>1. L[i].seq < L[l].seq
        BY <2>1, <2>3, <2>4, <3>3 DEF InOrder
      <4> QED BY <2>1, <2>3, <2>4, <3>1, <4>1
    <3> QED BY <2>2, <3>1, <3>2, <3>3
  <2>5. \A s \in About(L, t) : s.seq <= L[l].seq
    BY <2>4 DEF About, Entries, IsReceipt
  <2>6. d.attempt <= L[l].attempt /\ (d.status = "succeeded" => L[l].status = "succeeded")
    <3>1. CASE d = NoDelivery
      BY <2>1, <2>3, <3>1 DEF NoDelivery
    <3>2. CASE \E r \in About(L, t) : d = Row(r)
      <4>1. PICK i \in DOMAIN L : IsReceipt(L[i], t) /\ d = Row(L[i])
        BY <3>2 DEF About, Entries, IsReceipt
      <4>2. i = l \/ (i < l /\ L[i].status # "succeeded")
        BY <2>2, <2>4, <4>1
      <4> QED BY <2>4, <4>1, <4>2 DEF Row
    <3> QED BY <3>1, <3>2
  <2>7. Replayed(L, t, d) = Row(L[l])
    BY <2>1, <2>4, <2>6, ReplayedLast
  <2>8. L[l] \in About(L, t) /\ IsLast(L, t, L[l])
    BY <2>1, <2>3, <2>5 DEF IsLast
  <2> QED BY <1>2, <2>7, <2>8
<1> QED BY <1>1, <1>2

(* There is one last receipt.                                               *)
LEMMA LastIsOne ==
  ASSUME TypeOK, HistoryInv, NEW n \in Node, NEW t \in Target, NEW o, Alone(log[n], t, o),
         NEW r, IsLast(log[n], t, r), NEW s, IsLast(log[n], t, s)
  PROVE  r = s
<1>1. r \in Entries(log[n]) /\ s \in Entries(log[n]) /\ r.origin = s.origin
  BY DEF IsLast, About, Alone
<1>2. r.seq \in Nat /\ s.seq \in Nat /\ r.seq <= s.seq /\ s.seq <= r.seq
  BY <1>1, EntriesEvents DEF IsLast
<1> QED BY <1>1, <1>2, SameNumber

-----------------------------------------------------------------------------
(* Steps that write no receipt                                              *)

CoreInv == TypeOK /\ HistoryInv /\ ItemInv /\ StreamInv /\ DeliveryInv /\ WriterInv

(* A step that leaves logs and deliveries alone keeps the invariants. *)
LEMMA QuietStep ==
  ASSUME CoreInv, UNCHANGED <<log, delivery>>,
         \A m \in Node : item'[m] = "none" <=> item[m] = "none",
         \A m \in Node : worker'[m] # Resting => item'[m] = "locked",
         \A m \in Node, t \in Target : Sending(m, t)' => Sending(m, t)
  PROVE  HistoryInv' /\ ItemInv' /\ StreamInv' /\ DeliveryInv' /\ WriterInv'
<1>1. log' = log /\ delivery' = delivery
  OBVIOUS
<1>2. HistoryInv'
  BY <1>1 DEF CoreInv, HistoryInv, NextSeq
<1>3. ItemInv'
  BY <1>1 DEF CoreInv, ItemInv
<1>4. StreamInv'
  BY <1>1 DEF CoreInv, StreamInv
<1>5. \A n \in Node, t \in Target : /\ Settled(n, t)' <=> Settled(n, t)
                                    /\ UpToDate(n, t)' <=> UpToDate(n, t)
  BY <1>1 DEF Settled, UpToDate
<1>6. DeliveryInv'
  BY <1>1, <1>5 DEF CoreInv, DeliveryInv
<1>7. WriterInv'
  BY <1>1 DEF CoreInv, WriterInv
<1> QED BY <1>2, <1>3, <1>4, <1>6, <1>7

(* The alert is reported to n.                                              *)
LEMMA IngestStep ==
  ASSUME CoreInv, NEW n \in Node, Ingest(n)
  PROVE  HistoryInv' /\ ItemInv' /\ StreamInv' /\ DeliveryInv' /\ WriterInv'
<1> DEFINE e == AlertBy(n)
<1> USE DEF CoreInv
<1>1. /\ item[n] = "none" /\ item' = [item EXCEPT ![n] = "queued"]
      /\ Appended(n, e) /\ UNCHANGED <<delivery, worker>>
  BY DEF Ingest, Appended
<1>2. NextSeq(n) \in Nat \ {0}
  BY NextSeqNat
<1>3. e \in Event /\ e.kind = "alert" /\ e.origin = n /\ e.seq = NextSeq(n)
  BY <1>2 DEF AlertBy, Event, AlertEvent
<1> HIDE DEF e
<1>4. HistoryInv'
  BY <1>1, <1>3, OwnHistory
<1>5. /\ \A m \in Node \ {n} : log'[m] = log[m]
      /\ Entries(log'[n]) = Entries(log[n]) \cup {e}
      /\ \A m \in Node : Entries(log[m]) \subseteq Entries(log'[m])
  BY <1>1, <1>3, AppendedLogs
<1>6. \A m \in Node, t \in Target : About(log'[m], t) = About(log[m], t)
  <2>1. ASSUME NEW t \in Target PROVE ~ IsReceipt(e, t)
    BY <1>3 DEF IsReceipt
  <2> QED BY <1>1, <1>3, <2>1, AppendedAbout
<1>7. item' \in [Node -> {"none", "queued", "locked", "done"}] /\ item'[n] = "queued"
      /\ \A m \in Node \ {n} : item'[m] = item[m]
  BY <1>1 DEF TypeOK
<1>8. worker[n] = Resting
  BY <1>1 DEF ItemInv
<1>9. ItemInv'
  <2>1. \A m \in Node \ {n} : Entries(log'[m]) = Entries(log[m])
    BY <1>5
  <2>2. e \in Entries(log'[n])
    BY <1>5
  <2> QED BY <1>1, <1>3, <1>6, <1>7, <1>8, <2>1, <2>2 DEF ItemInv
<1>10. StreamInv'
  BY <1>1, <1>6 DEF StreamInv, Sending
<1>11. WriterInv'
  BY <1>1, <1>6 DEF WriterInv, Sending, Alone, IsLast
<1>12. ASSUME NEW m \in Node, NEW t \in Target, NEW o \in Node, Alone(log'[m], t, o)
       PROVE  /\ delivery'[m][t] = NoDelivery \/ \E r \in About(log'[m], t) : delivery'[m][t] = Row(r)
              /\ Settled(m, t)' => UpToDate(m, t)'
              /\ (o = m /\ item'[m] # "none") => Settled(m, t)'
              /\ (/\ o # m /\ About(log'[m], t) # {}
                  /\ \A a \in Entries(log'[o]) : a.kind = "alert" => a.origin = m)
                   => Settled(m, t)'
  <2>1. Alone(log[m], t, o)
    BY <1>6, <1>12 DEF Alone
  <2>2. UpToDate(m, t)' <=> UpToDate(m, t)
    BY <1>1, <1>6 DEF UpToDate, IsLast
  <2>3. CASE m # n
    <3>1. Settled(m, t)' <=> Settled(m, t)
      BY <1>1, <1>3, <2>3, AppendedSettled
    <3>2. (\A a \in Entries(log'[o]) : a.kind = "alert" => a.origin = m)
            => (\A a \in Entries(log[o]) : a.kind = "alert" => a.origin = m)
      BY <1>5
    <3> QED BY <1>1, <1>6, <1>7, <2>1, <2>2, <2>3, <3>1, <3>2 DEF DeliveryInv
  <2>4. CASE m = n
    <3>1. delivery[n][t] = NoDelivery /\ \A r \in About(log[n], t) : r.origin # n
      BY <1>1 DEF ItemInv
    <3>2. Settled(n, t)' => About(log[n], t) = {}
      <4>1. SUFFICES ASSUME Settled(n, t)', About(log[n], t) # {} PROVE FALSE
        OBVIOUS
      <4> DEFINE L == log[n]
                 M == log'[n]
      <4>2. /\ \A i \in DOMAIN L : i \in DOMAIN M /\ M[i] = L[i]
            /\ M[Len(L) + 1] = e /\ DOMAIN M = 1 .. Len(L) + 1
            /\ DOMAIN L = 1 .. Len(L) /\ Len(L) \in Nat
        BY <1>1, <1>3, AppendedLogs, EntriesAppend
      <4>3. PICK i \in DOMAIN M : /\ M[i].kind = "alert"
                                  /\ \/ M[i].origin # n
                                     \/ \A j \in DOMAIN M : IsReceipt(M[j], t) => i < j
        BY <4>1 DEF Settled
      <4>4. PICK j \in DOMAIN L : IsReceipt(L[j], t)
        BY <4>1 DEF About, Entries, IsReceipt
      <4>5. \A k \in DOMAIN L : L[k].kind # "alert"
        BY <1>1 DEF ItemInv, Entries
      <4> HIDE DEF L, M
      <4>6. i = Len(L) + 1
        BY <4>2, <4>3, <4>5
      <4>7. IsReceipt(M[j], t) /\ j \in DOMAIN M /\ j < i
        BY <4>2, <4>4, <4>6
      <4> QED BY <1>3, <4>2, <4>3, <4>6, <4>7
    <3>3. About(log[n], t) = {} => Settled(n, t)'
      BY <1>1, <1>3, AppendedSettled
    <3>4. o = n => About(log[n], t) = {}
      BY <2>1, <2>4, <3>1 DEF Alone
    <3>5. Settled(n, t)' => UpToDate(n, t)
      BY <3>1, <3>2 DEF UpToDate
    <3>6. ASSUME o # n, About(log[n], t) # {},
                 \A a \in Entries(log'[o]) : a.kind = "alert" => a.origin = n
          PROVE  FALSE
      <4>1. PICK r \in About(log[n], t) : r.origin = o
        BY <2>1, <2>4, <3>6 DEF Alone
      <4>2. r \in About(log[o], t)
        BY <4>1 DEF HistoryInv, About
      <4>3. item[o] # "none"
        BY <4>1, <4>2 DEF ItemInv
      <4>4. PICK a \in Entries(log[o]) : a.kind = "alert"
        BY <4>3 DEF ItemInv
      <4>5. a.origin = n
        BY <1>5, <3>6, <4>4
      <4>6. a \in Entries(log[n])
        BY <4>4, <4>5 DEF HistoryInv
      <4> QED BY <1>1, <4>4, <4>6 DEF ItemInv
    <3> QED BY <1>1, <1>6, <1>7, <2>2, <2>4, <3>1, <3>3, <3>4, <3>5, <3>6
  <2> QED BY <2>3, <2>4
<1>13. DeliveryInv'
  BY <1>12 DEF DeliveryInv
<1> QED BY <1>4, <1>9, <1>10, <1>11, <1>13

-----------------------------------------------------------------------------
(* Steps that write a receipt                                               *)

(* The worker of n saves d for t; what a caller has to know of d.           *)
MaySave(n, t, d) ==
  /\ d \in DeliveryRow /\ d.status # "none"
  /\ delivery[n][t].attempt <= d.attempt
  /\ \A r \in About(log[n], t) : r.origin = n => r.status # "succeeded"
  /\ Alone(log[n], t, n) => \A r \in About(log[n], t) :
        r.status \notin Terminal /\ ~ (r.status = d.status /\ r.attempt = d.attempt)
  /\ \A u \in Target : Sending(n, u)' =>
        /\ u = t /\ d.status = "sending"
        /\ \A r \in About(log[n], t) : r.origin = n => r.attempt < d.attempt

(* A receipt written by the worker of n keeps the invariants. *)
LEMMA WriteStep ==
  ASSUME CoreInv, NEW n \in Node, NEW t \in Target, NEW d, SaveDelivery(n, t, d),
         MaySave(n, t, d), item[n] = "locked", UNCHANGED item,
         \A m \in Node \ {n} : worker'[m] = worker[m]
  PROVE  HistoryInv' /\ ItemInv' /\ StreamInv' /\ DeliveryInv' /\ WriterInv'
<1> DEFINE e == Receipt(n, t, d)
           Told == \E f \in Entries(log[n]) : /\ f.kind = "receipt" /\ f.origin = n
                                              /\ f.target = t /\ f.status = d.status
                                              /\ f.attempt = d.attempt
<1> USE DEF CoreInv
<1>1. NextSeq(n) \in Nat \ {0}
  BY NextSeqNat
<1>2. e \in ReceiptEvent /\ e.kind = "receipt" /\ e.origin = n /\ e.seq = NextSeq(n)
      /\ e.target = t /\ e.status = d.status /\ e.attempt = d.attempt
  BY <1>1 DEF Receipt, ReceiptEvent, MaySave, DeliveryRow
<1>3. delivery' = [delivery EXCEPT ![n][t] = d]
  BY DEF SaveDelivery
<1>4. /\ Told => log' = log
      /\ ~ Told => Appended(n, e)
  BY DEF SaveDelivery, Appended, TypeOK
<1> HIDE DEF e
<1>5. e \in Event /\ IsReceipt(e, t) /\ \A u \in Target \ {t} : ~ IsReceipt(e, u)
  BY <1>2 DEF Event, IsReceipt
<1>6. /\ delivery'[n][t] = d
      /\ \A u \in Target \ {t} : delivery'[n][u] = delivery[n][u]
      /\ \A m \in Node \ {n} : delivery'[m] = delivery[m]
  BY <1>3 DEF TypeOK
<1>7. Told => \E f \in About(log[n], t) : f.origin = n /\ f.status = d.status /\ f.attempt = d.attempt
  BY DEF About
<1> HIDE DEF Told
<1>8. HistoryInv'
  <2>1. CASE Told
    BY <1>4, <2>1 DEF HistoryInv, NextSeq
  <2>2. CASE ~ Told
    BY <1>2, <1>4, <1>5, <2>2, OwnHistory
  <2> QED BY <2>1, <2>2
<1>9. /\ \A m \in Node \ {n} : log'[m] = log[m]
      /\ \A g \in Entries(log'[n]) : g \in Entries(log[n]) \/ (~ Told /\ g = e)
      /\ \A m \in Node : Entries(log[m]) \subseteq Entries(log'[m])
      /\ ~ Told => e \in Entries(log'[n])
  <2>1. CASE Told
    BY <1>4, <2>1
  <2>2. CASE ~ Told
    <3>1. Appended(n, e)
      BY <1>4, <2>2
    <3>2. /\ \A m \in Node \ {n} : log'[m] = log[m]
          /\ Entries(log'[n]) = Entries(log[n]) \cup {e}
          /\ \A m \in Node : Entries(log[m]) \subseteq Entries(log'[m])
      BY <1>5, <3>1, AppendedLogs
    <3> QED BY <2>2, <3>2
  <2> QED BY <2>1, <2>2
<1>10. /\ \A m \in Node, u \in Target : (m # n \/ u # t) => About(log'[m], u) = About(log[m], u)
       /\ Told => About(log'[n], t) = About(log[n], t)
       /\ ~ Told => About(log'[n], t) = About(log[n], t) \cup {e}
  <2>1. CASE Told
    BY <1>4, <2>1
  <2>2. CASE ~ Told
    <3>1. Appended(n, e)
      BY <1>4, <2>2
    <3> QED BY <1>5, <2>2, <3>1, AppendedAbout
  <2> QED BY <2>1, <2>2
<1>11. \A m \in Node, u \in Target : (Settled(m, u) => Settled(m, u)')
                                     /\ (Settled(m, u)' => Settled(m, u))
  <2>1. CASE Told
    BY <1>4, <2>1 DEF Settled
  <2>2. CASE ~ Told
    <3>1. Appended(n, e)
      BY <1>4, <2>2
    <3> QED BY <1>2, <1>5, <3>1, AppendedSettled
  <2> QED BY <2>1, <2>2
<1>12. ItemInv'
  <2>1. ASSUME NEW m \in Node
        PROVE  item'[m] = "none" <=> (\A g \in Entries(log'[m]) : g.kind # "alert")
    <3>1. item'[m] = item[m]
      OBVIOUS
    <3>2. (\A g \in Entries(log'[m]) : g.kind # "alert") <=> (\A g \in Entries(log[m]) : g.kind # "alert")
      BY <1>2, <1>9
    <3> QED BY <3>1, <3>2 DEF ItemInv
  <2>2. \A m \in Node : worker'[m] # Resting => item'[m] = "locked"
    BY DEF ItemInv
  <2>3. \A m \in Node : item'[m] = "none" =>
           /\ \A u \in Target : delivery'[m][u] = NoDelivery
           /\ \A u \in Target : \A r \in About(log'[m], u) : r.origin # m
    BY <1>6, <1>10 DEF ItemInv
  <2> QED BY <2>1, <2>2, <2>3 DEF ItemInv
<1>13. \A m \in Node \ {n}, u \in Target : Sending(m, u)' <=> Sending(m, u)
  BY DEF Sending
<1>14. \A u \in Target \ {t} : ~ Sending(n, u)'
  BY DEF MaySave
<1>15. \A r \in About(log[n], t) : r \in ReceiptEvent /\ r.seq \in Nat /\ r.attempt \in Nat
                                   /\ (r.origin = n => r.seq < NextSeq(n))
  BY EntriesEvents DEF ReceiptEvent, HistoryInv
<1>16. delivery[n][t].attempt \in Nat /\ d.attempt \in Nat
  BY DEF TypeOK, DeliveryRow, MaySave
<1>17. StreamInv'
  <2>1. ASSUME NEW o \in Node, NEW u \in Target, NEW r \in About(log'[o], u), r.origin = o
        PROVE  /\ r.attempt <= delivery'[o][u].attempt
               /\ r.status = "succeeded" => delivery'[o][u].status = "succeeded" /\ ~ Sending(o, u)'
               /\ \A s \in About(log'[o], u) :
                     (s.origin = o /\ r.seq < s.seq) => r.attempt <= s.attempt /\ r.status # "succeeded"
    <3>1. CASE o # n
      BY <1>6, <1>10, <1>13, <2>1, <3>1 DEF StreamInv
    <3>2. CASE o = n /\ u # t
      BY <1>6, <1>10, <1>14, <2>1, <3>2 DEF StreamInv
    <3>3. CASE o = n /\ u = t
      <4>1. r \in About(log[n], t) \/ (~ Told /\ r = e)
        BY <1>10, <3>3
      <4>2. r \in About(log[n], t) => /\ r.attempt <= delivery[n][t].attempt
                                      /\ r.status # "succeeded"
        BY <2>1, <3>3 DEF StreamInv, MaySave
      <4>3. r \in About(log[n], t) => r.attempt <= d.attempt
        BY <1>15, <1>16, <4>2 DEF MaySave
      <4>4. r.attempt <= delivery'[n][t].attempt
        BY <1>2, <1>6, <1>16, <4>1, <4>3
      <4>5. r.status = "succeeded" => delivery'[n][t].status = "succeeded" /\ ~ Sending(n, t)'
        BY <1>2, <1>6, <4>1, <4>2 DEF MaySave
      <4>6. ASSUME NEW s \in About(log'[n], t), s.origin = n, r.seq < s.seq
            PROVE  r.attempt <= s.attempt /\ r.status # "succeeded"
        <5>1. s \in About(log[n], t) \/ (~ Told /\ s = e)
          BY <1>10, <4>6
        <5>2. CASE r \in About(log[n], t) /\ s \in About(log[n], t)
          BY <2>1, <3>3, <4>6, <5>2 DEF StreamInv
        <5>3. CASE r \in About(log[n], t) /\ s = e
          BY <1>2, <4>2, <4>3, <5>3
        <5>4. CASE r = e
          <6>1. s.seq <= r.seq
            BY <1>1, <1>2, <1>15, <4>6, <5>1, <5>4
          <6>2. s.seq \in Nat /\ r.seq \in Nat
            BY <1>1, <1>2, <1>15, <5>1, <5>4
          <6> QED BY <4>6, <6>1, <6>2
        <5> QED BY <4>1, <5>1, <5>2, <5>3, <5>4
      <4> QED BY <3>3, <4>4, <4>5, <4>6
    <3> QED BY <3>1, <3>2, <3>3
  <2> QED BY <2>1 DEF StreamInv
(* With its own receipts only, a node always has something new to tell.     *)
<1>18. ASSUME NEW o \in Node, Alone(log'[n], t, o)
       PROVE  /\ o = n /\ ~ Told /\ Alone(log[n], t, n)
              /\ IsLast(log'[n], t, e)
              /\ \A r \in About(log[n], t) : r.status \notin Terminal
  <2>1. \E f \in About(log'[n], t) : f.origin = n
    BY <1>2, <1>7, <1>10
  <2>2. o = n
    BY <1>18, <2>1 DEF Alone
  <2>3. Alone(log[n], t, n)
    BY <1>10, <1>18, <2>2 DEF Alone
  <2>4. ~ Told
    BY <1>7, <2>3 DEF MaySave
  <2>5. \A r \in About(log[n], t) : r.seq <= e.seq
    BY <1>1, <1>2, <1>15, <2>3 DEF Alone
  <2>6. e.seq <= e.seq
    BY <1>1, <1>2
  <2>7. IsLast(log'[n], t, e)
    BY <1>10, <2>4, <2>5, <2>6 DEF IsLast
  <2> QED BY <2>2, <2>3, <2>4, <2>7 DEF MaySave
<1>19. DeliveryInv'
  <2>1. ASSUME NEW m \in Node, NEW u \in Target, NEW o \in Node, Alone(log'[m], u, o)
        PROVE  /\ delivery'[m][u] = NoDelivery \/ \E r \in About(log'[m], u) : delivery'[m][u] = Row(r)
               /\ Settled(m, u)' => UpToDate(m, u)'
               /\ (o = m /\ item'[m] # "none") => Settled(m, u)'
               /\ (/\ o # m /\ About(log'[m], u) # {}
                   /\ \A a \in Entries(log'[o]) : a.kind = "alert" => a.origin = m)
                    => Settled(m, u)'
    <3>1. CASE m # n \/ u # t
      <4>1. About(log'[m], u) = About(log[m], u) /\ delivery'[m][u] = delivery[m][u]
        BY <1>6, <1>10, <3>1
      <4>2. Alone(log[m], u, o)
        BY <2>1, <4>1 DEF Alone
      <4>3. UpToDate(m, u)' <=> UpToDate(m, u)
        BY <4>1 DEF UpToDate, IsLast
      <4>4. (\A a \in Entries(log'[o]) : a.kind = "alert" => a.origin = m)
              => (\A a \in Entries(log[o]) : a.kind = "alert" => a.origin = m)
        BY <1>9
      <4> QED BY <1>11, <4>1, <4>2, <4>3, <4>4 DEF DeliveryInv
    <3>2. CASE m = n /\ u = t
      <4>1. /\ o = n /\ ~ Told /\ Alone(log[n], t, n)
            /\ IsLast(log'[n], t, e)
        BY <1>18, <2>1, <3>2
      <4>2. e \in About(log'[n], t) /\ delivery'[n][t] = Row(e)
        <5>1. d = [status |-> d.status, attempt |-> d.attempt]
          BY DEF MaySave, DeliveryRow
        <5> QED BY <1>2, <1>6, <4>1, <5>1 DEF Row, IsLast
      <4>3. UpToDate(n, t)'
        BY <4>1, <4>2 DEF UpToDate
      <4>4. Settled(n, t)'
        BY <1>11, <4>1 DEF DeliveryInv
      <4> QED BY <3>2, <4>1, <4>2, <4>3, <4>4
    <3> QED BY <3>1, <3>2
  <2> QED BY <2>1 DEF DeliveryInv
<1>20. WriterInv'
  <2>1. ASSUME NEW o \in Node, NEW u \in Target, Alone(log'[o], u, o)
        PROVE  /\ \A r \in About(log'[o], u) : r.status \in Terminal => IsLast(log'[o], u, r)
               /\ Sending(o, u)' =>
                    /\ delivery'[o][u].status = "sending"
                    /\ \A r \in About(log'[o], u) :
                          r.attempt = delivery'[o][u].attempt => r.status = "sending"
    <3>1. CASE o # n \/ u # t
      <4>1. About(log'[o], u) = About(log[o], u) /\ delivery'[o][u] = delivery[o][u]
        BY <1>6, <1>10, <3>1
      <4>2. Alone(log[o], u, o) /\ (Sending(o, u)' => Sending(o, u))
        BY <1>13, <1>14, <2>1, <3>1, <4>1 DEF Alone
      <4> QED BY <4>1, <4>2 DEF WriterInv, IsLast
    <3>2. CASE o = n /\ u = t
      <4>1. /\ ~ Told /\ Alone(log[n], t, n)
            /\ IsLast(log'[n], t, e)
            /\ \A r \in About(log[n], t) : r.status \notin Terminal
        BY <1>18, <2>1, <3>2
      <4>2. About(log'[n], t) = About(log[n], t) \cup {e}
        BY <1>10, <4>1
      <4>3. ASSUME Sending(n, t)' PROVE /\ d.status = "sending"
                                        /\ \A r \in About(log[n], t) : r.attempt < d.attempt
        BY <4>1, <4>3 DEF MaySave, Alone
      <4>4. \A r \in About(log[n], t) : r.attempt < d.attempt => r.attempt # d.attempt
        BY <1>15, <1>16
      <4> QED BY <1>2, <1>6, <3>2, <4>1, <4>2, <4>3, <4>4
    <3> QED BY <3>1, <3>2
  <2> QED BY <2>1 DEF WriterInv
<1> QED BY <1>8, <1>12, <1>17, <1>19, <1>20

-----------------------------------------------------------------------------
(* Steps of the replication                                                 *)

(* What Learn does to n when e is the event.                                *)
Learned(n, m, e) ==
  /\ Missing(n, m, e)
  /\ Appended(n, e)
  /\ item' = [item EXCEPT ![n] = IF e.kind = "alert" /\ @ = "none" THEN "queued" ELSE @]
  /\ delivery' = [delivery EXCEPT ![n] = Projected(n, log'[n], e)]
  /\ UNCHANGED <<worker, view, calls, faults>>

(* Learn is Learned for some event. *)
LEMMA LearnIsLearned ==
  ASSUME TypeOK, HistoryInv, NEW n \in Node, NEW m \in Node, Learn(n, m)
  PROVE  \E e : Learned(n, m, e)
<1>1. PICK e \in Entries(log[m]) \ Entries(log[n]) :
         /\ \A f \in Entries(log[m]) \ Entries(log[n]) : f.origin = e.origin => e.seq <= f.seq
         /\ log'      = [log EXCEPT ![n] = Append(log[n], e)]
         /\ item'     = [item EXCEPT ![n] = IF e.kind = "alert" /\ @ = "none" THEN "queued" ELSE @]
         /\ delivery' = [delivery EXCEPT ![n] = Projected(n, Append(log[n], e), e)]
         /\ UNCHANGED <<worker, view, calls, faults>>
  BY DEF Learn
<1>2. log'[n] = Append(log[n], e)
  BY <1>1 DEF TypeOK
<1>3. Missing(n, m, e) /\ Appended(n, e)
  BY <1>1 DEF Missing, Appended
<1> QED BY <1>1, <1>2, <1>3 DEF Learned

(* What the rows of n become.                                               *)
LEMMA LearnedRows ==
  ASSUME TypeOK, HistoryInv, NEW n \in Node, NEW m \in Node, NEW e, Learned(n, m, e)
  PROVE  /\ \A k \in Node \ {n} : delivery'[k] = delivery[k]
         /\ \A t \in Target : e.kind = "alert" =>
               delivery'[n][t] = Replayed(log'[n], t, delivery[n][t])
         /\ \A t \in Target : (e.kind = "receipt" /\ item[n] # "none" /\ IsReceipt(e, t)) =>
               delivery'[n][t] = Applied(delivery[n][t], e)
         /\ \A t \in Target : (e.kind = "receipt" /\ ~ (item[n] # "none" /\ IsReceipt(e, t))) =>
               delivery'[n][t] = delivery[n][t]
         /\ item' \in [Node -> {"none", "queued", "locked", "done"}]
         /\ \A k \in Node \ {n} : item'[k] = item[k]
         /\ item'[n] = IF e.kind = "alert" /\ item[n] = "none" THEN "queued" ELSE item[n]
<1>1. \A k \in Node \ {n} : delivery'[k] = delivery[k]
  BY DEF Learned, TypeOK
<1>2. delivery'[n] = Projected(n, log'[n], e)
  BY DEF Learned, TypeOK
<1>3. \A t \in Target : delivery'[n][t] =
         IF e.kind = "alert" THEN Replayed(log'[n], t, delivery[n][t])
         ELSE IF item[n] # "none" /\ e.target = t THEN Applied(delivery[n][t], e)
         ELSE delivery[n][t]
  BY <1>2, Zenon DEF Projected
<1>4. \A t \in Target : (e.kind = "receipt" /\ item[n] # "none" /\ IsReceipt(e, t)) =>
               delivery'[n][t] = Applied(delivery[n][t], e)
  BY <1>3 DEF IsReceipt
<1>5. \A t \in Target : (e.kind = "receipt" /\ ~ (item[n] # "none" /\ IsReceipt(e, t))) =>
               delivery'[n][t] = delivery[n][t]
  BY <1>3 DEF IsReceipt
<1>6. /\ item' \in [Node -> {"none", "queued", "locked", "done"}]
      /\ \A k \in Node \ {n} : item'[k] = item[k]
      /\ item'[n] = IF e.kind = "alert" /\ item[n] = "none" THEN "queued" ELSE item[n]
  BY DEF Learned, TypeOK
<1> QED BY <1>1, <1>3, <1>4, <1>5, <1>6

(* No row loses an attempt or a success.                                    *)
LEMMA LearnedGrows ==
  ASSUME TypeOK, HistoryInv, NEW n \in Node, NEW m \in Node, NEW e, Learned(n, m, e),
         NEW t \in Target
  PROVE  /\ delivery'[n][t] \in DeliveryRow
         /\ delivery[n][t].attempt <= delivery'[n][t].attempt
         /\ delivery[n][t].status = "succeeded" => delivery'[n][t].status = "succeeded"
<1>1. delivery[n][t] \in DeliveryRow /\ log'[n] \in Seq(Event) /\ e \in Event
  <2>1. e \in Event /\ Appended(n, e)
    BY MissingComesLater DEF Learned
  <2> QED BY <2>1, AppendedLogs DEF TypeOK
<1>2. CASE e.kind = "alert"
  <2>1. delivery'[n][t] = Replayed(log'[n], t, delivery[n][t])
    BY <1>2, LearnedRows
  <2> QED BY <1>1, <2>1, ReplayedKeeps
<1>3. CASE e.kind = "receipt" /\ item[n] # "none" /\ IsReceipt(e, t)
  <2>1. delivery'[n][t] = Applied(delivery[n][t], e)
    BY <1>3, LearnedRows
  <2>2. e \in ReceiptEvent
    BY <1>1, <1>3 DEF Event, AlertEvent
  <2> QED BY <1>1, <2>1, <2>2 DEF Applied, DeliveryRow, ReceiptEvent
<1>4. CASE e.kind = "receipt" /\ ~ (item[n] # "none" /\ IsReceipt(e, t))
  <2>1. delivery'[n][t] = delivery[n][t]
    BY <1>4, LearnedRows
  <2> QED BY <1>1, <2>1 DEF DeliveryRow
<1>5. e.kind \in {"alert", "receipt"}
  BY <1>1 DEF Event, AlertEvent, ReceiptEvent
<1> QED BY <1>2, <1>3, <1>4, <1>5

(* With the receipts of one writer, a row becomes the last receipt when n   *)
(* hears of the alert, and the new receipt when it knows the alert.         *)
LEMMA LearnedAlone ==
  ASSUME CoreInv, NEW n \in Node, NEW m \in Node, NEW e, Learned(n, m, e),
         NEW t \in Target, NEW o \in Node, Alone(log'[n], t, o)
  PROVE  /\ e.kind = "alert" =>
              /\ About(log'[n], t) = About(log[n], t)
              /\ IF About(log[n], t) = {} THEN delivery'[n][t] = NoDelivery
                 ELSE \E r \in About(log[n], t) : /\ IsLast(log'[n], t, r) /\ IsLast(log[n], t, r)
                                                  /\ delivery'[n][t] = Row(r)
         /\ (IsReceipt(e, t) /\ item[n] # "none") =>
              IsLast(log'[n], t, e) /\ delivery'[n][t] = Row(e)
<1> USE DEF CoreInv
<1>1. /\ e \in Event /\ e.origin \in Node \ {n} /\ e \in Entries(log[e.origin])
      /\ \A g \in Entries(log[n]) : g.origin = e.origin => g.seq < e.seq
      /\ Appended(n, e)
  BY MissingComesLater DEF Learned
<1>2. /\ log'[n] = Append(log[n], e) /\ log[n] \in Seq(Event) /\ log'[n] \in Seq(Event)
      /\ IsReceipt(e, t) => About(log'[n], t) = About(log[n], t) \cup {e}
      /\ ~ IsReceipt(e, t) => About(log'[n], t) = About(log[n], t)
  <2>1. e \in Event /\ Appended(n, e)
    BY <1>1
  <2>2. log'[n] = Append(log[n], e) /\ log[n] \in Seq(Event) /\ log'[n] \in Seq(Event)
    BY <2>1, AppendedLogs
  <2> QED BY <2>1, <2>2, AppendedAbout
<1>3. Alone(log[n], t, o)
  BY <1>2 DEF Alone
<1> DEFINE d == delivery[n][t]
<1>4. d \in DeliveryRow /\ (d = NoDelivery \/ \E r \in About(log[n], t) : d = Row(r))
  BY <1>3 DEF DeliveryInv, TypeOK
<1> HIDE DEF d
<1>5. \A r, s \in About(log[n], t) :
         r.seq < s.seq => r.attempt <= s.attempt /\ r.status # "succeeded"
  BY <1>3, AloneStream DEF Alone
<1>6. ASSUME e.kind = "alert"
      PROVE  /\ About(log'[n], t) = About(log[n], t)
             /\ IF About(log[n], t) = {} THEN delivery'[n][t] = NoDelivery
                ELSE \E r \in About(log[n], t) : /\ IsLast(log'[n], t, r) /\ IsLast(log[n], t, r)
                                                 /\ delivery'[n][t] = Row(r)
  <2>1. About(log'[n], t) = About(log[n], t)
    BY <1>2, <1>6 DEF IsReceipt
  <2>2. delivery'[n][t] = Replayed(log'[n], t, d)
    BY <1>6, LearnedRows DEF d
  <2>3. InOrder(log'[n])
    BY <1>1, <1>2, AppendInOrder DEF HistoryInv
  <2> DEFINE L == log'[n]
  <2>4. L \in Seq(Event) /\ InOrder(L) /\ Alone(L, t, o) /\ About(L, t) = About(log[n], t)
    BY <1>2, <2>1, <2>3
  <2> HIDE DEF L
  <2>5. IF About(L, t) = {} THEN Replayed(L, t, d) = NoDelivery
        ELSE \E r \in About(L, t) : IsLast(L, t, r) /\ Replayed(L, t, d) = Row(r)
    BY <1>4, <1>5, <2>4, ReplayedAlone
  <2>6. \A r : IsLast(L, t, r) => IsLast(log[n], t, r)
    BY <2>4 DEF IsLast
  <2> QED BY <2>1, <2>2, <2>4, <2>5, <2>6 DEF L
<1>7. ASSUME IsReceipt(e, t), item[n] # "none"
      PROVE  IsLast(log'[n], t, e) /\ delivery'[n][t] = Row(e)
  <2>1. e \in ReceiptEvent /\ e.kind = "receipt" /\ About(log'[n], t) = About(log[n], t) \cup {e}
    BY <1>1, <1>2, <1>7 DEF Event, AlertEvent, IsReceipt
  <2>2. e.origin = o
    BY <2>1 DEF Alone
  <2>3. \A r \in About(log[n], t) : r \in Entries(log[n]) /\ r.seq < e.seq /\ r.seq \in Nat
    BY <1>1, <1>3, <2>2, EntriesEvents DEF Alone, About
  <2>4. IsLast(log'[n], t, e)
    BY <2>1, <2>3 DEF IsLast, ReceiptEvent
  <2>5. delivery'[n][t] = Applied(d, e)
    BY <1>7, <2>1, LearnedRows DEF d
  <2>6. ASSUME d = NoDelivery PROVE delivery'[n][t] = Row(e)
    BY <2>1, <2>5, <2>6 DEF Applied, NoDelivery, Row, ReceiptEvent
  <2>7. ASSUME NEW r \in About(log[n], t), d = Row(r)
        PROVE  delivery'[n][t] = Row(e)
    <3>1. r \in Entries(log[o]) /\ e \in Entries(log[o]) /\ r.origin = o
      BY <1>1, <1>3, <2>2, <2>3 DEF Alone, HistoryInv
    <3>2. r \in About(log[o], t) /\ e \in About(log[o], t)
      BY <1>7, <3>1 DEF About, IsReceipt
    <3>3. r.attempt <= e.attempt /\ r.status # "succeeded"
      BY <2>2, <2>3, <3>1, <3>2 DEF StreamInv
    <3>4. r \in ReceiptEvent
      BY EntriesEvents
    <3> QED BY <2>1, <2>5, <2>7, <3>3, <3>4 DEF Applied, Row, ReceiptEvent
  <2> QED BY <1>4, <2>4, <2>6, <2>7
<1> QED BY <1>6, <1>7

(* An event that replication brings keeps the invariants. *)
LEMMA LearnStep ==
  ASSUME CoreInv, NEW n \in Node, NEW m \in Node, NEW e, Learned(n, m, e)
  PROVE  HistoryInv' /\ ItemInv' /\ StreamInv' /\ DeliveryInv' /\ WriterInv'
<1> USE DEF CoreInv
<1>1. /\ e \in Event /\ e.origin \in Node \ {n} /\ e \in Entries(log[e.origin])
      /\ Missing(n, m, e) /\ Appended(n, e) /\ worker' = worker
  BY MissingComesLater DEF Learned
<1>2. /\ \A k \in Node \ {n} : log'[k] = log[k]
      /\ Entries(log'[n]) = Entries(log[n]) \cup {e}
      /\ \A k \in Node : Entries(log[k]) \subseteq Entries(log'[k])
  BY <1>1, AppendedLogs
<1>3. \A t \in Target :
         /\ IsReceipt(e, t) => About(log'[n], t) = About(log[n], t) \cup {e}
         /\ ~ IsReceipt(e, t) => About(log'[n], t) = About(log[n], t)
         /\ \A k \in Node \ {n} : About(log'[k], t) = About(log[k], t)
  BY <1>1, AppendedAbout
<1>4. /\ e.kind \in {"alert", "receipt"}
      /\ \A t \in Target : IsReceipt(e, t) => e.kind = "receipt"
  BY <1>1 DEF Event, AlertEvent, ReceiptEvent, IsReceipt
<1>5. /\ \A k \in Node \ {n} : delivery'[k] = delivery[k] /\ item'[k] = item[k]
      /\ \A t \in Target : (e.kind = "receipt" /\ ~ (item[n] # "none" /\ IsReceipt(e, t))) =>
               delivery'[n][t] = delivery[n][t]
      /\ item'[n] = IF e.kind = "alert" /\ item[n] = "none" THEN "queued" ELSE item[n]
  BY LearnedRows
<1>6. \A k \in Node, t \in Target : Sending(k, t)' <=> Sending(k, t)
  BY <1>1 DEF Sending
<1>7. HistoryInv'
  BY <1>1, LearnedHistory
<1>8. ItemInv'
  <2>1. ASSUME NEW k \in Node
        PROVE  item'[k] = "none" <=> (\A g \in Entries(log'[k]) : g.kind # "alert")
    <3>1. CASE k # n
      BY <1>2, <1>5, <3>1 DEF ItemInv
    <3>2. CASE k = n
      BY <1>2, <1>4, <1>5, <3>2 DEF ItemInv
    <3> QED BY <3>1, <3>2
  <2>2. \A k \in Node : worker'[k] # Resting => item'[k] = "locked"
    BY <1>1, <1>5 DEF ItemInv
  <2>3. ASSUME NEW k \in Node, item'[k] = "none"
        PROVE  /\ \A t \in Target : delivery'[k][t] = NoDelivery
               /\ \A t \in Target : \A r \in About(log'[k], t) : r.origin # k
    <3>1. CASE k # n
      BY <1>3, <1>5, <2>3, <3>1 DEF ItemInv
    <3>2. CASE k = n
      <4>1. item[n] = "none" /\ e.kind = "receipt"
        BY <1>4, <1>5, <2>3, <3>2
      <4>2. \A t \in Target : delivery'[n][t] = NoDelivery
        BY <1>5, <4>1 DEF ItemInv
      <4>3. \A t \in Target : \A r \in About(log'[n], t) : r.origin # n
        BY <1>1, <1>3, <4>1 DEF ItemInv
      <4> QED BY <3>2, <4>2, <4>3
    <3> QED BY <3>1, <3>2
  <2> QED BY <2>1, <2>2, <2>3 DEF ItemInv
<1>9. StreamInv'
  <2>1. ASSUME NEW o \in Node, NEW t \in Target, NEW r \in About(log'[o], t), r.origin = o
        PROVE  /\ r.attempt <= delivery'[o][t].attempt
               /\ r.status = "succeeded" => delivery'[o][t].status = "succeeded" /\ ~ Sending(o, t)'
               /\ \A s \in About(log'[o], t) :
                     (s.origin = o /\ r.seq < s.seq) => r.attempt <= s.attempt /\ r.status # "succeeded"
    <3>1. CASE o # n
      BY <1>3, <1>5, <1>6, <2>1, <3>1 DEF StreamInv
    <3>2. CASE o = n
      <4>1. \A s \in About(log'[n], t) : s.origin = n => s \in About(log[n], t)
        BY <1>1, <1>3
      <4>2. r \in About(log[n], t)
        BY <2>1, <3>2, <4>1
      <4>3. /\ r.attempt <= delivery[n][t].attempt
            /\ r.status = "succeeded" => delivery[n][t].status = "succeeded" /\ ~ Sending(n, t)
            /\ \A s \in About(log[n], t) :
                     (s.origin = n /\ r.seq < s.seq) => r.attempt <= s.attempt /\ r.status # "succeeded"
        BY <2>1, <3>2, <4>2 DEF StreamInv
      <4>4. /\ delivery'[n][t] \in DeliveryRow /\ delivery[n][t] \in DeliveryRow
            /\ delivery[n][t].attempt <= delivery'[n][t].attempt
            /\ delivery[n][t].status = "succeeded" => delivery'[n][t].status = "succeeded"
        BY LearnedGrows DEF TypeOK
      <4>5. r.attempt \in Nat
        BY <4>2, EntriesEvents DEF ReceiptEvent
      <4>6. r.attempt <= delivery'[n][t].attempt
        BY <4>3, <4>4, <4>5 DEF DeliveryRow
      <4> QED BY <1>6, <3>2, <4>1, <4>3, <4>4, <4>6
    <3> QED BY <3>1, <3>2
  <2> QED BY <2>1 DEF StreamInv
<1>10. \A t \in Target :
          /\ Settled(n, t) => Settled(n, t)'
          /\ e.kind = "receipt" => (Settled(n, t)' => Settled(n, t))
          /\ e.kind = "alert" => Settled(n, t)'
          /\ \A k \in Node \ {n} : Settled(k, t)' <=> Settled(k, t)
  BY <1>1, AppendedSettled
<1>11. DeliveryInv'
  <2>1. ASSUME NEW k \in Node, NEW t \in Target, NEW o \in Node, Alone(log'[k], t, o)
        PROVE  /\ delivery'[k][t] = NoDelivery \/ \E r \in About(log'[k], t) : delivery'[k][t] = Row(r)
               /\ Settled(k, t)' => UpToDate(k, t)'
               /\ (o = k /\ item'[k] # "none") => Settled(k, t)'
               /\ (/\ o # k /\ About(log'[k], t) # {}
                   /\ \A a \in Entries(log'[o]) : a.kind = "alert" => a.origin = k)
                    => Settled(k, t)'
    <3>1. CASE k # n
      <4>1. About(log'[k], t) = About(log[k], t) /\ delivery'[k][t] = delivery[k][t]
            /\ item'[k] = item[k]
        BY <1>3, <1>5, <3>1
      <4>2. Alone(log[k], t, o)
        BY <2>1, <4>1 DEF Alone
      <4>3. UpToDate(k, t)' <=> UpToDate(k, t)
        BY <4>1 DEF UpToDate, IsLast
      <4>4. (\A a \in Entries(log'[o]) : a.kind = "alert" => a.origin = k)
              => (\A a \in Entries(log[o]) : a.kind = "alert" => a.origin = k)
        BY <1>2
      <4> QED BY <1>10, <3>1, <4>1, <4>2, <4>3, <4>4 DEF DeliveryInv
    <3>2. CASE k = n /\ e.kind = "alert"
      <4>1. /\ About(log'[n], t) = About(log[n], t)
            /\ IF About(log[n], t) = {} THEN delivery'[n][t] = NoDelivery
               ELSE \E r \in About(log[n], t) : /\ IsLast(log'[n], t, r) /\ IsLast(log[n], t, r)
                                                /\ delivery'[n][t] = Row(r)
        BY <2>1, <3>2, LearnedAlone
      <4>2. UpToDate(n, t)'
        BY <4>1 DEF UpToDate
      <4>3. delivery'[n][t] = NoDelivery \/ \E r \in About(log'[n], t) : delivery'[n][t] = Row(r)
        BY <4>1
      <4> QED BY <1>10, <3>2, <4>2, <4>3
    <3>3. CASE k = n /\ IsReceipt(e, t) /\ item[n] # "none"
      <4>1. IsLast(log'[n], t, e) /\ delivery'[n][t] = Row(e) /\ e \in About(log'[n], t)
        BY <2>1, <3>3, LearnedAlone DEF IsLast
      <4>2. UpToDate(n, t)'
        BY <4>1 DEF UpToDate
      <4>3. e.origin = o /\ o # n
        BY <1>1, <2>1, <3>3, <4>1 DEF Alone
      <4>4. ASSUME \A a \in Entries(log'[o]) : a.kind = "alert" => a.origin = n
            PROVE  Settled(n, t)'
        <5>1. CASE About(log[n], t) # {}
          <6>1. Alone(log[n], t, o)
            BY <1>3, <2>1, <3>3 DEF Alone
          <6>2. \A a \in Entries(log[o]) : a.kind = "alert" => a.origin = n
            BY <1>2, <4>4
          <6>3. Settled(n, t)
            BY <4>3, <5>1, <6>1, <6>2 DEF DeliveryInv
          <6> QED BY <1>10, <6>3
        <5>2. CASE About(log[n], t) = {}
          <6>1. \E i \in DOMAIN log[n] : log[n][i].kind = "alert"
            BY <3>3 DEF ItemInv, Entries
          <6>2. \A j \in DOMAIN log[n] : ~ IsReceipt(log[n][j], t)
            BY <5>2 DEF About, Entries, IsReceipt
          <6>3. Settled(n, t)
            BY <6>1, <6>2 DEF Settled
          <6> QED BY <1>10, <6>3
        <5> QED BY <5>1, <5>2
      <4> QED BY <3>3, <4>1, <4>2, <4>3, <4>4
    <3>4. CASE k = n /\ IsReceipt(e, t) /\ item[n] = "none"
      <4>1. delivery'[n][t] = NoDelivery /\ e.kind = "receipt" /\ item'[n] = "none"
        BY <1>4, <1>5, <3>4 DEF ItemInv
      <4>2. \A a \in Entries(log[n]) : a.kind # "alert"
        BY <3>4 DEF ItemInv
      <4>3. ~ Settled(n, t)
        BY <4>2 DEF Settled, Entries
      <4>4. ~ Settled(n, t)'
        BY <1>10, <4>1, <4>3
      <4>5. ASSUME \A a \in Entries(log'[o]) : a.kind = "alert" => a.origin = n
            PROVE  FALSE
        <5>1. e \in About(log'[n], t) /\ e.origin = o /\ o # n
          BY <1>1, <1>3, <2>1, <3>4 DEF Alone
        <5>2. e \in About(log[o], t)
          BY <1>1, <3>4, <5>1 DEF About, IsReceipt
        <5>3. item[o] # "none"
          BY <5>1, <5>2 DEF ItemInv
        <5>4. PICK a \in Entries(log[o]) : a.kind = "alert"
          BY <5>3 DEF ItemInv
        <5>5. a.origin = n
          BY <1>2, <4>5, <5>4
        <5>6. a \in Entries(log[n])
          BY <5>4, <5>5 DEF HistoryInv
        <5> QED BY <4>2, <5>4, <5>6
      <4> QED BY <3>4, <4>1, <4>4, <4>5
    <3>5. CASE k = n /\ e.kind = "receipt" /\ ~ IsReceipt(e, t)
      <4>1. About(log'[n], t) = About(log[n], t) /\ delivery'[n][t] = delivery[n][t]
            /\ item'[n] = item[n]
        BY <1>3, <1>5, <3>5
      <4>2. Alone(log[n], t, o)
        BY <2>1, <3>5, <4>1 DEF Alone
      <4>3. UpToDate(n, t)' <=> UpToDate(n, t)
        BY <4>1 DEF UpToDate, IsLast
      <4>4. (\A a \in Entries(log'[o]) : a.kind = "alert" => a.origin = n)
              => (\A a \in Entries(log[o]) : a.kind = "alert" => a.origin = n)
        BY <1>2
      <4>5. Settled(n, t)' <=> Settled(n, t)
        BY <1>10, <3>5
      <4> QED BY <3>5, <4>1, <4>2, <4>3, <4>4, <4>5 DEF DeliveryInv
    <3> QED BY <1>4, <3>1, <3>2, <3>3, <3>4, <3>5
  <2> QED BY <2>1 DEF DeliveryInv
<1>12. WriterInv'
  <2>1. ASSUME NEW o \in Node, NEW t \in Target, Alone(log'[o], t, o)
        PROVE  /\ \A r \in About(log'[o], t) : r.status \in Terminal => IsLast(log'[o], t, r)
               /\ Sending(o, t)' =>
                    /\ delivery'[o][t].status = "sending"
                    /\ \A r \in About(log'[o], t) :
                          r.attempt = delivery'[o][t].attempt => r.status = "sending"
    <3>1. CASE o # n
      <4>1. About(log'[o], t) = About(log[o], t) /\ delivery'[o][t] = delivery[o][t]
        BY <1>3, <1>5, <3>1
      <4>2. Alone(log[o], t, o)
        BY <2>1, <4>1 DEF Alone
      <4> QED BY <1>6, <4>1, <4>2 DEF WriterInv, IsLast
    <3>2. CASE o = n
      <4>1. ~ IsReceipt(e, t)
        BY <1>1, <1>3, <2>1, <3>2 DEF Alone
      <4>2. About(log'[n], t) = About(log[n], t)
        BY <1>3, <4>1
      <4>3. Alone(log[n], t, n)
        BY <2>1, <3>2, <4>2 DEF Alone
      <4>4. ASSUME Sending(n, t)' PROVE delivery'[n][t] = delivery[n][t]
        <5>1. worker[n] # Resting
          BY <1>6, <4>4 DEF Sending, Resting
        <5>2. item[n] # "none"
          BY <5>1 DEF ItemInv
        <5>3. UpToDate(n, t)
          BY <4>3, <5>2 DEF DeliveryInv
        <5>4. CASE e.kind = "receipt"
          BY <1>5, <4>1, <5>4
        <5>5. CASE e.kind = "alert"
          <6>1. IF About(log[n], t) = {} THEN delivery'[n][t] = NoDelivery
                ELSE \E r \in About(log[n], t) : /\ IsLast(log[n], t, r)
                                                 /\ delivery'[n][t] = Row(r)
            BY <2>1, <3>2, <5>5, LearnedAlone
          <6>2. CASE About(log[n], t) = {}
            BY <5>3, <6>1, <6>2 DEF UpToDate
          <6>3. CASE About(log[n], t) # {}
            BY <4>3, <5>3, <6>1, <6>3, LastIsOne DEF UpToDate
          <6> QED BY <6>2, <6>3
        <5> QED BY <1>4, <5>4, <5>5
      <4> QED BY <1>6, <3>2, <4>2, <4>3, <4>4 DEF WriterInv, IsLast
    <3> QED BY <3>1, <3>2
  <2> QED BY <2>1 DEF WriterInv
<1> QED BY <1>7, <1>8, <1>9, <1>11, <1>12

-----------------------------------------------------------------------------
(* The state functions have their types and the histories are sound         *)

(* The worker has gone on to the next target. *)
LEMMA PassedState ==
  ASSUME TypeOK, NEW n \in Node, worker[n] # Resting, NEW t, NEW p \in BOOLEAN
  PROVE  /\ Passed(n, t, p) \in WorkerState
         /\ Passed(n, t, p).phase = "targets"
         /\ Passed(n, t, p) # Resting
         /\ Passed(n, t, p).todo = worker[n].todo \ {t}
         /\ Passed(n, t, p).pending = (worker[n].pending \/ p)
<1>1. worker[n].todo \subseteq setup.targets /\ worker[n].pending \in BOOLEAN
  BY WorkerStates
<1>2. (worker[n].pending \/ p) \in BOOLEAN
  OBVIOUS
<1>3. Passed(n, t, p) = [phase |-> "targets", todo |-> worker[n].todo \ {t},
                         pending |-> worker[n].pending \/ p]
  BY DEF Passed, Working
<1>4. Passed(n, t, p) \in [phase : {"targets"}, todo : SUBSET setup.targets, pending : BOOLEAN]
  BY <1>1, <1>2, <1>3
<1>5. Passed(n, t, p) # Resting
  BY <1>3 DEF Resting
<1> QED BY <1>3, <1>4, <1>5 DEF WorkerState

(* The worker is busy with a target. *)
LEMMA BusyState ==
  ASSUME TypeOK, NEW n \in Node, worker[n] # Resting, NEW t \in worker[n].todo, NEW k \in Nat,
         NEW phase \in {"owner", "sending"}
  PROVE  /\ Busy(n, phase, t, k) \in WorkerState
         /\ Busy(n, phase, t, k) # Resting
         /\ Busy(n, phase, t, k).phase = phase
         /\ Busy(n, phase, t, k).target = t
         /\ Busy(n, phase, t, k).todo = worker[n].todo
         /\ Busy(n, phase, t, k).pending = worker[n].pending
<1>1. worker[n].todo \subseteq setup.targets /\ worker[n].pending \in BOOLEAN
  BY WorkerStates
<1>2. Busy(n, phase, t, k) \in [phase : {"owner", "sending"}, todo : SUBSET setup.targets,
                                pending : BOOLEAN, target : setup.targets, attempt : Nat]
  BY <1>1 DEF Busy
<1>3. /\ Busy(n, phase, t, k).phase = phase
      /\ Busy(n, phase, t, k).target = t
      /\ Busy(n, phase, t, k).todo = worker[n].todo
      /\ Busy(n, phase, t, k).pending = worker[n].pending
  BY DEF Busy
<1>4. Busy(n, phase, t, k) # Resting
  BY <1>3 DEF Resting
<1> QED BY <1>2, <1>3, <1>4 DEF WorkerState

(* A step of the worker of n: what becomes of its state.                    *)
WorkerStep(n, w) ==
  /\ worker' = [worker EXCEPT ![n] = w]
  /\ w \in WorkerState

(* The workers after a step of one of them. *)
LEMMA WorkerStepFacts ==
  ASSUME TypeOK, NEW n \in Node, NEW w, WorkerStep(n, w)
  PROVE  /\ worker' \in [Node -> WorkerState] /\ worker'[n] = w
         /\ \A m \in Node \ {n} : worker'[m] = worker[m]
         /\ \A m \in Node \ {n}, t \in Target :
               (Sending(m, t)' <=> Sending(m, t)) /\ (BusyAt(m, t)' <=> BusyAt(m, t))
         /\ \A t \in Target : Sending(n, t)' <=> (w.phase = "sending" /\ w.target = t)
         /\ \A t \in Target : BusyAt(n, t)' <=> (w.phase \in {"owner", "sending"} /\ w.target = t)
<1>1. /\ worker' \in [Node -> WorkerState] /\ worker'[n] = w
      /\ \A m \in Node \ {n} : worker'[m] = worker[m]
  BY DEF WorkerStep, TypeOK
<1> QED BY <1>1 DEF Sending, BusyAt

(* A final result is the last receipt a node wrote, if it hears of no other *)
LEMMA UnsettledAlone ==
  ASSUME CoreInv, NEW n \in Node, NEW t \in Target, Alone(log[n], t, n), item[n] # "none",
         delivery[n][t].status \notin Terminal
  PROVE  \A r \in About(log[n], t) : r.status \notin Terminal
<1> USE DEF CoreInv
<1>1. UpToDate(n, t)
  BY DEF DeliveryInv
<1>2. ASSUME NEW r \in About(log[n], t), r.status \in Terminal
      PROVE  FALSE
  <2>1. IsLast(log[n], t, r)
    BY <1>2 DEF WriterInv
  <2>2. PICK s \in About(log[n], t) : IsLast(log[n], t, s) /\ delivery[n][t] = Row(s)
    BY <1>1, <1>2 DEF UpToDate
  <2>3. r = s
    BY <2>1, <2>2, LastIsOne
  <2> QED BY <1>2, <2>2, <2>3 DEF Row
<1> QED BY <1>2

(* The three writes of a worker.                                            *)
LEMMA SkipWrites ==
  ASSUME CoreInv, NEW n \in Node, SkipHistorical(n),
         delivery[n][worker[n].target].status \notin Terminal
  PROVE  LET t == worker[n].target
             d == [delivery[n][t] EXCEPT !.status = "failed"]
         IN  /\ t \in Target /\ d \in DeliveryRow /\ item[n] = "locked"
             /\ SaveDelivery(n, t, d) /\ MaySave(n, t, d)
             /\ WorkerStep(n, Passed(n, t, FALSE)) /\ worker[n] # Resting
<1> DEFINE t == worker[n].target
           d == [delivery[n][t] EXCEPT !.status = "failed"]
<1> USE DEF CoreInv
<1>1. worker[n].phase = "owner" /\ worker[n] # Resting
  BY DEF SkipHistorical, Resting
<1>2. t \in setup.targets /\ t \in Target /\ item[n] = "locked"
  BY <1>1, WorkerStates, SetupFacts DEF ItemInv
<1>3. SaveDelivery(n, t, d) /\ worker' = [worker EXCEPT ![n] = Passed(n, t, FALSE)]
  BY DEF SkipHistorical
<1>4. WorkerStep(n, Passed(n, t, FALSE)) /\ Passed(n, t, FALSE).phase = "targets"
  BY <1>1, <1>3, PassedState DEF WorkerStep
<1>5. delivery[n][t] \in DeliveryRow /\ delivery[n][t].status \notin Terminal
  BY <1>2 DEF TypeOK
<1>6. d \in DeliveryRow /\ d.status = "failed" /\ d.attempt = delivery[n][t].attempt
  BY <1>5 DEF DeliveryRow, Status
<1> HIDE DEF t, d
<1>7. \A r \in About(log[n], t) : r.origin = n => r.status # "succeeded"
  BY <1>2, <1>5 DEF StreamInv, Terminal
<1>8. Alone(log[n], t, n) => \A r \in About(log[n], t) : r.status \notin Terminal
  BY <1>2, <1>5, UnsettledAlone
<1>9. \A u \in Target : ~ Sending(n, u)'
  BY <1>4, WorkerStepFacts
<1>10. delivery[n][t].attempt <= d.attempt
  BY <1>5, <1>6 DEF DeliveryRow
<1>11. MaySave(n, t, d)
  BY <1>6, <1>7, <1>8, <1>9, <1>10 DEF MaySave, Terminal
<1> QED BY <1>1, <1>2, <1>3, <1>4, <1>6, <1>11 DEF t, d

(* An attempt is a write of a higher attempt than any before. *)
LEMMA BeginWrites ==
  ASSUME CoreInv, NEW n \in Node, BeginDelivery(n),
         delivery[n][worker[n].target].status \notin Terminal
  PROVE  LET t == worker[n].target
             d == [status |-> "sending", attempt |-> delivery[n][t].attempt + 1]
         IN  /\ t \in Target /\ d \in DeliveryRow /\ item[n] = "locked"
             /\ SaveDelivery(n, t, d) /\ MaySave(n, t, d)
             /\ WorkerStep(n, Busy(n, "sending", t, d.attempt)) /\ worker[n] # Resting
             /\ t \in worker[n].todo
<1> DEFINE t == worker[n].target
           d == [status |-> "sending", attempt |-> delivery[n][t].attempt + 1]
<1> USE DEF CoreInv
<1>1. worker[n].phase = "owner" /\ worker[n] # Resting
  BY DEF BeginDelivery, Resting
<1>2. t \in setup.targets /\ t \in Target /\ item[n] = "locked" /\ t \in worker[n].todo
  BY <1>1, WorkerStates, SetupFacts DEF ItemInv
<1>3. SaveDelivery(n, t, d) /\ worker' = [worker EXCEPT ![n] = Busy(n, "sending", t, d.attempt)]
  BY DEF BeginDelivery
<1>4. delivery[n][t] \in DeliveryRow /\ delivery[n][t].status \notin Terminal
  BY <1>2 DEF TypeOK
<1>5. d \in DeliveryRow /\ d.status = "sending" /\ d.attempt = delivery[n][t].attempt + 1
      /\ d.attempt \in Nat
  BY <1>4 DEF DeliveryRow, Status
<1> HIDE DEF t, d
<1>6. WorkerStep(n, Busy(n, "sending", t, d.attempt))
      /\ Busy(n, "sending", t, d.attempt).target = t
  BY <1>1, <1>2, <1>3, <1>5, BusyState DEF WorkerStep
<1>7. \A r \in About(log[n], t) : r.origin = n => /\ r.status # "succeeded"
                                                  /\ r.attempt <= delivery[n][t].attempt
                                                  /\ r.attempt \in Nat
  BY <1>2, <1>4, EntriesEvents DEF StreamInv, Terminal, ReceiptEvent
<1>8. Alone(log[n], t, n) => \A r \in About(log[n], t) : r.status \notin Terminal
  BY <1>2, <1>4, UnsettledAlone
<1>9. \A u \in Target : Sending(n, u)' => u = t
  BY <1>6, WorkerStepFacts
<1>10. delivery[n][t].attempt <= d.attempt
  BY <1>4, <1>5 DEF DeliveryRow
<1>11. \A r \in About(log[n], t) : r.origin = n => r.attempt < d.attempt /\ r.attempt # d.attempt
  BY <1>4, <1>5, <1>7 DEF DeliveryRow
<1>12. MaySave(n, t, d)
  BY <1>5, <1>7, <1>8, <1>9, <1>10, <1>11 DEF MaySave, Alone
<1> QED BY <1>1, <1>2, <1>3, <1>5, <1>6, <1>12 DEF t, d

ResultOf(n, outcome) ==
  CASE outcome = "succeeded" -> "succeeded"
    [] Retry(n, outcome) -> "retrying"
    [] OTHER -> "failed"

(* A result is a write about the attempt that is out. *)
LEMMA RecordWrites ==
  ASSUME CoreInv, NEW n \in Node, NEW outcome, RecordResult(n, outcome)
  PROVE  LET t == worker[n].target
             d == [delivery[n][t] EXCEPT !.status = ResultOf(n, outcome)]
         IN  /\ t \in Target /\ d \in DeliveryRow /\ item[n] = "locked"
             /\ SaveDelivery(n, t, d) /\ MaySave(n, t, d)
             /\ ~ Retry(n, outcome) => d.status \in Terminal
             /\ WorkerStep(n, Passed(n, t, Retry(n, outcome))) /\ worker[n] # Resting
<1> DEFINE t == worker[n].target
           d == [delivery[n][t] EXCEPT !.status = ResultOf(n, outcome)]
<1> USE DEF CoreInv
<1>1. worker[n].phase = "sending" /\ worker[n] # Resting
  BY DEF RecordResult, Resting
<1>2. t \in setup.targets /\ t \in Target /\ item[n] = "locked" /\ Sending(n, t)
  BY <1>1, WorkerStates, SetupFacts DEF ItemInv, Sending
<1>3. SaveDelivery(n, t, d) /\ worker' = [worker EXCEPT ![n] = Passed(n, t, Retry(n, outcome))]
  BY DEF RecordResult, ResultOf
<1>4. Retry(n, outcome) \in BOOLEAN
  BY DEF Retry
<1>5. WorkerStep(n, Passed(n, t, Retry(n, outcome))) /\ Passed(n, t, Retry(n, outcome)).phase = "targets"
  BY <1>1, <1>3, <1>4, PassedState DEF WorkerStep
<1>6. delivery[n][t] \in DeliveryRow
  BY <1>2 DEF TypeOK
<1>7. ResultOf(n, outcome) \in {"succeeded", "retrying", "failed"}
      /\ (~ Retry(n, outcome) => ResultOf(n, outcome) \in Terminal)
  BY DEF ResultOf, Terminal
<1>8. d \in DeliveryRow /\ d.status = ResultOf(n, outcome) /\ d.attempt = delivery[n][t].attempt
  BY <1>6, <1>7 DEF DeliveryRow, Status
<1> HIDE DEF t, d
<1>9. \A r \in About(log[n], t) : r.origin = n => r.status # "succeeded"
  BY <1>2 DEF StreamInv
<1>10. ASSUME Alone(log[n], t, n)
       PROVE  \A r \in About(log[n], t) :
                 r.status \notin Terminal /\ ~ (r.status = d.status /\ r.attempt = d.attempt)
  <2>1. /\ delivery[n][t].status = "sending"
        /\ \A r \in About(log[n], t) : r.attempt = delivery[n][t].attempt => r.status = "sending"
    BY <1>2, <1>10 DEF WriterInv
  <2>2. \A r \in About(log[n], t) : r.status \notin Terminal
    BY <1>2, <1>10, <2>1, UnsettledAlone DEF Terminal
  <2> QED BY <1>7, <1>8, <2>1, <2>2
<1>11. \A u \in Target : ~ Sending(n, u)'
  BY <1>5, WorkerStepFacts
<1>12. delivery[n][t].attempt <= d.attempt
  BY <1>6, <1>8 DEF DeliveryRow
<1>13. MaySave(n, t, d)
  BY <1>7, <1>8, <1>9, <1>10, <1>11, <1>12 DEF MaySave
<1> QED BY <1>1, <1>2, <1>3, <1>5, <1>7, <1>8, <1>13 DEF t, d

(* SaveDelivery keeps the types. *)
LEMMA SaveTypes ==
  ASSUME TypeOK, NEW n \in Node, NEW t \in Target, NEW d \in DeliveryRow, d.status # "none",
         SaveDelivery(n, t, d)
  PROVE  log' \in [Node -> Seq(Event)] /\ delivery' \in [Node -> [Target -> DeliveryRow]]
<1>1. NextSeq(n) \in Nat \ {0}
  BY NextSeqNat
<1>2. Receipt(n, t, d) \in ReceiptEvent
  BY <1>1 DEF Receipt, ReceiptEvent, DeliveryRow
<1>3. Receipt(n, t, d) \in Event
  BY <1>2 DEF Event
<1>4. log' = log \/ log' = [log EXCEPT ![n] = Append(log[n], Receipt(n, t, d))]
  BY DEF SaveDelivery, TypeOK
<1>5. Append(log[n], Receipt(n, t, d)) \in Seq(Event)
  BY <1>3, EntriesAppend DEF TypeOK
<1>6. log' \in [Node -> Seq(Event)]
  BY <1>4, <1>5 DEF TypeOK
<1>7. delivery' \in [Node -> [Target -> DeliveryRow]]
  BY DEF SaveDelivery, TypeOK
<1> QED BY <1>6, <1>7

(* What the actions do to the state functions that are not in the history.  *)
LEMMA TypesFrom ==
  ASSUME TypeOK, setup' = setup,
         log' \in [Node -> Seq(Event)], delivery' \in [Node -> [Target -> DeliveryRow]],
         item' \in [Node -> {"none", "queued", "locked", "done"}],
         worker' \in [Node -> WorkerState],
         view' \in [Node -> SUBSET Node], calls' \in [Node -> [Target -> Nat]]
  PROVE  TypeOK'
BY DEF TypeOK, WorkerState

(* Steps of the worker that leave the history alone.                        *)
QuietWork(n) ==
  \/ Claim(n)
  \/ \E t \in setup.targets : PassTarget(n, t) \/ Own(n, t)
  \/ SkipHistorical(n) /\ delivery[n][worker[n].target].status \in Terminal
  \/ BeginDelivery(n) /\ delivery[n][worker[n].target].status \in Terminal
  \/ FinishItem(n) \/ ItemError(n) \/ Crash(n)

(* A quiet step of n changes its item and its worker only. *)
LEMMA QuietWorkFacts ==
  ASSUME CoreInv, NEW n \in Node, QuietWork(n)
  PROVE  /\ UNCHANGED <<log, delivery, view, calls>>
         /\ item' \in [Node -> {"none", "queued", "locked", "done"}]
         /\ item'[n] # "none" /\ item[n] # "none"
         /\ \A m \in Node \ {n} : item'[m] = item[m]
         /\ \E w : /\ WorkerStep(n, w)
                   /\ w # Resting => item'[n] = "locked"
                   /\ w.phase # "sending"
<1> USE DEF CoreInv
<1>1. CASE Claim(n)
  <2> DEFINE w == Working(setup.targets, FALSE)
  <2>1. w \in WorkerState /\ w.phase = "targets"
    BY DEF Working, WorkerState
  <2>2. WorkerStep(n, w) /\ item'[n] = "locked"
    BY <1>1, <2>1 DEF Claim, WorkerStep, TypeOK
  <2> HIDE DEF w
  <2> QED BY <1>1, <2>1, <2>2 DEF Claim, TypeOK
<1>2. ASSUME NEW t \in setup.targets, PassTarget(n, t)
      PROVE  /\ UNCHANGED <<log, item, delivery, view, calls>> /\ worker[n] # Resting
             /\ \E w : WorkerStep(n, w) /\ w.phase # "sending"
  <2> DEFINE p == delivery[n][t].status \notin Terminal /\ Eligible(n, t)
  <2>1. worker[n] # Resting /\ worker' = [worker EXCEPT ![n] = Passed(n, t, p)]
        /\ UNCHANGED <<log, item, delivery, view, calls>>
    BY <1>2 DEF PassTarget, AtTarget, Resting
  <2>2. p \in BOOLEAN
    OBVIOUS
  <2> HIDE DEF p
  <2>3. WorkerStep(n, Passed(n, t, p)) /\ Passed(n, t, p).phase # "sending"
    BY <2>1, <2>2, PassedState DEF WorkerStep
  <2> QED BY <2>1, <2>3
<1>3. ASSUME NEW t \in setup.targets, Own(n, t)
      PROVE  /\ UNCHANGED <<log, item, delivery, view, calls>> /\ worker[n] # Resting
             /\ \E w : WorkerStep(n, w) /\ w.phase # "sending"
  <2>1. worker[n] # Resting /\ t \in worker[n].todo
        /\ worker' = [worker EXCEPT ![n] = Busy(n, "owner", t, 0)]
        /\ UNCHANGED <<log, item, delivery, view, calls>>
    BY <1>3 DEF Own, AtTarget, Resting
  <2>2. WorkerStep(n, Busy(n, "owner", t, 0)) /\ Busy(n, "owner", t, 0).phase # "sending"
    BY <2>1, BusyState DEF WorkerStep
  <2> QED BY <2>1, <2>2
<1>4. CASE (SkipHistorical(n) \/ BeginDelivery(n)) /\ delivery[n][worker[n].target].status \in Terminal
  <2> DEFINE t == worker[n].target
  <2>1. worker[n] # Resting /\ worker' = [worker EXCEPT ![n] = Passed(n, t, FALSE)]
        /\ UNCHANGED <<log, item, delivery, view, calls>>
    <3>1. worker[n].phase = "owner"
      BY <1>4 DEF SkipHistorical, BeginDelivery
    <3>2. worker[n] # Resting
      BY <3>1 DEF Resting
    <3>3. CASE SkipHistorical(n)
      BY <1>4, <3>2, <3>3, Zenon DEF SkipHistorical
    <3>4. CASE BeginDelivery(n)
      BY <1>4, <3>2, <3>4, Zenon DEF BeginDelivery
    <3> QED BY <1>4, <3>3, <3>4
  <2>2. WorkerStep(n, Passed(n, t, FALSE)) /\ Passed(n, t, FALSE).phase # "sending"
    BY <2>1, PassedState DEF WorkerStep
  <2>3. item[n] = "locked"
    BY <2>1 DEF ItemInv
  <2> QED BY <2>1, <2>2, <2>3 DEF TypeOK
<1>5. CASE FinishItem(n) \/ ItemError(n) \/ Crash(n)
  <2>1. worker[n] # Resting /\ worker' = [worker EXCEPT ![n] = Resting]
        /\ UNCHANGED <<log, delivery, view, calls>>
    BY <1>5 DEF FinishItem, ItemError, Crash, Resting
  <2>2. WorkerStep(n, Resting) /\ Resting.phase # "sending"
    BY <2>1 DEF WorkerStep, WorkerState, Resting
  <2>3. item[n] = "locked"
    BY <2>1 DEF ItemInv
  <2>4. item' = item \/ (\E s \in {"queued", "done"} : item' = [item EXCEPT ![n] = s])
    BY <1>5 DEF FinishItem, ItemError, Crash
  <2> QED BY <2>1, <2>2, <2>3, <2>4 DEF TypeOK
<1>6. ASSUME UNCHANGED <<log, item, delivery, view, calls>>, worker[n] # Resting,
             NEW w, WorkerStep(n, w), w.phase # "sending"
      PROVE  /\ item' \in [Node -> {"none", "queued", "locked", "done"}]
             /\ item'[n] = "locked" /\ item[n] # "none"
             /\ \A m \in Node \ {n} : item'[m] = item[m]
  BY <1>6 DEF ItemInv, TypeOK
<1> QED BY <1>1, <1>2, <1>3, <1>4, <1>5, <1>6 DEF QuietWork

(* The actions, by what they do to the history.                             *)
Write(n, t, d, w) ==
  /\ SaveDelivery(n, t, d) /\ MaySave(n, t, d) /\ d \in DeliveryRow
  /\ t \in Target /\ item[n] = "locked" /\ worker[n] # Resting
  /\ WorkerStep(n, w) /\ UNCHANGED <<item, view>>
  /\ calls' \in [Node -> [Target -> Nat]]
  /\ \A u \in Target \ {t} : calls'[n][u] = calls[n][u]
  /\ \A m \in Node \ {n} : calls'[m] = calls[m]
  /\ BusyAt(n, t) /\ t \in worker[n].todo
  /\ w # Resting /\ w # worker[n] /\ (w.phase \in {"owner", "sending"} => w.target = t)
  /\ \A u : (~ w.pending /\ u \notin w.todo) =>
        \/ ~ worker[n].pending /\ u \notin worker[n].todo
        \/ u = t /\ d.status \in Terminal

(* Every step is one of five kinds. *)
LEMMA Steps ==
  ASSUME CoreInv, [Next]_vars
  PROVE  /\ setup' = setup
         /\ \/ UNCHANGED vars
            \/ \E n \in setup.nodes :
                 \/ Ingest(n)
                 \/ \E m \in setup.nodes : \E e : Learned(n, m, e)
                 \/ \E m \in setup.nodes : LearnNode(n, m)
                 \/ QuietWork(n)
                 \/ \E t, d, w : Write(n, t, d, w)
<1> USE DEF CoreInv
<1>1. setup' = setup
  BY DEF vars, Next
<1>2. setup.nodes \subseteq Node
  BY SetupFacts
<1>3. ASSUME NEW n \in setup.nodes, Work(n)
      PROVE  QuietWork(n) \/ \E t, d, w : Write(n, t, d, w)
  <2> DEFINE t == worker[n].target
  <2>1. n \in Node
    BY <1>2
  <2>2. CASE SkipHistorical(n) /\ delivery[n][t].status \notin Terminal
    <3> DEFINE d == [delivery[n][t] EXCEPT !.status = "failed"]
               w == Passed(n, t, FALSE)
    <3>1. UNCHANGED <<item, view, calls>> /\ calls \in [Node -> [Target -> Nat]]
          /\ worker[n].phase = "owner"
      BY <2>2 DEF SkipHistorical, TypeOK
    <3>2. /\ t \in Target /\ d \in DeliveryRow /\ item[n] = "locked"
          /\ SaveDelivery(n, t, d) /\ MaySave(n, t, d)
          /\ WorkerStep(n, w) /\ worker[n] # Resting
      BY <2>1, <2>2, SkipWrites
    <3>3. d.status \in Terminal
      BY <2>1, <3>2 DEF Terminal, TypeOK, DeliveryRow
    <3>4. BusyAt(n, t) /\ t \in worker[n].todo
      BY <2>1, <3>1, WorkerStates DEF BusyAt
    <3>5. /\ w.phase = "targets" /\ w # Resting /\ w.todo = worker[n].todo \ {t}
          /\ w.pending = (worker[n].pending \/ FALSE)
      BY <2>1, <3>2, PassedState
    <3> HIDE DEF t, d, w
    <3> QED BY <3>1, <3>2, <3>3, <3>4, <3>5 DEF Write
  <2>3. CASE BeginDelivery(n) /\ delivery[n][t].status \notin Terminal
    <3> DEFINE d == [status |-> "sending", attempt |-> delivery[n][t].attempt + 1]
               w == Busy(n, "sending", t, d.attempt)
    <3>1. /\ UNCHANGED <<item, view>> /\ calls' = [calls EXCEPT ![n][t] = @ + 1]
          /\ worker[n].phase = "owner"
      BY <2>3 DEF BeginDelivery
    <3>2. /\ t \in Target /\ d \in DeliveryRow /\ item[n] = "locked"
          /\ SaveDelivery(n, t, d) /\ MaySave(n, t, d)
          /\ WorkerStep(n, w) /\ worker[n] # Resting
          /\ t \in worker[n].todo
      BY <2>1, <2>3, BeginWrites
    <3>3. BusyAt(n, t)
      BY <3>1 DEF BusyAt
    <3>4. d.attempt \in Nat
      BY <3>2 DEF DeliveryRow
    <3>5. /\ w # Resting /\ w.phase = "sending" /\ w.target = t /\ w.todo = worker[n].todo
          /\ w.pending = worker[n].pending
      BY <2>1, <3>2, <3>4, BusyState
    <3> HIDE DEF t, d, w
    <3>6. /\ calls' \in [Node -> [Target -> Nat]]
          /\ \A u \in Target \ {t} : calls'[n][u] = calls[n][u]
          /\ \A m \in Node \ {n} : calls'[m] = calls[m]
      BY <2>1, <3>1, <3>2 DEF TypeOK
    <3> QED BY <3>1, <3>2, <3>3, <3>5, <3>6 DEF Write
  <2>4. ASSUME NEW outcome, RecordResult(n, outcome)
        PROVE  \E u, d, w : Write(n, u, d, w)
    <3> DEFINE d == [delivery[n][t] EXCEPT !.status = ResultOf(n, outcome)]
               p == Retry(n, outcome)
               w == Passed(n, t, p)
    <3>1. UNCHANGED <<item, view, calls>> /\ calls \in [Node -> [Target -> Nat]]
          /\ worker[n].phase = "sending"
      BY <2>4 DEF RecordResult, TypeOK
    <3>2. /\ t \in Target /\ d \in DeliveryRow /\ item[n] = "locked"
          /\ SaveDelivery(n, t, d) /\ MaySave(n, t, d)
          /\ ~ p => d.status \in Terminal
          /\ WorkerStep(n, w) /\ worker[n] # Resting
      BY <2>1, <2>4, RecordWrites
    <3>3. BusyAt(n, t) /\ t \in worker[n].todo
      BY <2>1, <3>1, WorkerStates DEF BusyAt
    <3>4. p \in BOOLEAN
      BY DEF Retry
    <3>5. /\ w.phase = "targets" /\ w # Resting /\ w.todo = worker[n].todo \ {t}
          /\ w.pending = (worker[n].pending \/ p)
      BY <2>1, <3>2, <3>4, PassedState
    <3> HIDE DEF t, d, w, p
    <3> QED BY <3>1, <3>2, <3>3, <3>5 DEF Write
  <2> QED BY <1>3, <2>2, <2>3, <2>4 DEF Work, QuietWork
<1>4. ASSUME NEW n \in setup.nodes, NEW m \in setup.nodes, Learn(n, m)
      PROVE  \E e : Learned(n, m, e)
  BY <1>2, <1>4, LearnIsLearned
<1> QED BY <1>1, <1>3, <1>4 DEF Next, QuietWork

(* The invariants about histories, rows and receipts hold at the start. *)
LEMMA CoreInit ==
  Init => CoreInv
<1> SUFFICES ASSUME Init PROVE CoreInv
  OBVIOUS
<1>1. /\ setup \in Setups /\ setup.known \in [Node -> SUBSET Node]
  BY DeliveryAssumption DEF Init, Setup
<1>2. TypeOK
  BY <1>1 DEF Init, TypeOK, WorkerState, DeliveryRow, NoDelivery, Status
<1>3. \A n \in Node : /\ DOMAIN log[n] = {} /\ item[n] = "none" /\ worker[n] = Resting
                      /\ \A t \in Target : delivery[n][t] = NoDelivery
  BY DEF Init
<1>4. \A n \in Node : Entries(log[n]) = {} /\ \A t \in Target : About(log[n], t) = {}
  BY <1>3 DEF Entries, About
<1>5. \A n \in Node, t \in Target : ~ Sending(n, t) /\ ~ Settled(n, t)
  BY <1>3 DEF Sending, Settled, Resting
<1>6. HistoryInv
  BY <1>3, <1>4 DEF HistoryInv, InOrder
<1>7. ItemInv
  BY <1>3, <1>4 DEF ItemInv
<1>8. StreamInv /\ DeliveryInv /\ WriterInv
  BY <1>3, <1>4, <1>5 DEF StreamInv, DeliveryInv, WriterInv
<1> QED BY <1>2, <1>6, <1>7, <1>8 DEF CoreInv

(* Every step keeps them. *)
LEMMA CoreStep ==
  ASSUME CoreInv, [Next]_vars
  PROVE  CoreInv'
<1>1. setup' = setup /\ setup.nodes \subseteq Node
  BY Steps, SetupFacts DEF CoreInv
<1>2. CASE UNCHANGED vars
  <2>1. UNCHANGED <<setup, log, item, delivery, worker, view, calls>>
    BY <1>2 DEF vars
  <2>2. TypeOK'
    BY <2>1 DEF CoreInv, TypeOK, WorkerState
  <2>3. \A m \in Node, t \in Target : Sending(m, t)' => Sending(m, t)
    BY <2>1 DEF Sending
  <2>4. \A m \in Node : worker'[m] # Resting => item'[m] = "locked"
    BY <2>1 DEF CoreInv, ItemInv
  <2> QED BY <2>1, <2>2, <2>3, <2>4, QuietStep DEF CoreInv
<1>3. ASSUME NEW n \in setup.nodes, Ingest(n)
      PROVE  CoreInv'
  <2>1. n \in Node /\ NextSeq(n) \in Nat \ {0}
    BY <1>1, NextSeqNat DEF CoreInv
  <2>2. AlertBy(n) \in Event
    BY <2>1 DEF AlertBy, Event, AlertEvent
  <2>3. Append(log[n], AlertBy(n)) \in Seq(Event)
    BY <2>1, <2>2, EntriesAppend DEF CoreInv, TypeOK
  <2>4. TypeOK'
    BY <1>1, <1>3, <2>1, <2>3, TypesFrom DEF CoreInv, TypeOK, Ingest
  <2> QED BY <1>3, <2>1, <2>4, IngestStep DEF CoreInv
<1>4. ASSUME NEW n \in setup.nodes, NEW m \in setup.nodes, NEW e, Learned(n, m, e)
      PROVE  CoreInv'
  <2>1. n \in Node /\ m \in Node /\ TypeOK /\ HistoryInv
    BY <1>1 DEF CoreInv
  <2>2. log' \in [Node -> Seq(Event)]
    <3>1. e \in Event /\ Appended(n, e)
      BY <1>4, <2>1, MissingComesLater DEF Learned
    <3> QED BY <2>1, <3>1, AppendedLogs
  <2>3. delivery' \in [Node -> [Target -> DeliveryRow]]
    <3>1. delivery'[n] = Projected(n, log'[n], e) /\ delivery' \in [Node -> {delivery[k] : k \in Node} \cup {delivery'[n]}]
      BY <1>4, <2>1 DEF Learned, TypeOK
    <3>2. DOMAIN delivery'[n] = Target /\ delivery'[n] = [t \in Target |-> delivery'[n][t]]
      BY <3>1, Zenon DEF Projected
    <3>3. \A t \in Target : delivery'[n][t] \in DeliveryRow
      BY <1>4, <2>1, LearnedGrows
    <3>4. delivery'[n] \in [Target -> DeliveryRow]
      BY <3>2, <3>3
    <3> QED BY <2>1, <3>1, <3>4 DEF TypeOK
  <2>4. item' \in [Node -> {"none", "queued", "locked", "done"}]
    BY <1>4, <2>1, LearnedRows
  <2>5. UNCHANGED <<worker, view, calls>>
    BY <1>4 DEF Learned
  <2>6. TypeOK'
    BY <1>1, <2>1, <2>2, <2>3, <2>4, <2>5, TypesFrom DEF TypeOK
  <2> QED BY <1>4, <2>1, <2>6, LearnStep DEF CoreInv
<1>5. ASSUME NEW n \in setup.nodes, NEW m \in setup.nodes, LearnNode(n, m)
      PROVE  CoreInv'
  <2>1. UNCHANGED <<log, item, delivery, worker, calls>>
    BY <1>5 DEF LearnNode
  <2>2. TypeOK'
    BY <1>1, <1>5, <2>1, TypesFrom DEF CoreInv, TypeOK, LearnNode
  <2>3. \A k \in Node, t \in Target : Sending(k, t)' => Sending(k, t)
    BY <2>1 DEF Sending
  <2>4. \A k \in Node : worker'[k] # Resting => item'[k] = "locked"
    BY <2>1 DEF CoreInv, ItemInv
  <2> QED BY <2>1, <2>2, <2>3, <2>4, QuietStep DEF CoreInv
<1>6. ASSUME NEW n \in setup.nodes, QuietWork(n)
      PROVE  CoreInv'
  <2>1. n \in Node
    BY <1>1
  <2>2. PICK w : /\ WorkerStep(n, w)
                 /\ w # Resting => item'[n] = "locked"
                 /\ w.phase # "sending"
    BY <1>6, <2>1, QuietWorkFacts
  <2>3. /\ UNCHANGED <<log, delivery, view, calls>>
        /\ item' \in [Node -> {"none", "queued", "locked", "done"}]
        /\ item'[n] # "none" /\ item[n] # "none"
        /\ \A m \in Node \ {n} : item'[m] = item[m]
    BY <1>6, <2>1, QuietWorkFacts
  <2>4. /\ worker' \in [Node -> WorkerState] /\ worker'[n] = w
        /\ \A m \in Node \ {n} : worker'[m] = worker[m]
        /\ \A m \in Node, t \in Target : Sending(m, t)' => Sending(m, t)
    BY <2>1, <2>2, WorkerStepFacts DEF CoreInv
  <2>5. TypeOK'
    BY <1>1, <2>3, <2>4, TypesFrom DEF CoreInv, TypeOK
  <2>6. \A m \in Node : worker'[m] # Resting => item'[m] = "locked"
    BY <2>2, <2>3, <2>4 DEF CoreInv, ItemInv
  <2>7. \A m \in Node : item'[m] = "none" <=> item[m] = "none"
    BY <2>3
  <2> QED BY <2>3, <2>4, <2>5, <2>6, <2>7, QuietStep DEF CoreInv
<1>7. ASSUME NEW n \in setup.nodes, NEW t, NEW d, NEW w, Write(n, t, d, w)
      PROVE  CoreInv'
  <2>1. n \in Node /\ t \in Target /\ d \in DeliveryRow /\ d.status # "none"
    BY <1>1, <1>7 DEF Write, MaySave
  <2>2. log' \in [Node -> Seq(Event)] /\ delivery' \in [Node -> [Target -> DeliveryRow]]
    BY <1>7, <2>1, SaveTypes DEF CoreInv, Write
  <2>3. worker' \in [Node -> WorkerState] /\ \A m \in Node \ {n} : worker'[m] = worker[m]
    BY <1>7, <2>1, WorkerStepFacts DEF CoreInv, Write
  <2>4. TypeOK'
    BY <1>1, <1>7, <2>2, <2>3, TypesFrom DEF CoreInv, TypeOK, Write
  <2> QED BY <1>7, <2>1, <2>3, <2>4, WriteStep DEF CoreInv, Write
<1> QED BY <1>2, <1>3, <1>4, <1>5, <1>6, <1>7, Steps

-----------------------------------------------------------------------------
(* Who calls, and what a finished item leaves behind                        *)

(* One node ranks first. *)
LEMMA FirstIsOne ==
  ASSUME TypeOK, NEW n \in Node, NEW m \in Node, NEW t \in Target, First(n, t), First(m, t)
  PROVE  n = m
<1>1. DOMAIN setup.order[t] \subseteq Nat
  BY SetupFacts
<1>2. PICK i \in DOMAIN setup.order[t] :
        /\ setup.order[t][i] = n
        /\ \A j \in DOMAIN setup.order[t] : setup.order[t][j] \in setup.nodes => i <= j
  BY DEF First
<1>3. PICK k \in DOMAIN setup.order[t] :
        /\ setup.order[t][k] = m
        /\ \A j \in DOMAIN setup.order[t] : setup.order[t][j] \in setup.nodes => k <= j
  BY DEF First
<1>4. i <= k /\ k <= i
  BY <1>2, <1>3 DEF First
<1> QED BY <1>1, <1>2, <1>3, <1>4

(* A node that knows the others ranks itself first only if it is. *)
LEMMA RankedFirst ==
  ASSUME TypeOK, OwnerInv, Converged, NEW n \in setup.nodes, NEW t \in Target, RankZero(n, t)
  PROVE  First(n, t)
<1>1. setup.nodes \subseteq view[n] /\ n \in Node
  BY SetupFacts DEF OwnerInv, Converged
<1>2. PICK i \in Ranked(n, t) : setup.order[t][i] = n /\ \A j \in Ranked(n, t) : i <= j
  BY DEF RankZero
<1>3. \A j \in DOMAIN setup.order[t] : setup.order[t][j] \in setup.nodes => j \in Ranked(n, t)
  BY <1>1 DEF Ranked
<1> QED BY <1>2, <1>3 DEF First, Ranked

(* A node is eligible from the start or never: it knows itself. *)
LEMMA EligibleSteady ==
  ASSUME TypeOK, OwnerInv, NEW n \in Node, NEW t \in Target, setup' = setup, Eligible(n, t)'
  PROVE  Eligible(n, t)
<1>1. n \in view[n]
  BY SetupFacts DEF OwnerInv
<1>2. PICK i \in DOMAIN setup.order[t] : setup.order[t][i] = n
  BY DEF Eligible, Ranked
<1> QED BY <1>1, <1>2 DEF Eligible, Ranked

(* When the nodes know each other, all receipts of a target have one writer *)
LEMMA OneWriter ==
  ASSUME CoreInv, OwnerInv, Converged, NEW n \in Node, NEW t \in Target,
         NEW r \in About(log[n], t)
  PROVE  First(r.origin, t) /\ r \in About(log[r.origin], t) /\ r.origin \in Node
<1>1. r.origin \in Node /\ r \in Entries(log[r.origin])
  BY EntriesEvents DEF CoreInv, HistoryInv, About
<1>2. r \in About(log[r.origin], t)
  BY <1>1 DEF About
<1> QED BY <1>1, <1>2 DEF OwnerInv

(* Then no event reopens a delivery with a final result.                    *)
LEMMA TerminalStays ==
  ASSUME CoreInv, OwnerInv, Converged, NEW n \in Node, NEW m \in Node, NEW e, Learned(n, m, e),
         NEW t \in Target, delivery[n][t].status \in Terminal
  PROVE  delivery'[n][t].status \in Terminal
<1> USE DEF CoreInv
<1>1. /\ e \in Event /\ e.origin \in Node \ {n} /\ e \in Entries(log[e.origin])
      /\ \A g \in Entries(log[n]) : g.origin = e.origin => g.seq < e.seq
      /\ Appended(n, e)
  BY MissingComesLater DEF Learned
<1>2. /\ IsReceipt(e, t) => About(log'[n], t) = About(log[n], t) \cup {e}
      /\ ~ IsReceipt(e, t) => About(log'[n], t) = About(log[n], t)
  BY <1>1, AppendedAbout
<1>3. About(log[n], t) # {}
  <2>1. SUFFICES ASSUME About(log[n], t) = {} PROVE FALSE
    OBVIOUS
  <2>2. Alone(log[n], t, n)
    BY <2>1 DEF Alone
  <2>3. delivery[n][t] = NoDelivery
    BY <2>1, <2>2 DEF DeliveryInv
  <2> QED BY <2>3 DEF NoDelivery, Terminal
<1>4. PICK x \in About(log[n], t) : TRUE
  BY <1>3
<1> DEFINE o == x.origin
<1>5. o \in Node /\ First(o, t)
  BY <1>4, OneWriter
<1>6. \A k \in Node : Alone(log[k], t, o)
  BY <1>5, OneWriter, FirstIsOne DEF Alone
<1>7. IsReceipt(e, t) => e \in About(log[e.origin], t) /\ e.origin = o
  <2>1. IsReceipt(e, t) => e \in About(log[e.origin], t)
    BY <1>1 DEF About, IsReceipt
  <2> QED BY <1>1, <1>6, <2>1 DEF Alone
<1>8. Alone(log'[n], t, o)
  BY <1>2, <1>6, <1>7 DEF Alone
<1>9. PICK r \in About(log[n], t) : delivery[n][t] = Row(r)
  <2>1. delivery[n][t] # NoDelivery
    BY DEF NoDelivery, Terminal
  <2> QED BY <1>5, <1>6, <2>1 DEF DeliveryInv
<1>10. r.status \in Terminal /\ r.origin = o /\ r \in About(log[o], t)
  BY <1>6, <1>9, OneWriter DEF Row, Alone
<1>11. IsLast(log[o], t, r)
  BY <1>5, <1>6, <1>10 DEF WriterInv
<1> HIDE DEF o
<1>12. CASE IsReceipt(e, t)
  <2>1. e.seq <= r.seq
    BY <1>7, <1>11, <1>12 DEF IsLast
  <2>2. r.seq < e.seq
    BY <1>1, <1>7, <1>9, <1>10, <1>12 DEF About
  <2>3. r.seq \in Nat /\ e.seq \in Nat
    BY <1>1, <1>5, <1>7, <1>10, <1>12, EntriesEvents DEF ReceiptEvent
  <2> QED BY <2>1, <2>2, <2>3
<1>13. CASE e.kind = "alert"
  <2>1. PICK s \in About(log[n], t) : IsLast(log[n], t, s) /\ delivery'[n][t] = Row(s)
    BY <1>3, <1>5, <1>8, <1>13, LearnedAlone
  <2>2. s \in About(log[o], t) /\ s.origin = o
    BY <1>6, OneWriter DEF Alone
  <2>3. s.seq <= r.seq /\ r.seq <= s.seq
    BY <1>9, <1>11, <2>1, <2>2 DEF IsLast
  <2>4. r.seq \in Nat /\ s.seq \in Nat /\ r \in Entries(log[n]) /\ s \in Entries(log[n])
    BY EntriesEvents DEF ReceiptEvent
  <2>5. r = s
    BY <1>10, <2>2, <2>3, <2>4, SameNumber
  <2> QED BY <1>10, <2>1, <2>5 DEF Row
<1>14. CASE e.kind = "receipt" /\ ~ IsReceipt(e, t)
  <2>1. delivery'[n][t] = delivery[n][t]
    BY <1>14, LearnedRows
  <2> QED BY <2>1
<1>15. e.kind \in {"alert", "receipt"}
  BY <1>1 DEF Event, AlertEvent, ReceiptEvent
<1> QED BY <1>12, <1>13, <1>14, <1>15

(* What a step of n has to keep.                                            *)
OwnerKept(n) ==
  /\ \A t \in Target :
        (\/ calls[n][t] > 0 \/ BusyAt(n, t)
         \/ \E r \in About(log[n], t) : r.origin = n) => First(n, t)
  /\ \A t \in setup.targets : Eligible(n, t) =>
        /\ item[n] = "done" => delivery[n][t].status \in Terminal
        /\ (worker[n] # Resting /\ ~ worker[n].pending /\ t \notin worker[n].todo)
             => delivery[n][t].status \in Terminal

(* A step of n disturbs the invariant on n only. *)
LEMMA OwnerFrom ==
  ASSUME TypeOK, OwnerInv, NEW n \in setup.nodes, setup' = setup,
         view' \in [Node -> SUBSET Node], \A m \in Node : view[m] \subseteq view'[m],
         \A m \in Node \ {n} : /\ log'[m] = log[m] /\ item'[m] = item[m]
                               /\ worker'[m] = worker[m]
                               /\ delivery'[m] = delivery[m] /\ calls'[m] = calls[m],
         Converged => OwnerKept(n)'
  PROVE  OwnerInv'
<1>1. n \in Node
  BY SetupFacts
<1>2. \A m \in Node : setup'.known[m] \subseteq view'[m]
  BY DEF OwnerInv
<1>3. \A m \in Node : (worker'[m] # Resting \/ item'[m] # "none") => m \in setup'.nodes
  BY DEF OwnerInv
<1>4. Converged' <=> Converged
  BY DEF Converged
<1>5. ASSUME Converged, NEW m \in Node PROVE OwnerKept(m)'
  <2>1. CASE m = n
    BY <1>5, <2>1
  <2>2. CASE m # n
    <3>1. OwnerKept(m)
      BY <1>5 DEF OwnerInv, OwnerKept
    <3>2. \A t \in Target : /\ BusyAt(m, t)' <=> BusyAt(m, t)
                            /\ First(m, t)' <=> First(m, t)
      BY <2>2 DEF BusyAt, First
    <3>3. \A t \in Target : About(log'[m], t) = About(log[m], t)
      BY <2>2
    <3>4. \A t \in setup.targets : Eligible(m, t)' => Eligible(m, t)
      BY SetupFacts, EligibleSteady
    <3> QED BY <2>2, <3>1, <3>2, <3>3, <3>4 DEF OwnerKept
  <2> QED BY <2>1, <2>2
<1>6. Converged' => \A m \in Node : OwnerKept(m)'
  BY <1>4, <1>5
<1> QED BY <1>2, <1>3, <1>6 DEF OwnerInv, OwnerKept
(* Quiet steps of the worker: what is passed over is settled or pending.    *)
LEMMA QuietOwner ==
  ASSUME CoreInv, OwnerInv, Converged, setup' = setup, NEW n \in setup.nodes, QuietWork(n)
  PROVE  OwnerKept(n)'
<1> USE DEF CoreInv
<1>1. n \in Node /\ setup.targets \subseteq Target
  BY SetupFacts
<1>2. UNCHANGED <<log, delivery, view, calls>>
  BY <1>1, QuietWorkFacts
<1>3. \A t \in Target : /\ First(n, t)' <=> First(n, t)
                        /\ Eligible(n, t)' <=> Eligible(n, t)
                        /\ About(log'[n], t) = About(log[n], t)
  BY <1>2 DEF First, Eligible, Ranked
<1>4. \A t \in Target : (calls[n][t] > 0 \/ BusyAt(n, t) \/ \E r \in About(log[n], t) : r.origin = n)
                          => First(n, t)
  BY <1>1 DEF OwnerInv
<1>5. \A t \in setup.targets : Eligible(n, t) =>
        /\ item[n] = "done" => delivery[n][t].status \in Terminal
        /\ (worker[n] # Resting /\ ~ worker[n].pending /\ t \notin worker[n].todo)
             => delivery[n][t].status \in Terminal
  BY <1>1 DEF OwnerInv
(* It is enough to look at the worker and the item.                         *)
<1>6. ASSUME \A t \in Target : BusyAt(n, t)' => First(n, t),
             \A t \in setup.targets : Eligible(n, t) =>
               /\ item'[n] = "done" => delivery[n][t].status \in Terminal
               /\ (worker'[n] # Resting /\ ~ worker'[n].pending /\ t \notin worker'[n].todo)
                    => delivery[n][t].status \in Terminal
      PROVE  OwnerKept(n)'
  <2>1. \A t \in Target : (calls'[n][t] > 0 \/ BusyAt(n, t)' \/ \E r \in About(log'[n], t) : r.origin = n)
                          => First(n, t)'
    BY <1>2, <1>3, <1>4, <1>6
  <2>2. \A t \in setup'.targets : Eligible(n, t)' =>
               /\ item'[n] = "done" => delivery'[n][t].status \in Terminal
               /\ (worker'[n] # Resting /\ ~ worker'[n].pending /\ t \notin worker'[n].todo)
                    => delivery'[n][t].status \in Terminal
    BY <1>1, <1>2, <1>3, <1>6
  <2> QED BY <2>1, <2>2 DEF OwnerKept
<1>7. CASE Claim(n)
  <2>1. item'[n] = "locked" /\ worker'[n] = Working(setup.targets, FALSE)
    BY <1>1, <1>7 DEF Claim, TypeOK
  <2>2. worker'[n].todo = setup.targets /\ worker'[n].phase = "targets"
    BY <2>1 DEF Working
  <2>3. \A t \in Target : ~ BusyAt(n, t)'
    BY <2>2 DEF BusyAt
  <2> QED BY <1>6, <2>1, <2>2, <2>3
<1>8. ASSUME NEW t \in setup.targets, PassTarget(n, t) PROVE OwnerKept(n)'
  <2> DEFINE p == delivery[n][t].status \notin Terminal /\ Eligible(n, t)
  <2>1. worker[n] # Resting /\ worker' = [worker EXCEPT ![n] = Passed(n, t, p)] /\ item' = item
    BY <1>8 DEF PassTarget, AtTarget, Resting
  <2>2. p \in BOOLEAN /\ (~ p /\ Eligible(n, t) => delivery[n][t].status \in Terminal)
    OBVIOUS
  <2> HIDE DEF p
  <2>3. /\ worker'[n].phase = "targets" /\ worker'[n].todo = worker[n].todo \ {t}
        /\ worker'[n].pending = (worker[n].pending \/ p)
    BY <1>1, <2>1, <2>2, PassedState DEF TypeOK
  <2>4. \A u \in Target : ~ BusyAt(n, u)'
    BY <2>3 DEF BusyAt
  <2>5. \A u \in setup.targets : Eligible(n, u) =>
               /\ item'[n] = "done" => delivery[n][u].status \in Terminal
               /\ (worker'[n] # Resting /\ ~ worker'[n].pending /\ u \notin worker'[n].todo)
                    => delivery[n][u].status \in Terminal
    BY <1>5, <2>1, <2>2, <2>3
  <2> QED BY <1>6, <2>4, <2>5
<1>9. ASSUME NEW t \in setup.targets, Own(n, t) PROVE OwnerKept(n)'
  <2>1. /\ worker[n] # Resting /\ t \in worker[n].todo /\ RankZero(n, t) /\ item' = item
        /\ worker' = [worker EXCEPT ![n] = Busy(n, "owner", t, 0)]
    BY <1>9 DEF Own, AtTarget, Resting
  <2>2. First(n, t)
    BY <1>1, <2>1, RankedFirst
  <2>3. /\ worker'[n].target = t /\ worker'[n].todo = worker[n].todo
        /\ worker'[n].pending = worker[n].pending
    BY <1>1, <2>1, BusyState DEF TypeOK
  <2>4. \A u \in Target : BusyAt(n, u)' => First(n, u)
    BY <2>2, <2>3 DEF BusyAt
  <2> QED BY <1>5, <1>6, <2>1, <2>3, <2>4
<1>10. CASE (SkipHistorical(n) \/ BeginDelivery(n)) /\ delivery[n][worker[n].target].status \in Terminal
  <2> DEFINE t == worker[n].target
  <2>1. /\ worker[n].phase = "owner" /\ item' = item
        /\ worker' = [worker EXCEPT ![n] = Passed(n, t, FALSE)]
    <3>1. CASE SkipHistorical(n)
      BY <3>1, Zenon DEF SkipHistorical
    <3>2. CASE BeginDelivery(n)
      BY <1>10, <3>2, Zenon DEF BeginDelivery
    <3> QED BY <1>10, <3>1, <3>2
  <2>2. worker[n] # Resting
    BY <2>1 DEF Resting
  <2>3. /\ worker'[n].phase = "targets" /\ worker'[n].todo = worker[n].todo \ {t}
        /\ worker'[n].pending = (worker[n].pending \/ FALSE) /\ worker[n].pending \in BOOLEAN
    BY <1>1, <2>1, <2>2, PassedState, WorkerStates DEF TypeOK
  <2>4. \A u \in Target : ~ BusyAt(n, u)'
    BY <2>3 DEF BusyAt
  <2> QED BY <1>5, <1>6, <1>10, <2>1, <2>2, <2>3, <2>4
<1>11. CASE FinishItem(n)
  <2>1. /\ worker[n].phase = "targets" /\ worker[n].todo = {}
        /\ item' = [item EXCEPT ![n] = IF worker[n].pending THEN "queued" ELSE "done"]
        /\ worker' = [worker EXCEPT ![n] = Resting]
    BY <1>11 DEF FinishItem
  <2>2. worker[n] # Resting
    BY <2>1 DEF Resting
  <2>3. worker'[n] = Resting /\ item'[n] = IF worker[n].pending THEN "queued" ELSE "done"
    BY <1>1, <2>1 DEF TypeOK
  <2>4. \A u \in Target : ~ BusyAt(n, u)'
    BY <2>3 DEF BusyAt, Resting
  <2>5. \A t \in setup.targets : Eligible(n, t) => (item'[n] = "done" => delivery[n][t].status \in Terminal)
    BY <1>5, <2>1, <2>2, <2>3
  <2> QED BY <1>6, <2>3, <2>4, <2>5
<1>12. CASE ItemError(n) \/ Crash(n)
  <2>1. /\ worker[n] # Resting /\ worker' = [worker EXCEPT ![n] = Resting]
        /\ item' = item \/ item' = [item EXCEPT ![n] = "queued"]
    BY <1>12 DEF ItemError, Crash
  <2>2. item[n] = "locked"
    BY <1>1, <2>1 DEF ItemInv
  <2>3. worker'[n] = Resting /\ item'[n] # "done"
    BY <1>1, <2>1, <2>2 DEF TypeOK
  <2>4. \A u \in Target : ~ BusyAt(n, u)'
    BY <2>3 DEF BusyAt, Resting
  <2> QED BY <1>6, <2>3, <2>4
<1> QED BY <1>7, <1>8, <1>9, <1>10, <1>11, <1>12 DEF QuietWork

(* What SaveDelivery does to the other targets and the other nodes.         *)
LEMMA SavedOthers ==
  ASSUME TypeOK, NEW n \in Node, NEW t \in Target, NEW d \in DeliveryRow, d.status # "none",
         SaveDelivery(n, t, d)
  PROVE  /\ delivery'[n][t] = d
         /\ \A u \in Target \ {t} : /\ delivery'[n][u] = delivery[n][u]
                                    /\ About(log'[n], u) = About(log[n], u)
         /\ \A m \in Node \ {n} : delivery'[m] = delivery[m] /\ log'[m] = log[m]
<1>1. /\ delivery'[n][t] = d
      /\ \A u \in Target \ {t} : delivery'[n][u] = delivery[n][u]
      /\ \A m \in Node \ {n} : delivery'[m] = delivery[m]
  BY DEF SaveDelivery, TypeOK
<1> DEFINE r == Receipt(n, t, d)
<1>2. r.kind = "receipt" /\ r.target = t
  BY DEF Receipt
<1>3. r \in Event
  BY NextSeqNat DEF Receipt, Event, ReceiptEvent, DeliveryRow
<1> HIDE DEF r
<1>4. log'[n] = log[n] \/ log'[n] = Append(log[n], r)
  BY DEF SaveDelivery, TypeOK, r
<1>5. \A m \in Node \ {n} : log'[m] = log[m]
  BY DEF SaveDelivery, TypeOK
<1>6. log[n] \in Seq(Event)
  BY DEF TypeOK
<1>7. ASSUME NEW u \in Target \ {t} PROVE About(log'[n], u) = About(log[n], u)
  <2>1. CASE log'[n] = log[n]
    BY <2>1
  <2>2. CASE log'[n] = Append(log[n], r)
    <3>1. Entries(log'[n]) = Entries(log[n]) \cup {r}
      BY <1>3, <1>6, <2>2, EntriesAppend
    <3> QED BY <1>2, <3>1 DEF About
  <2> QED BY <1>4, <2>1, <2>2
<1> QED BY <1>1, <1>5, <1>7

(* A write of the owner leaves nothing unsettled behind. *)
LEMMA WriteOwner ==
  ASSUME CoreInv, OwnerInv, Converged, setup' = setup, NEW n \in setup.nodes,
         NEW t, NEW d, NEW w, Write(n, t, d, w)
  PROVE  OwnerKept(n)'
<1> USE DEF CoreInv
<1>1. n \in Node /\ setup.targets \subseteq Target
  BY SetupFacts
<1>2. /\ t \in Target /\ d \in DeliveryRow /\ d.status # "none" /\ SaveDelivery(n, t, d)
      /\ item[n] = "locked" /\ worker[n] # Resting /\ WorkerStep(n, w)
      /\ item' = item /\ view' = view
      /\ \A u \in Target \ {t} : calls'[n][u] = calls[n][u]
      /\ BusyAt(n, t) /\ t \in worker[n].todo
      /\ w # Resting /\ (w.phase \in {"owner", "sending"} => w.target = t)
      /\ \A u : (~ w.pending /\ u \notin w.todo) =>
           \/ ~ worker[n].pending /\ u \notin worker[n].todo
           \/ u = t /\ d.status \in Terminal
  BY DEF Write, MaySave
<1>3. First(n, t)
  BY <1>1, <1>2 DEF OwnerInv
<1>4. /\ delivery'[n][t] = d
      /\ \A u \in Target \ {t} : /\ delivery'[n][u] = delivery[n][u]
                                 /\ About(log'[n], u) = About(log[n], u)
  BY <1>1, <1>2, SavedOthers
<1>5. /\ worker'[n] = w
      /\ \A u \in Target : BusyAt(n, u)' => u = t
  BY <1>1, <1>2, WorkerStepFacts
<1>6. \A u \in Target : /\ First(n, u)' <=> First(n, u)
                        /\ Eligible(n, u)' <=> Eligible(n, u)
  BY <1>2 DEF First, Eligible, Ranked
<1>7. ASSUME NEW u \in Target,
             calls'[n][u] > 0 \/ BusyAt(n, u)' \/ \E r \in About(log'[n], u) : r.origin = n
      PROVE  First(n, u)'
  <2>1. CASE u = t
    BY <1>3, <1>6, <2>1
  <2>2. CASE u # t
    <3>1. calls[n][u] > 0 \/ \E r \in About(log[n], u) : r.origin = n
      BY <1>2, <1>4, <1>5, <1>7, <2>2
    <3> QED BY <1>1, <1>6, <3>1 DEF OwnerInv
  <2> QED BY <2>1, <2>2
<1>8. ASSUME NEW u \in setup.targets, Eligible(n, u)',
             worker'[n] # Resting /\ ~ worker'[n].pending /\ u \notin worker'[n].todo
      PROVE  delivery'[n][u].status \in Terminal
  <2>1. \/ ~ worker[n].pending /\ u \notin worker[n].todo
        \/ u = t /\ d.status \in Terminal
    BY <1>2, <1>5, <1>8
  <2>2. CASE u = t /\ d.status \in Terminal
    BY <1>4, <2>2
  <2>3. CASE ~ worker[n].pending /\ u \notin worker[n].todo
    <3>1. u # t /\ u \in Target /\ Eligible(n, u)
      BY <1>1, <1>2, <1>6, <1>8, <2>3
    <3>2. delivery[n][u].status \in Terminal
      BY <1>1, <1>2, <2>3, <3>1 DEF OwnerInv
    <3> QED BY <1>4, <3>1, <3>2
  <2> QED BY <2>1, <2>2, <2>3
<1>9. item'[n] # "done"
  BY <1>2
<1> QED BY <1>7, <1>8, <1>9 DEF OwnerKept

(* The invariant about owners holds at the start. *)
LEMMA OwnerInit ==
  Init => OwnerInv
<1> SUFFICES ASSUME Init PROVE OwnerInv
  OBVIOUS
<1>1. /\ view = setup.known
      /\ \A n \in Node : /\ DOMAIN log[n] = {} /\ item[n] = "none" /\ worker[n] = Resting
                         /\ \A t \in Target : calls[n][t] = 0
  BY DEF Init
<1>2. \A n \in Node : \A t \in Target : About(log[n], t) = {} /\ ~ BusyAt(n, t)
  BY <1>1 DEF Entries, About, BusyAt, Resting
<1>3. \A n \in Node : setup.known[n] \subseteq view[n]
  BY <1>1
<1>4. setup.targets \subseteq Target
  BY CoreInit, SetupFacts DEF CoreInv
<1> QED BY <1>1, <1>2, <1>3, <1>4 DEF OwnerInv

(* Every step keeps it. *)
LEMMA OwnerStep ==
  ASSUME CoreInv, OwnerInv, [Next]_vars
  PROVE  OwnerInv'
<1>1. setup' = setup /\ setup.nodes \subseteq Node /\ setup.targets \subseteq Target
  BY Steps, SetupFacts DEF CoreInv
<1>2. TypeOK /\ CoreInv'
  BY CoreStep DEF CoreInv
<1>3. view' \in [Node -> SUBSET Node]
  BY <1>2 DEF CoreInv, TypeOK
<1>4. CASE UNCHANGED vars
  <2>1. UNCHANGED <<setup, log, item, delivery, worker, view, calls>>
    BY <1>4 DEF vars
  <2>2. Converged' <=> Converged
    BY <2>1 DEF Converged
  <2>3. \A n \in Node, t \in Target : /\ First(n, t)' <=> First(n, t)
                                      /\ Eligible(n, t)' <=> Eligible(n, t)
                                      /\ BusyAt(n, t)' <=> BusyAt(n, t)
                                      /\ About(log'[n], t) = About(log[n], t)
    BY <2>1 DEF First, Eligible, Ranked, BusyAt
  <2> QED BY <1>1, <2>1, <2>2, <2>3 DEF OwnerInv
<1>5. ASSUME NEW n \in setup.nodes, Ingest(n)
      PROVE  OwnerInv'
  <2>1. n \in Node
    BY <1>1
  <2>2. /\ Appended(n, AlertBy(n)) /\ item[n] = "none" /\ item' = [item EXCEPT ![n] = "queued"]
        /\ UNCHANGED <<delivery, worker, view, calls, faults>>
    BY <1>5 DEF Ingest, Appended
  <2>3. AlertBy(n) \in Event /\ \A t \in Target : ~ IsReceipt(AlertBy(n), t)
    BY <1>2, <2>1, NextSeqNat DEF AlertBy, Event, AlertEvent, IsReceipt
  <2>4. /\ \A t \in Target : About(log'[n], t) = About(log[n], t)
        /\ \A m \in Node \ {n} : log'[m] = log[m]
    BY <1>2, <2>1, <2>2, <2>3, AppendedAbout, AppendedLogs
  <2>5. item'[n] = "queued" /\ \A m \in Node \ {n} : item'[m] = item[m]
    BY <1>2, <2>1, <2>2 DEF TypeOK
  <2>6. worker[n] = Resting
    BY <2>1, <2>2 DEF CoreInv, ItemInv
  <2>7. ASSUME Converged PROVE OwnerKept(n)'
    <3>1. \A t \in Target : /\ First(n, t)' <=> First(n, t)
                            /\ BusyAt(n, t)' <=> BusyAt(n, t)
      BY <1>1, <2>2 DEF First, BusyAt
    <3>2. \A t \in Target : (calls'[n][t] > 0 \/ BusyAt(n, t)' \/ \E r \in About(log'[n], t) : r.origin = n)
                          => First(n, t)'
      BY <2>1, <2>2, <2>4, <2>7, <3>1 DEF OwnerInv
    <3> QED BY <2>2, <2>5, <2>6, <3>2 DEF OwnerKept
  <2> QED BY <1>1, <1>2, <1>3, <2>2, <2>4, <2>5, <2>7, OwnerFrom
<1>6. ASSUME NEW n \in setup.nodes, NEW m \in setup.nodes, NEW e, Learned(n, m, e)
      PROVE  OwnerInv'
  <2>1. n \in Node /\ m \in Node /\ HistoryInv
    BY <1>1 DEF CoreInv
  <2>2. e \in Event /\ e.origin # n /\ Appended(n, e) /\ UNCHANGED <<worker, view, calls, faults>>
    BY <1>2, <1>6, <2>1, MissingComesLater DEF Learned
  <2>3. /\ \A t \in Target : \A r \in About(log'[n], t) : r \in About(log[n], t) \/ r = e
        /\ \A k \in Node \ {n} : log'[k] = log[k]
    <3>1. /\ Entries(log'[n]) = Entries(log[n]) \cup {e}
          /\ \A k \in Node \ {n} : log'[k] = log[k]
      BY <1>2, <2>1, <2>2, AppendedLogs
    <3> QED BY <3>1 DEF About
  <2>4. /\ \A k \in Node \ {n} : item'[k] = item[k] /\ delivery'[k] = delivery[k]
        /\ item'[n] = "done" => item[n] = "done"
    BY <1>2, <1>6, <2>1, LearnedRows
  <2>5. ASSUME Converged PROVE OwnerKept(n)'
    <3>1. \A t \in Target : /\ First(n, t)' <=> First(n, t)
                            /\ BusyAt(n, t)' <=> BusyAt(n, t)
                            /\ Eligible(n, t)' <=> Eligible(n, t)
      BY <1>1, <2>2 DEF First, BusyAt, Eligible, Ranked
    <3>2. \A t \in Target : (calls'[n][t] > 0 \/ BusyAt(n, t)' \/ \E r \in About(log'[n], t) : r.origin = n)
                          => First(n, t)'
      BY <2>1, <2>2, <2>3, <2>5, <3>1 DEF OwnerInv
    <3>3. \A t \in setup.targets : delivery[n][t].status \in Terminal => delivery'[n][t].status \in Terminal
      BY <1>1, <1>6, <2>1, <2>5, TerminalStays
    <3>4. \A t \in setup.targets : Eligible(n, t) =>
            /\ item[n] = "done" => delivery[n][t].status \in Terminal
            /\ (worker[n] # Resting /\ ~ worker[n].pending /\ t \notin worker[n].todo)
                 => delivery[n][t].status \in Terminal
      BY <2>1, <2>5 DEF OwnerInv
    <3>5. \A t \in setup'.targets : Eligible(n, t)' =>
            /\ item'[n] = "done" => delivery'[n][t].status \in Terminal
            /\ (worker'[n] # Resting /\ ~ worker'[n].pending /\ t \notin worker'[n].todo)
                 => delivery'[n][t].status \in Terminal
      BY <1>1, <2>2, <2>4, <3>1, <3>3, <3>4
    <3> QED BY <3>2, <3>5 DEF OwnerKept
  <2> QED BY <1>1, <1>2, <1>3, <2>2, <2>3, <2>4, <2>5, OwnerFrom
<1>7. ASSUME NEW n \in setup.nodes, NEW m \in setup.nodes, LearnNode(n, m)
      PROVE  OwnerInv'
  <2>1. n \in Node
    BY <1>1
  <2>2. UNCHANGED <<log, item, delivery, worker, calls>> /\ view' = [view EXCEPT ![n] = @ \cup {m}]
    BY <1>7 DEF LearnNode
  <2>3. \A k \in Node : view[k] \subseteq view'[k]
    BY <1>2, <2>2 DEF TypeOK
  <2>4. ASSUME Converged PROVE OwnerKept(n)'
    <3>1. \A t \in Target : /\ First(n, t)' <=> First(n, t)
                            /\ BusyAt(n, t)' <=> BusyAt(n, t)
                            /\ Eligible(n, t)' => Eligible(n, t)
      <4>1. \A t \in Target : Eligible(n, t)' => Eligible(n, t)
        BY <1>1, <1>2, <2>1, EligibleSteady
      <4> QED BY <1>1, <2>2, <4>1 DEF First, BusyAt
    <3> QED BY <1>1, <2>1, <2>2, <2>4, <3>1 DEF OwnerInv, OwnerKept
  <2> QED BY <1>1, <1>2, <1>3, <2>2, <2>3, <2>4, OwnerFrom
<1>8. ASSUME NEW n \in setup.nodes, QuietWork(n)
      PROVE  OwnerInv'
  <2>1. n \in Node
    BY <1>1
  <2>2. /\ UNCHANGED <<log, delivery, view, calls>>
        /\ \A m \in Node \ {n} : item'[m] = item[m]
    BY <1>8, <2>1, QuietWorkFacts
  <2>3. \A m \in Node \ {n} : worker'[m] = worker[m]
    <3>1. PICK w : WorkerStep(n, w)
      BY <1>8, <2>1, QuietWorkFacts
    <3> QED BY <1>2, <2>1, <3>1, WorkerStepFacts
  <2>4. Converged => OwnerKept(n)'
    BY <1>1, <1>8, QuietOwner
  <2> QED BY <1>1, <1>2, <1>3, <2>2, <2>3, <2>4, OwnerFrom
<1>9. ASSUME NEW n \in setup.nodes, NEW t, NEW d, NEW w, Write(n, t, d, w)
      PROVE  OwnerInv'
  <2>1. n \in Node
    BY <1>1
  <2>2. /\ t \in Target /\ d \in DeliveryRow /\ d.status # "none" /\ SaveDelivery(n, t, d)
        /\ WorkerStep(n, w) /\ item' = item /\ view' = view
        /\ \A m \in Node \ {n} : calls'[m] = calls[m]
    BY <1>9 DEF Write, MaySave
  <2>3. \A m \in Node \ {n} : delivery'[m] = delivery[m] /\ log'[m] = log[m]
    BY <1>2, <2>1, <2>2, SavedOthers
  <2>4. \A m \in Node \ {n} : worker'[m] = worker[m]
    BY <1>2, <2>1, <2>2, WorkerStepFacts
  <2>5. Converged => OwnerKept(n)'
    BY <1>1, <1>9, WriteOwner
  <2> QED BY <1>1, <1>2, <1>3, <2>2, <2>3, <2>4, <2>5, OwnerFrom
<1> QED BY <1>4, <1>5, <1>6, <1>7, <1>8, <1>9, Steps
-----------------------------------------------------------------------------
(* The theorems *)

(* The invariants together are inductive. *)
THEOREM DeliveryInductive ==
  Spec => [](CoreInv /\ OwnerInv)
<1>1. Init => CoreInv /\ OwnerInv
  BY CoreInit, OwnerInit
<1>2. CoreInv /\ OwnerInv /\ [Next]_vars => (CoreInv /\ OwnerInv)'
  BY CoreStep, OwnerStep
<1> QED BY <1>1, <1>2, PTL DEF Spec

(* No two nodes that know each other ever call the provider of one target,  *)
(* whatever crashes, stale locks and late receipts come in between: the     *)
(* rank check of _process_target is enough.                                 *)
THEOREM AtMostOneCaller ==
  Spec => []SingleCaller
<1>1. CoreInv /\ OwnerInv => SingleCaller
  <2> SUFFICES ASSUME CoreInv, OwnerInv, Converged, NEW t \in Target, NEW n \in Node, NEW m \in Node,
                      calls[n][t] > 0, calls[m][t] > 0
               PROVE  n = m
    BY DEF SingleCaller
  <2>1. First(n, t) /\ First(m, t)
    BY DEF OwnerInv
  <2> QED BY <2>1, FirstIsOne DEF CoreInv
<1> QED BY <1>1, DeliveryInductive, PTL

(* A completed item leaves nothing undone for a node that may send it, and  *)
(* no event that comes later reopens it.                                    *)
THEOREM FinishedIsSettled ==
  Spec => []DoneMeansSettled
<1>1. CoreInv /\ OwnerInv => DoneMeansSettled
  BY DEF OwnerInv, DoneMeansSettled
<1> QED BY <1>1, DeliveryInductive, PTL

(* Nodes with the same events have the same delivery, in whatever order     *)
(* alert and receipts came.                                                 *)
THEOREM DeliveriesConverge ==
  Spec => []ReceiptsConverge
<1>1. CoreInv => ReceiptsConverge
  <2> SUFFICES ASSUME CoreInv, NEW t \in Target, NEW n \in Node, NEW m \in Node,
                      Entries(log[n]) = Entries(log[m]),
                      \A e, f \in ReceiptsOn(n, t) : e.origin = f.origin,
                      \A e \in ReceiptsOn(n, t) : \A a \in Entries(log[e.origin]) :
                         a.kind = "alert" => a \in Entries(log[n]),
                      item[n] # "none"
               PROVE  delivery[n][t] = delivery[m][t]
    BY DEF ReceiptsConverge
  <2> USE DEF CoreInv
  <2>1. ReceiptsOn(n, t) = About(log[n], t) /\ About(log[m], t) = About(log[n], t)
    BY DEF ReceiptsOn, About
  <2>2. item[m] # "none"
    BY DEF ItemInv
  <2>3. CASE About(log[n], t) = {}
    <3>1. Alone(log[n], t, n) /\ Alone(log[m], t, m)
      BY <2>1, <2>3 DEF Alone
    <3>2. UpToDate(n, t) /\ UpToDate(m, t)
      BY <2>2, <3>1 DEF DeliveryInv
    <3> QED BY <2>1, <2>3, <3>2 DEF UpToDate
  <2>4. CASE About(log[n], t) # {}
    <3>1. PICK x \in About(log[n], t) : TRUE
      BY <2>4
    <3> DEFINE o == x.origin
    <3>2. o \in Node /\ Alone(log[n], t, o) /\ Alone(log[m], t, o)
      BY <2>1, <3>1, EntriesEvents DEF Alone, About
    <3>3. \A a \in Entries(log[o]) : a.kind = "alert" => a \in Entries(log[n])
      BY <2>1, <3>1
    <3> HIDE DEF o
    <3>4. ASSUME NEW k \in {n, m} PROVE UpToDate(k, t)
      <4>1. /\ k \in Node /\ item[k] # "none" /\ Alone(log[k], t, o) /\ About(log[k], t) # {}
            /\ Entries(log[k]) = Entries(log[n])
        BY <2>1, <2>2, <2>4, <3>2
      <4>2. CASE k = o \/ \A a \in Entries(log[o]) : a.kind = "alert" => a.origin = k
        BY <3>2, <4>1, <4>2 DEF DeliveryInv
      <4>3. ASSUME NEW a \in Entries(log[o]), a.kind = "alert", a.origin # k
            PROVE  UpToDate(k, t)
        <5>1. a \in Entries(log[k])
          BY <3>3, <4>1, <4>3
        <5>2. Settled(k, t)
          BY <4>3, <5>1 DEF Settled, Entries
        <5> QED BY <3>2, <4>1, <5>2 DEF DeliveryInv
      <4> QED BY <4>2, <4>3
    <3>5. PICK r \in About(log[n], t) : IsLast(log[n], t, r) /\ delivery[n][t] = Row(r)
      BY <2>4, <3>4 DEF UpToDate
    <3>6. PICK s \in About(log[m], t) : IsLast(log[m], t, s) /\ delivery[m][t] = Row(s)
      BY <2>1, <2>4, <3>4 DEF UpToDate
    <3>7. IsLast(log[n], t, s)
      BY <2>1, <3>6 DEF IsLast
    <3>8. r = s
      BY <3>2, <3>5, <3>7, LastIsOne
    <3> QED BY <3>5, <3>6, <3>8
  <2> QED BY <2>3, <2>4
<1> QED BY <1>1, DeliveryInductive, PTL

(* Only _begin_delivery calls, and it looks at the delivery first.          *)
THEOREM SettledNotCalled ==
  Spec => NoCallWhenSettled
<1>1. CoreInv /\ [Next]_vars =>
        [\A n \in Node, t \in Target :
           calls'[n][t] # calls[n][t] => delivery[n][t].status \notin Terminal]_vars
  <2> SUFFICES ASSUME CoreInv, Next, NEW n \in Node, NEW t \in Target, calls'[n][t] # calls[n][t]
               PROVE  delivery[n][t].status \notin Terminal
    BY Zenon
  <2>1. calls \in [Node -> [Target -> Nat]]
    BY DEF CoreInv, TypeOK
  <2>2. PICK k \in setup.nodes :
          \/ Ingest(k) \/ \E m \in setup.nodes : Learn(k, m) \/ LearnNode(k, m)
          \/ Work(k) \/ ItemError(k) \/ Crash(k)
    BY DEF Next
  <2>3. calls' # calls
    OBVIOUS
  <2>4. BeginDelivery(k)
    BY <2>2, <2>3 DEF Ingest, Learn, LearnNode, ItemError, Crash, Work, Claim, PassTarget, Own,
                      SkipHistorical, RecordResult, FinishItem
  <2>5. /\ delivery[k][worker[k].target].status \notin Terminal
        /\ calls' = [calls EXCEPT ![k][worker[k].target] = @ + 1]
    BY <2>3, <2>4 DEF BeginDelivery
  <2>6. k = n /\ worker[k].target = t
    BY <2>1, <2>5
  <2> QED BY <2>5, <2>6
<1> QED BY <1>1, DeliveryInductive, PTL DEF Spec, NoCallWhenSettled

(* No receipt that is replicated, early or late, takes a success back.      *)
THEOREM SuccessKept ==
  Spec => ReceiptsKeepSuccess
<1>1. CoreInv /\ [Next]_vars =>
        [\A n \in Node, t \in Target :
           (worker'[n] = worker[n] /\ delivery[n][t].status = "succeeded")
             => delivery'[n][t].status = "succeeded"]_vars
  <2> SUFFICES ASSUME CoreInv, [Next]_vars, NEW n \in Node, NEW t \in Target,
                      worker'[n] = worker[n], delivery[n][t].status = "succeeded"
               PROVE  delivery'[n][t].status = "succeeded"
    BY Zenon
  <2>1. TypeOK /\ HistoryInv /\ setup.nodes \subseteq Node
    BY SetupFacts DEF CoreInv
  <2>2. CASE delivery' = delivery
    BY <2>2
  <2>3. ASSUME NEW k \in setup.nodes, NEW m \in setup.nodes, NEW e, Learned(k, m, e)
        PROVE  delivery'[n][t].status = "succeeded"
    <3>1. CASE k = n
      BY <2>1, <2>3, <3>1, LearnedGrows
    <3>2. CASE k # n
      <4>1. delivery'[n] = delivery[n]
        BY <2>1, <2>3, <3>2, LearnedRows
      <4> QED BY <4>1
    <3> QED BY <3>1, <3>2
  <2>4. ASSUME NEW k \in setup.nodes, NEW u, NEW d, NEW w, Write(k, u, d, w)
        PROVE  delivery'[n][t].status = "succeeded"
    <3>1. /\ u \in Target /\ d \in DeliveryRow /\ d.status # "none" /\ SaveDelivery(k, u, d)
      BY <2>4 DEF Write, MaySave
    <3>2. /\ \A v \in Target \ {u} : delivery'[k][v] = delivery[k][v]
          /\ \A j \in Node \ {k} : delivery'[j] = delivery[j]
      BY <2>1, <3>1, SavedOthers
    <3>3. CASE k = n /\ u = t
      <4>1. w # worker[n]
        BY <2>4, <3>3 DEF Write
      <4>2. worker'[n] = w
        BY <2>1, <2>4, <3>3, WorkerStepFacts DEF Write
      <4> QED BY <4>1, <4>2
    <3> QED BY <3>2, <3>3
  <2>5. ASSUME NEW k \in setup.nodes, QuietWork(k) PROVE delivery' = delivery
    BY <2>1, <2>5, QuietWorkFacts
  <2> QED BY <2>2, <2>3, <2>4, <2>5, Steps DEF Ingest, LearnNode, vars
<1> QED BY <1>1, DeliveryInductive, PTL DEF Spec, ReceiptsKeepSuccess
===============================================================================
