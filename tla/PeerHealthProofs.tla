---------------------------- MODULE PeerHealthProofs ----------------------------
(***************************************************************************)
(* Proofs about PeerHealth and the limiter it calls, for any peers, nodes   *)
(* and clients and any times: what a node says of its peers' health is      *)
(* earned (HealthIsEarned), no peer is forgotten (NoPeerForgotten), and the *)
(* tables of the limiters stay bounded (TableBounded).                      *)
(***************************************************************************)
EXTENDS PeerHealth, FiniteSetTheorems, WellFoundedInduction, TLAPS

Fields == {"node", "failures", "due", "succeeded"}

TypeInv ==
  /\ DOMAIN peer = Urls /\ DOMAIN proven = Urls
  /\ \A u \in Urls : DOMAIN peer[u] = Fields /\ peer[u].failures \in Nat
  /\ DOMAIN loop = {"pc", "left", "todo", "url", "spent", "pages"}
  /\ loop.todo \subseteq Urls
  /\ loop.pc \in Attempting => Url \in Urls

(* The attempt that is under way may have learned who answers, and not yet  *)
(* whether the cycle succeeds. At all other urls success was the answer of  *)
(* the node that is known there.                                            *)
Earned ==
  \A u \in Urls :
     (peer[u].failures = 0 /\ peer[u].succeeded /\ ~ (loop.pc \in Attempting /\ u = Url))
       => proven[u] = peer[u].node

IndInv == TypeInv /\ Earned
-----------------------------------------------------------------------------
(* No url has been called yet. *)
LEMMA InitEstablishesIndInv == Init => IndInv
BY DEF Init, IndInv, TypeInv, Earned, NewPeer, Fields, Asleep, Attempting, Url

(* A failed attempt earns nothing and leaves what others have earned. *)
LEMMA FailurePreserves ==
  ASSUME IndInv, loop.pc \in Attempting, MarkFailure, UNCHANGED <<setup, proven>>
  PROVE  IndInv'
<1>1. Url \in Urls /\ Urls' = Urls
  BY DEF IndInv, TypeInv, Urls
<1>2. PICK failures, d :
        /\ failures \in Nat \ {0}
        /\ peer' = [peer EXCEPT ![Url].failures = failures, ![Url].due = d]
  <2>1. peer[Url].failures \in Nat /\ MaxFailures \in Nat \ {0}
    BY <1>1, HealthAssumption DEF IndInv, TypeInv
  <2>2. Least(peer[Url].failures + 1, MaxFailures) \in Nat \ {0}
    BY <2>1 DEF Least
  <2>3. PICK d : peer' = [peer EXCEPT ![Url].failures = Least(peer[Url].failures + 1, MaxFailures),
                                      ![Url].due = d]
    BY Zenon DEF MarkFailure
  <2> QED BY <2>2, <2>3, Zenon
<1>3. /\ peer'[Url].failures = failures /\ DOMAIN peer'[Url] = Fields
      /\ DOMAIN peer' = Urls
      /\ \A u \in Urls \ {Url} : peer'[u] = peer[u]
  BY <1>1, <1>2 DEF IndInv, TypeInv, Fields
<1>4. /\ loop'.pc = "passing" /\ loop'.todo = loop.todo
      /\ DOMAIN loop' = DOMAIN loop
  BY DEF MarkFailure, NextUrl, IndInv, TypeInv
<1> QED BY <1>1, <1>2, <1>3, <1>4 DEF IndInv, TypeInv, Earned, Attempting

(* A whole cycle earns health for the node that answered. *)
LEMMA SuccessPreserves ==
  ASSUME IndInv, loop.pc \in Attempting, MarkSuccess, UNCHANGED setup
  PROVE  IndInv'
<1>1. Url \in Urls /\ Urls' = Urls
  BY DEF IndInv, TypeInv, Urls
<1>2. /\ peer'[Url].failures = 0 /\ DOMAIN peer'[Url] = Fields
      /\ peer'[Url].node = peer[Url].node
      /\ DOMAIN peer' = Urls
      /\ \A u \in Urls \ {Url} : peer'[u] = peer[u]
  BY <1>1 DEF MarkSuccess, IndInv, TypeInv, Fields
<1>3. /\ proven'[Url] = peer[Url].node /\ DOMAIN proven' = Urls
      /\ \A u \in Urls \ {Url} : proven'[u] = proven[u]
  BY <1>1 DEF MarkSuccess, IndInv, TypeInv
<1>4. /\ loop'.pc = "passing" /\ loop'.todo = loop.todo
      /\ DOMAIN loop' = DOMAIN loop
  BY DEF MarkSuccess, NextUrl, IndInv, TypeInv
<1> QED BY <1>1, <1>2, <1>3, <1>4 DEF IndInv, TypeInv, Earned, Attempting

(* Every step keeps the invariant. *)
LEMMA StepPreservesIndInv ==
  ASSUME IndInv, [Next]_vars
  PROVE  IndInv'
<1> USE DEF IndInv
<1>1. CASE UNCHANGED vars
  BY <1>1 DEF vars, TypeInv, Earned, Urls, Url
<1>2. CASE Wake
  BY <1>2 DEF Wake, TypeInv, Earned, Urls, Url, Attempting
<1>3. CASE Sleep
  BY <1>3 DEF Sleep, Asleep, TypeInv, Earned, Urls, Url, Attempting
<1>4. CASE Begin
  BY <1>4 DEF Begin, TypeInv, Earned, Urls, Url, Attempting
<1>5. CASE Handshake
  <2>1. Url \in Urls /\ Urls' = Urls
    BY <1>5 DEF Handshake, TypeInv, Urls, Attempting
  <2>2. /\ DOMAIN peer' = Urls /\ DOMAIN peer'[Url] = Fields
        /\ peer'[Url].failures = peer[Url].failures
        /\ \A u \in Urls \ {Url} : peer'[u] = peer[u]
    BY <1>5, <2>1 DEF Handshake, TypeInv, Fields
  <2>3. /\ loop'.pc = "touching" /\ loop'.url = Url /\ loop'.todo = loop.todo
        /\ DOMAIN loop' = DOMAIN loop /\ UNCHANGED proven
    BY <1>5 DEF Handshake, TypeInv, Url
  <2> QED BY <2>1, <2>2, <2>3 DEF TypeInv, Earned, Url, Attempting
<1>6. CASE Touch
  BY <1>6 DEF Touch, TypeInv, Earned, Urls, Url, Attempting
<1>7. CASE Page
  <2>1. loop.pc \in Attempting /\ UNCHANGED setup
    BY <1>7 DEF Page, Attempting
  <2>2. CASE MarkSuccess
    BY <2>1, <2>2, SuccessPreserves
  <2>3. CASE MarkFailure /\ UNCHANGED proven
    BY <2>1, <2>3, FailurePreserves
  <2>4. CASE loop' = [loop EXCEPT !.pages = @ + 1] /\ UNCHANGED <<peer, proven>>
    BY <2>1, <2>4 DEF TypeInv, Earned, Urls, Url, Attempting
  <2> QED BY <1>7, <2>2, <2>3, <2>4 DEF Page
<1>8. CASE Rejected
  BY <1>8, FailurePreserves DEF Rejected, Attempting
<1>9. CASE Fail
  BY <1>9, FailurePreserves DEF Fail
<1>10. CASE Tick
  <2>1. Urls' = Urls /\ UNCHANGED proven
    BY <1>10 DEF Tick, Urls
  <2>2. /\ DOMAIN peer' = Urls
        /\ \A u \in Urls : /\ DOMAIN peer'[u] = Fields
                           /\ peer'[u].failures = peer[u].failures
                           /\ peer'[u].succeeded = peer[u].succeeded
                           /\ peer'[u].node = peer[u].node
    BY <1>10 DEF Tick, TypeInv, Fields
  <2>3. /\ loop'.pc = loop.pc /\ loop'.url = loop.url /\ loop'.todo = loop.todo
        /\ DOMAIN loop' = DOMAIN loop
    BY <1>10 DEF Tick, TypeInv
  <2> QED BY <2>1, <2>2, <2>3 DEF TypeInv, Earned, Url
<1>11. CASE Restart
  BY <1>11 DEF Restart, NewPeer, Fields, Asleep, TypeInv, Earned, Urls, Url, Attempting
<1>12. ASSUME NEW u \in Urls, \/ Flap(u)
                              \/ \E node \in setup.nodes : Reprovision(u, node)
                              \/ \E c \in setup.clients : LoginRequest(u, c)
       PROVE  IndInv'
  BY <1>12 DEF Flap, Reprovision, LoginRequest, TypeInv, Earned, Urls, Url
<1> QED
  BY <1>1, <1>2, <1>3, <1>4, <1>5, <1>6, <1>7, <1>8, <1>9, <1>10, <1>11, <1>12
     DEF Next, Worker

(* A node is shown healthy only if it has itself answered the last cycle at *)
(* the url, however urls change hands, attempts fail half-way and processes *)
(* restart on stored identities.                                            *)
THEOREM HealthStaysEarned == Spec => []HealthIsEarned
<1>1. IndInv /\ [Next]_vars => IndInv'
  BY StepPreservesIndInv
<1>2. IndInv => HealthIsEarned
  <2> SUFFICES ASSUME IndInv, NEW node \in setup.nodes, NEW u \in Urls,
                      Speaks(u, node), Health(peer[u]) = "healthy", loop.pc \notin Attempting
               PROVE  proven[u] = node
    BY DEF HealthIsEarned
  <2>1. peer[u].failures = 0 /\ peer[u].succeeded
    BY DEF Health, OfflineThreshold, IndInv, TypeInv
  <2>2. peer[u].node = node
    BY DEF Speaks
  <2> QED BY <2>1, <2>2 DEF IndInv, Earned
<1> QED BY <1>1, <1>2, InitEstablishesIndInv, PTL DEF Spec
-----------------------------------------------------------------------------
(* No peer is forgotten                                                     *)

(* The urls that the pass has still to call, the one it calls included.     *)
Waiting == IF loop.pc \in Attempting THEN loop.todo \cup {Url} ELSE loop.todo

(* The longest time of the attempts of a round at all other urls, and what  *)
(* may have passed since the pass began.                                    *)
Round == (Len(setup.urls) - 1) * MaxAttempt
Elapsed == (Len(setup.urls) - Cardinality(Waiting)) * MaxAttempt + loop.spent

(* A peer that is overdue has been so for less than a round and the sleep   *)
(* after it, and while it waits for its call, for the time of the pass. All *)
(* others have been called in this pass or were not due when it began.      *)
OverdueInv ==
  /\ setup \in Setups
  /\ DOMAIN peer = Urls
  /\ \A u \in Urls : DOMAIN peer[u] = Fields /\ peer[u].due \in Int
  /\ DOMAIN loop = {"pc", "left", "todo", "url", "spent", "pages"}
  /\ loop.pc \in {"asleep", "passing"} \cup Attempting
  /\ loop.todo \subseteq Urls
  /\ loop.left \in 0 .. Interval /\ loop.spent \in 0 .. MaxAttempt
  /\ loop.pc \in Attempting => Url \in Urls /\ Url \notin loop.todo
  /\ loop.pc \notin Attempting => loop.spent = 0
  /\ loop.pc = "asleep" => \A u \in Urls : peer[u].due >= 0 - (Interval - loop.left) - Round
  /\ loop.pc # "asleep" =>
        /\ \A u \in Waiting : peer[u].due >= 0 - Interval - Round - Elapsed
        /\ \A u \in Urls \ Waiting : peer[u].due >= 0 - (Elapsed - MaxAttempt)

(* There are at most as many urls as entries in the settings.               *)
LEMMA UrlCount ==
  ASSUME setup \in Setups, NEW S \in SUBSET Urls
  PROVE  /\ IsFiniteSet(S) /\ Cardinality(S) \in Nat /\ Len(setup.urls) \in Nat
         /\ Cardinality(S) <= Len(setup.urls)
         /\ \A u \in Urls \ S : Cardinality(S) <= Len(setup.urls) - 1
<1> DEFINE s == setup.urls
<1>1. s \in Seq(ToSet(s)) /\ DOMAIN s = 1 .. Len(s) /\ Len(s) \in Nat
  BY HealthAssumption
<1>2. s \in Surjection(1 .. Len(s), Urls)
  BY <1>1 DEF Surjection, Urls, ToSet
<1>3. IsFiniteSet(1 .. Len(s)) /\ Cardinality(1 .. Len(s)) = Len(s)
  BY <1>1, FS_Interval
<1> HIDE DEF s
<1>4. IsFiniteSet(Urls) /\ Cardinality(Urls) <= Len(s)
  BY <1>2, <1>3, FS_Surjection
<1>5. IsFiniteSet(S) /\ Cardinality(S) <= Cardinality(Urls)
  BY <1>4, FS_Subset
<1>6. Cardinality(S) \in Nat /\ Cardinality(Urls) \in Nat
  BY <1>4, <1>5, FS_CardinalityType
<1>7. ASSUME NEW u \in Urls \ S PROVE Cardinality(S) <= Len(s) - 1
  <2>1. Cardinality(S) # Cardinality(Urls)
    BY <1>4, <1>7, FS_Subset
  <2> QED BY <1>1, <1>4, <1>5, <1>6, <2>1
<1> QED BY <1>1, <1>4, <1>5, <1>6, <1>7 DEF s

(* Arithmetic of attempts. *)
LEMMA Times ==
  ASSUME NEW j \in Int, NEW M \in Nat
  PROVE  /\ j * M \in Int
         /\ (j + 1) * M = j * M + M
         /\ (j - 1) * M = j * M - M
         /\ j >= 0 => j * M >= 0
OBVIOUS

(* What the times are, and how they bound each other. *)
LEMMA TimeTypes ==
  ASSUME OverdueInv
  PROVE  /\ MaxAttempt \in Nat \ {0} /\ Interval \in Nat \ {0}
         /\ Len(setup.urls) \in Nat /\ Round \in Int
         /\ Waiting \subseteq Urls
         /\ IsFiniteSet(Waiting) /\ Cardinality(Waiting) \in Nat
         /\ Cardinality(Waiting) <= Len(setup.urls)
         /\ Elapsed \in Int /\ Elapsed >= loop.spent
        /\ loop.spent \in Int /\ loop.spent <= MaxAttempt
         /\ \A u \in Urls \ Waiting : Elapsed >= MaxAttempt + loop.spent
<1>1. MaxAttempt \in Nat \ {0} /\ Interval \in Nat \ {0}
  BY HealthAssumption
<1>2. Waiting \subseteq Urls
  BY DEF OverdueInv, Waiting
<1>3. /\ IsFiniteSet(Waiting) /\ Cardinality(Waiting) \in Nat /\ Len(setup.urls) \in Nat
      /\ Cardinality(Waiting) <= Len(setup.urls)
      /\ \A u \in Urls \ Waiting : Cardinality(Waiting) <= Len(setup.urls) - 1
  BY <1>2, UrlCount DEF OverdueInv
<1>4. loop.spent \in Int /\ loop.spent <= MaxAttempt
  BY <1>1 DEF OverdueInv
<1> DEFINE k == Len(setup.urls) - Cardinality(Waiting)
<1>5. k \in Nat
  BY <1>3
<1>6. Elapsed = k * MaxAttempt + loop.spent
  BY DEF Elapsed
<1>7. (Len(setup.urls) - 1) * MaxAttempt \in Int
  <2>1. Len(setup.urls) - 1 \in Int
    BY <1>3
  <2> QED BY <1>1, <2>1, Times
<1>8. ASSUME NEW u \in Urls \ Waiting PROVE k - 1 \in Nat
  BY <1>3
<1> HIDE DEF k
<1>9. k * MaxAttempt \in Int /\ k * MaxAttempt >= 0
  BY <1>1, <1>5, Times
<1>10. ASSUME NEW u \in Urls \ Waiting PROVE k * MaxAttempt >= MaxAttempt
  <2>1. (k - 1) * MaxAttempt = k * MaxAttempt - MaxAttempt /\ (k - 1) * MaxAttempt >= 0
    BY <1>1, <1>5, <1>8, <1>10, Times
  <2> QED BY <1>1, <1>9, <2>1
<1> QED BY <1>1, <1>2, <1>3, <1>4, <1>6, <1>7, <1>9, <1>10 DEF Round

(* Nothing is overdue when the worker starts. *)
LEMMA OverdueInit ==
  Init => OverdueInv
<1> SUFFICES ASSUME Init PROVE OverdueInv
  OBVIOUS
<1>1. /\ setup \in Setups /\ loop = Asleep(0) /\ peer = [u \in Urls |-> NewPeer(None)]
  BY DEF Init
<1>2. Len(setup.urls) \in Nat /\ MaxAttempt \in Nat /\ Interval \in Nat
  BY <1>1, HealthAssumption
<1>3. \A u \in Urls : Round >= 0
  <2> SUFFICES ASSUME NEW u \in Urls PROVE Round >= 0
    OBVIOUS
  <2>1. Len(setup.urls) - 1 >= 0 /\ Len(setup.urls) - 1 \in Int
    BY <1>1, <1>2, UrlCount, FS_EmptySet
  <2> QED BY <1>2, <2>1, Times DEF Round
<1>4. Round \in Int
  <2>1. Len(setup.urls) - 1 \in Int
    BY <1>2
  <2> QED BY <1>2, <2>1, Times DEF Round
<1>5. \A u \in Urls : DOMAIN peer[u] = Fields /\ peer[u].due = 0
  BY <1>1 DEF NewPeer, Fields
<1>6. loop.pc = "asleep" /\ loop.left = 0 /\ loop.spent = 0 /\ loop.todo = {}
      /\ DOMAIN loop = {"pc", "left", "todo", "url", "spent", "pages"}
  BY <1>1 DEF Asleep
<1>7. \A u \in Urls : peer[u].due >= 0 - (Interval - loop.left) - Round
  BY <1>2, <1>3, <1>4, <1>5, <1>6
<1> QED BY <1>1, <1>2, <1>5, <1>6, <1>7 DEF OverdueInv, Attempting

(* An attempt ends: its peer is due again, the pass has one less to call.   *)
LEMMA CallEnds ==
  ASSUME OverdueInv, loop.pc \in Attempting, NextUrl, setup' = setup,
         DOMAIN peer' = Urls, DOMAIN peer'[Url] = Fields,
         peer'[Url].due \in Int, peer'[Url].due >= 0,
         \A u \in Urls \ {Url} : peer'[u] = peer[u]
  PROVE  OverdueInv'
<1>1. /\ Url \in Urls /\ Url \notin loop.todo /\ Waiting = loop.todo \cup {Url}
      /\ Urls' = Urls /\ loop.pc # "asleep"
  BY DEF OverdueInv, Waiting, Urls, Attempting
<1>2. /\ loop'.pc = "passing" /\ loop'.todo = loop.todo /\ loop'.spent = 0
      /\ loop'.left = loop.left /\ DOMAIN loop' = DOMAIN loop
  BY DEF NextUrl, OverdueInv
<1>3. Waiting' = Waiting \ {Url}
  BY <1>1, <1>2 DEF Waiting, Attempting
<1>4. Cardinality(Waiting') = Cardinality(Waiting) - 1
  BY <1>1, <1>3, TimeTypes, FS_RemoveElement
<1> DEFINE k == Len(setup.urls) - Cardinality(Waiting)
<1>5. Round' = Round /\ k \in Int
  BY TimeTypes DEF Round
<1>6. Elapsed = k * MaxAttempt + loop.spent /\ Elapsed' = (k + 1) * MaxAttempt
  <2>1. Len(setup.urls) - Cardinality(Waiting') = k + 1
    BY <1>4, TimeTypes
  <2>2. (k + 1) * MaxAttempt \in Int
    BY <1>5, TimeTypes, Times
  <2> HIDE DEF k
  <2>3. Elapsed' = (k + 1) * MaxAttempt + 0
    BY <1>2, <2>1 DEF Elapsed
  <2> QED BY <2>2, <2>3 DEF Elapsed, k
<1> HIDE DEF k
<1>7. Elapsed' = Elapsed - loop.spent + MaxAttempt
  <2>1. (k + 1) * MaxAttempt = k * MaxAttempt + MaxAttempt /\ k * MaxAttempt \in Int
    BY <1>5, TimeTypes, Times
  <2> QED BY <1>6, <2>1, TimeTypes
<1>8. Elapsed' >= Elapsed /\ Elapsed' >= MaxAttempt /\ Elapsed' \in Int
  BY <1>7, TimeTypes
<1>9. \A u \in Waiting' : peer'[u].due >= 0 - Interval - Round' - Elapsed'
  BY <1>1, <1>3, <1>5, <1>8, TimeTypes DEF OverdueInv
<1>10. \A u \in Urls \ Waiting' : peer'[u].due >= 0 - (Elapsed' - MaxAttempt)
  <2> SUFFICES ASSUME NEW u \in Urls \ Waiting' PROVE peer'[u].due >= 0 - (Elapsed' - MaxAttempt)
    OBVIOUS
  <2>1. CASE u = Url
    BY <1>8, <2>1, TimeTypes
  <2>2. CASE u # Url
    <3>1. peer'[u] = peer[u] /\ peer[u].due >= 0 - (Elapsed - MaxAttempt) /\ peer[u].due \in Int
      BY <1>1, <1>3, <2>2 DEF OverdueInv
    <3> QED BY <1>8, <3>1, TimeTypes
  <2> QED BY <2>1, <2>2
<1>11. \A u \in Urls : DOMAIN peer'[u] = Fields /\ peer'[u].due \in Int
  BY DEF OverdueInv
<1> QED BY <1>1, <1>2, <1>9, <1>10, <1>11, TimeTypes DEF OverdueInv, Attempting

(* A step that leaves the clocks, the peers' times and the pass alone.      *)
LEMMA SameTimes ==
  ASSUME OverdueInv, setup' = setup, DOMAIN peer' = Urls,
         \A u \in Urls : DOMAIN peer'[u] = Fields /\ peer'[u].due = peer[u].due,
         DOMAIN loop' = DOMAIN loop, loop'.left = loop.left, loop'.spent = loop.spent,
         \/ loop'.pc = loop.pc /\ loop'.todo = loop.todo /\ loop'.url = loop.url
         \/ /\ loop.pc \in Attempting /\ loop'.pc \in Attempting
            /\ loop'.todo = loop.todo /\ loop'.url = loop.url
         \/ /\ loop.pc = "passing" /\ loop'.pc \in Attempting /\ loop'.url \in loop.todo
            /\ loop'.todo = loop.todo \ {loop'.url}
  PROVE  OverdueInv'
<1>1. Urls' = Urls /\ Round' = Round
  BY DEF Urls, Round
<1>2. Waiting' = Waiting
  BY DEF Waiting, Attempting, Url
<1>3. Elapsed' = Elapsed
  BY <1>2 DEF Elapsed
<1>4. loop'.pc = "asleep" <=> loop.pc = "asleep"
  BY DEF Attempting
<1>5. loop'.pc \in {"asleep", "passing"} \cup Attempting
  BY DEF OverdueInv
<1>6. /\ loop'.todo \subseteq Urls
      /\ loop'.pc \in Attempting => Url' \in Urls /\ Url' \notin loop'.todo
      /\ loop'.pc \notin Attempting => loop'.spent = 0
  BY DEF OverdueInv, Attempting, Url
<1>7. loop.pc = "asleep" => \A u \in Urls : peer'[u].due >= 0 - (Interval - loop.left) - Round
  BY DEF OverdueInv
<1>8. loop.pc # "asleep" =>
        /\ \A u \in Waiting : peer'[u].due >= 0 - Interval - Round - Elapsed
        /\ \A u \in Urls \ Waiting : peer'[u].due >= 0 - (Elapsed - MaxAttempt)
  BY TimeTypes DEF OverdueInv
<1>9. \A u \in Urls : DOMAIN peer'[u] = Fields /\ peer'[u].due \in Int
  BY DEF OverdueInv
<1>10. /\ setup' \in Setups /\ DOMAIN peer' = Urls
       /\ DOMAIN loop' = {"pc", "left", "todo", "url", "spent", "pages"}
       /\ loop'.left \in 0 .. Interval /\ loop'.spent \in 0 .. MaxAttempt
  BY DEF OverdueInv
<1> QED BY <1>1, <1>2, <1>3, <1>4, <1>5, <1>6, <1>7, <1>8, <1>9, <1>10 DEF OverdueInv

(* MarkFailure and MarkSuccess make the peer due later. *)
LEMMA MarksEndCalls ==
  ASSUME OverdueInv, loop.pc \in Attempting, setup' = setup, MarkFailure \/ MarkSuccess
  PROVE  OverdueInv'
<1>1. Url \in Urls /\ DOMAIN peer = Urls /\ DOMAIN peer[Url] = Fields
  BY DEF OverdueInv
<1>2. NextUrl
  BY DEF MarkFailure, MarkSuccess
<1>3. CASE MarkFailure
  <2> DEFINE failures == Least(peer[Url].failures + 1, MaxFailures)
  <2>1. PICK d \in Backoff(failures) :
          peer' = [peer EXCEPT ![Url].failures = failures, ![Url].due = d]
    BY <1>3, Zenon DEF MarkFailure
  <2> HIDE DEF failures
  <2>2. d \in Int /\ d >= 0
    BY <2>1 DEF Backoff
  <2>3. /\ DOMAIN peer' = Urls /\ DOMAIN peer'[Url] = Fields /\ peer'[Url].due = d
        /\ \A u \in Urls \ {Url} : peer'[u] = peer[u]
    BY <1>1, <2>1 DEF Fields
  <2> QED BY <1>2, <2>2, <2>3, CallEnds
<1>4. CASE MarkSuccess
  <2>1. /\ DOMAIN peer' = Urls /\ DOMAIN peer'[Url] = Fields /\ peer'[Url].due = Interval
        /\ \A u \in Urls \ {Url} : peer'[u] = peer[u]
    BY <1>1, <1>4 DEF MarkSuccess, Fields
  <2> QED BY <1>2, <2>1, CallEnds, TimeTypes
<1> QED BY <1>3, <1>4

(* A round is no negative time if there is a url. *)
LEMMA RoundNat ==
  ASSUME OverdueInv, NEW u \in Urls
  PROVE  Round >= 0
<1>1. Len(setup.urls) - 1 >= 0 /\ Len(setup.urls) - 1 \in Int
  BY UrlCount, TimeTypes, FS_EmptySet DEF OverdueInv
<1> QED BY <1>1, TimeTypes, Times DEF Round

(* The pass begins with all that are due. *)
LEMMA WakeKeeps ==
  ASSUME OverdueInv, Wake
  PROVE  OverdueInv'
<1>1. /\ loop.pc = "asleep" /\ loop.left = 0 /\ peer' = peer /\ setup' = setup
      /\ loop' = [loop EXCEPT !.pc = "passing", !.todo = {u \in Urls : peer[u].due <= 0}]
  BY DEF Wake
<1>2. /\ loop'.pc = "passing" /\ loop'.todo = {u \in Urls : peer[u].due <= 0}
      /\ loop'.left = 0 /\ loop'.spent = 0 /\ DOMAIN loop' = DOMAIN loop
  BY <1>1 DEF OverdueInv, Attempting
<1>3. Waiting' = {u \in Urls : peer[u].due <= 0} /\ Urls' = Urls /\ Round' = Round
  BY <1>1, <1>2 DEF Waiting, Attempting, Urls, Round
<1> DEFINE k == Len(setup.urls) - Cardinality(Waiting')
<1>4. /\ k \in Nat
      /\ \A u \in Urls \ Waiting' : k - 1 \in Nat
  <2>1. Waiting' \subseteq Urls /\ setup \in Setups
    BY <1>3 DEF OverdueInv
  <2> QED BY <2>1, UrlCount
<1>5. Elapsed' = k * MaxAttempt + 0
  BY <1>1, <1>2 DEF Elapsed
<1> HIDE DEF k
<1>6. Elapsed' \in Int /\ Elapsed' >= 0
  BY <1>4, <1>5, TimeTypes, Times
<1>7. \A u \in Urls \ Waiting' : Elapsed' - MaxAttempt >= 0
  <2> SUFFICES ASSUME NEW u \in Urls \ Waiting' PROVE Elapsed' - MaxAttempt >= 0
    OBVIOUS
  <2>1. (k - 1) * MaxAttempt = k * MaxAttempt - MaxAttempt /\ (k - 1) * MaxAttempt >= 0
    BY <1>4, TimeTypes, Times
  <2>2. k * MaxAttempt \in Int /\ MaxAttempt \in Int
    BY <1>4, TimeTypes, Times
  <2> QED BY <1>5, <2>1, <2>2
<1>8. \A u \in Waiting' : peer'[u].due >= 0 - Interval - Round' - Elapsed'
  <2> SUFFICES ASSUME NEW u \in Urls PROVE peer[u].due >= 0 - Interval - Round - Elapsed'
    BY <1>1, <1>3
  <2>1. peer[u].due >= 0 - (Interval - 0) - Round /\ peer[u].due \in Int
    BY <1>1 DEF OverdueInv
  <2> QED BY <1>6, <2>1, TimeTypes
<1>9. \A u \in Urls \ Waiting' : peer'[u].due >= 0 - (Elapsed' - MaxAttempt)
  <2> SUFFICES ASSUME NEW u \in Urls \ Waiting' PROVE peer[u].due >= 0 - (Elapsed' - MaxAttempt)
    BY <1>1
  <2>1. peer[u].due > 0 /\ peer[u].due \in Int
    BY <1>3 DEF OverdueInv
  <2> QED BY <1>6, <1>7, <2>1, TimeTypes
<1>10. loop'.todo \subseteq Urls
  BY <1>2
<1>11. loop'.left \in 0 .. Interval /\ loop'.spent \in 0 .. MaxAttempt
  BY <1>2, TimeTypes
<1> QED BY <1>1, <1>2, <1>3, <1>8, <1>9, <1>10, <1>11 DEF OverdueInv, Attempting

(* The pass has ended: nobody is overdue for more than a round. *)
LEMMA SleepKeeps ==
  ASSUME OverdueInv, Sleep
  PROVE  OverdueInv'
<1>1. /\ loop.pc = "passing" /\ loop.todo = {} /\ peer' = peer /\ setup' = setup
      /\ loop' = Asleep(Wakeup)
  BY DEF Sleep
<1>2. Wakeup \in 0 .. Interval
  <2> DEFINE positive == {peer[u].due : u \in Urls} \cap (Nat \ {0})
             S == positive \cup {Interval}
  <2>1. S \subseteq Nat /\ Interval \in S /\ Interval \in Nat
    BY TimeTypes
  <2>2. PICK x \in S : \A y \in S : x <= y
    <3> HIDE DEF S
    <3>1. PICK x \in S : \A y \in S : ~ (<<y, x>> \in OpToRel(<, Nat))
      BY <2>1, NatLessThanWellFounded, WFMin
    <3>2. \A y \in S : ~ (y < x)
      BY <2>1, <3>1 DEF OpToRel
    <3>3. \A y \in S : y \in Nat /\ x \in Nat
      BY <2>1
    <3>4. \A y \in S : x <= y
      BY <3>2, <3>3
    <3> QED BY <3>4
  <2>3. Min(S) \in S /\ \A y \in S : Min(S) <= y
    <3> HIDE DEF S
    <3> QED BY <2>2 DEF Min
  <2>4. Wakeup = Interval \/ Wakeup = Min(S)
    BY DEF Wakeup
  <2> HIDE DEF S, positive
  <2>5. Min(S) \in Nat /\ Min(S) <= Interval
    BY <2>1, <2>3
  <2> QED BY <2>1, <2>4, <2>5
<1>3. /\ loop'.pc = "asleep" /\ loop'.todo = {} /\ loop'.left = Wakeup /\ loop'.spent = 0
      /\ DOMAIN loop' = {"pc", "left", "todo", "url", "spent", "pages"}
  BY <1>1 DEF Asleep
<1>4. Waiting = {} /\ Urls' = Urls /\ Round' = Round
  BY <1>1 DEF Waiting, Attempting, Urls, Round
<1>5. Elapsed - MaxAttempt = Round /\ loop.spent = 0
  <2>1. Cardinality(Waiting) = 0 /\ loop.spent = 0
    BY <1>1, <1>4, FS_EmptySet DEF OverdueInv, Attempting
  <2> DEFINE n == Len(setup.urls)
  <2>2. Elapsed = n * MaxAttempt + 0 /\ Round = (n - 1) * MaxAttempt
    BY <2>1, TimeTypes DEF Elapsed, Round
  <2>3. n \in Int
    BY TimeTypes
  <2> HIDE DEF n
  <2>4. (n - 1) * MaxAttempt = n * MaxAttempt - MaxAttempt /\ n * MaxAttempt \in Int
    BY <2>3, TimeTypes, Times
  <2> QED BY <2>1, <2>2, <2>4
<1>6. \A u \in Urls : peer'[u].due >= 0 - (Interval - loop'.left) - Round'
  <2> SUFFICES ASSUME NEW u \in Urls PROVE peer[u].due >= 0 - (Interval - Wakeup) - Round
    BY <1>1, <1>3, <1>4
  <2>1. peer[u].due >= 0 - Round /\ peer[u].due \in Int
    BY <1>1, <1>4, <1>5 DEF OverdueInv
  <2> QED BY <1>2, <2>1, TimeTypes
<1>7. loop'.spent \in 0 .. MaxAttempt
  BY <1>3, TimeTypes
<1> QED BY <1>1, <1>2, <1>3, <1>4, <1>6, <1>7 DEF OverdueInv, Attempting

(* Time passes for all alike. *)
LEMMA TickKeeps ==
  ASSUME OverdueInv, Tick
  PROVE  OverdueInv'
<1>1. /\ loop.pc = "asleep" => loop.left > 0 /\ loop' = [loop EXCEPT !.left = @ - 1]
      /\ loop.pc # "asleep" => /\ loop.pc \in Attempting /\ loop.spent < MaxAttempt
                               /\ loop' = [loop EXCEPT !.spent = @ + 1]
      /\ setup' = setup
      /\ peer' = [u \in Urls |-> [peer[u] EXCEPT !.due = IF @ > 0 - Overdue - 1 THEN @ - 1 ELSE @]]
  BY DEF Tick
<1>2. /\ loop'.pc = loop.pc /\ loop'.todo = loop.todo /\ loop'.url = loop.url
      /\ DOMAIN loop' = DOMAIN loop
      /\ loop.pc = "asleep" => loop'.left = loop.left - 1 /\ loop'.spent = loop.spent
      /\ loop.pc # "asleep" => loop'.left = loop.left /\ loop'.spent = loop.spent + 1
  BY <1>1 DEF OverdueInv
<1>3. Urls' = Urls /\ Round' = Round /\ Waiting' = Waiting
  BY <1>1, <1>2 DEF Urls, Round, Waiting, Url
<1>4. /\ DOMAIN peer' = Urls
      /\ \A u \in Urls : /\ DOMAIN peer'[u] = Fields /\ peer'[u].due \in Int
                         /\ peer'[u].due >= peer[u].due - 1
  <2>1. DOMAIN peer' = Urls
    BY <1>1
  <2>2. ASSUME NEW u \in Urls
        PROVE  /\ DOMAIN peer'[u] = Fields /\ peer'[u].due \in Int
               /\ peer'[u].due >= peer[u].due - 1
    <3>1. DOMAIN peer[u] = Fields /\ peer[u].due \in Int
      BY DEF OverdueInv
    <3>2. peer'[u] = [peer[u] EXCEPT !.due = IF @ > 0 - Overdue - 1 THEN @ - 1 ELSE @]
      BY <1>1
    <3>3. peer'[u].due = peer[u].due - 1 \/ peer'[u].due = peer[u].due
      BY <3>1, <3>2 DEF Fields
    <3> QED BY <3>1, <3>2, <3>3
  <2> QED BY <2>1, <2>2
<1>5. loop'.left \in 0 .. Interval /\ loop'.spent \in 0 .. MaxAttempt
  BY <1>1, <1>2, TimeTypes DEF OverdueInv
<1>6. CASE loop.pc = "asleep"
  <2>1. \A u \in Urls : peer'[u].due >= 0 - (Interval - loop'.left) - Round'
    <3> SUFFICES ASSUME NEW u \in Urls PROVE peer'[u].due >= 0 - (Interval - (loop.left - 1)) - Round
      BY <1>2, <1>3, <1>6
    <3>1. /\ peer[u].due >= 0 - (Interval - loop.left) - Round /\ peer[u].due \in Int
          /\ loop.left \in Int
      BY <1>6 DEF OverdueInv
    <3>2. Interval \in Int /\ Round \in Int
      BY TimeTypes
    <3>3. peer'[u].due >= peer[u].due - 1 /\ peer'[u].due \in Int
      BY <1>4
    <3> QED BY <3>1, <3>2, <3>3
  <2>2. loop'.spent = 0
    BY <1>2, <1>6 DEF OverdueInv, Attempting
  <2>3. loop.pc \notin Attempting
    BY <1>6 DEF Attempting
  <2> QED BY <1>1, <1>2, <1>3, <1>4, <1>5, <1>6, <2>1, <2>2, <2>3 DEF OverdueInv
<1>7. CASE loop.pc # "asleep"
  <2>1. Elapsed' = Elapsed + 1
    <3> DEFINE x == (Len(setup.urls) - Cardinality(Waiting)) * MaxAttempt
    <3>1. Elapsed = x + loop.spent /\ Elapsed' = x + (loop.spent + 1)
      BY <1>1, <1>2, <1>3, <1>7 DEF Elapsed
    <3>2. x \in Int
      BY TimeTypes, Times
    <3> HIDE DEF x
    <3> QED BY <3>1, <3>2, TimeTypes
  <2>2. \A u \in Waiting : peer'[u].due >= 0 - Interval - Round - Elapsed'
    <3> SUFFICES ASSUME NEW u \in Waiting PROVE peer'[u].due >= 0 - Interval - Round - Elapsed'
      OBVIOUS
    <3>1. /\ u \in Urls /\ peer[u].due >= 0 - Interval - Round - Elapsed /\ peer[u].due \in Int
      BY <1>7, TimeTypes DEF OverdueInv
    <3> QED BY <1>4, <2>1, <3>1, TimeTypes
  <2>3. \A u \in Urls \ Waiting : peer'[u].due >= 0 - (Elapsed' - MaxAttempt)
    <3> SUFFICES ASSUME NEW u \in Urls \ Waiting PROVE peer'[u].due >= 0 - (Elapsed' - MaxAttempt)
      OBVIOUS
    <3>1. /\ peer[u].due >= 0 - (Elapsed - MaxAttempt) /\ peer[u].due \in Int
      BY <1>7 DEF OverdueInv
    <3>2. Elapsed \in Int /\ MaxAttempt \in Int
      BY TimeTypes
    <3>3. peer'[u].due >= peer[u].due - 1 /\ peer'[u].due \in Int
      BY <1>4
    <3> QED BY <2>1, <3>1, <3>2, <3>3
  <2>4. Url' = Url
    BY <1>2 DEF Url
  <2> QED BY <1>1, <1>2, <1>3, <1>4, <1>5, <1>7, <2>2, <2>3, <2>4 DEF OverdueInv
<1> QED BY <1>6, <1>7

(* A new process calls everyone at once. *)
LEMMA RestartKeeps ==
  ASSUME OverdueInv, Restart
  PROVE  OverdueInv'
<1>1. /\ peer' = [u \in Urls |-> NewPeer(identity[u])] /\ loop' = Asleep(0) /\ setup' = setup
  BY DEF Restart
<1>2. Urls' = Urls /\ Round' = Round
  BY <1>1 DEF Urls, Round
<1>3. /\ DOMAIN peer' = Urls
      /\ \A u \in Urls : DOMAIN peer'[u] = Fields /\ peer'[u].due = 0
  BY <1>1 DEF NewPeer, Fields
<1>4. /\ loop'.pc = "asleep" /\ loop'.todo = {} /\ loop'.left = 0 /\ loop'.spent = 0
      /\ DOMAIN loop' = {"pc", "left", "todo", "url", "spent", "pages"}
  BY <1>1 DEF Asleep
<1>5. \A u \in Urls : peer'[u].due >= 0 - (Interval - loop'.left) - Round'
  BY <1>2, <1>3, <1>4, RoundNat, TimeTypes
<1>6. loop'.left \in 0 .. Interval /\ loop'.spent \in 0 .. MaxAttempt
  BY <1>4, TimeTypes
<1>7. setup' \in Setups /\ \A u \in Urls : peer'[u].due \in Int
  BY <1>1, <1>3 DEF OverdueInv
<1> QED BY <1>2, <1>3, <1>4, <1>5, <1>6, <1>7 DEF OverdueInv, Attempting

(* Every step keeps the invariant. *)
LEMMA OverdueStep ==
  ASSUME OverdueInv, [Next]_vars
  PROVE  OverdueInv'
<1>1. /\ DOMAIN peer = Urls /\ \A u \in Urls : DOMAIN peer[u] = Fields
      /\ DOMAIN loop = {"pc", "left", "todo", "url", "spent", "pages"}
  BY DEF OverdueInv
<1>2. CASE UNCHANGED <<setup, peer, loop>>
  BY <1>1, <1>2, SameTimes
<1>3. CASE Begin
  <2>1. PICK u \in loop.todo : loop' = [loop EXCEPT !.pc = "asking", !.url = u, !.todo = @ \ {u}]
    BY <1>3 DEF Begin
  <2>2. /\ loop'.pc = "asking" /\ loop'.url = u /\ loop'.todo = loop.todo \ {u}
        /\ loop'.left = loop.left /\ loop'.spent = loop.spent /\ DOMAIN loop' = DOMAIN loop
    BY <1>1, <2>1
  <2> QED BY <1>1, <1>3, <2>2, SameTimes DEF Begin, Attempting
<1>4. CASE Handshake
  <2>1. loop.pc \in Attempting /\ Url \in Urls
    BY <1>4 DEF Handshake, Attempting, OverdueInv
  <2>2. /\ setup' = setup /\ peer' = [peer EXCEPT ![Url].node = host[Url].node]
        /\ loop' = [loop EXCEPT !.pc = "touching"]
    BY <1>4 DEF Handshake
  <2>3. /\ DOMAIN peer' = Urls
        /\ \A u \in Urls : DOMAIN peer'[u] = Fields /\ peer'[u].due = peer[u].due
    BY <1>1, <2>1, <2>2 DEF Fields
  <2>4. /\ loop'.pc = "touching" /\ loop'.url = loop.url /\ loop'.todo = loop.todo
        /\ loop'.left = loop.left /\ loop'.spent = loop.spent /\ DOMAIN loop' = DOMAIN loop
    BY <1>1, <2>2
  <2> QED BY <2>1, <2>2, <2>3, <2>4, SameTimes DEF Attempting
<1>5. CASE Touch
  <2>1. /\ loop'.pc = "paging" /\ loop'.url = loop.url /\ loop'.todo = loop.todo
        /\ loop'.left = loop.left /\ loop'.spent = loop.spent /\ DOMAIN loop' = DOMAIN loop
        /\ loop.pc = "touching" /\ setup' = setup /\ peer' = peer
    BY <1>1, <1>5 DEF Touch
  <2> QED BY <1>1, <2>1, SameTimes DEF Attempting
<1>6. CASE Page
  <2>1. loop.pc \in Attempting /\ setup' = setup
    BY <1>6 DEF Page, Attempting
  <2>2. CASE MarkSuccess \/ MarkFailure
    BY <2>1, <2>2, MarksEndCalls
  <2>3. CASE loop' = [loop EXCEPT !.pages = @ + 1] /\ UNCHANGED peer
    <3>1. /\ loop'.pc = loop.pc /\ loop'.url = loop.url /\ loop'.todo = loop.todo
          /\ loop'.left = loop.left /\ loop'.spent = loop.spent /\ DOMAIN loop' = DOMAIN loop
      BY <1>1, <2>3
    <3> QED BY <1>1, <2>1, <2>3, <3>1, SameTimes
  <2> QED BY <1>6, <2>2, <2>3 DEF Page
<1>7. CASE Rejected \/ Fail
  BY <1>7, MarksEndCalls DEF Rejected, Fail, Attempting
<1>8. ASSUME NEW u \in Urls, \/ Flap(u)
                             \/ \E node \in setup.nodes : Reprovision(u, node)
                             \/ \E c \in setup.clients : LoginRequest(u, c)
      PROVE  UNCHANGED <<setup, peer, loop>>
  BY <1>8 DEF Flap, Reprovision, LoginRequest
<1> QED
  BY <1>2, <1>3, <1>4, <1>5, <1>6, <1>7, <1>8, WakeKeeps, SleepKeeps, TickKeeps, RestartKeeps
     DEF Next, Worker, vars

(* Whatever other peers do, a peer that is due waits for one sleep and less *)
(* than two rounds of attempts.                                             *)
THEOREM EveryPeerIsRemembered == Spec => []NoPeerForgotten
<1>1. OverdueInv => NoPeerForgotten
  <2> SUFFICES ASSUME OverdueInv, NEW u \in Urls PROVE peer[u].due >= 0 - Overdue
    BY DEF NoPeerForgotten
  <2> DEFINE n == Len(setup.urls)
             k == Cardinality(Waiting)
  <2>1. /\ n \in Nat /\ k \in Nat /\ Round = (n - 1) * MaxAttempt
        /\ Elapsed = (n - k) * MaxAttempt + loop.spent
        /\ peer[u].due \in Int
    BY TimeTypes DEF Round, Elapsed, OverdueInv
  <2>2. Overdue = Interval + (2 * n - 1) * MaxAttempt
    BY DEF Overdue
  <2>3. u \in Waiting => k >= 1
    BY TimeTypes, FS_EmptySet
  <2> HIDE DEF n, k
  <2>4. (2 * n - 1) * MaxAttempt = Round + Round + MaxAttempt
    BY <2>1, TimeTypes
  <2>5. Round >= 0 /\ Round \in Int
    BY RoundNat, TimeTypes
  <2>6. u \in Waiting => Elapsed <= Round + loop.spent
    <3> SUFFICES ASSUME u \in Waiting PROVE (n - k) * MaxAttempt <= (n - 1) * MaxAttempt
      BY <2>1, TimeTypes, Times
    <3>1. (k - 1) * MaxAttempt >= 0
      <4>1. k - 1 \in Int /\ k - 1 >= 0
        BY <2>1, <2>3
      <4> QED BY <4>1, TimeTypes, Times
    <3>2. (n - k) * MaxAttempt + (k - 1) * MaxAttempt = (n - 1) * MaxAttempt
      BY <2>1, TimeTypes
    <3>3. (n - k) * MaxAttempt \in Int /\ (k - 1) * MaxAttempt \in Int
      BY <2>1, TimeTypes, Times
    <3> QED BY <2>1, <2>5, <3>1, <3>2, <3>3
  <2>7. Elapsed - MaxAttempt <= Round + MaxAttempt
    <3>1. k * MaxAttempt >= 0 /\ k * MaxAttempt \in Int
      BY <2>1, TimeTypes, Times
    <3>2. (n - k) * MaxAttempt + k * MaxAttempt = Round + MaxAttempt
      BY <2>1, TimeTypes
    <3>3. (n - k) * MaxAttempt \in Int
      BY <2>1, TimeTypes, Times
    <3>4. loop.spent \in Int /\ loop.spent <= MaxAttempt /\ MaxAttempt \in Int
      BY TimeTypes
    <3> QED BY <2>1, <2>5, <3>1, <3>2, <3>3, <3>4
  <2>8. loop.left \in Int /\ loop.left >= 0
    BY DEF OverdueInv
  <2>9. /\ Interval \in Nat /\ MaxAttempt \in Nat /\ Elapsed \in Int
        /\ loop.spent \in Int /\ loop.spent <= MaxAttempt
    BY TimeTypes
  <2>10. CASE loop.pc = "asleep"
    <3>1. peer[u].due >= 0 - (Interval - loop.left) - Round
      BY <2>10 DEF OverdueInv
    <3> QED BY <2>1, <2>2, <2>4, <2>5, <2>8, <2>9, <3>1
  <2>11. CASE loop.pc # "asleep" /\ u \in Waiting
    <3>1. peer[u].due >= 0 - Interval - Round - Elapsed
      BY <2>11 DEF OverdueInv
    <3> QED BY <2>1, <2>2, <2>4, <2>5, <2>6, <2>11, <2>9, <3>1
  <2>12. CASE loop.pc # "asleep" /\ u \notin Waiting
    <3>1. peer[u].due >= 0 - (Elapsed - MaxAttempt)
      BY <2>12 DEF OverdueInv
    <3> QED BY <2>1, <2>2, <2>4, <2>5, <2>7, <2>9, <3>1
  <2> QED BY <2>10, <2>11, <2>12
<1>2. OverdueInv /\ [Next]_vars => OverdueInv'
  BY OverdueStep
<1> QED BY <1>1, <1>2, OverdueInit, PTL DEF Spec

-----------------------------------------------------------------------------
(* The table of a limiter is bounded                                        *)

(* Induction, with a set in the place of a predicate. *)
LEMMA SetInduction ==
  ASSUME NEW N \in Nat, NEW S, 0 \in S,
         \A i \in 0 .. N : (i < N /\ i \in S) => i + 1 \in S
  PROVE  0 .. N \subseteq S
<1> SUFFICES ASSUME (0 .. N) \ S # {} PROVE FALSE
  OBVIOUS
<1> DEFINE T == (0 .. N) \ S
<1>1. T \subseteq Nat /\ T # {}
  OBVIOUS
<1>2. PICK x \in T : \A y \in T : ~ (<<y, x>> \in OpToRel(<, Nat))
  <2> HIDE DEF T
  <2> QED BY <1>1, NatLessThanWellFounded, WFMin
<1>3. \A y \in T : ~ (y < x)
  BY <1>1, <1>2 DEF OpToRel
<1>4. x \in 1 .. N /\ x - 1 \in 0 .. N /\ x - 1 < x
  OBVIOUS
<1>5. x - 1 \in S
  BY <1>3, <1>4
<1>6. (x - 1) + 1 = x /\ x - 1 < N
  BY <1>4
<1> QED BY <1>4, <1>5, <1>6

(* f[i] holds the buckets of S among the first i of T. *)
Filters(f, N, T, S) ==
  f = [i \in 0 .. N |-> IF i = 0 THEN <<>>
                        ELSE IF T[i] \in S THEN Append(f[i - 1], T[i]) ELSE f[i - 1]]

(* There is such a run over every sequence. *)
LEMMA FilterExists ==
  ASSUME NEW T, NEW S, NEW N \in Nat
  PROVE  \E f : Filters(f, N, T, S)
<1> DEFINE Q == {k \in 0 .. N : \E f : Filters(f, k, T, S)}
           Step(b, i) == IF T[i] \in S THEN Append(b, T[i]) ELSE b
<1>1. 0 \in Q
  <2> DEFINE f == [i \in 0 .. 0 |-> <<>>]
  <2>1. f = [i \in 0 .. 0 |-> IF i = 0 THEN <<>> ELSE Step(f[i - 1], i)]
    OBVIOUS
  <2>2. Filters(f, 0, T, S)
    BY <2>1 DEF Filters
  <2> HIDE DEF f
  <2> QED BY <2>2
<1>2. ASSUME NEW k \in 0 .. N, k < N, k \in Q
      PROVE  k + 1 \in Q
  <2>1. PICK f : Filters(f, k, T, S)
    BY <1>2
  <2> HIDE DEF Step
  <2> DEFINE g == [i \in 0 .. k + 1 |-> IF i <= k THEN f[i] ELSE Step(f[k], k + 1)]
  <2>2. \A i \in 0 .. k : f[i] = IF i = 0 THEN <<>> ELSE Step(f[i - 1], i)
    BY <2>1 DEF Filters, Step
  <2>3. \A i \in 0 .. k + 1 : g[i] = IF i = 0 THEN <<>> ELSE Step(g[i - 1], i)
    <3> TAKE i \in 0 .. k + 1
    <3>1. CASE i = 0
      BY <2>2, <3>1
    <3>2. CASE i \in 1 .. k
      <4>1. g[i] = f[i] /\ g[i - 1] = f[i - 1] /\ i \in 0 .. k /\ i # 0
        BY <3>2
      <4> HIDE DEF g
      <4> QED BY <2>2, <4>1
    <3>3. CASE i = k + 1
      <4>1. g[i] = Step(f[k], k + 1) /\ g[k] = f[k] /\ i - 1 = k /\ i # 0
        BY <3>3
      <4> HIDE DEF g
      <4> QED BY <4>1, <3>3
    <3> QED BY <3>1, <3>2, <3>3
  <2>4. DOMAIN g = 0 .. k + 1 /\ g = [i \in 0 .. k + 1 |-> g[i]]
    OBVIOUS
  <2> HIDE DEF g
  <2>5. g = [i \in 0 .. k + 1 |-> IF i = 0 THEN <<>> ELSE Step(g[i - 1], i)]
    BY <2>3, <2>4
  <2>6. Filters(g, k + 1, T, S)
    BY <2>5 DEF Filters, Step
  <2>7. k + 1 \in 0 .. N
    BY <1>2
  <2> QED BY <2>6, <2>7
<1>3. 0 .. N \subseteq Q
  <2> HIDE DEF Q
  <2> QED BY <1>1, <1>2, SetInduction
<1> QED BY <1>3

(* Kept is such a run. *)
LEMMA KeptFilters ==
  ASSUME NEW T, Len(T) \in Nat, NEW S
  PROVE  \E f : /\ Kept(T, S) = f[Len(T)]
                /\ f[0] = <<>>
                /\ \A i \in 1 .. Len(T) :
                     f[i] = IF T[i] \in S THEN Append(f[i - 1], T[i]) ELSE f[i - 1]
<1> DEFINE kept == CHOOSE kept : kept = [i \in 0 .. Len(T) |->
              IF i = 0 THEN <<>> ELSE IF T[i] \in S THEN Append(kept[i - 1], T[i]) ELSE kept[i - 1]]
<1>1. Kept(T, S) = kept[Len(T)]
  BY DEF Kept
<1>2. PICK f : Filters(f, Len(T), T, S)
  BY FilterExists
<1>3. f = [i \in 0 .. Len(T) |->
              IF i = 0 THEN <<>> ELSE IF T[i] \in S THEN Append(f[i - 1], T[i]) ELSE f[i - 1]]
  BY <1>2, Zenon DEF Filters
<1>4. kept = [i \in 0 .. Len(T) |->
              IF i = 0 THEN <<>> ELSE IF T[i] \in S THEN Append(kept[i - 1], T[i]) ELSE kept[i - 1]]
  BY <1>3, Zenon
<1> HIDE DEF kept
<1>5. kept[0] = <<>>
  BY <1>4
<1>6. \A i \in 1 .. Len(T) :
         kept[i] = IF T[i] \in S THEN Append(kept[i - 1], T[i]) ELSE kept[i - 1]
  <2> TAKE i \in 1 .. Len(T)
  <2>1. i \in 0 .. Len(T) /\ i # 0
    OBVIOUS
  <2> QED BY <1>4, <2>1, Zenon
<1> QED BY <1>1, <1>5, <1>6

(* One bucket for each key. *)
Distinct(T) == \A i, j \in DOMAIN T : T[i].key = T[j].key => i = j

(* What is kept are buckets of the table in S, and less than the table when *)
(* one of them is not in S.                                                 *)
LEMMA KeptFacts ==
  ASSUME NEW E, NEW T \in Seq(E), NEW S, Distinct(T)
  PROVE  /\ Kept(T, S) \in Seq(E) /\ Distinct(Kept(T, S))
         /\ Len(Kept(T, S)) <= Len(T)
         /\ \A p \in DOMAIN Kept(T, S) : \E i \in DOMAIN T : Kept(T, S)[p] = T[i] /\ T[i] \in S
         /\ (\E i \in DOMAIN T : T[i] \notin S) => Len(Kept(T, S)) < Len(T)
<1>1. Len(T) \in Nat /\ DOMAIN T = 1 .. Len(T) /\ \A i \in 1 .. Len(T) : T[i] \in E
  OBVIOUS
<1>2. PICK f : /\ Kept(T, S) = f[Len(T)]
               /\ f[0] = <<>>
               /\ \A i \in 1 .. Len(T) :
                    f[i] = IF T[i] \in S THEN Append(f[i - 1], T[i]) ELSE f[i - 1]
  BY <1>1, KeptFilters
<1> DEFINE Good(i) ==
             /\ f[i] \in Seq(E) /\ Distinct(f[i]) /\ Len(f[i]) <= i
             /\ \A p \in DOMAIN f[i] : \E j \in 1 .. i : f[i][p] = T[j] /\ T[j] \in S
             /\ (\E j \in 1 .. i : T[j] \notin S) => Len(f[i]) < i
           Q == {i \in 0 .. Len(T) : Good(i)}
<1>3. 0 \in Q
  <2>1. f[0] \in Seq(E) /\ Len(f[0]) = 0 /\ DOMAIN f[0] = {}
    BY <1>2
  <2> QED BY <1>1, <2>1 DEF Distinct
<1>4. ASSUME NEW i \in 0 .. Len(T), i < Len(T), i \in Q
      PROVE  i + 1 \in Q
  <2>1. /\ f[i] \in Seq(E) /\ Distinct(f[i]) /\ Len(f[i]) <= i
        /\ \A p \in DOMAIN f[i] : \E j \in 1 .. i : f[i][p] = T[j] /\ T[j] \in S
        /\ (\E j \in 1 .. i : T[j] \notin S) => Len(f[i]) < i
    BY <1>4
  <2>2. /\ i + 1 \in 1 .. Len(T) /\ (i + 1) - 1 = i /\ i \in Nat
        /\ 1 .. i + 1 = 1 .. i \cup {i + 1} /\ T[i + 1] \in E /\ Len(f[i]) \in Nat
    BY <1>1, <1>4, <2>1
  <2>3. f[i + 1] = IF T[i + 1] \in S THEN Append(f[i], T[i + 1]) ELSE f[i]
    BY <1>2, <2>2
  <2>4. CASE T[i + 1] \notin S
    <3>1. f[i + 1] = f[i]
      BY <2>3, <2>4
    <3>2. Len(f[i]) < i + 1 /\ Len(f[i]) <= i + 1
      BY <2>1, <2>2
    <3>3. \A p \in DOMAIN f[i] : \E j \in 1 .. i + 1 : f[i][p] = T[j] /\ T[j] \in S
      BY <2>1, <2>2
    <3> QED BY <2>1, <2>2, <3>1, <3>2, <3>3
  <2>5. CASE T[i + 1] \in S
    <3> DEFINE g == Append(f[i], T[i + 1])
               m == Len(f[i])
    <3>1. /\ g \in Seq(E) /\ Len(g) = m + 1 /\ DOMAIN g = 1 .. m + 1 /\ DOMAIN f[i] = 1 .. m
          /\ g[m + 1] = T[i + 1] /\ \A p \in 1 .. m : g[p] = f[i][p]
      BY <2>1, <2>2
    <3>2. f[i + 1] = g /\ m \in Nat
      BY <2>2, <2>3, <2>5
    <3> HIDE DEF g, m
    <3>3. 1 .. m + 1 = 1 .. m \cup {m + 1} /\ m + 1 \notin 1 .. m
      BY <3>2
    <3>4. \A p \in 1 .. m : g[p].key # g[m + 1].key
      <4> TAKE p \in 1 .. m
      <4>1. PICK j \in 1 .. i : f[i][p] = T[j]
        BY <2>1, <3>1
      <4>2. j \in DOMAIN T /\ i + 1 \in DOMAIN T /\ j # i + 1
        BY <1>1, <1>4, <2>2
      <4>3. T[j].key # T[i + 1].key
        BY <4>2 DEF Distinct
      <4> QED BY <3>1, <4>1, <4>3
    <3>5. Distinct(g)
      <4> SUFFICES ASSUME NEW p \in 1 .. m + 1, NEW q \in 1 .. m + 1, g[p].key = g[q].key
                   PROVE  p = q
        BY <3>1 DEF Distinct
      <4>1. CASE p \in 1 .. m /\ q \in 1 .. m
        <5>1. f[i][p].key = f[i][q].key
          BY <3>1, <4>1
        <5>2. \A a, b \in 1 .. m : f[i][a].key = f[i][b].key => a = b
          BY <2>1, <3>1, Zenon DEF Distinct
        <5> QED BY <4>1, <5>1, <5>2
      <4>2. CASE p = m + 1 \/ q = m + 1
        BY <3>3, <3>4, <4>2
      <4> QED BY <3>3, <4>1, <4>2
    <3>6. \A p \in DOMAIN g : \E j \in 1 .. i + 1 : g[p] = T[j] /\ T[j] \in S
      <4> TAKE p \in DOMAIN g
      <4>1. CASE p = m + 1
        BY <2>2, <2>5, <3>1, <4>1
      <4>2. CASE p \in 1 .. m
        BY <2>1, <2>2, <3>1, <4>2
      <4> QED BY <3>1, <3>3, <4>1, <4>2
    <3>7. Len(g) <= i + 1
      BY <2>1, <2>2, <3>1, <3>2 DEF m
    <3>8. (\E j \in 1 .. i + 1 : T[j] \notin S) => Len(g) < i + 1
      <4> SUFFICES ASSUME \E j \in 1 .. i + 1 : T[j] \notin S PROVE Len(g) < i + 1
        OBVIOUS
      <4>1. \E j \in 1 .. i : T[j] \notin S
        BY <2>2, <2>5
      <4> QED BY <2>1, <2>2, <3>1, <3>2, <4>1 DEF m
    <3>9. Good(i + 1)
      BY <3>1, <3>2, <3>5, <3>6, <3>7, <3>8, Zenon
    <3>10. i + 1 \in 0 .. Len(T)
      BY <2>2
    <3> QED BY <3>9, <3>10, Zenon
  <2> QED BY <2>4, <2>5
<1>5. Len(T) \in Q
  <2>1. 0 .. Len(T) \subseteq Q
    <3> HIDE DEF Q
    <3> QED BY <1>1, <1>3, <1>4, SetInduction
  <2> QED BY <1>1, <2>1
<1> QED BY <1>1, <1>2, <1>5

BucketFields == {"key", "count", "left"}

(* A sequence of buckets, one for each key and not too many. *)
TableInv(T) ==
  /\ T \in Seq(ToSet(T)) /\ Distinct(T) /\ Len(T) <= MaxKeys
  /\ \A i \in DOMAIN T : DOMAIN T[i] = BucketFields

(* A filtered table is a table. *)
LEMMA KeptTable ==
  ASSUME NEW T, TableInv(T), NEW S
  PROVE  /\ TableInv(Kept(T, S)) /\ Len(Kept(T, S)) <= Len(T)
         /\ \A p \in DOMAIN Kept(T, S) : \E i \in DOMAIN T : Kept(T, S)[p] = T[i] /\ T[i] \in S
         /\ (\E i \in DOMAIN T : T[i] \notin S) => Len(Kept(T, S)) < Len(T)
<1> DEFINE K == Kept(T, S)
<1>1. /\ K \in Seq(ToSet(T)) /\ Distinct(K) /\ Len(K) <= Len(T)
      /\ \A p \in DOMAIN K : \E i \in DOMAIN T : K[p] = T[i] /\ T[i] \in S
      /\ (\E i \in DOMAIN T : T[i] \notin S) => Len(K) < Len(T)
  BY KeptFacts DEF TableInv
<1> HIDE DEF K
<1>2. K \in Seq(ToSet(K))
  BY <1>1 DEF ToSet
<1>3. Len(K) <= MaxKeys
  <2>1. Len(K) \in Nat /\ Len(T) \in Nat /\ MaxKeys \in Nat
    BY <1>1, LimiterAssumption DEF TableInv
  <2> QED BY <1>1, <2>1 DEF TableInv
<1>4. \A p \in DOMAIN K : DOMAIN K[p] = BucketFields
  BY <1>1 DEF TableInv
<1> QED BY <1>1, <1>2, <1>3, <1>4 DEF TableInv, K

(* So is one without its first bucket. *)
LEMMA TailTable ==
  ASSUME NEW T, TableInv(T), Len(T) # 0
  PROVE  TableInv(Tail(T)) /\ Len(Tail(T)) < MaxKeys
<1> DEFINE R == Tail(T)
<1>1. /\ R \in Seq(ToSet(T)) /\ Len(T) \in Nat /\ Len(R) = Len(T) - 1 /\ MaxKeys \in Nat
      /\ \A i \in 1 .. Len(R) : R[i] = T[i + 1] /\ i + 1 \in 1 .. Len(T) /\ i \in Nat
      /\ DOMAIN R = 1 .. Len(R) /\ DOMAIN T = 1 .. Len(T)
  BY LimiterAssumption DEF TableInv
<1> HIDE DEF R
<1>2. R \in Seq(ToSet(R))
  BY <1>1 DEF ToSet
<1>3. Len(R) < MaxKeys /\ Len(R) <= MaxKeys
  BY <1>1 DEF TableInv
<1>4. Distinct(R)
  <2> SUFFICES ASSUME NEW i \in 1 .. Len(R), NEW j \in 1 .. Len(R), R[i].key = R[j].key PROVE i = j
    BY <1>1 DEF Distinct
  <2>1. T[i + 1].key = T[j + 1].key
    BY <1>1
  <2>2. i + 1 = j + 1
    BY <1>1, <2>1 DEF TableInv, Distinct
  <2> QED BY <1>1, <2>2
<1>5. \A i \in DOMAIN R : DOMAIN R[i] = BucketFields
  BY <1>1 DEF TableInv
<1> QED BY <1>2, <1>3, <1>4, <1>5 DEF TableInv, R

(* check leaves room for the bucket it charges. *)
LEMMA RoomTable ==
  ASSUME NEW T, TableInv(T), NEW key
  PROVE  /\ TableInv(Room(T, key))
         /\ Charged(T, key) \notin Keys(Room(T, key)) => Len(Room(T, key)) < MaxKeys
<1> DEFINE U == Unexpired(T)
           kept == IF key \notin Keys(T) /\ Len(T) >= MaxKeys THEN U ELSE T
<1>1. TableInv(U) /\ Len(U) <= Len(T)
  BY KeptTable DEF Unexpired
<1>2. Len(T) \in Nat /\ Len(U) \in Nat /\ MaxKeys \in Nat \ {0} /\ Len(T) <= MaxKeys /\ Len(U) <= MaxKeys
  BY <1>1, LimiterAssumption DEF TableInv
<1>3. Full(T, key) <=> (key \notin Keys(T) /\ Len(U) >= MaxKeys)
  BY DEF Full
<1>4. Room(T, key) = IF Full(T, key) /\ Overflow(key) \notin Keys(kept) THEN Tail(kept) ELSE kept
  BY DEF Room
<1> HIDE DEF U
<1>5. kept = T \/ kept = U
  OBVIOUS
<1>6. Full(T, key) => kept = U /\ Len(U) # 0
  BY <1>1, <1>2, <1>3
<1>7. ~ Full(T, key) => (key \in Keys(T) /\ kept = T) \/ Len(kept) < MaxKeys
  BY <1>2, <1>3
<1> HIDE DEF kept
<1>8. CASE Full(T, key) /\ Overflow(key) \notin Keys(kept)
  BY <1>1, <1>4, <1>6, <1>8, TailTable
<1>9. CASE Full(T, key) /\ Overflow(key) \in Keys(kept)
  BY <1>1, <1>4, <1>6, <1>9 DEF Charged
<1>10. CASE ~ Full(T, key)
  <2>1. Room(T, key) = kept /\ Charged(T, key) = key
    BY <1>4, <1>10 DEF Charged
  <2> QED BY <1>1, <1>5, <1>7, <1>10, <2>1
<1> QED BY <1>8, <1>9, <1>10

(* The bucket that is charged has its key. *)
LEMMA FoundBucket ==
  ASSUME NEW T, TableInv(T), NEW k
  PROVE  DOMAIN Found(T, k) = BucketFields /\ Found(T, k).key = k
<1> DEFINE live == {b \in ToSet(T) : b.key = k /\ b.left > 0}
<1>1. CASE live = {}
  <2>1. Found(T, k) = [key |-> k, count |-> 0, left |-> Window]
    BY <1>1 DEF Found
  <2> QED BY <2>1 DEF BucketFields
<1>2. CASE live # {}
  <2>1. Found(T, k) \in live
    BY <1>2 DEF Found
  <2> QED BY <2>1 DEF TableInv, ToSet
<1> QED BY <1>1, <1>2

(* A request leaves a table behind. *)
LEMMA CheckTable ==
  ASSUME NEW T, TableInv(T), NEW key
  PROVE  TableInv(Check(T, key))
<1> DEFINE k == Charged(T, key)
           r == Room(T, key)
           S == {b \in ToSet(r) : b.key # k}
           W == Kept(r, S)
           b == Found(r, k)
           c == IF b.count < Limit[k[1]] THEN [b EXCEPT !.count = @ + 1] ELSE b
           C == Append(W, c)
<1>1. Check(T, key) = C
  BY DEF Check, Without
<1>2. TableInv(r) /\ (k \notin Keys(r) => Len(r) < MaxKeys)
  BY RoomTable
<1>3. DOMAIN b = BucketFields /\ b.key = k
  <2> HIDE DEF k, r
  <2> QED BY <1>2, FoundBucket
<1> HIDE DEF k, r
<1>4. DOMAIN c = BucketFields /\ c.key = k
  <2> HIDE DEF b
  <2>1. CASE b.count < Limit[k[1]]
    BY <1>3, <2>1 DEF BucketFields
  <2>2. CASE ~ (b.count < Limit[k[1]])
    BY <1>3, <2>2
  <2> QED BY <2>1, <2>2
<1>5. /\ TableInv(W) /\ Len(W) <= Len(r)
      /\ \A p \in DOMAIN W : \E i \in DOMAIN r : W[p] = r[i] /\ r[i] \in S
      /\ (\E i \in DOMAIN r : r[i] \notin S) => Len(W) < Len(r)
  <2> HIDE DEF S
  <2> QED BY <1>2, KeptTable
<1>6. \A p \in DOMAIN W : W[p].key # k
  BY <1>5
<1>7. k \in Keys(r) => Len(W) < Len(r)
  <2> SUFFICES ASSUME k \in Keys(r) PROVE Len(W) < Len(r)
    OBVIOUS
  <2>1. PICK i \in DOMAIN r : r[i].key = k
    BY DEF Keys
  <2> QED BY <1>5, <2>1
<1> HIDE DEF W, b, c, S
<1>8. Len(W) + 1 <= MaxKeys /\ Len(W) \in Nat
  <2>1. Len(W) \in Nat /\ Len(r) \in Nat /\ MaxKeys \in Nat /\ Len(r) <= MaxKeys
    BY <1>2, <1>5, LimiterAssumption DEF TableInv
  <2> QED BY <1>2, <1>5, <1>7, <2>1
<1>9. /\ C \in Seq(ToSet(W) \cup {c}) /\ Len(C) = Len(W) + 1 /\ DOMAIN C = 1 .. Len(W) + 1
      /\ DOMAIN W = 1 .. Len(W) /\ C[Len(W) + 1] = c /\ \A p \in 1 .. Len(W) : C[p] = W[p]
  BY <1>5 DEF TableInv, ToSet
<1> HIDE DEF C
<1>10. C \in Seq(ToSet(C))
  BY <1>9 DEF ToSet
<1>11. \A p \in DOMAIN C : p \in 1 .. Len(W) \/ p = Len(W) + 1
  BY <1>8, <1>9
<1>12. Distinct(C)
  <2> SUFFICES ASSUME NEW p \in DOMAIN C, NEW q \in DOMAIN C, C[p].key = C[q].key
               PROVE  p = q
    BY DEF Distinct
  <2>1. CASE p \in 1 .. Len(W) /\ q \in 1 .. Len(W)
    <3>1. W[p].key = W[q].key
      BY <1>9, <2>1
    <3> QED BY <1>5, <1>9, <2>1, <3>1 DEF TableInv, Distinct
  <2>2. CASE p = Len(W) + 1 \/ q = Len(W) + 1
    BY <1>4, <1>6, <1>9, <1>11, <2>2
  <2> QED BY <1>11, <2>1, <2>2
<1>13. \A p \in DOMAIN C : DOMAIN C[p] = BucketFields
  BY <1>4, <1>5, <1>9, <1>11 DEF TableInv
<1> QED BY <1>1, <1>8, <1>9, <1>10, <1>12, <1>13 DEF TableInv

(* The clock changes no keys. *)
LEMMA AgedTable ==
  ASSUME NEW T, TableInv(T)
  PROVE  TableInv(Aged(T))
<1> DEFINE A == Aged(T)
<1>1. /\ DOMAIN T = 1 .. Len(T) /\ Len(T) \in Nat
      /\ A = [i \in 1 .. Len(T) |-> [T[i] EXCEPT !.left = IF @ > 0 THEN @ - 1 ELSE 0]]
  BY DEF Aged, TableInv
<1>2. \A i \in 1 .. Len(T) : DOMAIN A[i] = BucketFields /\ A[i].key = T[i].key
  BY <1>1 DEF TableInv, BucketFields
<1>3. A \in Seq(ToSet(A)) /\ DOMAIN A = 1 .. Len(T) /\ Len(A) = Len(T)
  <2>1. DOMAIN A = 1 .. Len(T) /\ \A i \in 1 .. Len(T) : A[i] \in ToSet(A)
    BY <1>1 DEF ToSet
  <2>2. A \in [1 .. Len(T) -> ToSet(A)]
    BY <1>1, <2>1
  <2> HIDE DEF A
  <2> QED BY <1>1, <2>2
<1> HIDE DEF A
<1> QED BY <1>1, <1>2, <1>3 DEF TableInv, Distinct, A

TablesInv ==
  /\ DOMAIN host = Urls
  /\ \A u \in Urls : DOMAIN host[u] = {"node", "up", "table"} /\ TableInv(host[u].table)

(* A limiter starts with an empty table. *)
LEMMA EmptyTable == TableInv(<<>>)
<1>1. DOMAIN <<>> = {} /\ Len(<<>>) = 0 /\ <<>> \in Seq(ToSet(<<>>))
  BY DEF ToSet
<1>2. 0 <= MaxKeys
  BY LimiterAssumption
<1> QED BY <1>1, <1>2 DEF TableInv, Distinct

(* A request changes the table of one peer. *)
LEMMA AskedTables ==
  ASSUME TablesInv, NEW u \in Urls, NEW key, NEW allowed, Asked(u, key, allowed), setup' = setup
  PROVE  TablesInv'
<1>1. Urls' = Urls
  BY DEF Urls
<1>2. CASE UNCHANGED host
  BY <1>1, <1>2 DEF TablesInv
<1>3. CASE \E T \in {host[u].table, Unexpired(host[u].table)} :
             host' = [host EXCEPT ![u].table = Check(T, key)]
  <2>1. PICK T \in {host[u].table, Unexpired(host[u].table)} :
          host' = [host EXCEPT ![u].table = Check(T, key)]
    BY <1>3
  <2>2. TableInv(T)
    BY KeptTable DEF TablesInv, Unexpired
  <2>3. TableInv(Check(T, key))
    BY <2>2, CheckTable
  <2>4. /\ DOMAIN host' = Urls /\ host'[u].table = Check(T, key)
        /\ DOMAIN host'[u] = {"node", "up", "table"}
        /\ \A v \in Urls \ {u} : host'[v] = host[v]
    BY <2>1 DEF TablesInv
  <2> QED BY <1>1, <2>3, <2>4 DEF TablesInv
<1> QED BY <1>2, <1>3 DEF Asked

(* Every step leaves tables behind. *)
LEMMA TablesStep ==
  ASSUME IndInv, TablesInv, [Next]_vars
  PROVE  TablesInv'
<1>1. CASE UNCHANGED <<setup, host>>
  <2>1. Urls' = Urls
    BY <1>1 DEF Urls
  <2> QED BY <1>1, <2>1 DEF TablesInv
<1>2. CASE Handshake \/ Page \/ Rejected
  <2>1. Url \in Urls /\ setup' = setup
    BY <1>2 DEF Handshake, Page, Rejected, IndInv, TypeInv, Attempting
  <2>2. \E allowed \in BOOLEAN : Asked(Url, Caller, allowed)
    BY <1>2 DEF Handshake, Page, Rejected
  <2> QED BY <2>1, <2>2, AskedTables
<1>3. CASE Tick
  <2>1. Urls' = Urls
    BY <1>3 DEF Tick, Urls
  <2>2. host' = [u \in Urls |-> [host[u] EXCEPT !.table = Aged(@)]]
    BY <1>3 DEF Tick
  <2>3. DOMAIN host' = Urls
    BY <2>2
  <2>4. \A u \in Urls : DOMAIN host'[u] = {"node", "up", "table"} /\ host'[u].table = Aged(host[u].table)
    BY <2>2 DEF TablesInv
  <2>5. \A u \in Urls : TableInv(host'[u].table)
    BY <2>4, AgedTable DEF TablesInv
  <2> QED BY <2>1, <2>3, <2>4, <2>5 DEF TablesInv
<1>4. ASSUME NEW u \in Urls, Flap(u)
      PROVE  TablesInv'
  <2>1. Urls' = Urls /\ host' = [host EXCEPT ![u].up = ~ @]
    BY <1>4 DEF Flap, Urls
  <2>2. /\ DOMAIN host' = Urls
        /\ \A v \in Urls : DOMAIN host'[v] = {"node", "up", "table"} /\ host'[v].table = host[v].table
    BY <2>1 DEF TablesInv
  <2> QED BY <2>1, <2>2 DEF TablesInv
<1>5. ASSUME NEW u \in Urls, NEW node, Reprovision(u, node)
      PROVE  TablesInv'
  <2>1. Urls' = Urls /\ host' = [host EXCEPT ![u].node = node, ![u].table = <<>>]
    BY <1>5 DEF Reprovision, Urls
  <2>2. /\ DOMAIN host' = Urls /\ host'[u].table = <<>>
        /\ DOMAIN host'[u] = {"node", "up", "table"}
        /\ \A v \in Urls \ {u} : host'[v] = host[v]
    BY <2>1 DEF TablesInv
  <2> QED BY <2>1, <2>2, EmptyTable DEF TablesInv
<1>6. ASSUME NEW u \in Urls, NEW c, LoginRequest(u, c)
      PROVE  TablesInv'
  BY <1>6, AskedTables DEF LoginRequest
<1> QED
  BY <1>1, <1>2, <1>3, <1>4, <1>5, <1>6
     DEF Next, Worker, vars, Wake, Sleep, Begin, Touch, Fail, Restart

(* A full limiter makes room before it counts a new client, and no client   *)
(* has two buckets.                                                         *)
THEOREM TablesStayBounded == Spec => []TableBounded
<1>1. Init => TablesInv
  <2> SUFFICES ASSUME Init PROVE TablesInv
    OBVIOUS
  <2>1. host \in [Urls -> [node : setup.nodes, up : BOOLEAN, table : {<<>>}]]
    BY DEF Init
  <2>2. \A u \in Urls : DOMAIN host[u] = {"node", "up", "table"} /\ host[u].table = <<>>
    BY <2>1
  <2> QED BY <2>1, <2>2, EmptyTable DEF TablesInv
<1>2. TablesInv => TableBounded
  <2> SUFFICES ASSUME TablesInv, NEW u \in Urls
               PROVE  /\ Len(host[u].table) <= MaxKeys
                      /\ IsInjective([i \in DOMAIN host[u].table |-> host[u].table[i].key])
    BY DEF TableBounded
  <2> QED BY DEF TablesInv, TableInv, Distinct, IsInjective
<1>3. IndInv /\ TablesInv /\ [Next]_vars => (IndInv /\ TablesInv)'
  BY StepPreservesIndInv, TablesStep
<1> QED BY <1>1, <1>2, <1>3, InitEstablishesIndInv, PTL DEF Spec
=============================================================================
