------------------------------- MODULE RateLimiter -------------------------------
(***************************************************************************)
(* LocalRateLimiter of infrastructure/rate_limit.py, as operators on its    *)
(* table. A table is the sequence of its buckets, the one that was seen     *)
(* least recently first. A bucket counts the admissions of one key in one   *)
(* window: key, count, and left, the time until it expires. A key is a pair *)
(* of a scope (which endpoint) and a client.                                *)
(***************************************************************************)
EXTENDS Integers, Sequences, SequencesExt

CONSTANTS MaxKeys,   \* bound on the buckets of a table
          Limit,     \* Limit[scope]: admissions in a window
          Window     \* length of a window

ASSUME LimiterAssumption ==
  /\ MaxKeys \in Nat \ {0} /\ Window \in Nat \ {0}
  /\ \A s \in DOMAIN Limit : Limit[s] \in Nat \ {0}

Keys(T) == {T[i].key : i \in DOMAIN T}
Overflow(key) == <<key[1], "<overflow>">>

(* The buckets of T that are in S, in their order. *)
Kept(T, S) ==
  LET kept[i \in 0 .. Len(T)] ==
        IF i = 0 THEN <<>> ELSE IF T[i] \in S THEN Append(kept[i - 1], T[i]) ELSE kept[i - 1]
  IN  kept[Len(T)]

Unexpired(T) == Kept(T, {b \in ToSet(T) : b.left > 0})
Without(T, key) == Kept(T, {b \in ToSet(T) : b.key # key})

(* What the clock does to a table. *)
Aged(T) == [i \in DOMAIN T |-> [T[i] EXCEPT !.left = IF @ > 0 THEN @ - 1 ELSE 0]]

(* A new key does not fit, even after expired buckets were removed. *)
Full(T, key) == key \notin Keys(T) /\ Len(Unexpired(T)) >= MaxKeys

(* The bucket that counts the request, after the cleanup that a full table  *)
(* forces: the client's own, or the overflow bucket of its scope.           *)
Charged(T, key) == IF Full(T, key) THEN Overflow(key) ELSE key

(* Variant: the overflow bucket comes on top. *)
RoomWithoutVictim(T, key) ==
  IF key \notin Keys(T) /\ Len(T) >= MaxKeys THEN Unexpired(T) ELSE T

(* Room for that bucket: the least recently seen one gives way to a new     *)
(* overflow bucket.                                                         *)
Room(T, key) ==
  LET kept == IF key \notin Keys(T) /\ Len(T) >= MaxKeys THEN Unexpired(T) ELSE T
  IN  IF Full(T, key) /\ Overflow(key) \notin Keys(kept) THEN Tail(kept) ELSE kept

(* The bucket as the request finds it: an expired one begins a new window.  *)
Found(T, key) ==
  LET live == {b \in ToSet(T) : b.key = key /\ b.left > 0}
  IN  IF live = {} THEN [key |-> key, count |-> 0, left |-> Window]
      ELSE CHOOSE b \in live : TRUE

Allowed(T, key) == LET k == Charged(T, key) IN Found(Room(T, key), k).count < Limit[k[1]]

(* Variant: a client that goes on asking while it is rejected waits longer. *)
CheckExtending(T, key) ==
  LET k == Charged(T, key)
      b == Found(Room(T, key), k)
  IN  Append(Without(Room(T, key), k),
        IF b.count < Limit[k[1]] THEN [b EXCEPT !.count = @ + 1] ELSE [b EXCEPT !.left = Window])

(* The table after check. *)
Check(T, key) ==
  LET k == Charged(T, key)
      b == Found(Room(T, key), k)
  IN  Append(Without(Room(T, key), k),
        IF b.count < Limit[k[1]] THEN [b EXCEPT !.count = @ + 1] ELSE b)
=============================================================================
