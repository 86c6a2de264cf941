---------------------------- MODULE SharedSnapshot ----------------------------
(***************************************************************************)
(* What the process-local snapshots of alert-hub promise to those who read  *)
(* them, with requests, refreshes and their failures left out: there is one *)
(* snapshot or none, it was taken at some instant up to now, and another    *)
(* one takes its place only if it was taken no earlier. ChecksCache and     *)
(* StatisticsCache implement it.                                            *)
(***************************************************************************)
EXTENDS Integers

CONSTANTS Absent,    \* stands for no snapshot, an integer
          Droppable  \* whether a snapshot may be dropped for its age

VARIABLES now,   \* the clock
          held   \* when the snapshot was taken, or Absent

Init ==
  /\ now \in Nat
  /\ held = Absent

Tick ==
  /\ now' = now + 1
  /\ UNCHANGED held

Publish ==
  /\ held' \in held .. now
  /\ UNCHANGED now

Drop ==
  /\ Droppable
  /\ held' = Absent
  /\ UNCHANGED now

Next == Tick \/ Publish \/ Drop

Spec == Init /\ [][Next]_<<now, held>>
=============================================================================
