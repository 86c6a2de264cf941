-------------------------- MODULE IncidentProjection --------------------------
(***************************************************************************)
(* project_incident (domain/events.py): the state of an incident as a fold  *)
(* over its timeline, in the order of the timestamps with the event id as   *)
(* the last resort. A row has a kind, the start of the occurrence it is     *)
(* about (starts_at of its payload, 0 when it has none), the instant it     *)
(* happened at and an id.                                                   *)
(***************************************************************************)
EXTENDS Integers

(* Variant: the event id alone. *)
BeforeById(r, s) == r.id < s.id

(* The order of the projection: (occurred_at, event_id). *)
Before(r, s) == r.at < s.at \/ (r.at = s.at /\ r.id < s.id)

State == [status : {"open", "acknowledged", "silenced", "resolved"},
          starts : Nat, acked : BOOLEAN]

(* The state of an incident without a timeline. *)
NoEvents == [status |-> "open", starts |-> 0, acked |-> FALSE]

(* A firing opens the incident when it starts a newer occurrence or the     *)
(* incident is resolved; otherwise it is one more report of the occurrence. *)
ApplyFiring(p, r) ==
  IF p.starts = 0 \/ r.occ > p.starts \/ p.status = "resolved"
  THEN [status |-> "open", starts |-> r.occ, acked |-> FALSE]
  ELSE p

(* Variant: whatever occurrence it is about. *)
ApplyAnyResolved(p, r) == [p EXCEPT !.status = "resolved"]

(* A stale resolution must not close a newer occurrence. *)
ApplyResolved(p, r) ==
  IF r.occ = 0 \/ p.starts = 0 \/ r.occ >= p.starts
  THEN [p EXCEPT !.status = "resolved"]
  ELSE p

ApplyRow(p, r) ==
  CASE r.kind = "firing"   -> ApplyFiring(p, r)
    [] r.kind = "resolved" -> ApplyResolved(p, r)
    [] r.kind = "acknowledged" /\ p.status # "resolved" ->
         [p EXCEPT !.status = "acknowledged", !.acked = TRUE]
    [] r.kind = "unacknowledged" /\ p.status = "acknowledged" ->
         [p EXCEPT !.status = "open", !.acked = FALSE]
    [] r.kind = "silenced" /\ p.status # "resolved" ->
         [p EXCEPT !.status = "silenced"]
    [] r.kind = "unsilenced" /\ p.status = "silenced" ->
         [p EXCEPT !.status = IF p.acked THEN "acknowledged" ELSE "open"]
    [] OTHER -> p

(* What the rows of R make of every state. *)
Effect(R) == [x \in State \X R |-> ApplyRow(x[1], x[2])]

Latest(R) == CHOOSE r \in R : \A q \in R : ~ Before(r, q)

(* The state after the rows of S, for every part S of the timeline R. *)
project_incident(R) ==
  LET after[S \in SUBSET R] ==
        IF S = {} THEN NoEvents ELSE Effect(R)[<<after[S \ {Latest(S)}], Latest(S)>>]
  IN  after[R]

(* The same question without the fold: an incident is resolved exactly when *)
(* some resolution comes after its last firing and is about that occurrence *)
(* or a later one. Firings happen at the start of their occurrence, which   *)
(* is what makes the last firing the newest occurrence.                     *)
Covered(R) ==
  \E c \in R :
     /\ c.kind = "resolved"
     /\ \A f \in R : f.kind = "firing" =>
          Before(f, c) /\ (c.occ = 0 \/ c.occ >= f.occ)
=============================================================================
