--------------------------- MODULE MCStatisticsCache ---------------------------
(* Instances of StatisticsCache for model checking. *)
EXTENDS StatisticsCache

CONSTANTS t1, t2

Row(kind, occ, at, id, key) ==
  [kind |-> kind, occ |-> occ, at |-> at, id |-> id, key |-> key, severity |-> "critical"]

(* Two occurrences that follow each other, an acknowledgement at the instant*)
(* the first ends, resolutions with and without the occurrence they are     *)
(* about, and receipts of two channels.                                     *)
Histories ==
  {Row("firing", 1, 1, 5, 2), Row("acknowledged", 0, 3, 2, 4), Row("resolved", 1, 3, 6, 1),
   Row("firing", 3, 3, 1, 6), Row("resolved", 0, 4, 4, 3), Row("silenced", 0, 2, 3, 5),
   Row("delivery_succeeded", 1, 2, 7, 7), Row("delivery_failed", 2, 3, 8, 8)}

(* Every history, and two threads without a history. *)
Instances ==
  {[threads |-> {}, rows |-> Histories, until |-> 7],
   [threads |-> {t1, t2}, rows |-> {}, until |-> 7]}
=============================================================================
