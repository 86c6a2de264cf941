----------------------------- MODULE NodeRecovery -----------------------------
(***************************************************************************)
(* ClusterSync with a database that can fall back to an earlier state. With *)
(* journal_mode=WAL and synchronous=NORMAL (infrastructure/db/session.py) a *)
(* commit is not synced: a power loss returns the file to what had reached  *)
(* the disk. The documented restore of an older online backup on the same   *)
(* node identity (docs/runbooks/failure-and-rollback.md) does the same over *)
(* a longer time. What peers have pulled meanwhile they keep.               *)
(***************************************************************************)
EXTENDS ClusterSync

CONSTANT Fragile  \* the nodes whose database may fall back

ASSUME RecoveryAssumption == Fragile \subseteq Node

VARIABLE saved   \* saved[n]: the tables of n as they are on disk or in the backup

recoveryVars == <<vars, saved>>

Tables(n) == [log |-> log[n], cursor |-> cursor[n]]

RecoveryInit ==
  /\ Init
  /\ saved = [n \in Node |-> Tables(n)]

(* A checkpoint of the WAL, or a backup. *)
Save(n) ==
  /\ n \in Fragile
  /\ saved[n] # Tables(n)
  /\ saved' = [saved EXCEPT ![n] = Tables(n)]
  /\ UNCHANGED vars

(* The process of n is started again on the saved database. *)
Restore(n) ==
  /\ n \in Fragile
  /\ run[n] < MaxRun
  /\ saved[n] # Tables(n)
  /\ log'    = [log EXCEPT ![n] = saved[n].log]
  /\ cursor' = [cursor EXCEPT ![n] = saved[n].cursor]
  /\ run'    = [run EXCEPT ![n] = @ + 1]
  /\ append' = [append EXCEPT ![n] = [w \in Writer |-> 0]]
  /\ pull'   = [pull EXCEPT ![n] = Idle]
  /\ UNCHANGED saved

RecoveryNext ==
  \/ Next /\ UNCHANGED saved
  \/ \E n \in Node : Save(n) \/ Restore(n)

RecoverySpec == RecoveryInit /\ [][RecoveryNext]_recoveryVars

(* The worker loops over its peers for ever, after a fall-back as before. A *)
(* cycle may fail at any await, so steps of a cycle are strongly fair: a    *)
(* peer that answers again and again is heard out at some point. Handlers,  *)
(* pushes and crashes are not fair.                                         *)
FairRecoverySpec ==
  RecoverySpec
    /\ \A n \in Node : \A p \in Peers[n] :
         /\ SF_recoveryVars(StartCycle(n, p) /\ UNCHANGED saved)
         /\ SF_recoveryVars(ServeQuery(n, p) /\ UNCHANGED saved)
         /\ SF_recoveryVars(ApplyPage(n, p) /\ UNCHANGED saved)

-----------------------------------------------------------------------------
(* Properties, besides CursorContiguous and UniqueNumbers of ClusterSync    *)

(* What a node whose database keeps its commits holds reaches every node:   *)
(* over relays, in spite of failing cycles, page limits and gaps left by    *)
(* pushes, and also back to the node that has forgotten it.                 *)
KeptHistorySpreads ==
  \A n, o \in Node, m \in Node \ Fragile : \A s \in 1 .. Quota[o] :
     Holds(log[m], o, s) ~> Holds(log[n], o, s)
=============================================================================
