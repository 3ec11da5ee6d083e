---------------------------- MODULE MCCheckpoint ----------------------------
(***************************************************************************)
(* A small instance of Checkpoint.  The memory and the hart share nothing  *)
(* but the calls, and every cell is copied by itself: a behaviour changes  *)
(* the memory, or one cell.                                                *)
(***************************************************************************)
EXTENDS Checkpoint

VARIABLE subject    \* bound: the cells that change; the memory if there is none

Symmetry == Permutations(Hosts) \union Permutations(Bufs)

\* No RNMI extension; two CSRs of every array.
MCAbsent == {"mnscratch", "mnepc", "mnstatus"}
MCSlots ==
  [a \in {"xpr", "fpr", "mevent", "pmpaddr", "mstateen", "sstateen", "hstateen", "priority"} |-> 2]
    @@ [level |-> 1]

MCInit == TargetInit /\ subject \in {{}} \union {{c} : c \in Cells}
MCNext ==
  /\ UNCHANGED subject
  /\ (subject = {} /\ RunMemory) \/ RunHart(subject) \/ Serialize \/ Deserialize
MCSpec == MCInit /\ [][MCNext]_<<targetVars, subject>>
=============================================================================
