--------------------------- MODULE SnapshotMemory ---------------------------
(***************************************************************************)
(* What a checkpoint of the target's memory promises: Restore gives back   *)
(* the memory as it was at Save, whatever was written in between.          *)
(***************************************************************************)
CONSTANTS Ppns, Values, Zero

VARIABLES
  mem,      \* the target's memory, a value per page
  saved,    \* the memory at the last Save
  armed     \* a checkpoint is held: Save was called and Restore was not

vars == <<mem, saved, armed>>

Init == mem = [p \in Ppns |-> Zero] /\ saved = mem /\ armed = FALSE

Write(p, v) == mem' = [mem EXCEPT ![p] = v] /\ UNCHANGED <<saved, armed>>
Save == saved' = mem /\ armed' = TRUE /\ UNCHANGED mem
Restore == armed /\ mem' = saved /\ armed' = FALSE /\ UNCHANGED saved

Next == Save \/ Restore \/ \E p \in Ppns, v \in Values : Write(p, v)

Spec == Init /\ [][Next]_vars
=============================================================================
