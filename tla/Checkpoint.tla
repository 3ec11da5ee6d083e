----------------------------- MODULE Checkpoint -----------------------------
(***************************************************************************)
(* sim_lib_t::serialize_proto and deserialize_proto as a whole: the memory *)
(* and the target's registers and devices are saved and restored together, *)
(* and between the two each goes its own way.                              *)
(***************************************************************************)
EXTENDS PageCheckpoint, HartCheckpoint

\* Spike makes hideleg and henvcfg, through which mideleg and menvcfg are
\* saved, whether the hart has the H extension or not.  serialize_proto takes
\* mnepc for a basic_csr_t, which it is not, and cannot serve a hart that has
\* it.
ASSUME HartAssumption ==
  /\ Absent \intersect {"hideleg", "henvcfg"} = {}
  /\ "mnepc" \in Absent

targetVars == <<vars, hartVars>>

TargetInit == Init /\ HartInit

RunMemory ==
  /\ Store \/ \E p \in Ppns : Touch(p) \/ \E u \in Mmus : Evict(u)
  /\ UNCHANGED hartVars
RunHart(cells) ==
  /\ \E c \in cells, v \in RegValues : Write(c, v)
  /\ UNCHANGED vars

Serialize == serialize_proto /\ serialize_hart(<<>>)
Deserialize == deserialize_proto /\ deserialize_hart

TargetNext == RunMemory \/ RunHart(Cells) \/ Serialize \/ Deserialize

TargetSpec == TargetInit /\ [][TargetNext]_targetVars

-----------------------------------------------------------------------------

(* A restore brings back every register, CSR and device register of the    *)
(* checkpoint together with the memory, and leaves nothing that was        *)
(* written since; but for the state NotRestored names.                     *)
RestoresTarget ==
  [][serialize_called /\ ~ serialize_called' =>
       /\ mem' = saved
       /\ \A c \in Promised : hart'[c] = snapshot[c]]_targetVars
=============================================================================
