----------------------------- MODULE MCLockstep -----------------------------
(***************************************************************************)
(* Programs for Lockstep: every well-nested sequence of at most MaxLen     *)
(* instructions of Alphabet, every sequence of at most MaxOps of           *)
(* those that act on the hart and the devices, and one of each kind        *)
(* in turn.                                                                *)
(***************************************************************************)
EXTENDS Lockstep

CONSTANTS MaxLen, MaxOps, Alphabet, Ops, p1, p2

MCPids == {p1, p2}

MCStarts == {Start("exec", SamePid, TRUE, 1), Start("switch", p2, FALSE, 1)}
MCNoExits == {Plain(1, "no")} \union MCStarts
MCAlphabet == {Exit} \union MCNoExits

MCOps == {Op("load", 0), Op("skip", 0), Op("ecall", 0), Op("msip", 1)}
           \union {Op("request", d) : d \in Devices}

UpTo(n, insns) == UNION {[1 .. k -> insns] : k \in 1 .. n}

\* A device is handed work once.
RequestsOnce(c) ==
  \A i, j \in DOMAIN c : c[i].op = "request" /\ c[i] = c[j] => i = j

MCPrograms ==
  {c \in UpTo(MaxLen, Alphabet) \union UpTo(MaxOps, Ops)
           \union {<<a, b, s, o>> : a \in Ops, b \in Ops, s \in MCStarts, o \in Ops} :
     WellNested(EmptyView(p1), c) /\ RequestsOnce(c) /\ JumpsOverPlain(c)}

ASSUME MCAssumption == NoneSkipped /\ TrapsAtPlain
=============================================================================
