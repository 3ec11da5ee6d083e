---------------------------- MODULE MCRewindLoop ----------------------------
(***************************************************************************)
(* Programs for RewindLoop: every well-nested sequence of MaxLen or fewer  *)
(* instructions of Alphabet, and of MaxTimed or fewer of TimedAlphabet.    *)
(***************************************************************************)
EXTENDS RewindLoop

CONSTANTS MaxLen, MaxTimed, Alphabet, TimedAlphabet, p1, p2

MCPids == {p1, p2}

PlainInsns == {Plain(1, "no"), Plain(2, "no"), Plain(1, "trap")}
ExitAndStart == {Exit, Start("exec", SamePid, TRUE, 1)}
Switches == {Start("switch", p2, FALSE, 2)}

MCAlphabet == PlainInsns \union ExitAndStart \union Switches
MCTimedAlphabet == {Plain(1, "no"), Plain(2, "no"), Plain(1, "trap"), Plain(1, "wfi")} \union ExitAndStart

UpTo(n, insns) == {c \in UNION {[1 .. k -> insns] : k \in 1 .. n} : WellNested(EmptyView(p1), c)}
MCPrograms == UpTo(MaxLen, Alphabet)
MCTimedPrograms == UpTo(MaxTimed, TimedAlphabet)

\* A handler with an intercepted function.
MCIsr == <<Plain(1, "no"), Start("tick", SamePid, TRUE, 1), Exit>>

ASSUME MCAssumption == NoWfi /\ Nested
=============================================================================
