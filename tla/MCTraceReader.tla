--------------------------- MODULE MCTraceReader ---------------------------
(***************************************************************************)
(* TraceReader with files of 2, 0, 2, 1 and 2 lines: an empty file in      *)
(* between, and rings that wrap around when a buffer is used again.        *)
(***************************************************************************)
EXTENDS TraceReader, TLC

MCFileLen == [f \in 0 .. NumFiles - 1 |-> <<2, 0, 2, 1, 2>>[f + 1]]

Symmetry == Permutations(Threads)
=============================================================================
