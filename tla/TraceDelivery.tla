--------------------------- MODULE TraceDelivery ---------------------------
(***************************************************************************)
(* What the profiler is promised by the trace reader: the lines of the     *)
(* files COSPIKE-TRACE-0, -1, -2, ... one at a time, in the order they     *)
(* were written, none skipped and none repeated, whatever the number of    *)
(* decompressing threads and buffers.  test_trace_reader.cc asserts a      *)
(* consequence of it (step.time never decreases).                          *)
(***************************************************************************)
EXTENDS Naturals

CONSTANTS
  NumFiles,  \* how many files the RTL simulation writes
  FileLen    \* lines in each file

VARIABLES
  file,   \* the file being delivered
  line,   \* how many of its lines have been delivered
  last    \* the step delivered last, <<file, line>>

vars == <<file, line, last>>

Init == file = 0 /\ line = 0 /\ last = <<0, 0>>

Deliver == /\ file < NumFiles
           /\ line < FileLen[file]
           /\ line' = line + 1
           /\ last' = <<file, line + 1>>
           /\ UNCHANGED file

NextFile == /\ file < NumFiles
            /\ line = FileLen[file]
            /\ file' = file + 1
            /\ line' = 0
            /\ UNCHANGED last

Next == Deliver \/ NextFile

Spec == Init /\ [][Next]_vars
=============================================================================
