---------------------------- MODULE TraceBuffer ----------------------------
(***************************************************************************)
(* trace_buffer_t (lib/trace_reader.h, lib/trace_reader.cc): a ring of     *)
(* decoded RTL steps plus the flag `consumable` that hands the ring over   *)
(* from the thread that decompressed a file to the profiler thread.        *)
(*                                                                         *)
(* The slot at `head` is the step the reader is looking at (pop_front      *)
(* returns a reference to it), so it never counts as free.  The byte       *)
(* buffer of the class is not kept: a file is the sequence of its lines.   *)
(*                                                                         *)
(* The operators with a suffix (Size_Exact) are faulty variants.           *)
(***************************************************************************)
EXTENDS Naturals

CONSTANTS
  MaxEntries,  \* per_buff_entries, "max insns per file" of --rtl-cfg
  Steps,       \* the steps a file can hold
  NoStep       \* what a slot holds before its first use

\* The member max_entries: one more slot than the constructor's argument.
Size_Exact == MaxEntries
Size == MaxEntries + 1

Buffer == [head : 0 .. MaxEntries, tail : 0 .. MaxEntries,
           slot : [0 .. MaxEntries -> Steps \union {NoStep}],
           consumable : BOOLEAN]

NewBuffer == [head |-> 0, tail |-> 1 % Size,
              slot |-> [i \in 0 .. MaxEntries |-> NoStep],
              consumable |-> FALSE]

empty(b) == (b.head + 1) % Size = b.tail

full(b) == b.head = (b.tail + 1) % Size

\* push_back asserts ~full before it writes the slot at tail.
push_back(b, s) == [b EXCEPT !.slot[b.tail] = s, !.tail = (@ + 1) % Size]

\* pop_front moves head and returns the step in the slot it now points to.
pop_front(b) == [b EXCEPT !.head = (@ + 1) % Size]
front(b) == b.slot[(b.head + 1) % Size]

done_consume_Keeps(b) == b
done_consume(b)   == [b EXCEPT !.consumable = FALSE]
set_consumable(b) == [b EXCEPT !.consumable = TRUE]

\* Steps pushed and not yet popped, oldest first.
Count(b)    == (b.tail + Size - b.head - 1) % Size
Contents(b) == [i \in 1 .. Count(b) |-> b.slot[(b.head + i) % Size]]
=============================================================================
