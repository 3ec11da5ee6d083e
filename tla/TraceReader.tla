---------------------------- MODULE TraceReader ----------------------------
(***************************************************************************)
(* trace_reader_t (lib/trace_reader.cc): threads that decompress the RTL   *)
(* commit-log files into a circular array of buffers, and the profiler     *)
(* thread that drains the buffers in the same circular order               *)
(* (profiler_t::run_from_trace, sim_lib_t::run_from_trace and              *)
(* test_trace_reader.cc share this protocol).                              *)
(*                                                                         *)
(* A line of a file is <<file, n>>; its text and the parser's digits are   *)
(* abstracted.  One action per critical section or per buffer access.      *)
(*                                                                         *)
(* The operators with a suffix (NextId_NoWrap) are faulty variants.        *)
(***************************************************************************)
EXTENDS Integers

CONSTANTS
  NBuffers,    \* nthreads argument of the constructor: number of buffers
  Threads,     \* the decompressing threads start() creates
  NumFiles,    \* files the RTL simulation writes in all
  FileLen,     \* [0 .. NumFiles - 1 -> Nat], lines of each file
  MaxEntries,  \* traces_per_file of --rtl-cfg
  FdLimit      \* file descriptors the process may open

ASSUME ReaderAssumption ==
  /\ NBuffers \in Nat \ {0}
  /\ NumFiles \in Nat
  /\ FileLen \in [0 .. NumFiles - 1 -> Nat]
  /\ MaxEntries \in Nat \ {0}
  /\ FdLimit \in Nat

VARIABLES
  consumer_id, producer_id, trace_id, init,   \* members of trace_reader_t
  buffers,   \* [0 .. NBuffers - 1 -> Buffer]
  worker,    \* each thread's place in threadloop and its locals
  cpc,       \* the profiler thread's place in its loop
  taken,     \* steps popped from the buffer being drained
  bufid,     \* buffers drained so far (run_from_trace counts them)
  last,      \* the step popped last
  files,     \* files that exist in trace_dir, 0 .. files - 1
  fds,       \* descriptors gzopen has taken (never gzclosed)
  aborted    \* assert(!full()) failed

readerVars == <<consumer_id, producer_id, trace_id, init>>
consumerVars == <<cpc, taken, bufid, last>>
vars == <<readerVars, buffers, worker, consumerVars, files, fds, aborted>>

Ids == 0 .. NBuffers - 1
NoStep == <<>>
Steps == (0 .. NumFiles - 1) \X (Nat \ {0})

Ring == INSTANCE TraceBuffer

\* Both ids walk the circular array.
NextId_NoWrap(i) == i + 1
NextId(i) == (i + 1) % NBuffers

\* A thread between two rounds of threadloop; its locals live for one round.
Idle == [pc |-> "poll", pid |-> 0, file |-> 0, line |-> 0, lines |-> 0]

-----------------------------------------------------------------------------

Init ==
  /\ consumer_id = 0 /\ producer_id = 0 /\ trace_id = 0 /\ init = TRUE
  /\ buffers = [b \in Ids |-> Ring!NewBuffer]
  /\ worker = [t \in Threads |-> Idle]
  /\ cpc = "wait" /\ taken = 0 /\ bufid = 0 /\ last = <<0, 0>>
  /\ files = 0 /\ fds = 0 /\ aborted = FALSE

\* The RTL simulation finishes one more file (external to this code).
FileAppears ==
  /\ files < NumFiles
  /\ files' = files + 1
  /\ UNCHANGED <<readerVars, buffers, worker, consumerVars, fds, aborted>>

\* The test under buffer_mutex that decides whether a buffer may be claimed.
MayClaim_Always == TRUE
MayClaim == producer_id # consumer_id \/ init

\* threadloop, the critical section: the next file exists and a buffer is
\* free as far as the ids tell; a poll that claims nothing changes nothing.
Claim(t) ==
  /\ worker[t].pc = "poll"
  /\ trace_id < files
  /\ MayClaim
  /\ init' = FALSE
  /\ trace_id' = trace_id + 1
  /\ producer_id' = NextId(producer_id)
  /\ worker' = [worker EXCEPT ![t] =
       [pc |-> "open", pid |-> producer_id, file |-> trace_id, line |-> 0, lines |-> 0]]
  /\ UNCHANGED <<consumer_id, buffers, consumerVars, files, fds, aborted>>

\* gzopen and gzread.  The handle is never closed; when gzopen fails, gzread
\* returns -1 and generate_trace sees no line at all.
OpenAndRead(t) ==
  /\ worker[t].pc = "open"
  /\ worker' = [worker EXCEPT ![t].pc = "fill",
                  ![t].lines = IF fds < FdLimit THEN FileLen[worker[t].file] ELSE 0]
  /\ fds' = IF fds < FdLimit THEN fds + 1 ELSE fds
  /\ UNCHANGED <<readerVars, buffers, consumerVars, files, aborted>>

\* generate_trace, one line: push_back asserts that the ring is not full.
PushLine(t) ==
  LET w == worker[t] IN
  /\ w.pc = "fill" /\ w.line < w.lines
  /\ IF Ring!full(buffers[w.pid])
       THEN aborted' = TRUE /\ UNCHANGED <<buffers, worker>>
       ELSE /\ buffers' = [buffers EXCEPT ![w.pid] =
                             Ring!push_back(@, <<w.file, w.line + 1>>)]
            /\ worker' = [worker EXCEPT ![t].line = @ + 1]
            /\ UNCHANGED aborted
  /\ UNCHANGED <<readerVars, consumerVars, files, fds>>

\* generate_trace, the end: publish the buffer under consumable_mutex.
Publish(t) ==
  LET w == worker[t] IN
  /\ w.pc = "fill" /\ w.line = w.lines
  /\ buffers' = [buffers EXCEPT ![w.pid] = Ring!set_consumable(@)]
  /\ worker' = [worker EXCEPT ![t] = Idle]
  /\ UNCHANGED <<readerVars, consumerVars, files, fds, aborted>>

\* The profiler thread spins on can_consume of the current buffer.
CanConsume ==
  /\ cpc = "wait" /\ bufid < NumFiles
  /\ buffers[consumer_id].consumable
  /\ cpc' = "drain"
  /\ UNCHANGED <<readerVars, buffers, worker, taken, bufid, last, files, fds, aborted>>

Pop ==
  /\ cpc = "drain" /\ ~ Ring!empty(buffers[consumer_id])
  /\ last' = Ring!front(buffers[consumer_id])
  /\ buffers' = [buffers EXCEPT ![consumer_id] = Ring!pop_front(@)]
  /\ taken' = taken + 1
  /\ UNCHANGED <<readerVars, worker, cpc, bufid, files, fds, aborted>>

\* done_consume of the buffer pop_buffer would move on to.
DoneConsume_AfterPop ==
  /\ cpc = "drain" /\ Ring!empty(buffers[consumer_id])
  /\ buffers' = [buffers EXCEPT ![NextId(consumer_id)] = Ring!done_consume(@)]
  /\ cpc' = "pop"
  /\ UNCHANGED <<readerVars, worker, taken, bufid, last, files, fds, aborted>>

DoneConsume ==
  /\ cpc = "drain" /\ Ring!empty(buffers[consumer_id])
  /\ buffers' = [buffers EXCEPT ![consumer_id] = Ring!done_consume(@)]
  /\ cpc' = "pop"
  /\ UNCHANGED <<readerVars, worker, taken, bufid, last, files, fds, aborted>>

\* pop_buffer under buffer_mutex, then the loop counts the buffer.
PopBuffer ==
  /\ cpc = "pop"
  /\ consumer_id' = NextId(consumer_id)
  /\ bufid' = bufid + 1
  /\ taken' = 0
  /\ cpc' = "wait"
  /\ UNCHANGED <<producer_id, trace_id, init, buffers, worker, last, files, fds, aborted>>

Worker(t) == Claim(t) \/ OpenAndRead(t) \/ PushLine(t) \/ Publish(t)
Consumer == CanConsume \/ Pop \/ DoneConsume \/ PopBuffer

Next == /\ ~ aborted
        /\ FileAppears \/ Consumer \/ \E t \in Threads : Worker(t)

Spec == Init /\ [][Next]_vars

\* The threads are preemptively scheduled and poll for ever; the RTL
\* simulation is assumed to write all its files.
Fairness == /\ WF_vars(~ aborted /\ FileAppears)
            /\ WF_vars(~ aborted /\ Consumer)
            /\ \A t \in Threads : WF_vars(~ aborted /\ Worker(t))

FairSpec == Spec /\ Fairness

-----------------------------------------------------------------------------

WorkerState == [pc : {"poll", "open", "fill"}, pid : Ids, file : 0 .. NumFiles,
                line : Nat, lines : Nat]

(* Types of the variables. *)
TypeOK ==
  /\ consumer_id \in Ids /\ producer_id \in Ids
  /\ trace_id \in 0 .. NumFiles /\ init \in BOOLEAN
  /\ buffers \in [Ids -> Ring!Buffer]
  /\ worker \in [Threads -> WorkerState]
  /\ cpc \in {"wait", "drain", "pop"}
  /\ taken \in Nat /\ bufid \in 0 .. NumFiles
  /\ files \in 0 .. NumFiles /\ fds \in 0 .. FdLimit /\ aborted \in BOOLEAN

Busy(t) == worker[t].pc # "poll"

(* A ring has one owner at a time: no two threads decompress into the same *)
(* buffer, and a buffer being filled is neither published nor the one the  *)
(* profiler thread is draining or about to release.  The rings themselves  *)
(* have no lock, so this is what keeps them free of data races.            *)
Exclusive ==
  \A t \in Threads : Busy(t) =>
    /\ \A u \in Threads \ {t} : Busy(u) => worker[u].pid # worker[t].pid
    /\ ~ buffers[worker[t].pid].consumable
    /\ ~ (cpc # "wait" /\ worker[t].pid = consumer_id)

\* The buffer of file f: the files claimed and not yet released, bufid ..
\* trace_id - 1, sit in consecutive buffers from consumer_id on.
BufferOf(f) == LET i == consumer_id + (f - bufid)
               IN  IF i < NBuffers THEN i ELSE i - NBuffers

InFlight == bufid .. (trace_id - 1)

(* What makes Exclusive inductive.  Claimed and unreleased files are at    *)
(* most one per buffer and producer_id is the buffer after the last one;   *)
(* the files being decompressed and the published ones are among them; and *)
(* the buffer being drained is published until done_consume.               *)
Window ==
  /\ bufid <= trace_id /\ trace_id <= bufid + NBuffers /\ trace_id <= files
  /\ producer_id = BufferOf(trace_id)
  /\ init <=> trace_id = 0

Filling ==
  /\ \A t \in Threads : Busy(t) =>
       /\ worker[t].file \in InFlight
       /\ worker[t].pid = BufferOf(worker[t].file)
       /\ ~ buffers[worker[t].pid].consumable
  /\ \A t, u \in Threads : Busy(t) /\ Busy(u) /\ t # u => worker[t].file # worker[u].file

Published ==
  /\ \A b \in Ids : buffers[b].consumable => \E f \in InFlight : b = BufferOf(f)
  /\ cpc = "drain" => buffers[consumer_id].consumable
  /\ cpc = "pop" =>
       /\ bufid < trace_id
       /\ ~ buffers[consumer_id].consumable
       /\ \A t \in Threads : Busy(t) => worker[t].pid # consumer_id

OwnershipInv == TypeOK /\ Window /\ Filling /\ Published

(* assert(!full()) in push_back never fires for files of fewer lines than  *)
(* the bound given by --rtl-cfg, however often the ring is used again.     *)
NoAssertFailure == ~ aborted

(* The reader implements in-order, lossless delivery of the files' lines.  *)
Delivery == INSTANCE TraceDelivery WITH file <- bufid, line <- taken
InOrder == Delivery!Spec

(* Every file a thread has claimed reaches the profiler and is released.   *)
ClaimedIsDelivered ==
  \A f \in 0 .. NumFiles - 1 : trace_id > f ~> bufid > f

(* Every file the RTL simulation wrote reaches the profiler.               *)
AllDelivered == <>(bufid = NumFiles)
=============================================================================
