----------------------------- MODULE RewindLoop -----------------------------
(***************************************************************************)
(* profiler_t::run (profiler/profiler.cc) and sim_lib_t::run_for           *)
(* (spike-top/sim_lib.cc): the functional-only mode.  The loop takes a     *)
(* checkpoint, runs a large batch at full speed, scans the pcs it          *)
(* executed, and when one of them starts a registered function restores    *)
(* the checkpoint, runs again to just before that pc and steps one         *)
(* instruction at a time until the hook can read the machine's state.      *)
(*                                                                         *)
(* The target is a program: a finite sequence of instructions, then Padding*)
(* plain ones, then the write to tohost that asks the host to exit; and    *)
(* if timed, one timer interrupt, whose handler is Isr.  m is the machine  *)
(* state a checkpoint saves; exitcode and in_wfi are not in it.            *)
(*                                                                         *)
(* The operators with a suffix (FastFwd_Half) are faulty variants.         *)
(***************************************************************************)
EXTENDS ProfilerState, FiniteSets

CONSTANTS
  FirstPid,        \* cur_pid_ of a new profiler_state_t
  Programs,        \* the programs the target may run
  TimedPrograms,   \* those it may run with the timer set
  Padding,           \* plain instructions between the program and its exit
  Isr,             \* the timer interrupt's handler
  Deadline,        \* mtimecmp: the interrupt is pending from then on
  INSN_PER_CKPT, INTERLEAVE, INSNS_PER_RTC_TICK

ASSUME LoopAssumption ==
  /\ INSN_PER_CKPT \in Nat \ {0} /\ INTERLEAVE \in Nat \ {0}
  /\ INSNS_PER_RTC_TICK \in Nat \ {0} /\ Deadline \in Nat /\ Padding \in Nat
  /\ FirstPid \in Pids /\ SamePid \notin Pids

\* A registered exit is a return, which Spike executes once.
ASSUME ProgramAssumption ==
  /\ Isr \in Seq(Insn) \ {<<>>}
  /\ \A c \in Programs \union TimedPrograms :
       c \in Seq(Insn) /\ \A i \in DOMAIN c : c[i].kind = "exit" => c[i].entries = 1

VARIABLES
  code,     \* the program being run
  timed,    \* the timer is set: one interrupt, from Deadline on
  m,        \* [at, isr, mtime, taken]: next instruction, place in the handler
            \* (0 outside it), the clock up to Deadline, interrupt taken
  exited,   \* exitcode # 0
  in_wfi,   \* processor_t::in_wfi
  rf,       \* [steps, tot, left, dev, stalled]: run_for's locals, the rest of
            \* the processor's step and the device ticks that follow it
  phase,    \* where run() is
  protobuf, \* the checkpoint
  trace,    \* target_trace: per entry, <<at, isr, copy>>
  popcnt, fwd_steps, rewind, found_function,  \* locals of run()
  view, timestamp_,
  packets,  \* what the hooks submitted: the timestamp and the true position
  log,      \* the traces submitted, in one sequence
  marks,    \* history: registered instructions accounted for
  popped_empty  \* pop_back of an empty call stack: undefined from here on

machineVars == <<code, timed, m, exited, in_wfi, rf, trace>>
scanVars == <<popcnt, fwd_steps, rewind, found_function>>
profVars == <<view, timestamp_, packets, log, marks, popped_empty>>
vars == <<machineVars, phase, protobuf, scanVars, profVars>>

Least(a, b) == IF a < b THEN a ELSE b

InsnAt(at, isr) == CASE isr > 0 -> Isr[isr]
                     [] isr = 0 /\ at <= Len(code) -> code[at]
                     [] OTHER -> Plain(1, "no")

InsnOf(entry) == InsnAt(entry[1], entry[2])

RunFor(steps) == [steps |-> steps, tot |-> 0, left |-> 0, dev |-> 0, stalled |-> FALSE]

Init ==
  /\ timed \in BOOLEAN /\ code \in (IF timed THEN TimedPrograms ELSE Programs)
  /\ m = [at |-> 1, isr |-> 0, mtime |-> 0, taken |-> FALSE]
  /\ exited = FALSE /\ in_wfi = FALSE
  /\ rf = RunFor(0)
  /\ phase = "head" /\ protobuf = m /\ trace = <<>>
  /\ popcnt = 0 /\ fwd_steps = 0 /\ rewind = FALSE /\ found_function = FALSE
  /\ view = EmptyView(FirstPid) /\ timestamp_ = 0 /\ packets = <<>>
  /\ log = <<>> /\ marks = 0 /\ popped_empty = FALSE

-----------------------------------------------------------------------------
\* run_for: used by the batch, the fast forward and the single step.

InRunFor == phase \in {"run", "ffwd", "step"}
target_running == ~ exited
MoreToRun == target_running /\ rf.tot < rf.steps /\ ~ rf.stalled
tohost == m.at > Len(code) + Padding /\ m.isr = 0

\* The target has asked to exit: handle_tohost_req sets the exit code.
HandleTohost ==
  /\ InRunFor /\ rf.left = 0 /\ MoreToRun /\ tohost
  /\ exited' = TRUE
  /\ UNCHANGED <<code, timed, m, in_wfi, rf, trace, phase, protobuf, scanVars, profVars>>

cur_step == Least(rf.steps - rf.tot, INTERLEAVE)
dev_step == IF cur_step \div INSNS_PER_RTC_TICK > 1
              THEN cur_step \div INSNS_PER_RTC_TICK ELSE 1
Pending == timed /\ m.mtime >= Deadline /\ ~ m.taken

\* The device ticks of step_target.
Ticked(mach, ticks) == [mach EXCEPT !.mtime = Least(@ + ticks, Deadline)]

\* step_target.  A pending interrupt is a trap, and a hart in WFI waits: the
\* processor's step then executes nothing, which stalls run_for.
StepTarget ==
  /\ InRunFor /\ rf.left = 0 /\ MoreToRun /\ ~ tohost
  /\ \/ /\ Pending
        /\ m' = Ticked([m EXCEPT !.isr = 1, !.taken = TRUE], dev_step)
        /\ in_wfi' = FALSE
        /\ rf' = [rf EXCEPT !.stalled = TRUE]
     \/ /\ ~ Pending /\ in_wfi
        /\ m' = Ticked(m, dev_step)
        /\ rf' = [rf EXCEPT !.stalled = TRUE]
        /\ UNCHANGED in_wfi
     \/ /\ ~ Pending /\ ~ in_wfi
        /\ rf' = [rf EXCEPT !.left = cur_step, !.dev = dev_step]
        /\ UNCHANGED <<m, in_wfi>>
  /\ UNCHANGED <<code, timed, exited, trace, phase, protobuf, scanVars, profVars>>

\* One instruction of the step; the devices tick after the last one.
Execute ==
  LET insn == InsnAt(m.at, m.isr)
      left == IF insn.ends = "no" THEN rf.left - 1 ELSE 0
      next == IF m.isr = 0 THEN [m EXCEPT !.at = @ + 1]
              ELSE [m EXCEPT !.isr = IF m.isr < Len(Isr) THEN @ + 1 ELSE 0]
  IN
  /\ InRunFor /\ rf.left > 0
  /\ trace' = trace \o [c \in 1 .. insn.entries |-> <<m.at, m.isr, c>>]
  /\ rf' = [rf EXCEPT !.left = left, !.tot = @ + insn.entries]
  /\ m' = IF left = 0 THEN Ticked(next, rf.dev) ELSE next
  /\ in_wfi' = (insn.ends = "wfi")
  /\ UNCHANGED <<code, timed, exited, phase, protobuf, scanVars, profVars>>

\* The condition of the do-while of single steps.
LoopAgain_Always == TRUE
LoopAgain == ~ found_function

\* run_for returns to the place in run() that called it.
Return ==
  /\ InRunFor /\ rf.left = 0 /\ ~ MoreToRun
  /\ phase' = CASE phase = "run" -> "scan"
                [] phase = "ffwd" -> "look"
                [] phase = "step" -> IF LoopAgain THEN "look" ELSE "submit"
  /\ UNCHANGED <<machineVars, protobuf, scanVars, profVars>>

-----------------------------------------------------------------------------
\* run().

\* serialize_proto, clear_run_trace, run_for(INSN_PER_CKPT).
TakeCheckpoint_NoClear ==
  /\ phase = "head" /\ target_running
  /\ protobuf' = m
  /\ rf' = RunFor(INSN_PER_CKPT)
  /\ phase' = "run"
  /\ UNCHANGED <<code, timed, m, exited, in_wfi, trace, scanVars, profVars>>
TakeCheckpoint ==
  /\ phase = "head" /\ target_running
  /\ protobuf' = m
  /\ trace' = <<>>
  /\ rf' = RunFor(INSN_PER_CKPT)
  /\ phase' = "run"
  /\ UNCHANGED <<code, timed, m, exited, in_wfi, scanVars, profVars>>

Starts == {i \in DOMAIN trace : InsnOf(trace[i]).kind = "start"}

\* Where the scan breaks: the first start, or the end of the trace.
Break_Last == IF Starts = {} THEN Len(trace) + 1
              ELSE CHOOSE i \in Starts : \A j \in Starts : i >= j
Break == IF Starts = {} THEN Len(trace) + 1
         ELSE CHOOSE i \in Starts : \A j \in Starts : i <= j

ExitsBefore_Any(i) == {j \in DOMAIN trace : InsnOf(trace[j]).kind = "exit"}
ExitsBefore(i) == {j \in DOMAIN trace : j < i /\ InsnOf(trace[j]).kind = "exit"}

Scan ==
  /\ phase = "scan"
  /\ rewind' = (Starts # {})
  /\ fwd_steps' = IF Starts # {} THEN Break - 1 ELSE 0
  /\ popcnt' = Cardinality(ExitsBefore(Break))
  /\ found_function' = FALSE
  /\ phase' = "pop"
  /\ UNCHANGED <<machineVars, protobuf, profVars>>

\* while (popcnt--): the last test leaves it at -1, which nobody reads.
PopsLeft_OffByOne == popcnt >= 0
PopsLeft == popcnt > 0

PopOne ==
  /\ phase = "pop" /\ PopsLeft
  /\ popcnt' = popcnt - 1
  /\ IF CanPop(view)
       THEN view' = Popped(view) /\ marks' = marks + 1 /\ UNCHANGED popped_empty
       ELSE popped_empty' = TRUE /\ UNCHANGED <<view, marks>>
  /\ UNCHANGED <<machineVars, phase, protobuf, fwd_steps, rewind, found_function,
                 timestamp_, packets, log>>

\* How far the fast forward goes: INTERLEAVE short of the start.
FastFwd_Half == IF fwd_steps < INTERLEAVE THEN 0 ELSE fwd_steps - INTERLEAVE \div 2
FastFwd == IF fwd_steps < INTERLEAVE THEN 0 ELSE fwd_steps - INTERLEAVE

\* deserialize_proto, clear_run_trace, run_for(fastfwd_steps).
Rewind_NoClear ==
  /\ phase = "pop" /\ ~ PopsLeft /\ rewind
  /\ m' = protobuf
  /\ rf' = RunFor(FastFwd)
  /\ phase' = "ffwd"
  /\ UNCHANGED <<code, timed, exited, in_wfi, trace, protobuf, scanVars, profVars>>
Rewind ==
  /\ phase = "pop" /\ ~ PopsLeft /\ rewind
  /\ m' = protobuf
  /\ trace' = <<>>
  /\ rf' = RunFor(FastFwd)
  /\ phase' = "ffwd"
  /\ UNCHANGED <<code, timed, exited, in_wfi, protobuf, scanVars, profVars>>

\* The top of the do-while: a registered start at the pc runs its hook (which
\* stamps its packet with the profiler's timestamp), then run_for(1).
LookAndStep ==
  LET insn == InsnAt(m.at, m.isr) IN
  /\ phase = "look"
  /\ IF insn.kind = "start"
       THEN /\ view' = Hooked(view, insn)
            /\ packets' = Append(packets, [stamp |-> timestamp_,
                                           truly |-> Len(log) + Len(trace)])
            /\ marks' = marks + 1
            /\ found_function' = TRUE
       ELSE UNCHANGED <<view, packets, marks, found_function>>
  /\ rf' = RunFor(1)
  /\ phase' = "step"
  /\ UNCHANGED <<code, timed, m, exited, in_wfi, trace, protobuf, popcnt, fwd_steps, rewind,
                 timestamp_, log, popped_empty>>

\* update_timestamp: by the entries of the trace that is submitted.
Advanced_ByBatch == timestamp_ + INSN_PER_CKPT
Advanced == timestamp_ + Len(trace)

\* The end of the loop body: advance the timestamp, submit the trace.
Submit ==
  /\ phase = "submit" \/ (phase = "pop" /\ ~ PopsLeft /\ ~ rewind)
  /\ timestamp_' = Advanced
  /\ log' = log \o trace
  /\ phase' = "head"
  /\ UNCHANGED <<machineVars, protobuf, scanVars, view, packets, marks, popped_empty>>

\* The loop ends when the target has; the logger is flushed and stopped.
Finish ==
  /\ phase = "head" /\ ~ target_running
  /\ phase' = "done"
  /\ UNCHANGED <<machineVars, protobuf, scanVars, profVars>>

RunForStep == HandleTohost \/ StepTarget \/ Execute \/ Return

Next ==
  /\ ~ popped_empty
  /\ RunForStep \/ TakeCheckpoint \/ Scan \/ PopOne \/ Rewind \/ LookAndStep \/ Submit \/ Finish

Spec == Init /\ [][Next]_vars

\* run() is one thread that nothing blocks.
FairSpec == Spec /\ WF_vars(Next)

-----------------------------------------------------------------------------

(* Types of the variables. *)
Entry == (1 .. Len(code) + Padding + INSN_PER_CKPT) \X (0 .. Len(Isr)) \X (1 .. 2)

TypeOK ==
  /\ timed \in BOOLEAN /\ code \in Programs \union TimedPrograms
  /\ \A s \in {m, protobuf} :
       /\ s.at \in 1 .. Len(code) + Padding + INSN_PER_CKPT /\ s.isr \in 0 .. Len(Isr)
       /\ s.mtime \in 0 .. Deadline /\ s.taken \in BOOLEAN
  /\ exited \in BOOLEAN /\ in_wfi \in BOOLEAN /\ popped_empty \in BOOLEAN
  /\ rf.steps \in Nat /\ rf.tot \in Nat /\ rf.left \in 0 .. INTERLEAVE
  /\ phase \in {"head", "run", "scan", "pop", "ffwd", "look", "step", "submit", "done"}
  /\ popcnt \in Nat /\ fwd_steps \in Nat /\ marks \in Nat /\ timestamp_ \in Nat
  /\ rewind \in BOOLEAN /\ found_function \in BOOLEAN
  /\ trace \in Seq(Entry) /\ log \in Seq(Entry)
  /\ view.curpid \in Pids /\ DOMAIN view.stacks = Pids

\* With no timer interrupt.  Each execution of a registered pc is accounted
\* for once and in program order, though the batch runs it a second time.
Abstract == INSTANCE Interception
  WITH Programs <- Programs \union TimedPrograms,
       marks <- IF timed THEN 0 ELSE marks,
       view <- IF timed THEN EmptyView(FirstPid) ELSE view
AccountedOnce == Abstract!Spec

(* With no timer: between two batches, the current PID and the call stacks are what the   *)
(* instructions of the submitted traces give when intercepted one by one:  *)
(* the pops counted in the first execution fit the second, and neither the *)
(* fast forward nor the single steps lose or repeat a hook; and no pop     *)
(* finds an empty call stack.  An entry that repeats an instruction does   *)
(* not count.                                                              *)
Executed == [i \in DOMAIN log |-> IF log[i][3] = 1 THEN InsnOf(log[i]) ELSE Plain(1, "no")]
ProfileMatchesLog ==
  timed \/
  /\ ~ popped_empty
  /\ phase \in {"head", "done"} => view = ViewAfter(EmptyView(FirstPid), Executed)

(* The fast forward, which counts trace entries but asks the processor for *)
(* instructions, never runs past the place of the start in the batch; nor  *)
(* do, with no timer, the single steps until the start is found.           *)
FastFwdStopsShort ==
  phase = "ffwd" \/ (phase = "look" /\ ~ found_function /\ ~ timed) => Len(trace) <= fwd_steps

(* The timestamp of an event is never later than the event and, with no    *)
(* timer, less than a batch and an interleave early.  With one the replay  *)
(* may execute more than the batch did: its clock is slower when traps cut *)
(* steps short.                                                            *)
StampBound ==
  \A i \in DOMAIN packets :
    /\ packets[i].stamp <= packets[i].truly
    /\ timed \/ packets[i].truly < packets[i].stamp + INSN_PER_CKPT + INTERLEAVE

(* The traces submitted are one execution of the program: no instruction   *)
(* of an abandoned batch is left in them and none of the replay is missing,*)
(* and the machine goes on where they end, with the interrupt taken at any *)
(* point of the replay.                                                    *)
Follow(e) ==
  CASE e[3] < InsnOf(e).entries -> {<<e[1], e[2], e[3] + 1>>}
    [] e[3] = InsnOf(e).entries /\ e[2] = 0 -> {<<e[1] + 1, 0, 1>>, <<e[1] + 1, 1, 1>>}
    [] OTHER -> {<<e[1], IF e[2] < Len(Isr) THEN e[2] + 1 ELSE 0, 1>>}
LogFollowsProgram ==
  LET path == IF phase = "head" THEN Append(log, <<m.at, m.isr, 1>>) ELSE log
  IN  /\ path # <<>> => path[1] \in {<<1, 0, 1>>, <<1, 1, 1>>}
      /\ \A i \in 1 .. Len(path) - 1 : path[i + 1] \in Follow(path[i])

(* With no timer, the run ends once the target has asked to exit. *)
Terminates == <>(timed \/ phase = "done")

(* Between two batches the events submitted are the registered starts in   *)
(* the submitted traces, each once and at its place: with no timer and no  *)
(* WFI, the instruction a hook was run for is the next one to execute.     *)
EventsAreTheStarts ==
  phase = "head" /\ ~ timed =>
    LET starts == {i \in DOMAIN log : log[i][3] = 1 /\ InsnOf(log[i]).kind = "start"}
    IN  /\ {packets[i].truly + 1 : i \in DOMAIN packets} = starts
        /\ Len(packets) = Cardinality(starts)

\* What ProfileMatchesLog and EventsAreTheStarts need of the programs: with no
\* timer nothing wakes a hart that waits; the target exits more than a batch
\* after its last start (the run rewind_loop_exit shows what happens if not);
\* and an exit is only reached inside an intercepted function.
NoWfi == \A c \in Programs : \A i \in 1 .. Len(c) : c[i].ends # "wfi"
LongPadding == Padding >= INSN_PER_CKPT
Nested == \A c \in Programs : WellNested(EmptyView(FirstPid), c)
=============================================================================
