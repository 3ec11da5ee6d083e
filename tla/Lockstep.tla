------------------------------ MODULE Lockstep ------------------------------
(***************************************************************************)
(* profiler_t::run_from_trace (profiler/profiler.cc): the mode that steps  *)
(* the functional simulator along the RTL trace (GangedStep).  The trace   *)
(* arrives in files of FileLen lines (TraceReader delivers them in order). *)
(* A line is a bubble, an instruction that retires, one that raises an     *)
(* exception, or an interrupt that is taken.  After each step the profiler *)
(* looks at the pc Spike's hart is now at.                                 *)
(*                                                                         *)
(* The RTL executes a program, then Padding plain instructions, of which   *)
(* the second writes tohost, and then the trace is over.  The timer is due *)
(* once; the hardware's interrupts are taken some time after they rise, and*)
(* those the software raises are taken at once.                            *)
(*                                                                         *)
(* The operators with a suffix (Look_StartOnly) are faulty variants.       *)
(***************************************************************************)
EXTENDS GangedStep

CONSTANTS
  FirstPid, Padding,
  InterruptAt,          \* kinds of instruction an interrupt may come at
  FileLen,              \* lines of a trace file
  TOHOST_CHECK_PERIOD,  \* 0xfff in the code: a mask
  MaxBubbles,           \* bound: lines on which nothing retires
  LoadValues            \* what the RTL's memory and devices return

ASSUME LockstepAssumption ==
  /\ Padding \in Nat /\ FileLen \in Nat \ {0} /\ MaxBubbles \in Nat
  /\ TOHOST_CHECK_PERIOD \in Nat /\ InterruptAt \subseteq {"plain", "start", "exit"}
  /\ FirstPid \in Pids

VARIABLES
  rtl,      \* the RTL's hart; its mip holds what the RTL's devices raise
  asked,    \* devices that were handed work and not claimed from the PLIC
  unserved, \* history: devices that were handed work and not accessed since
  early,    \* history: a device was accessed before Spike's had finished
  bubbles,
  lines,    \* lines left in the buffer
  cnt,      \* cnt & TOHOST_CHECK_PERIOD
  exited,   \* exitcode # 0
  phase,    \* wait (for can_consume), consume, done
  view, marks, packets,
  log       \* history: the places of the registered instructions that have retired

rtlVars == <<code, rtl, asked, unserved, early, bubbles, log>>
profVars == <<view, marks, packets>>
vars == <<rtlVars, stepVars, lines, cnt, exited, phase, profVars>>

Init ==
  /\ code \in Programs
  /\ rtl = [ResetHart EXCEPT !.mip = {"mtip"}] /\ StepInit
  /\ asked = {} /\ unserved = {} /\ early = FALSE
  /\ bubbles = 0 /\ log = <<>>
  /\ lines = 0 /\ cnt = 0 /\ exited = FALSE /\ phase = "wait"
  /\ view = EmptyView(FirstPid) /\ marks = 0 /\ packets = <<>>

TraceOver == rtl.at > Len(code) + Padding
tohost == spike.at > Len(code) + 2

\* The next file is there: can_consume() and the lines its buffer holds.
Consume ==
  /\ phase = "wait" /\ ~ exited /\ ~ TraceOver
  /\ lines' = FileLen /\ phase' = "consume"
  /\ UNCHANGED <<rtlVars, stepVars, cnt, exited, profVars>>

\* if ((cnt++ & TOHOST_CHECK_PERIOD) == 0): only then a request is seen.
CheckTohost_NoMask ==
  /\ cnt' = cnt + 1
  /\ exited' = (exited \/ (cnt = 0 /\ tohost))
CheckTohost_Forgets ==
  /\ cnt' = (cnt + 1) % (TOHOST_CHECK_PERIOD + 1)
  /\ exited' = (cnt = 0 /\ tohost)
CheckTohost ==
  /\ cnt' = (cnt + 1) % (TOHOST_CHECK_PERIOD + 1)
  /\ exited' = (exited \/ (cnt = 0 /\ tohost))

\* The intercepted pc: its hook runs before its instruction is stepped.  The
\* pop_back of an empty call stack is undefined: the model stops there.
Look_StartOnly(place) ==
  LET insn == InsnAt(place) IN
  IF insn.kind # "start" THEN UNCHANGED profVars
  ELSE /\ view' = Hooked(view, insn)
       /\ marks' = marks + 1
       /\ packets' = Append(packets, place)
Look(place) ==
  LET insn == InsnAt(place) IN
  IF insn.kind = "plain" THEN UNCHANGED profVars
  ELSE /\ insn.kind = "exit" => CanPop(view)
       /\ view' = Intercepted(view, insn)
       /\ marks' = marks + 1
       /\ packets' = IF insn.kind = "start" THEN Append(packets, place) ELSE packets

\* A line with none of val, except and intrpt.
Bubble_Looks ==
  /\ bubbles < MaxBubbles
  /\ bubbles' = bubbles + 1
  /\ Look(pc(spike))
  /\ UNCHANGED <<code, rtl, asked, unserved, early, log, stepVars, cnt, exited>>
Bubble ==
  /\ bubbles < MaxBubbles
  /\ bubbles' = bubbles + 1
  /\ UNCHANGED <<code, rtl, asked, unserved, early, log, stepVars, cnt, exited, profVars>>

-----------------------------------------------------------------------------
\* The RTL (external): what a line of its trace says, and its devices.

SoftwarePending == "stip" \in Pending(rtl)

Line(val, except, intrpt, cause, wdata) ==
  [val |-> val, except |-> except, intrpt |-> intrpt, pc |-> pc(rtl),
   cause |-> cause, wdata |-> wdata]

Retirement(v) == Line(TRUE, FALSE, FALSE, "none", v)

\* What the next instruction may load.
Loaded == CASE InsnOf(rtl).op = "load" -> LoadValues
            [] InsnOf(rtl).op = "claim" -> asked
            [] OTHER -> {0}

\* The RTL's mip after it has executed its next instruction.
Mip(h, insn, waiting) ==
  LET msip == CASE insn.op = "msip" /\ insn.arg = 1 -> h.mip \union {"msip"}
                [] insn.op = "msip" /\ insn.arg = 0 -> h.mip \ {"msip"}
                [] insn.op = "mtimecmp" -> h.mip \ {"mtip"}
                [] OTHER -> h.mip
  IN  IF waiting = {} THEN msip \ {"seip"} ELSE msip \union {"seip"}

RtlExecutes(v) ==
  LET insn == InsnOf(rtl) IN
  /\ asked' = CASE insn.op = "request" -> asked \union {insn.arg}
                [] insn.op = "claim" -> asked \ {v}
                [] OTHER -> asked
  /\ unserved' = CASE insn.op = "request" -> unserved \union {insn.arg}
                   [] insn.op = "serve" -> unserved \ {rtl.x}
                   [] OTHER -> unserved
  /\ early' = (early \/ (insn.op = "serve" /\ rtl.x \in DevsTicked(Retirement(v)).working))
  /\ LET h == Executed(rtl, v) IN rtl' = [h EXCEPT !.mip = Mip(h, insn, asked')]

-----------------------------------------------------------------------------
\* The rest of the loop's body: the check, ganged_step, the look.

Stepped(line) ==
  /\ CheckTohost
  /\ ganged_step(line)
  /\ IF failed' THEN UNCHANGED profVars ELSE Look(pc(spike'))
  /\ UNCHANGED <<code, bubbles>>

Retire ==
  /\ ~ SoftwarePending /\ InsnOf(rtl).op # "ecall"
  /\ \E v \in Loaded : RtlExecutes(v) /\ Stepped(Retirement(v))
  /\ log' = IF InsnOf(rtl).kind = "plain" THEN log ELSE Append(log, pc(rtl))

\* The instruction at the pc raises an exception and does not retire.
TakeException ==
  /\ ~ SoftwarePending /\ InsnOf(rtl).op = "ecall"
  /\ rtl' = Executed(rtl, 0)
  /\ Stepped(Line(FALSE, TRUE, FALSE, "none", 0))
  /\ UNCHANGED <<asked, unserved, early, log>>

\* The instruction at the pc does not execute.
TakeInterrupt ==
  \E cause \in Pending(rtl) :
    /\ InsnOf(rtl).kind \in InterruptAt
    /\ rtl' = Trapped(rtl, cause)
    /\ Stepped(Line(FALSE, FALSE, TRUE, cause, 0))
    /\ UNCHANGED <<asked, unserved, early, log>>

\* One turn of while (!buf->empty()).
Turn ==
  /\ phase = "consume" /\ lines > 0 /\ ~ TraceOver
  /\ Bubble \/ Retire \/ TakeException \/ TakeInterrupt
  /\ lines' = lines - 1
  /\ UNCHANGED phase

\* done_consume and pop_buffer, then the test of the outer loop.
PopBuffer ==
  /\ phase = "consume" /\ (lines = 0 \/ TraceOver)
  /\ phase' = "wait"
  /\ UNCHANGED <<rtlVars, stepVars, lines, cnt, exited, profVars>>

\* The packets are flushed and the logger stopped.
Finish ==
  /\ phase = "wait" /\ exited
  /\ phase' = "done"
  /\ UNCHANGED <<rtlVars, stepVars, lines, cnt, exited, profVars>>

Next == ~ failed /\ (Consume \/ Turn \/ PopBuffer \/ Finish)

Spec == Init /\ [][Next]_vars

\* One thread; the reader delivers every file of the trace (TraceReader).
FairSpec == Spec /\ WF_vars(Next)

-----------------------------------------------------------------------------

(* Types of the variables. *)
TypeOK ==
  /\ code \in Programs
  /\ \A h \in {rtl, spike} :
       /\ h.at \in 0 .. Len(code) + Padding + 2 /\ h.isr \in Nat /\ h.cause \in Causes
       /\ h.mip \subseteq Interrupts /\ h.mie \subseteq Interrupts
       /\ h.x \in LoadValues \union Devices \union {0}
  /\ \A s \in {asked, unserved, devs.interrupt_vector, devs.working} : s \subseteq Devices
  /\ processor_step_cnt \in 0 .. DEVICE_TICK_PERIOD - 1
  /\ failed \in BOOLEAN /\ early \in BOOLEAN
  /\ bubbles \in 0 .. MaxBubbles /\ lines \in 0 .. FileLen
  /\ cnt \in 0 .. TOHOST_CHECK_PERIOD /\ exited \in BOOLEAN
  /\ phase \in {"wait", "consume", "done"}
  /\ view.curpid \in Pids /\ marks \in Nat

(* No line fails, and after each of them Spike's hart is where the RTL's   *)
(* is, with its register and its enabled interrupts: although Spike's      *)
(* devices answer otherwise, and its hart takes an interrupt only when its *)
(* own mip and mie say so.                                                 *)
InLockstep ==
  /\ ~ failed /\ pc(spike) = pc(rtl)
  /\ spike.x = rtl.x /\ spike.mie = rtl.mie

(* An interrupt the trace has raised in Spike is lowered again before its  *)
(* handler returns: outside the handlers no hardware interrupt is pending, *)
(* for Spike would take it at the next step, whatever the trace says.      *)
NothingPendingUnasked == Pending(spike) \subseteq {"stip"}

(* The PLIC knows of every device that has asked and was not served, now   *)
(* or when the device ticks: an SEIP of the trace is never refused.  As    *)
(* long as every device was accessed after Spike's own had finished, it    *)
(* knows of no other.                                                      *)
Known == devs.interrupt_vector \union devs.working
VectorCovers == unserved \subseteq Known /\ (~ early => Known = unserved)

(* When no interrupt comes at a registered pc, the lockstep mode keeps the *)
(* same promise as the loop with checkpoints (RewindLoop): each registered *)
(* pc once, in program order.                                              *)
Abstract == INSTANCE Interception
AccountedOnce == Abstract!Spec

(* The run ends when the trace goes on for long enough after the write to  *)
(* tohost for a check to see it.                                           *)
Terminates == <>(phase = "done")

(* An event is recorded for each registered start that retires and for the *)
(* one the hart is at, in their order, also across traps.                  *)
StartsIn(places) ==
  LET sel[n \in 0 .. Len(places)] ==
        IF n = 0 THEN <<>>
        ELSE IF InsnAt(places[n]).kind = "start" THEN Append(sel[n - 1], places[n]) ELSE sel[n - 1]
  IN  sel[Len(places)]
EventsAreTheStarts == packets = StartsIn(Append(log, pc(rtl)))

\* What AccountedOnce and EventsAreTheStarts need of the target: that traps are
\* not taken at a registered pc, which is looked at again when they return, and
\* that no program jumps over one.
JumpsOverPlain(c) ==
  \A i \in 1 .. Len(c) : c[i].op = "skip" => i = Len(c) \/ c[i + 1].kind = "plain"
NoneSkipped == \A c \in Programs : JumpsOverPlain(c)
TrapsAtPlain == InterruptAt \subseteq {"plain"}
=============================================================================
