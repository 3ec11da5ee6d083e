----------------------------- MODULE GangedStep -----------------------------
(***************************************************************************)
(* sim_lib_t::ganged_step (spike-top/sim_lib.cc): one line of the RTL      *)
(* trace is applied to Spike's hart.  A line is                            *)
(*   [val, except, intrpt, pc, cause, wdata].                              *)
(* The hart with id 0 is the only one, as in the callers.                  *)
(*                                                                         *)
(* The operators with a suffix (Lowered_NoTimer) are faulty variants.      *)
(***************************************************************************)
EXTENDS HartModel, GangedDevices, FiniteSets

CONSTANTS
  DEVICE_TICK_PERIOD,
  DeviceValues        \* what Spike's own devices may return to a load

ASSUME StepAssumption ==
  /\ DEVICE_TICK_PERIOD \in Nat \ {0}
  /\ \A c \in Programs : \A i \in 1 .. Len(c) : c[i].op = "request" => c[i].arg \in Devices

VARIABLES
  spike,      \* Spike's hart
  devs,       \* Spike's devices
  processor_step_cnt,  \* modulo DEVICE_TICK_PERIOD
  failed      \* ganged_step has returned false

stepVars == <<spike, devs, processor_step_cnt, failed>>

StepInit ==
  /\ spike = ResetHart
  /\ devs = [interrupt_vector |-> {}, working |-> {}]
  /\ processor_step_cnt = 0 /\ failed = FALSE

AsksPlic(line) == line.intrpt /\ line.cause = "seip"

\* The devices tick if none has an interrupt for the SEIP of the trace ...
DevsAsked(line) ==
  IF AsksPlic(line) /\ ~ alert_core_external_interrupt(devs) THEN Ticked(devs) ELSE devs

\* ... and with every DEVICE_TICK_PERIOD-th step.
DevsTicked(line) ==
  IF processor_step_cnt = 0 THEN Ticked(DevsAsked(line)) ELSE DevsAsked(line)

\* "Spike does not have any pending interrupts", "Unknown interrupt".
Refused(line) ==
  \/ AsksPlic(line) /\ ~ alert_core_external_interrupt(DevsAsked(line))
  \/ line.intrpt /\ line.cause \notin {"ssip", "msip", "stip", "mtip", "seip", "debug"}

\* The interrupt of the line, written into mip by the back door; STIP and SSIP
\* are left to the hart, whose own CSR writes raise them.
Forced(line) ==
  IF line.intrpt /\ line.cause \in {"msip", "mtip", "seip"}
    THEN [spike EXCEPT !.mip = @ \union {line.cause}] ELSE spike

\* proc->step(1) (Spike): an interrupt, or an instruction and what the devices
\* it addresses make of it.  A load gets whatever Spike's device returns, v.
Interrupted(line) == Pending(Forced(line)) # {}
HartStepped(line, v) ==
  LET h == Forced(line)
      insn == InsnOf(h)
  IN  CASE Interrupted(line) -> Trapped(h, First(Pending(h)))
        [] ~ Interrupted(line) /\ insn.op = "complete" ->
             [Executed(h, v) EXCEPT !.mip = PlicStored(@)]
        [] ~ Interrupted(line) /\ insn.op = "msip" ->
             [Executed(h, v) EXCEPT !.mip = ClintStored(@, insn.arg)]
        [] OTHER -> Executed(h, v)
DevsStepped(line) ==
  LET d == DevsTicked(line)
      insn == InsnOf(spike)
  IN  CASE ~ Interrupted(line) /\ insn.op = "request" -> [d EXCEPT !.working = @ \union {insn.arg}]
        [] ~ Interrupted(line) /\ insn.op = "serve" -> lower_external_interrupt(d, spike.x)
        [] OTHER -> d

\* The stores Spike has logged: those to the CLINT lower its interrupts.
Lowered_NoTimer == IF InsnOf(spike).op = "msip" /\ InsnOf(spike).arg = 0 THEN {"msip"} ELSE {}
Lowered ==
  CASE InsnOf(spike).op = "msip" /\ InsnOf(spike).arg = 0 -> {"msip"}
    [] InsnOf(spike).op = "mtimecmp" -> {"mtip"}
    [] OTHER -> {}

\* The registers Spike has written get the RTL's value.
WrittenBack_Not(h, line) == [h EXCEPT !.mip = @ \ Lowered]
WrittenBack(h, line) ==
  [h EXCEPT !.mip = @ \ Lowered, !.x = IF WritesX(InsnOf(spike)) THEN line.wdata ELSE @]

Retires(line) == line.val /\ ~ line.except
Mismatch(line) == Retires(line) /\ pc(spike) # line.pc

\* For a line with val, except or intrpt; the callers skip the others.
ganged_step(line) ==
  \/ /\ Refused(line)
     /\ devs' = DevsAsked(line) /\ failed' = TRUE
     /\ UNCHANGED <<spike, processor_step_cnt>>
  \/ /\ ~ Refused(line)
     /\ devs' = DevsStepped(line)
     /\ processor_step_cnt' = (processor_step_cnt + 1) % DEVICE_TICK_PERIOD
     /\ failed' = Mismatch(line)
     /\ \E v \in DeviceValues :
          spike' = LET h == HartStepped(line, v)
                   IN  IF Retires(line) /\ ~ Mismatch(line) THEN WrittenBack(h, line) ELSE h
=============================================================================
