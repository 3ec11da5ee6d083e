----------------------------- MODULE HartModel -----------------------------
(***************************************************************************)
(* The hart that the RTL and Spike both simulate, as far as the lockstep   *)
(* mode can tell: it executes a program, takes interrupts by their         *)
(* priority, and runs the handler of the cause.  The code of the kernel    *)
(* and the firmware, the RTL and Spike's processor_t are not in src/.      *)
(*                                                                         *)
(* What an instruction does, by its op and arg:                            *)
(*   "none"            nothing that shows                                  *)
(*   "load"            x := what a device or the memory returns            *)
(*   "skip"            jumps over the next instruction unless x is 0       *)
(*   "ecall"           raises an exception                                 *)
(*   "request"         hands work to device arg                            *)
(*   "msip"            stores arg to the CLINT's msip                      *)
(*   "mtimecmp"        stores a later deadline to the CLINT                *)
(*   "claim"           x := the device whose interrupt the PLIC gives      *)
(*   "serve"           accesses device x, which lowers its interrupt       *)
(*   "complete"        stores to the PLIC                                  *)
(*   "defer"           the firmware masks the timer and raises STIP        *)
(*   "resume"          the firmware lowers STIP and unmasks the timer      *)
(***************************************************************************)
EXTENDS ProfilerState

CONSTANT Programs   \* the programs the target may run

\* What a program may hold, besides registered instructions, which do nothing
\* else that shows.
ProgramOps == {"none", "load", "skip", "ecall", "request", "msip"}

ASSUME ProgramAssumption ==
  \A c \in Programs :
    /\ c \in Seq(Insn)
    /\ \A i \in 1 .. Len(c) :
         /\ c[i].op \in ProgramOps
         /\ c[i].op = "msip" => c[i].arg = 1
         /\ c[i].kind # "plain" => c[i].op = "none"

VARIABLE code \* the program being run

\* The causes, by descending priority.
Priority == <<"msip", "mtip", "seip", "stip">>
Interrupts == {Priority[i] : i \in DOMAIN Priority}
Causes == Interrupts \union {"ecall"}

\* The handlers of the kernel and of the firmware.  The timer's belongs to the
\* firmware, which hands it on to the kernel as STIP; the kernel's handler has
\* the firmware set the next deadline.
Handler ==
  [msip  |-> <<Op("msip", 0)>>,
   mtip  |-> <<Op("defer", 0)>>,
   seip  |-> <<Op("claim", 0), Op("serve", 0), Op("complete", 0)>>,
   stip  |-> <<Op("mtimecmp", 0), Op("resume", 0)>>,
   ecall |-> <<Op("load", 0)>>]

\* at: next instruction; isr: place in the handler of cause, 0 outside it; x: a
\* register.  The reset vector's instruction is number 0.
ResetHart == [at |-> 0, isr |-> 0, cause |-> "ecall", x |-> 0, mip |-> {}, mie |-> Interrupts]

pc(h) == <<h.at, h.isr, IF h.isr = 0 THEN "ecall" ELSE h.cause>>

InsnAt(place) ==
  CASE place[2] > 0 -> Handler[place[3]][place[2]]
    [] place[2] = 0 /\ place[1] \in 1 .. Len(code) -> code[place[1]]
    [] OTHER -> Plain(1, "no")
InsnOf(h) == InsnAt(pc(h))

\* Interrupts are enabled outside the handlers.
Pending(h) == IF h.isr = 0 THEN h.mip \intersect h.mie ELSE {}
First(causes) == Priority[CHOOSE i \in DOMAIN Priority :
                            Priority[i] \in causes /\ \A j \in 1 .. i - 1 : Priority[j] \notin causes]

Trapped(h, cause) == [h EXCEPT !.isr = 1, !.cause = cause]

\* mret returns to the interrupted instruction, or past the ecall.
Advanced(h, n) ==
  CASE h.isr = 0 -> [h EXCEPT !.at = @ + n]
    [] h.isr > 0 /\ h.isr < Len(Handler[h.cause]) -> [h EXCEPT !.isr = @ + 1]
    [] OTHER -> [h EXCEPT !.isr = 0, !.at = IF h.cause = "ecall" THEN @ + 1 ELSE @]

WritesX(insn) == insn.op \in {"load", "claim"}

\* The next instruction is executed; a load returns v.
Executed(h, v) ==
  LET insn == InsnOf(h)
      next == Advanced(h, IF insn.op = "skip" /\ h.x # 0 THEN 2 ELSE 1)
  IN  CASE insn.op = "ecall"  -> Trapped(h, "ecall")
        [] WritesX(insn)      -> [next EXCEPT !.x = v]
        [] insn.op = "defer"  -> [next EXCEPT !.mie = @ \ {"mtip"}, !.mip = @ \union {"stip"}]
        [] insn.op = "resume" -> [next EXCEPT !.mie = @ \union {"mtip"}, !.mip = @ \ {"stip"}]
        [] OTHER              -> next
=============================================================================
