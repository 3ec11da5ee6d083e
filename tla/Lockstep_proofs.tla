-------------------------- MODULE Lockstep_proofs --------------------------
(***************************************************************************)
(* Proofs about Lockstep, for any programs, devices and trace files: the   *)
(* inductive LockstepInv gives that Spike's hart follows the RTL's, that   *)
(* no hardware interrupt is left pending in it, and that the PLIC knows    *)
(* the devices that have asked.                                            *)
(***************************************************************************)
EXTENDS Lockstep, ProfilerState_proofs

\* Where a hart can be, and what it can hold.
Places == {<<0, c>> : c \in Causes} \union UNION {{<<i, c>> : i \in DOMAIN Handler[c]} : c \in Causes}
HartOK(h) ==
  /\ h \in [at : Nat, isr : Nat, cause : Causes, x : LoadValues \union Devices \union {0},
            mip : SUBSET Interrupts, mie : SUBSET Interrupts]
  /\ <<h.isr, h.cause>> \in Places

\* The harts differ in their mip only, and not in what the software raises.
SameHart ==
  /\ spike = [rtl EXCEPT !.mip = spike.mip]
  /\ "stip" \in spike.mip <=> "stip" \in rtl.mip

\* An interrupt of the hardware is pending in Spike only where its handler
\* has still to lower it, or masked.
At(cause, i) == spike.cause = cause /\ spike.isr = i
LoweredInTime ==
  /\ "msip" \in spike.mip => At("msip", 1)
  /\ "seip" \in spike.mip => \E i \in 1 .. 3 : At("seip", i)
  /\ "mtip" \in spike.mip => At("mtip", 1) \/ "mtip" \notin spike.mie
  /\ At("stip", 2) => "mtip" \notin spike.mip

\* The PLIC of the RTL and the devices.
PlicAsks ==
  /\ asked \subseteq unserved
  /\ "seip" \in rtl.mip <=> asked # {}
  /\ rtl.cause = "seip" /\ rtl.isr = 2 => rtl.x \in Devices \ asked

LockstepInv ==
  /\ code \in Programs /\ ~ failed /\ HartOK(rtl) /\ HartOK(spike)
  /\ asked \subseteq Devices /\ unserved \subseteq Devices
  /\ devs \in [interrupt_vector : SUBSET Devices, working : SUBSET Devices]
  /\ SameHart /\ LoweredInTime /\ PlicAsks /\ unserved \subseteq Known

-----------------------------------------------------------------------------
\* The handlers and the program.

(* The handlers, by their cause.                                           *)
LEMMA HandlerFacts ==
  /\ Handler["msip"] = <<Op("msip", 0)>>
  /\ Handler["mtip"] = <<Op("defer", 0)>>
  /\ Handler["seip"] = <<Op("claim", 0), Op("serve", 0), Op("complete", 0)>>
  /\ Handler["stip"] = <<Op("mtimecmp", 0), Op("resume", 0)>>
  /\ Handler["ecall"] = <<Op("load", 0)>>
  BY DEF Handler

(* Their lengths.                                                          *)
LEMMA HandlerLengths ==
  /\ Len(Handler["msip"]) = 1 /\ DOMAIN Handler["msip"] = 1 .. 1
  /\ Len(Handler["mtip"]) = 1 /\ DOMAIN Handler["mtip"] = 1 .. 1
  /\ Len(Handler["seip"]) = 3 /\ DOMAIN Handler["seip"] = 1 .. 3
  /\ Len(Handler["stip"]) = 2 /\ DOMAIN Handler["stip"] = 1 .. 2
  /\ Len(Handler["ecall"]) = 1 /\ DOMAIN Handler["ecall"] = 1 .. 1
  BY HandlerFacts

(* The interrupts are the four of the priority list, the causes one more.  *)
LEMMA CauseFacts ==
  /\ Interrupts = {"msip", "mtip", "seip", "stip"}
  /\ Causes = {"msip", "mtip", "seip", "stip", "ecall"}
  <1>1. DOMAIN Priority = 1 .. 4
    BY DEF Priority
  <1>2. Priority[1] = "msip" /\ Priority[2] = "mtip" /\ Priority[3] = "seip" /\ Priority[4] = "stip"
    BY DEF Priority
  <1>3. 1 .. 4 = {1, 2, 3, 4}
    OBVIOUS
  <1> QED BY <1>1, <1>2, <1>3 DEF Interrupts, Causes

(* A plain instruction has no op.                                          *)
LEMMA PlainFact == Plain(1, "no").op = "none"
  BY DEF Plain

(* What Op makes of its arguments.                                         *)
LEMMA OpFacts ==
  ASSUME NEW op, NEW arg
  PROVE  Op(op, arg).op = op /\ Op(op, arg).arg = arg
  BY DEF Op, Plain

(* The places a hart can be at, one by one.                                *)
LEMMA PlaceFacts ==
  ASSUME NEW i, NEW c
  PROVE  <<i, c>> \in Places <=>
           \/ i = 0 /\ c \in Causes
           \/ c = "msip" /\ i = 1
           \/ c = "mtip" /\ i = 1
           \/ c = "seip" /\ i \in {1, 2, 3}
           \/ c = "stip" /\ i \in {1, 2}
           \/ c = "ecall" /\ i = 1
  <1>1. <<i, c>> \in Places <=> (i = 0 /\ c \in Causes) \/ (c \in Causes /\ i \in DOMAIN Handler[c])
    BY DEF Places
  <1>2. 1 .. 1 = {1} /\ 1 .. 2 = {1, 2} /\ 1 .. 3 = {1, 2, 3}
    OBVIOUS
  <1> QED BY <1>1, <1>2, HandlerLengths, CauseFacts

(* The instruction at a place: the program's outside the handlers, and     *)
(* that of the cause in them.                                              *)
LEMMA InsnFacts ==
  ASSUME NEW h, HartOK(h), code \in Programs
  PROVE  /\ h.isr = 0 => /\ InsnOf(h).op \in ProgramOps
                         /\ InsnOf(h).op = "msip" => InsnOf(h).arg = 1
                         /\ InsnOf(h).op = "request" => InsnOf(h).arg \in Devices
         /\ h.isr # 0 => /\ InsnOf(h) = Handler[h.cause][h.isr]
                         /\ h.cause = "msip" => h.isr = 1 /\ InsnOf(h).op = "msip" /\ InsnOf(h).arg = 0
                         /\ h.cause = "mtip" => h.isr = 1 /\ InsnOf(h).op = "defer"
                         /\ h.cause = "seip" => \/ h.isr = 1 /\ InsnOf(h).op = "claim"
                                                \/ h.isr = 2 /\ InsnOf(h).op = "serve"
                                                \/ h.isr = 3 /\ InsnOf(h).op = "complete"
                         /\ h.cause = "stip" => \/ h.isr = 1 /\ InsnOf(h).op = "mtimecmp"
                                                \/ h.isr = 2 /\ InsnOf(h).op = "resume"
                         /\ h.cause = "ecall" => h.isr = 1 /\ InsnOf(h).op = "load"
  <1>1. h.isr \in Nat /\ h.at \in Nat /\ h.cause \in Causes /\ <<h.isr, h.cause>> \in Places
    BY DEF HartOK
  <1>2. CASE h.isr = 0
    <2>1. pc(h)[1] = h.at /\ pc(h)[2] = 0
      BY <1>2 DEF pc
    <2>2. CASE h.at \in 1 .. Len(code)
      <3>1. InsnOf(h) = code[h.at]
        BY <2>1, <2>2 DEF InsnOf, InsnAt
      <3> QED BY <1>2, <3>1, <2>2, ProgramAssumption, StepAssumption
    <2>3. CASE h.at \notin 1 .. Len(code)
      <3>1. InsnOf(h) = Plain(1, "no")
        BY <2>1, <2>3 DEF InsnOf, InsnAt
      <3>2. InsnOf(h).op = "none"
        BY <3>1, PlainFact
      <3> QED BY <1>2, <3>2 DEF ProgramOps
    <2> QED BY <2>2, <2>3
  <1>3. CASE h.isr # 0
    <2>1. pc(h)[2] = h.isr /\ pc(h)[3] = h.cause /\ h.isr > 0
      BY <1>1, <1>3 DEF pc
    <2>2. InsnOf(h) = Handler[h.cause][h.isr]
      BY <2>1 DEF InsnOf, InsnAt
    <2>3. \/ h.cause = "msip" /\ h.isr = 1
          \/ h.cause = "mtip" /\ h.isr = 1
          \/ h.cause = "seip" /\ h.isr \in {1, 2, 3}
          \/ h.cause = "stip" /\ h.isr \in {1, 2}
          \/ h.cause = "ecall" /\ h.isr = 1
      BY <1>1, <1>3, PlaceFacts
    <2>4. /\ Handler["msip"][1] = Op("msip", 0)
          /\ Handler["mtip"][1] = Op("defer", 0)
          /\ Handler["seip"][1] = Op("claim", 0)
          /\ Handler["seip"][2] = Op("serve", 0)
          /\ Handler["seip"][3] = Op("complete", 0)
          /\ Handler["stip"][1] = Op("mtimecmp", 0)
          /\ Handler["stip"][2] = Op("resume", 0)
          /\ Handler["ecall"][1] = Op("load", 0)
      BY HandlerFacts
    <2> QED BY <1>3, <2>2, <2>3, <2>4, OpFacts
  <1> QED BY <1>2, <1>3

(* A trap moves the hart to the first place of the handler.                *)
LEMMA TrappedFacts ==
  ASSUME NEW h, HartOK(h), NEW cause \in Causes
  PROVE  /\ HartOK(Trapped(h, cause))
         /\ Trapped(h, cause) = [h EXCEPT !.isr = 1, !.cause = cause]
         /\ Trapped(h, cause).isr = 1 /\ Trapped(h, cause).cause = cause
         /\ Trapped(h, cause).at = h.at /\ Trapped(h, cause).x = h.x
         /\ Trapped(h, cause).mip = h.mip /\ Trapped(h, cause).mie = h.mie
  <1>1. <<1, cause>> \in Places
    BY PlaceFacts, CauseFacts
  <1> QED BY <1>1 DEF HartOK, Trapped

\* The place in the handler after the next instruction, and the mip and mie.
NextAt(h, n) == CASE h.isr = 0 -> h.at + n
                  [] h.isr > 0 /\ h.isr < Len(Handler[h.cause]) -> h.at
                  [] OTHER -> IF h.cause = "ecall" THEN h.at + 1 ELSE h.at
NextIsr(h) == IF h.isr > 0 /\ h.isr < Len(Handler[h.cause]) THEN h.isr + 1 ELSE 0
NextMip(h) == CASE InsnOf(h).op = "defer" -> h.mip \union {"stip"}
                [] InsnOf(h).op = "resume" -> h.mip \ {"stip"}
                [] OTHER -> h.mip
NextMie(h) == CASE InsnOf(h).op = "defer" -> h.mie \ {"mtip"}
                [] InsnOf(h).op = "resume" -> h.mie \union {"mtip"}
                [] OTHER -> h.mie

(* Going on to the next instruction changes the place alone.               *)
LEMMA AdvancedFacts ==
  ASSUME NEW h, HartOK(h), NEW n \in Nat
  PROVE  /\ Advanced(h, n) = [at |-> NextAt(h, n), isr |-> NextIsr(h), cause |-> h.cause,
                             x |-> h.x, mip |-> h.mip, mie |-> h.mie]
         /\ NextAt(h, n) \in Nat /\ NextIsr(h) \in Nat
         /\ <<NextIsr(h), h.cause>> \in Places
         /\ HartOK(Advanced(h, n))
  <1>1. h.isr \in Nat /\ h.at \in Nat /\ h.cause \in Causes /\ <<h.isr, h.cause>> \in Places
    BY DEF HartOK
  <1>2. <<NextIsr(h), h.cause>> \in Places /\ NextIsr(h) \in Nat
    <2>1. CASE h.isr = 0
      BY <1>1, <2>1, PlaceFacts DEF NextIsr
    <2>2. CASE h.cause = "seip" /\ h.isr \in {1, 2, 3}
      <3>1. NextIsr(h) \in {0, 2, 3}
        BY <2>2, HandlerLengths DEF NextIsr
      <3> QED BY <1>1, <2>2, <3>1, PlaceFacts
    <2>3. CASE h.cause = "stip" /\ h.isr \in {1, 2}
      <3>1. NextIsr(h) \in {0, 2}
        BY <2>3, HandlerLengths DEF NextIsr
      <3> QED BY <1>1, <2>3, <3>1, PlaceFacts
    <2>4. CASE h.cause \in {"msip", "mtip", "ecall"} /\ h.isr = 1
      <3>1. NextIsr(h) = 0
        <4>1. Len(Handler[h.cause]) = 1
          BY <2>4, HandlerLengths
        <4> QED BY <2>4, <4>1 DEF NextIsr
      <3> QED BY <1>1, <2>4, <3>1, PlaceFacts
    <2> QED BY <1>1, <2>1, <2>2, <2>3, <2>4, PlaceFacts
  <1>3. /\ Advanced(h, n) = [at |-> NextAt(h, n), isr |-> NextIsr(h), cause |-> h.cause,
                             x |-> h.x, mip |-> h.mip, mie |-> h.mie]
        /\ NextAt(h, n) \in Nat
    <2> DEFINE R == [at : Nat, isr : Nat, cause : Causes, x : LoadValues \union Devices \union {0},
                     mip : SUBSET Interrupts, mie : SUBSET Interrupts]
    <2>0. h \in R
      BY DEF HartOK
    <2>1. CASE h.isr = 0
      <3>1. Advanced(h, n) = [h EXCEPT !.at = h.at + n]
        BY <2>1 DEF Advanced
      <3>2. NextIsr(h) = h.isr
        BY <2>1 DEF NextIsr
      <3>3. NextAt(h, n) = h.at + n
        BY <1>1, <2>1 DEF NextAt
      <3> QED BY <1>1, <2>0, <3>1, <3>2, <3>3
    <2>2. CASE h.isr > 0 /\ h.isr < Len(Handler[h.cause])
      <3>1. Advanced(h, n) = [h EXCEPT !.isr = h.isr + 1]
        BY <1>1, <2>2 DEF Advanced
      <3>2. NextIsr(h) = h.isr + 1
        BY <2>2 DEF NextIsr
      <3>3. NextAt(h, n) = h.at
        BY <1>1, <2>2 DEF NextAt
      <3> QED BY <1>1, <2>0, <3>1, <3>2, <3>3
    <2>3. CASE h.isr # 0 /\ ~ (h.isr > 0 /\ h.isr < Len(Handler[h.cause]))
      <3> DEFINE to == IF h.cause = "ecall" THEN h.at + 1 ELSE h.at
      <3>1. Advanced(h, n) = [h EXCEPT !.isr = 0, !.at = to]
        BY <2>3 DEF Advanced
      <3>2. NextIsr(h) = 0
        BY <2>3 DEF NextIsr
      <3>3. to \in Nat /\ NextAt(h, n) = to
        BY <1>1, <2>3 DEF NextAt
      <3> HIDE DEF to
      <3>4. Advanced(h, n) = [at |-> to, isr |-> 0, cause |-> h.cause, x |-> h.x, mip |-> h.mip, mie |-> h.mie]
        BY <2>0, <3>1
      <3> QED BY <3>2, <3>3, <3>4
    <2> QED BY <1>1, <2>1, <2>2, <2>3
  <1> QED BY <1>1, <1>2, <1>3 DEF HartOK

(* Executing an instruction, field by field.                               *)
LEMMA ExecutedFacts ==
  ASSUME NEW h, HartOK(h), InsnOf(h).op # "ecall", NEW v
  PROVE  LET insn == InsnOf(h)
             n == IF insn.op = "skip" /\ h.x # 0 THEN 2 ELSE 1
         IN  Executed(h, v) = [at |-> NextAt(h, n), isr |-> NextIsr(h), cause |-> h.cause,
                               x |-> IF WritesX(insn) THEN v ELSE h.x,
                               mip |-> NextMip(h), mie |-> NextMie(h)]
  <1> DEFINE insn == InsnOf(h)
             n == IF insn.op = "skip" /\ h.x # 0 THEN 2 ELSE 1
             a == Advanced(h, n)
  <1>1. n \in Nat
    OBVIOUS
  <1>2. /\ a = [at |-> NextAt(h, n), isr |-> NextIsr(h), cause |-> h.cause, x |-> h.x, mip |-> h.mip, mie |-> h.mie]
        /\ HartOK(a)
    BY <1>1, AdvancedFacts
  <1>3. /\ a.at = NextAt(h, n) /\ a.cause = h.cause /\ a.isr = NextIsr(h)
        /\ a.x = h.x /\ a.mip = h.mip /\ a.mie = h.mie
    BY <1>2 DEF HartOK
  <1>4. Executed(h, v) = CASE WritesX(insn) -> [a EXCEPT !.x = v]
        [] insn.op = "defer" -> [a EXCEPT !.mie = @ \ {"mtip"}, !.mip = @ \union {"stip"}]
        [] insn.op = "resume" -> [a EXCEPT !.mie = @ \union {"mtip"}, !.mip = @ \ {"stip"}]
        [] OTHER -> a
    BY DEF Executed, WritesX
  <1> HIDE DEF a, insn, n
  <1>5. a \in [at : Nat, isr : Nat, cause : Causes, x : LoadValues \union Devices \union {0},
            mip : SUBSET Interrupts, mie : SUBSET Interrupts]
    BY <1>2 DEF HartOK
  <1>6. Executed(h, v) = [at |-> NextAt(h, n), isr |-> NextIsr(h), cause |-> h.cause,
                               x |-> IF WritesX(insn) THEN v ELSE h.x,
                               mip |-> NextMip(h), mie |-> NextMie(h)]
    BY <1>3, <1>4, <1>5 DEF insn, WritesX, NextMip, NextMie
  <1> QED BY <1>6 DEF a, insn, n

-----------------------------------------------------------------------------

(* Two harts in the same place execute the same instruction.               *)
LEMMA SameFacts ==
  ASSUME LockstepInv
  PROVE  /\ spike.at = rtl.at /\ spike.isr = rtl.isr /\ spike.cause = rtl.cause
         /\ spike.x = rtl.x /\ spike.mie = rtl.mie
         /\ pc(spike) = pc(rtl) /\ InsnOf(spike) = InsnOf(rtl)
         /\ NextIsr(spike) = NextIsr(rtl) /\ NextMie(spike) = NextMie(rtl)
         /\ \A n : NextAt(spike, n) = NextAt(rtl, n)
  <1>1. /\ spike.at = rtl.at /\ spike.isr = rtl.isr /\ spike.cause = rtl.cause
        /\ spike.x = rtl.x /\ spike.mie = rtl.mie
    BY DEF LockstepInv, SameHart, HartOK
  <1>2. pc(spike) = pc(rtl)
    BY <1>1 DEF pc
  <1>3. InsnOf(spike) = InsnOf(rtl)
    BY <1>2 DEF InsnOf
  <1>4. NextIsr(spike) = NextIsr(rtl)
    BY <1>1 DEF NextIsr
  <1>5. NextMie(spike) = NextMie(rtl)
    BY <1>1, <1>3 DEF NextMie
  <1>6. ASSUME NEW n PROVE NextAt(spike, n) = NextAt(rtl, n)
    BY <1>1 DEF NextAt
  <1> QED BY <1>1, <1>2, <1>3, <1>4, <1>5, <1>6

(* Outside the handlers no hardware interrupt is pending in Spike, or the  *)
(* timer's alone, and masked.                                              *)
LEMMA OutsideHandlers ==
  ASSUME LockstepInv, spike.isr = 0
  PROVE  /\ "msip" \notin spike.mip /\ "seip" \notin spike.mip
         /\ "mtip" \in spike.mip => "mtip" \notin spike.mie
         /\ "stip" \in spike.mip <=> "stip" \in rtl.mip
  BY DEF LockstepInv, LoweredInTime, At, SameHart

(* Where the RTL takes no interrupt of the software, Spike takes none.     *)
LEMMA NothingPending ==
  ASSUME LockstepInv, ~ SoftwarePending
  PROVE  Pending(spike) = {}
  <1>1. CASE spike.isr # 0
    BY <1>1 DEF Pending
  <1>2. CASE spike.isr = 0
    <2>1. Pending(spike) = spike.mip \intersect spike.mie /\ Pending(rtl) = rtl.mip \intersect rtl.mie
      BY <1>2, SameFacts DEF Pending
    <2>2. spike.mip \subseteq {"msip", "mtip", "seip", "stip"}
      BY CauseFacts DEF LockstepInv, HartOK
    <2> QED BY <1>2, <2>1, <2>2, OutsideHandlers, SameFacts DEF SoftwarePending
  <1> QED BY <1>1, <1>2

(* Of an interrupt and STIP, which has the lowest priority, the former is  *)
(* taken.                                                                  *)
LEMMA FirstFact ==
  ASSUME NEW c \in Interrupts, NEW S, c \in S, S \subseteq {c, "stip"}
  PROVE  First(S) = c
  <1>1. DOMAIN Priority = 1 .. 4
    BY DEF Priority
  <1>2. Priority[1] = "msip" /\ Priority[2] = "mtip" /\ Priority[3] = "seip" /\ Priority[4] = "stip"
    BY DEF Priority
  <1> DEFINE P(i) == Priority[i] \in S /\ \A j \in 1 .. i - 1 : Priority[j] \notin S
  <1>3. PICK k \in 1 .. 4 : Priority[k] = c
    BY <1>2, CauseFacts
  <1>4. \A j \in 1 .. k - 1 : Priority[j] \notin S
    BY <1>2, <1>3
  <1>5. \E i \in DOMAIN Priority : P(i)
    BY <1>1, <1>3, <1>4
  <1>6. ASSUME NEW i \in 1 .. 4, P(i) PROVE Priority[i] = c
    <2>1. i <= k
      BY <1>3, <1>6
    <2> QED BY <1>2, <1>3, <1>6, <2>1
  <1>7. P(CHOOSE i \in DOMAIN Priority : P(i)) /\ (CHOOSE i \in DOMAIN Priority : P(i)) \in 1 .. 4
    BY <1>1, <1>5
  <1>8. Priority[CHOOSE i \in DOMAIN Priority : P(i)] = c
    BY <1>6, <1>7
  <1> QED BY <1>8 DEF First

\* The PLIC and the devices.

\* The type of devs.
DevsType == [interrupt_vector : SUBSET Devices, working : SUBSET Devices]

(* A tick turns the devices at work into bits of the PLIC.                 *)
LEMMA TickedFacts ==
  ASSUME NEW d \in DevsType
  PROVE  /\ Ticked(d) = [interrupt_vector |-> d.interrupt_vector \union d.working, working |-> {}]
         /\ Ticked(d) \in DevsType
  <1> DEFINE m == submit_external_interrupt(d, d.working)
  <1>1. m = [interrupt_vector |-> d.interrupt_vector \union d.working, working |-> d.working]
    BY DEF submit_external_interrupt, DevsType
  <1> HIDE DEF m
  <1>2. Ticked(d) = [m EXCEPT !.working = {}]
    BY DEF Ticked, m
  <1>3. Ticked(d) = [interrupt_vector |-> d.interrupt_vector \union d.working, working |-> {}]
    BY <1>1, <1>2
  <1> QED BY <1>3 DEF DevsType

(* A tick loses no device, and an SEIP of the trace finds a bit set if a   *)
(* device has asked at all.                                                *)
LEMMA DevsTickedFacts ==
  ASSUME LockstepInv, NEW line
  PROVE  LET d == DevsTicked(line)
         IN  /\ d \in DevsType
             /\ d.interrupt_vector \union d.working = Known
             /\ AsksPlic(line) /\ Known # {} => alert_core_external_interrupt(DevsAsked(line))
  <1>1. devs \in DevsType
    BY DEF LockstepInv, DevsType
  <1>2. DevsAsked(line) \in {devs, Ticked(devs)}
    BY DEF DevsAsked
  <1>3. /\ DevsAsked(line) \in DevsType
        /\ DevsAsked(line).interrupt_vector \union DevsAsked(line).working = Known
    BY <1>1, <1>2, TickedFacts DEF Known
  <1>4. ASSUME AsksPlic(line), Known # {} PROVE alert_core_external_interrupt(DevsAsked(line))
    <2>1. CASE devs.interrupt_vector = {}
      <3>1. DevsAsked(line) = Ticked(devs)
        BY <1>4, <2>1 DEF DevsAsked, alert_core_external_interrupt
      <3> QED BY <1>1, <1>4, <3>1, TickedFacts DEF Known, alert_core_external_interrupt
    <2>2. CASE devs.interrupt_vector # {}
      BY <2>2 DEF DevsAsked, alert_core_external_interrupt
    <2> QED BY <2>1, <2>2
  <1>5. DevsTicked(line) \in {DevsAsked(line), Ticked(DevsAsked(line))}
    BY DEF DevsTicked
  <1> QED BY <1>3, <1>4, <1>5, TickedFacts

(* What one line does to Spike's devices.                                  *)
LEMMA SteppedDevs ==
  ASSUME LockstepInv, NEW line
  PROVE  LET d == DevsTicked(line)
             insn == InsnOf(spike)
             new == DevsStepped(line)
         IN  /\ new \in DevsType
             /\ Interrupted(line) \/ insn.op \notin {"request", "serve"} =>
                  new.interrupt_vector \union new.working = Known
             /\ ~ Interrupted(line) /\ insn.op = "request" =>
                  new.interrupt_vector \union new.working = Known \union {insn.arg}
             /\ ~ Interrupted(line) /\ insn.op = "serve" =>
                  new = lower_external_interrupt(d, spike.x)
  <1> DEFINE d == DevsTicked(line)
             insn == InsnOf(spike)
             new == DevsStepped(line)
  <1>1. d \in DevsType /\ d.interrupt_vector \union d.working = Known
    BY DevsTickedFacts
  <1>2. CASE ~ Interrupted(line) /\ insn.op = "request"
    <2>1. insn.arg \in Devices
      BY <1>2, InsnFacts, CauseFacts DEF LockstepInv, HartOK
    <2>2. new = [d EXCEPT !.working = @ \union {insn.arg}]
      BY <1>2 DEF DevsStepped
    <2> HIDE DEF new, d, insn
    <2>3. /\ new \in DevsType
          /\ new.interrupt_vector \union new.working = Known \union {insn.arg}
      BY <1>1, <2>1, <2>2 DEF DevsType
    <2> QED BY <1>2, <2>3 DEF new, d, insn
  <1>3. CASE ~ Interrupted(line) /\ insn.op = "serve"
    <2>1. new = lower_external_interrupt(d, spike.x)
      BY <1>3 DEF DevsStepped
    <2> HIDE DEF new, d, insn
    <2>2. lower_external_interrupt(d, spike.x) \in DevsType
      BY <1>1 DEF lower_external_interrupt, DevsType
    <2>3. new \in DevsType
      BY <2>1, <2>2
    <2> QED BY <1>3, <2>1, <2>3 DEF new, d, insn
  <1>4. CASE Interrupted(line) \/ insn.op \notin {"request", "serve"}
    <2>1. new = d
      BY <1>4 DEF DevsStepped
    <2> QED BY <1>1, <1>4, <2>1
  <1> QED BY <1>2, <1>3, <1>4

\* What one line does to Spike's hart.

\* Spike's mip after an instruction.
ExecutedMip(h) ==
  CASE InsnOf(h).op = "complete" -> NextMip(h) \ {"seip"}
    [] InsnOf(h).op = "msip" /\ InsnOf(h).arg = 0 -> NextMip(h) \ {"msip"}
    [] InsnOf(h).op = "mtimecmp" -> NextMip(h) \ {"mtip"}
    [] OTHER -> NextMip(h)

(* An instruction that retires steps Spike's hart over the same one,       *)
(* whatever its devices return.                                            *)
LEMMA RetiredSpike ==
  ASSUME LockstepInv, ~ SoftwarePending, InsnOf(rtl).op # "ecall", NEW v,
         Stepped(Retirement(v))
  PROVE  LET insn == InsnOf(rtl)
             n == IF insn.op = "skip" /\ rtl.x # 0 THEN 2 ELSE 1
         IN  /\ ~ failed' /\ code' = code
             /\ devs' = DevsStepped(Retirement(v))
             /\ ~ Interrupted(Retirement(v))
             /\ spike' = [at |-> NextAt(rtl, n), isr |-> NextIsr(rtl), cause |-> rtl.cause,
                          x |-> IF WritesX(insn) THEN v ELSE rtl.x,
                          mip |-> ExecutedMip(spike), mie |-> NextMie(rtl)]
  <1> DEFINE line == Retirement(v)
             insn == InsnOf(rtl)
             n == IF insn.op = "skip" /\ rtl.x # 0 THEN 2 ELSE 1
  <1>1. /\ line.val = TRUE /\ line.except = FALSE /\ line.intrpt = FALSE
        /\ line.pc = pc(rtl) /\ line.wdata = v
    BY DEF Retirement, Line
  <1> HIDE DEF line
  <1>2. Forced(line) = spike /\ ~ Interrupted(line) /\ ~ Refused(line)
    BY <1>1, NothingPending DEF Forced, Interrupted, Refused, AsksPlic
  <1>3. Retires(line) /\ ~ Mismatch(line)
    BY <1>1, SameFacts DEF Retires, Mismatch
  <1>4. PICK w \in DeviceValues : spike' = WrittenBack(HartStepped(line, w), line)
    BY <1>2, <1>3 DEF Stepped, ganged_step, line
  <1>5. /\ devs' = DevsStepped(line) /\ ~ failed' /\ code' = code
    BY <1>2, <1>3 DEF Stepped, ganged_step, line
  <1>6. HartOK(spike) /\ InsnOf(spike) = insn /\ insn.op # "ecall" /\ spike.x = rtl.x
    BY SameFacts DEF LockstepInv
  <1> DEFINE e == Executed(spike, w)
  <1>7. e = [at |-> NextAt(spike, n), isr |-> NextIsr(spike), cause |-> spike.cause,
             x |-> IF WritesX(insn) THEN w ELSE spike.x, mip |-> NextMip(spike), mie |-> NextMie(spike)]
    BY <1>6, ExecutedFacts
  <1>8. HartStepped(line, w) = CASE insn.op = "complete" -> [e EXCEPT !.mip = @ \ {"seip"}]
                                 [] insn.op = "msip" -> [e EXCEPT !.mip = @]
                                 [] OTHER -> e
    BY <1>2, <1>6 DEF HartStepped, PlicStored, ClintStored
  <1> DEFINE m == IF insn.op = "complete" THEN NextMip(spike) \ {"seip"} ELSE NextMip(spike)
  <1> HIDE DEF e, n, insn
  <1>9. HartStepped(line, w) =
            [at |-> NextAt(spike, n), isr |-> NextIsr(spike), cause |-> spike.cause,
             x |-> IF WritesX(insn) THEN w ELSE spike.x, mip |-> m, mie |-> NextMie(spike)]
    BY <1>7, <1>8
  <1> DEFINE g == HartStepped(line, w)
             x == IF WritesX(insn) THEN v ELSE g.x
  <1> HIDE DEF m, g
  <1>12. WrittenBack(g, line) = [g EXCEPT !.mip = @ \ Lowered, !.x = x]
    BY <1>1, <1>6 DEF WrittenBack
  <1> HIDE DEF x
  <1>13. WrittenBack(g, line) = [at |-> g.at, isr |-> g.isr, cause |-> g.cause,
                                 x |-> x, mip |-> g.mip \ Lowered, mie |-> g.mie]
    BY <1>9, <1>12 DEF g
  <1>14. /\ g.at = NextAt(spike, n) /\ g.isr = NextIsr(spike) /\ g.cause = spike.cause
         /\ g.x = (IF WritesX(insn) THEN w ELSE spike.x) /\ g.mip = m /\ g.mie = NextMie(spike)
    BY <1>9 DEF g
  <1>10. spike' = [at |-> NextAt(spike, n), isr |-> NextIsr(spike), cause |-> spike.cause,
                   x |-> IF WritesX(insn) THEN v ELSE spike.x, mip |-> m \ Lowered, mie |-> NextMie(spike)]
    BY <1>4, <1>13, <1>14 DEF g, x
  <1>11. m \ Lowered = ExecutedMip(spike)
    BY <1>6 DEF m, Lowered, ExecutedMip
  <1> QED BY <1>2, <1>5, <1>6, <1>10, <1>11, SameFacts DEF line, insn, n

(* The RTL's hart after an instruction, field by field.                    *)
LEMMA RetiredRtl ==
  ASSUME LockstepInv, InsnOf(rtl).op # "ecall", NEW v, RtlExecutes(v)
  PROVE  LET insn == InsnOf(rtl)
             n == IF insn.op = "skip" /\ rtl.x # 0 THEN 2 ELSE 1
             e == Executed(rtl, v)
         IN  /\ rtl' = [at |-> NextAt(rtl, n), isr |-> NextIsr(rtl), cause |-> rtl.cause,
                        x |-> IF WritesX(insn) THEN v ELSE rtl.x,
                        mip |-> Mip(e, insn, asked'), mie |-> NextMie(rtl)]
             /\ e.mip = NextMip(rtl)
  <1> DEFINE insn == InsnOf(rtl)
             n == IF insn.op = "skip" /\ rtl.x # 0 THEN 2 ELSE 1
             e == Executed(rtl, v)
             m == Mip(e, insn, asked')
  <1>1. e = [at |-> NextAt(rtl, n), isr |-> NextIsr(rtl), cause |-> rtl.cause,
             x |-> IF WritesX(insn) THEN v ELSE rtl.x, mip |-> NextMip(rtl), mie |-> NextMie(rtl)]
    BY ExecutedFacts DEF LockstepInv
  <1>2. rtl' = [e EXCEPT !.mip = m]
    BY DEF RtlExecutes
  <1> HIDE DEF e, m, n, insn
  <1>3. /\ rtl' = [at |-> NextAt(rtl, n), isr |-> NextIsr(rtl), cause |-> rtl.cause,
                   x |-> IF WritesX(insn) THEN v ELSE rtl.x, mip |-> m, mie |-> NextMie(rtl)]
        /\ e.mip = NextMip(rtl)
    BY <1>1, <1>2
  <1> QED BY <1>3 DEF e, m, n, insn

(* The interrupts of a hart stay interrupts.                               *)
LEMMA MipType ==
  ASSUME NEW h, HartOK(h)
  PROVE  /\ NextMip(h) \subseteq Interrupts /\ NextMie(h) \subseteq Interrupts
         /\ ExecutedMip(h) \subseteq Interrupts
         /\ \A e, w : e.mip = NextMip(h) => Mip(e, InsnOf(h), w) \subseteq Interrupts
  <1>1. h.mip \subseteq Interrupts /\ h.mie \subseteq Interrupts
    BY DEF HartOK
  <1>2. NextMip(h) \subseteq Interrupts /\ NextMie(h) \subseteq Interrupts
    BY <1>1, CauseFacts DEF NextMip, NextMie
  <1>3. ExecutedMip(h) \subseteq Interrupts
    BY <1>2 DEF ExecutedMip
  <1>4. ASSUME NEW e, e.mip = NextMip(h), NEW w
        PROVE  Mip(e, InsnOf(h), w) \subseteq Interrupts
    BY <1>2, <1>4, CauseFacts DEF Mip
  <1> QED BY <1>2, <1>3, <1>4

(* After an instruction the harts are again the same but for the mip.      *)
LEMMA RetireKeepsHarts ==
  ASSUME LockstepInv, ~ SoftwarePending, InsnOf(rtl).op # "ecall", NEW v \in Loaded,
         RtlExecutes(v), Stepped(Retirement(v))
  PROVE  HartOK(rtl)' /\ HartOK(spike)' /\ SameHart'
  <1> DEFINE insn == InsnOf(rtl)
             n == IF insn.op = "skip" /\ rtl.x # 0 THEN 2 ELSE 1
             m == Mip(Executed(rtl, v), insn, asked')
             x == IF WritesX(insn) THEN v ELSE rtl.x
             R == [at : Nat, isr : Nat, cause : Causes, x : LoadValues \union Devices \union {0},
                   mip : SUBSET Interrupts, mie : SUBSET Interrupts]
  <1>1. HartOK(rtl) /\ HartOK(spike)
    BY DEF LockstepInv
  <1>2. rtl' = [at |-> NextAt(rtl, n), isr |-> NextIsr(rtl), cause |-> rtl.cause, x |-> x,
                mip |-> m, mie |-> NextMie(rtl)]
    BY RetiredRtl
  <1>3. spike' = [at |-> NextAt(rtl, n), isr |-> NextIsr(rtl), cause |-> rtl.cause, x |-> x,
                  mip |-> ExecutedMip(spike), mie |-> NextMie(rtl)]
    BY RetiredSpike
  <1>4. /\ NextAt(rtl, n) \in Nat /\ NextIsr(rtl) \in Nat /\ rtl.cause \in Causes
        /\ <<NextIsr(rtl), rtl.cause>> \in Places
    <2>1. n \in Nat
      OBVIOUS
    <2> QED BY <1>1, <2>1, AdvancedFacts DEF HartOK
  <1>5. m \subseteq Interrupts /\ ExecutedMip(spike) \subseteq Interrupts /\ NextMie(rtl) \subseteq Interrupts
    BY <1>1, MipType, RetiredRtl
  <1>6. x \in LoadValues \union Devices \union {0}
    <2>1. v \in LoadValues \union asked \union {0} /\ asked \subseteq Devices
      BY DEF Loaded, LockstepInv
    <2> QED BY <1>1, <2>1 DEF HartOK
  <1>7. "stip" \in ExecutedMip(spike) <=> "stip" \in m
    <2>1. "stip" \in NextMip(spike) <=> "stip" \in NextMip(rtl)
      BY SameFacts DEF NextMip, LockstepInv, SameHart
    <2>2. "stip" \in ExecutedMip(spike) <=> "stip" \in NextMip(spike)
      BY DEF ExecutedMip
    <2>3. "stip" \in m <=> "stip" \in NextMip(rtl)
      BY RetiredRtl DEF Mip
    <2> QED BY <2>1, <2>2, <2>3
  <1> HIDE DEF n, m, x, insn
  <1>8. HartOK(rtl') /\ HartOK(spike')
    BY <1>2, <1>3, <1>4, <1>5, <1>6 DEF HartOK
  <1>9. SameHart'
    BY <1>2, <1>3, <1>7 DEF SameHart
  <1> QED BY <1>8, <1>9 DEF HartOK

(* The stores of the handlers lower what the trace has raised in time.     *)
LEMMA RetireLowers ==
  ASSUME LockstepInv, ~ SoftwarePending, InsnOf(rtl).op # "ecall", NEW v,
         RtlExecutes(v), Stepped(Retirement(v))
  PROVE  LoweredInTime'
  <1> DEFINE i == spike'.isr
             c == spike'.cause
  <1>1. /\ i = NextIsr(spike) /\ c = spike.cause
        /\ spike'.mip = ExecutedMip(spike) /\ spike'.mie = NextMie(spike)
    BY RetiredSpike, SameFacts
  <1>2. HartOK(spike) /\ LoweredInTime
    BY DEF LockstepInv
  <1>3. InsnOf(spike).op # "ecall"
    BY SameFacts
  <1>4. <<spike.isr, spike.cause>> \in Places /\ spike.isr \in Nat
    BY <1>2 DEF HartOK
  <1> SUFFICES /\ "msip" \in ExecutedMip(spike) => c = "msip" /\ i = 1
               /\ "seip" \in ExecutedMip(spike) => c = "seip" /\ i \in {1, 2, 3}
               /\ "mtip" \in ExecutedMip(spike) => (c = "mtip" /\ i = 1) \/ "mtip" \notin NextMie(spike)
               /\ c = "stip" /\ i = 2 => "mtip" \notin ExecutedMip(spike)
    BY <1>1 DEF LoweredInTime, At
  <1>5. CASE spike.isr = 0
    <2>1. i = 0
      BY <1>1, <1>5 DEF NextIsr
    <2>2. /\ InsnOf(spike).op \in ProgramOps
          /\ InsnOf(spike).op = "msip" => InsnOf(spike).arg = 1
      BY <1>2, <1>5, InsnFacts DEF LockstepInv
    <2>3. ExecutedMip(spike) = spike.mip /\ NextMie(spike) = spike.mie
      BY <2>2 DEF ExecutedMip, NextMip, NextMie, ProgramOps
    <2> QED BY <1>5, <2>1, <2>3, OutsideHandlers
  <1>6. CASE spike.cause = "msip" /\ spike.isr = 1
    <2>1. i = 0 /\ InsnOf(spike).op = "msip" /\ InsnOf(spike).arg = 0
      BY <1>1, <1>2, <1>6, InsnFacts, HandlerLengths DEF NextIsr, LockstepInv
    <2>2. ExecutedMip(spike) = spike.mip \ {"msip"} /\ NextMie(spike) = spike.mie
      BY <2>1 DEF ExecutedMip, NextMip, NextMie
    <2> QED BY <1>1, <1>2, <1>6, <2>1, <2>2 DEF LoweredInTime, At
  <1>7. CASE spike.cause = "mtip" /\ spike.isr = 1
    <2>1. i = 0 /\ InsnOf(spike).op = "defer"
      BY <1>1, <1>2, <1>7, InsnFacts, HandlerLengths DEF NextIsr, LockstepInv
    <2>2. ExecutedMip(spike) = spike.mip \union {"stip"} /\ NextMie(spike) = spike.mie \ {"mtip"}
      BY <2>1 DEF ExecutedMip, NextMip, NextMie
    <2> QED BY <1>1, <1>2, <1>7, <2>1, <2>2 DEF LoweredInTime, At
  <1>8. CASE spike.cause = "seip" /\ spike.isr \in {1, 2}
    <2>1. i \in {2, 3} /\ InsnOf(spike).op \in {"claim", "serve"}
      BY <1>1, <1>2, <1>8, InsnFacts, HandlerLengths DEF NextIsr, LockstepInv
    <2>2. ExecutedMip(spike) = spike.mip /\ NextMie(spike) = spike.mie
      BY <2>1 DEF ExecutedMip, NextMip, NextMie
    <2> QED BY <1>1, <1>2, <1>8, <2>1, <2>2 DEF LoweredInTime, At
  <1>9. CASE spike.cause = "seip" /\ spike.isr = 3
    <2>1. i = 0 /\ InsnOf(spike).op = "complete"
      BY <1>1, <1>2, <1>9, InsnFacts, HandlerLengths DEF NextIsr, LockstepInv
    <2>2. ExecutedMip(spike) = spike.mip \ {"seip"} /\ NextMie(spike) = spike.mie
      BY <2>1 DEF ExecutedMip, NextMip, NextMie
    <2> QED BY <1>1, <1>2, <1>9, <2>1, <2>2 DEF LoweredInTime, At
  <1>10. CASE spike.cause = "stip" /\ spike.isr = 1
    <2>1. i = 2 /\ InsnOf(spike).op = "mtimecmp"
      BY <1>1, <1>2, <1>10, InsnFacts, HandlerLengths DEF NextIsr, LockstepInv
    <2>2. ExecutedMip(spike) = spike.mip \ {"mtip"} /\ NextMie(spike) = spike.mie
      BY <2>1 DEF ExecutedMip, NextMip, NextMie
    <2> QED BY <1>1, <1>2, <1>10, <2>1, <2>2 DEF LoweredInTime, At
  <1>11. CASE spike.cause = "stip" /\ spike.isr = 2
    <2>1. i = 0 /\ InsnOf(spike).op = "resume"
      BY <1>1, <1>2, <1>11, InsnFacts, HandlerLengths DEF NextIsr, LockstepInv
    <2>2. ExecutedMip(spike) = spike.mip \ {"stip"} /\ NextMie(spike) = spike.mie \union {"mtip"}
      BY <2>1 DEF ExecutedMip, NextMip, NextMie
    <2> QED BY <1>1, <1>2, <1>11, <2>1, <2>2 DEF LoweredInTime, At
  <1>12. CASE spike.cause = "ecall" /\ spike.isr = 1
    <2>1. i = 0 /\ InsnOf(spike).op = "load"
      BY <1>1, <1>2, <1>12, InsnFacts, HandlerLengths DEF NextIsr, LockstepInv
    <2>2. ExecutedMip(spike) = spike.mip /\ NextMie(spike) = spike.mie
      BY <2>1 DEF ExecutedMip, NextMip, NextMie
    <2> QED BY <1>1, <1>2, <1>12, <2>1, <2>2 DEF LoweredInTime, At
  <1> QED BY <1>4, <1>5, <1>6, <1>7, <1>8, <1>9, <1>10, <1>11, <1>12, PlaceFacts

(* An instruction keeps the RTL's account of the devices.                  *)
LEMMA RetireAsks ==
  ASSUME LockstepInv, ~ SoftwarePending, InsnOf(rtl).op # "ecall", NEW v \in Loaded,
         RtlExecutes(v), Stepped(Retirement(v))
  PROVE  /\ asked' \subseteq Devices /\ unserved' \subseteq Devices
         /\ PlicAsks'
  <1> DEFINE insn == InsnOf(rtl)
  <1>1. /\ HartOK(rtl) /\ asked \subseteq unserved /\ unserved \subseteq Devices
        /\ rtl.cause = "seip" /\ rtl.isr = 2 => rtl.x \in Devices \ asked
    BY DEF LockstepInv, PlicAsks
  <1>2. insn.op = "request" => insn.arg \in Devices
    BY <1>1, InsnFacts, CauseFacts DEF LockstepInv, HartOK
  <1>3. insn.op = "serve" => rtl.x \in Devices \ asked
    BY <1>1, InsnFacts, CauseFacts DEF LockstepInv, HartOK, ProgramOps
  <1>4. asked' = CASE insn.op = "request" -> asked \union {insn.arg}
                   [] insn.op = "claim" -> asked \ {v}
                   [] OTHER -> asked
    BY DEF RtlExecutes
  <1>5. unserved' = CASE insn.op = "request" -> unserved \union {insn.arg}
                      [] insn.op = "serve" -> unserved \ {rtl.x}
                      [] OTHER -> unserved
    BY DEF RtlExecutes
  <1>6. asked' \subseteq unserved' /\ unserved' \subseteq Devices
    <2>1. CASE insn.op = "request"
      BY <1>1, <1>2, <1>4, <1>5, <2>1
    <2>2. CASE insn.op = "claim"
      BY <1>1, <1>4, <1>5, <2>2
    <2>3. CASE insn.op = "serve"
      BY <1>1, <1>3, <1>4, <1>5, <2>3
    <2>4. CASE insn.op \notin {"request", "claim", "serve"}
      BY <1>1, <1>4, <1>5, <2>4
    <2> QED BY <2>1, <2>2, <2>3, <2>4
  <1>7. /\ rtl'.isr = NextIsr(rtl) /\ rtl'.cause = rtl.cause
        /\ rtl'.x = IF WritesX(insn) THEN v ELSE rtl.x
        /\ rtl'.mip = Mip(Executed(rtl, v), insn, asked')
    BY RetiredRtl
  <1>8. "seip" \in rtl'.mip <=> asked' # {}
    BY <1>7 DEF Mip
  <1>9. ASSUME rtl'.cause = "seip", rtl'.isr = 2 PROVE rtl'.x \in Devices \ asked'
    <2>1. rtl.cause = "seip" /\ rtl.isr = 1
      BY <1>1, <1>7, <1>9 DEF NextIsr, HartOK
    <2>2. insn.op = "claim"
      BY <1>1, <2>1, InsnFacts DEF LockstepInv
    <2>3. v \in asked
      BY <2>2 DEF Loaded
    <2>4. asked' = asked \ {v} /\ rtl'.x = v
      BY <1>4, <1>7, <2>2 DEF WritesX
    <2> QED BY <1>1, <2>3, <2>4
  <1> QED BY <1>6, <1>8, <1>9 DEF PlicAsks

(* The PLIC's bits and the devices at work, after an instruction.          *)
LEMMA RetireKnows ==
  ASSUME LockstepInv, ~ SoftwarePending, InsnOf(rtl).op # "ecall", NEW v \in Loaded,
         RtlExecutes(v), Stepped(Retirement(v))
  PROVE  LET insn == InsnOf(rtl)
             d == DevsTicked(Retirement(v))
         IN  /\ devs' \in DevsType
             /\ insn.op \notin {"request", "serve"} => Known' = Known /\ unserved' = unserved
             /\ insn.op = "request" => /\ Known' = Known \union {insn.arg}
                                       /\ unserved' = unserved \union {insn.arg}
             /\ insn.op = "serve" => /\ d \in DevsType /\ d.interrupt_vector \union d.working = Known
                                     /\ devs' = lower_external_interrupt(d, rtl.x)
                                     /\ unserved' = unserved \ {rtl.x}
                                     /\ rtl.x \in Devices
  <1> DEFINE insn == InsnOf(rtl)
             line == Retirement(v)
  <1>1. devs' = DevsStepped(line) /\ ~ Interrupted(line)
    BY RetiredSpike
  <1>2. insn = InsnOf(spike) /\ rtl.x = spike.x
    BY SameFacts
  <1>3. unserved' = CASE insn.op = "request" -> unserved \union {insn.arg}
                      [] insn.op = "serve" -> unserved \ {rtl.x}
                      [] OTHER -> unserved
    BY DEF RtlExecutes
  <1>4. insn.op = "serve" => rtl.x \in Devices
    BY InsnFacts, CauseFacts DEF LockstepInv, PlicAsks, HartOK, ProgramOps
  <1>5. Known' = devs'.interrupt_vector \union devs'.working
    BY DEF Known
  <1>6. devs' \in DevsType
    BY <1>1, SteppedDevs
  <1>7. CASE insn.op = "request"
    <2>1. Known' = Known \union {insn.arg}
      BY <1>1, <1>2, <1>5, <1>7, SteppedDevs
    <2> QED BY <1>3, <1>6, <1>7, <2>1
  <1>8. CASE insn.op = "serve"
    <2>1. devs' = lower_external_interrupt(DevsTicked(line), rtl.x)
      BY <1>1, <1>2, <1>8, SteppedDevs
    <2> QED BY <1>3, <1>4, <1>6, <1>8, <2>1, DevsTickedFacts
  <1>9. CASE insn.op \notin {"request", "serve"}
    <2>1. Known' = Known
      BY <1>1, <1>2, <1>5, <1>9, SteppedDevs
    <2> QED BY <1>3, <1>6, <1>9, <2>1
  <1> QED BY <1>7, <1>8, <1>9

(* No device that has asked and was not served is forgotten.               *)
LEMMA RetireCovers ==
  ASSUME LockstepInv, ~ SoftwarePending, InsnOf(rtl).op # "ecall", NEW v \in Loaded,
         RtlExecutes(v), Stepped(Retirement(v))
  PROVE  (unserved \subseteq Known)'
  <1> DEFINE insn == InsnOf(rtl)
             d == DevsTicked(Retirement(v))
  <1>1. unserved \subseteq Known
    BY DEF LockstepInv
  <1>2. CASE insn.op # "serve"
    BY <1>1, <1>2, RetireKnows
  <1>3. CASE insn.op = "serve"
    <2>1. /\ d \in DevsType /\ d.interrupt_vector \union d.working = Known
          /\ devs' = lower_external_interrupt(d, rtl.x) /\ unserved' = unserved \ {rtl.x}
      BY <1>3, RetireKnows
    <2> HIDE DEF d
    <2>2. devs'.working = d.working /\ d.interrupt_vector \ {rtl.x} \subseteq devs'.interrupt_vector
      BY <2>1 DEF lower_external_interrupt, DevsType
    <2>3. Known' = devs'.interrupt_vector \union devs'.working
      BY DEF Known
    <2> QED BY <1>1, <2>1, <2>2, <2>3
  <1> QED BY <1>2, <1>3

(* A retired instruction keeps the harts in lockstep. *)
LEMMA RetireKeepsInv ==
  ASSUME LockstepInv, Retire
  PROVE  LockstepInv'
  <1>1. ~ SoftwarePending /\ InsnOf(rtl).op # "ecall"
    BY DEF Retire
  <1>2. PICK v \in Loaded : RtlExecutes(v) /\ Stepped(Retirement(v))
    BY DEF Retire
  <1>3. code' = code /\ ~ failed'
    BY <1>1, <1>2, RetiredSpike
  <1>4. HartOK(rtl)' /\ HartOK(spike)' /\ SameHart'
    BY <1>1, <1>2, RetireKeepsHarts
  <1>5. LoweredInTime'
    BY <1>1, <1>2, RetireLowers
  <1>6. asked' \subseteq Devices /\ unserved' \subseteq Devices /\ PlicAsks'
    BY <1>1, <1>2, RetireAsks
  <1>7. devs' \in DevsType
    BY <1>1, <1>2, RetireKnows
  <1>8. (unserved \subseteq Known)'
    BY <1>1, <1>2, RetireCovers
  <1> QED BY <1>3, <1>4, <1>5, <1>6, <1>7, <1>8 DEF LockstepInv, DevsType

(* So does an exception ... *)
LEMMA ExceptionKeepsInv ==
  ASSUME LockstepInv, TakeException
  PROVE  LockstepInv' /\ Known' = Known
  <1> DEFINE line == Line(FALSE, TRUE, FALSE, "none", 0)
  <1>1. /\ ~ SoftwarePending /\ InsnOf(rtl).op = "ecall" /\ rtl' = Executed(rtl, 0)
        /\ Stepped(line) /\ UNCHANGED <<asked, unserved, early>>
    BY DEF TakeException
  <1>2. line.val = FALSE /\ line.except = TRUE /\ line.intrpt = FALSE
    BY DEF Line
  <1> HIDE DEF line
  <1>3. HartOK(rtl) /\ HartOK(spike) /\ InsnOf(spike).op = "ecall" /\ SameHart /\ LoweredInTime
    BY <1>1, SameFacts DEF LockstepInv
  <1>4. Forced(line) = spike /\ ~ Interrupted(line) /\ ~ Refused(line)
    BY <1>1, <1>2, NothingPending DEF Forced, Interrupted, Refused, AsksPlic
  <1>5. ~ Retires(line) /\ ~ Mismatch(line)
    BY <1>2 DEF Retires, Mismatch
  <1>6. PICK w \in DeviceValues : spike' = HartStepped(line, w)
    BY <1>1, <1>4, <1>5 DEF Stepped, ganged_step
  <1>7. devs' = DevsStepped(line) /\ ~ failed' /\ code' = code
    BY <1>1, <1>4, <1>5 DEF Stepped, ganged_step
  <1>8. spike' = Trapped(spike, "ecall") /\ rtl' = Trapped(rtl, "ecall")
    <2>1. \A h, v : InsnOf(h).op = "ecall" => Executed(h, v) = Trapped(h, "ecall")
      BY DEF Executed, WritesX
    <2>2. HartStepped(line, w) = Executed(spike, w)
      BY <1>3, <1>4 DEF HartStepped
    <2> QED BY <1>1, <1>3, <1>6, <2>1, <2>2
  <1>9. "ecall" \in Causes
    BY CauseFacts
  <1>10. spike.isr = 0 /\ rtl.isr = 0
    <2>1. spike.isr = 0
      BY <1>3, InsnFacts, CauseFacts DEF LockstepInv, HartOK
    <2> QED BY <2>1, SameFacts
  <1>11. HartOK(rtl') /\ HartOK(spike')
    BY <1>3, <1>8, <1>9, TrappedFacts
  <1>12. SameHart'
    BY <1>3, <1>8 DEF SameHart, Trapped, HartOK
  <1>13. LoweredInTime'
    <2>1. spike'.mip = spike.mip /\ spike'.mie = spike.mie /\ spike'.isr = 1
      BY <1>3, <1>8, <1>9, TrappedFacts
    <2>2. /\ "msip" \notin spike.mip /\ "seip" \notin spike.mip
          /\ "mtip" \in spike.mip => "mtip" \notin spike.mie
      BY <1>10, OutsideHandlers
    <2> QED BY <2>1, <2>2 DEF LoweredInTime, At
  <1>14. PlicAsks'
    <2>1. rtl'.isr = 1 /\ rtl'.mip = rtl.mip
      BY <1>3, <1>8, <1>9, TrappedFacts
    <2> QED BY <1>1, <2>1 DEF PlicAsks, LockstepInv
  <1>15. devs' \in DevsType /\ Known' = Known
    <2>1. Known' = devs'.interrupt_vector \union devs'.working
      BY DEF Known
    <2> QED BY <1>3, <1>7, <2>1, SteppedDevs
  <1> QED BY <1>1, <1>7, <1>11, <1>12, <1>13, <1>14, <1>15 DEF LockstepInv, DevsType, HartOK

(* ... and an interrupt: it is the one that Spike takes. *)
LEMMA InterruptKeepsInv ==
  ASSUME LockstepInv, TakeInterrupt
  PROVE  LockstepInv' /\ Known' = Known
  <1>1. PICK cause \in Pending(rtl) :
          /\ rtl' = Trapped(rtl, cause) /\ Stepped(Line(FALSE, FALSE, TRUE, cause, 0))
          /\ UNCHANGED <<asked, unserved, early>>
    BY DEF TakeInterrupt
  <1> DEFINE line == Line(FALSE, FALSE, TRUE, cause, 0)
             h == Forced(line)
  <1>2. /\ line.val = FALSE /\ line.except = FALSE /\ line.intrpt = TRUE /\ line.cause = cause
    BY DEF Line
  <1>3. HartOK(rtl) /\ HartOK(spike) /\ SameHart /\ LoweredInTime /\ PlicAsks
    BY DEF LockstepInv
  <1>4. rtl.isr = 0 /\ spike.isr = 0 /\ cause \in rtl.mip /\ cause \in rtl.mie /\ cause \in Interrupts
    <2>1. rtl.isr = 0
      BY DEF Pending
    <2>2. cause \in rtl.mip /\ cause \in rtl.mie
      BY <2>1 DEF Pending
    <2> QED BY <1>3, <2>1, <2>2, SameFacts DEF HartOK
  <1>5. cause \in Causes
    BY <1>4, CauseFacts
  <1> HIDE DEF line
  <1>6. ~ Refused(line)
    <2>1. cause \in {"msip", "mtip", "seip", "stip"}
      BY <1>4, CauseFacts
    <2>2. ASSUME AsksPlic(line) PROVE alert_core_external_interrupt(DevsAsked(line))
      <3>1. cause = "seip"
        BY <1>2, <2>2 DEF AsksPlic
      <3>2. Known # {}
        BY <1>3, <1>4, <3>1 DEF PlicAsks, LockstepInv
      <3> QED BY <2>2, <3>2, DevsTickedFacts
    <2> QED BY <1>2, <2>1, <2>2 DEF Refused
  <1>7. ~ Retires(line) /\ ~ Mismatch(line)
    BY <1>2 DEF Retires, Mismatch
  <1>8. PICK w \in DeviceValues : spike' = HartStepped(line, w)
    BY <1>1, <1>6, <1>7 DEF Stepped, ganged_step, line
  <1>9. devs' = DevsStepped(line) /\ ~ failed' /\ code' = code
    BY <1>1, <1>6, <1>7 DEF Stepped, ganged_step, line
  <1>10. /\ h = [spike EXCEPT !.mip = h.mip]
         /\ h.mip = IF cause = "stip" THEN spike.mip ELSE spike.mip \union {cause}
    <2>1. CASE cause = "stip"
      <3>1. h = spike
        BY <1>2, <2>1 DEF Forced
      <3> QED BY <1>3, <2>1, <3>1 DEF HartOK
    <2>2. CASE cause # "stip"
      <3>1. h = [spike EXCEPT !.mip = @ \union {cause}]
        BY <1>2, <1>4, <2>2, CauseFacts DEF Forced
      <3> QED BY <1>3, <2>2, <3>1 DEF HartOK
    <2> QED BY <2>1, <2>2
  <1> HIDE DEF h
  <1>11. /\ h.isr = 0 /\ h.mie = rtl.mie /\ h.mip \subseteq Interrupts /\ HartOK(h)
    BY <1>3, <1>4, <1>10, SameFacts DEF HartOK
  <1>12. Pending(h) \subseteq {cause, "stip"} /\ cause \in Pending(h)
    <2>1. Pending(h) = h.mip \intersect rtl.mie
      BY <1>11 DEF Pending
    <2>2. cause \in h.mip
      BY <1>3, <1>4, <1>10 DEF SameHart
    <2>3. ASSUME NEW c \in Pending(h), c # cause PROVE c = "stip"
      <3>1. c \in spike.mip /\ c \in spike.mie
        BY <1>10, <2>1, <2>3, SameFacts
      <3>2. c \in {"msip", "mtip", "seip", "stip"}
        BY <1>11, <2>1, CauseFacts
      <3> QED BY <1>4, <3>1, <3>2, OutsideHandlers
    <2> QED BY <1>4, <2>1, <2>2, <2>3
  <1>13. Interrupted(line) /\ First(Pending(h)) = cause
    BY <1>4, <1>12, FirstFact DEF Interrupted, h
  <1>14. spike' = Trapped(h, cause)
    BY <1>8, <1>13 DEF HartStepped, h
  <1>15. /\ HartOK(rtl') /\ HartOK(spike')
         /\ rtl'.isr = 1 /\ spike'.isr = 1 /\ spike'.cause = cause
         /\ rtl'.mip = rtl.mip /\ spike'.mip = h.mip /\ spike'.mie = spike.mie
    <2>1. HartOK(rtl') /\ rtl'.isr = 1 /\ rtl'.mip = rtl.mip
      BY <1>1, <1>3, <1>5, TrappedFacts
    <2>2. HartOK(spike') /\ spike'.isr = 1 /\ spike'.cause = cause /\ spike'.mip = h.mip /\ spike'.mie = h.mie
      <3>1. HartOK(h) /\ cause \in Causes
        BY <1>5, <1>11
      <3>2. /\ HartOK(Trapped(h, cause)) /\ Trapped(h, cause).isr = 1 /\ Trapped(h, cause).cause = cause
            /\ Trapped(h, cause).mip = h.mip /\ Trapped(h, cause).mie = h.mie
        BY <3>1, TrappedFacts
      <3> QED BY <1>14, <3>2
    <2>3. h.mie = spike.mie
      BY <1>11, SameFacts
    <2> QED BY <2>1, <2>2, <2>3
  <1>16. SameHart'
    <2>1. /\ spike' = [h EXCEPT !.isr = 1, !.cause = cause]
          /\ rtl' = [rtl EXCEPT !.isr = 1, !.cause = cause]
      BY <1>1, <1>14 DEF Trapped
    <2>2. spike' = [rtl' EXCEPT !.mip = spike'.mip]
      <3>1. h = [rtl EXCEPT !.mip = h.mip]
        BY <1>3, <1>10 DEF SameHart, HartOK
      <3> QED BY <1>3, <1>15, <2>1, <3>1 DEF HartOK
    <2>3. "stip" \in spike'.mip <=> "stip" \in rtl'.mip
      BY <1>3, <1>10, <1>15 DEF SameHart
    <2> QED BY <2>2, <2>3 DEF SameHart
  <1>17. LoweredInTime'
    <2>1. /\ "msip" \in spike'.mip => cause = "msip"
          /\ "seip" \in spike'.mip => cause = "seip"
          /\ "mtip" \in spike'.mip => cause = "mtip" \/ "mtip" \notin spike'.mie
      BY <1>4, <1>10, <1>15, OutsideHandlers
    <2> QED BY <1>15, <2>1 DEF LoweredInTime, At
  <1>18. PlicAsks'
    BY <1>1, <1>3, <1>15 DEF PlicAsks
  <1>19. devs' \in DevsType /\ Known' = Known
    <2>1. Known' = devs'.interrupt_vector \union devs'.working
      BY DEF Known
    <2> QED BY <1>9, <1>13, <2>1, SteppedDevs
  <1> QED BY <1>1, <1>9, <1>15, <1>16, <1>17, <1>18, <1>19 DEF LockstepInv, DevsType, HartOK

-----------------------------------------------------------------------------

(* The harts start in lockstep.                                            *)
LEMMA InitInv == Init => LockstepInv
  <1> SUFFICES ASSUME Init PROVE LockstepInv
    OBVIOUS
  <1>1. /\ code \in Programs /\ rtl = [ResetHart EXCEPT !.mip = {"mtip"}] /\ spike = ResetHart
        /\ devs = [interrupt_vector |-> {}, working |-> {}] /\ ~ failed
        /\ asked = {} /\ unserved = {}
    BY DEF Init, StepInit
  <1>2. ResetHart = [at |-> 0, isr |-> 0, cause |-> "ecall", x |-> 0, mip |-> {}, mie |-> Interrupts]
    BY DEF ResetHart
  <1>3. rtl = [at |-> 0, isr |-> 0, cause |-> "ecall", x |-> 0, mip |-> {"mtip"}, mie |-> Interrupts]
    BY <1>1, <1>2
  <1>4. HartOK(rtl) /\ HartOK(spike)
    <2>1. <<0, "ecall">> \in Places
      BY PlaceFacts, CauseFacts
    <2> QED BY <1>1, <1>2, <1>3, <2>1, CauseFacts DEF HartOK
  <1>5. SameHart
    <2>1. [rtl EXCEPT !.mip = {}] = ResetHart
      BY <1>2, <1>3
    <2>2. spike.mip = {} /\ rtl.mip = {"mtip"}
      BY <1>1, <1>2, <1>3
    <2> QED BY <1>1, <2>1, <2>2 DEF SameHart
  <1>6. LoweredInTime
    BY <1>1, <1>2 DEF LoweredInTime, At
  <1>7. PlicAsks
    BY <1>1, <1>3 DEF PlicAsks
  <1> QED BY <1>1, <1>4, <1>5, <1>6, <1>7 DEF LockstepInv

(* A bubble and the steps between files leave the harts alone.             *)
LEMMA OtherKeepsInv ==
  ASSUME LockstepInv, UNCHANGED <<rtlVars, stepVars>> \/ Bubble \/ UNCHANGED vars
  PROVE  LockstepInv'
  <1>1. UNCHANGED <<code, rtl, asked, unserved, spike, devs, failed>>
    BY DEF Bubble, rtlVars, stepVars, vars
  <1> QED BY <1>1 DEF LockstepInv, HartOK, SameHart, LoweredInTime, At, PlicAsks, Known

(* Every step keeps the harts in lockstep.                                 *)
LEMMA NextKeepsInv == LockstepInv /\ [Next]_vars => LockstepInv'
  <1> SUFFICES ASSUME LockstepInv, [Next]_vars PROVE LockstepInv'
    OBVIOUS
  <1>1. CASE Turn
    BY <1>1, RetireKeepsInv, ExceptionKeepsInv, InterruptKeepsInv, OtherKeepsInv DEF Turn
  <1>2. CASE Consume \/ PopBuffer \/ Finish
    <2>1. UNCHANGED <<rtlVars, stepVars>>
      BY <1>2 DEF Consume, PopBuffer, Finish
    <2> QED BY <2>1, OtherKeepsInv
  <1>3. CASE UNCHANGED vars
    BY <1>3, OtherKeepsInv
  <1> QED BY <1>1, <1>2, <1>3 DEF Next

(* The invariant the theorems rest on.                                     *)
THEOREM LockstepInvariant == Spec => []LockstepInv
  BY InitInv, NextKeepsInv, PTL DEF Spec

(* ganged_step never fails, and Spike's hart is where the RTL's is, with   *)
(* its register and its enabled interrupts (run_from_trace).               *)
THEOREM StaysInLockstep == Spec => []InLockstep
  <1>1. LockstepInv => InLockstep
    BY SameFacts DEF InLockstep, LockstepInv
  <1> QED BY <1>1, LockstepInvariant, PTL

(* Outside the handlers Spike has no hardware interrupt pending that it    *)
(* would take unasked at the next step (ganged_step).                      *)
THEOREM OnlySoftwarePends == Spec => []NothingPendingUnasked
  <1>1. LockstepInv => NothingPendingUnasked
    <2> SUFFICES ASSUME LockstepInv PROVE NothingPendingUnasked
      OBVIOUS
    <2>1. CASE spike.isr # 0
      BY <2>1 DEF NothingPendingUnasked, Pending
    <2>2. CASE spike.isr = 0
      <3>1. Pending(spike) = spike.mip \intersect spike.mie
        BY <2>2 DEF Pending
      <3>2. spike.mip \subseteq {"msip", "mtip", "seip", "stip"}
        BY CauseFacts DEF LockstepInv, HartOK
      <3> QED BY <2>2, <3>1, <3>2, OutsideHandlers DEF NothingPendingUnasked
    <2> QED BY <2>1, <2>2
  <1> QED BY <1>1, LockstepInvariant, PTL

-----------------------------------------------------------------------------

\* The ids for which the shift of a 32-bit int finds the device's bit.
SmallIds == Devices \subseteq 1 .. 31

(* For an id below 32, lowering an interrupt clears its bit.               *)
LEMMA LoweredFacts ==
  ASSUME SmallIds, NEW d \in DevsType, NEW x \in Devices
  PROVE  lower_external_interrupt(d, x) = [d EXCEPT !.interrupt_vector = @ \ {x}]
  <1>1. x \in Nat /\ 1 <= x /\ x <= 31
    BY DEF SmallIds
  <1>2. x % 32 = x
    BY <1>1
  <1>3. x \in ShiftedInt(x)
    BY <1>1, <1>2 DEF ShiftedInt
  <1>4. CASE d.interrupt_vector \intersect ShiftedInt(x) = {}
    <2>1. x \notin d.interrupt_vector
      BY <1>3, <1>4
    <2>2. lower_external_interrupt(d, x) = d
      BY <1>4 DEF lower_external_interrupt
    <2>3. d.interrupt_vector \ {x} = d.interrupt_vector
      BY <2>1
    <2> QED BY <2>2, <2>3 DEF DevsType
  <1>5. CASE d.interrupt_vector \intersect ShiftedInt(x) # {}
    BY <1>5 DEF lower_external_interrupt
  <1> QED BY <1>4, <1>5

\* VectorCovers is inductive with LockstepInv.
CoversInv == LockstepInv /\ VectorCovers

(* An instruction keeps the PLIC's bits those of the unserved devices.     *)
LEMMA RetireKeepsCovers ==
  ASSUME SmallIds, CoversInv, Retire
  PROVE  VectorCovers'
  <1>1. LockstepInv /\ ~ SoftwarePending /\ InsnOf(rtl).op # "ecall"
    BY DEF Retire, CoversInv
  <1>2. PICK v \in Loaded : RtlExecutes(v) /\ Stepped(Retirement(v))
    BY DEF Retire
  <1> DEFINE insn == InsnOf(rtl)
             d == DevsTicked(Retirement(v))
  <1>3. (unserved \subseteq Known)'
    BY <1>1, <1>2, RetireCovers
  <1>4. ASSUME ~ early' PROVE Known' = unserved'
    <2>1. ~ early /\ (insn.op = "serve" => rtl.x \notin d.working)
      BY <1>2, <1>4 DEF RtlExecutes
    <2>2. Known = unserved
      BY <2>1 DEF CoversInv, VectorCovers
    <2>3. CASE insn.op # "serve"
      BY <1>1, <1>2, <2>2, <2>3, RetireKnows
    <2>4. CASE insn.op = "serve"
      <3>1. /\ d \in DevsType /\ d.interrupt_vector \union d.working = unserved
            /\ devs' = lower_external_interrupt(d, rtl.x) /\ unserved' = unserved \ {rtl.x}
            /\ rtl.x \in Devices
        BY <1>1, <1>2, <2>2, <2>4, RetireKnows
      <3>2. rtl.x \notin d.working
        BY <2>1, <2>4
      <3> HIDE DEF d
      <3>3. devs' = [d EXCEPT !.interrupt_vector = @ \ {rtl.x}]
        BY <3>1, LoweredFacts
      <3>4. devs'.interrupt_vector = d.interrupt_vector \ {rtl.x} /\ devs'.working = d.working
        BY <3>1, <3>3 DEF DevsType
      <3>5. Known' = devs'.interrupt_vector \union devs'.working
        BY DEF Known
      <3> QED BY <3>1, <3>2, <3>4, <3>5
    <2> QED BY <2>3, <2>4
  <1> QED BY <1>3, <1>4 DEF VectorCovers

(* So does every other step.                                               *)
LEMMA OtherKeepsCovers ==
  ASSUME CoversInv, [Next]_vars, ~ Retire
  PROVE  VectorCovers'
  <1>1. LockstepInv /\ VectorCovers
    BY DEF CoversInv
  <1>2. CASE Turn
    <2>1. CASE Bubble
      <3>1. UNCHANGED <<unserved, early, devs>>
        BY <2>1 DEF Bubble, stepVars
      <3> QED BY <1>1, <3>1 DEF VectorCovers, Known
    <2>2. CASE TakeException
      <3>1. UNCHANGED <<unserved, early>> /\ Known' = Known
        BY <1>1, <2>2, ExceptionKeepsInv DEF TakeException
      <3> QED BY <1>1, <3>1 DEF VectorCovers
    <2>3. CASE TakeInterrupt
      <3>1. UNCHANGED <<unserved, early>> /\ Known' = Known
        BY <1>1, <2>3, InterruptKeepsInv DEF TakeInterrupt
      <3> QED BY <1>1, <3>1 DEF VectorCovers
    <2> QED BY <1>2, <2>1, <2>2, <2>3 DEF Turn
  <1>3. CASE Consume \/ PopBuffer \/ Finish \/ UNCHANGED vars
    <2>1. UNCHANGED <<unserved, early, devs>>
      BY <1>3 DEF Consume, PopBuffer, Finish, vars, rtlVars, stepVars
    <2> QED BY <1>1, <2>1 DEF VectorCovers, Known
  <1> QED BY <1>2, <1>3 DEF Next

(* With ids below 32, the PLIC and the working devices are exactly those   *)
(* that have asked and were not served, unless one was accessed early      *)
(* (plic_ganged_t).                                                        *)
THEOREM VectorCoversDevices ==
  ASSUME SmallIds
  PROVE  Spec => []VectorCovers
  <1>1. Init => CoversInv
    <2>1. Init => VectorCovers
      BY DEF Init, StepInit, VectorCovers, Known
    <2> QED BY <2>1, InitInv DEF CoversInv
  <1>2. CoversInv /\ [Next]_vars => CoversInv'
    BY NextKeepsInv, RetireKeepsCovers, OtherKeepsCovers DEF CoversInv
  <1>3. CoversInv => VectorCovers
    BY DEF CoversInv
  <1> QED BY <1>1, <1>2, <1>3, PTL DEF Spec
-----------------------------------------------------------------------------
\* What the profiler makes of the places.

(* A program is a sequence of instructions, and all that a handler executes*)
(* is plain.                                                               *)
LEMMA PlaceInsn ==
  ASSUME code \in Programs, NEW h, HartOK(h)
  PROVE  /\ code \in Seq(Insn) /\ Len(code) \in Nat
         /\ h.isr = 0 => InsnAt(pc(h)) = Nth(code, h.at)
         /\ h.isr # 0 => InsnAt(pc(h)).kind = "plain"
         /\ InsnAt(pc(h)).kind # "plain" => InsnAt(pc(h)) \in Insn
  <1>1. code \in Seq(Insn) /\ Len(code) \in Nat
    BY ProgramAssumption, LenProperties
  <1>2. h.isr \in Nat /\ h.at \in Nat /\ h.cause \in Causes /\ <<h.isr, h.cause>> \in Places
    BY DEF HartOK
  <1>3. pc(h)[1] = h.at /\ pc(h)[2] = h.isr /\ (h.isr # 0 => pc(h)[3] = h.cause)
    BY DEF pc
  <1>4. ASSUME h.isr = 0 PROVE InsnAt(pc(h)) = Nth(code, h.at)
    BY <1>2, <1>3, <1>4 DEF InsnAt, Nth
  <1>5. ASSUME h.isr # 0 PROVE InsnAt(pc(h)).kind = "plain"
    <2>1. InsnAt(pc(h)) = Handler[h.cause][h.isr]
      BY <1>2, <1>3, <1>5 DEF InsnAt
    <2>2. \/ h.cause = "msip" /\ h.isr = 1
          \/ h.cause = "mtip" /\ h.isr = 1
          \/ h.cause = "seip" /\ h.isr \in {1, 2, 3}
          \/ h.cause = "stip" /\ h.isr \in {1, 2}
          \/ h.cause = "ecall" /\ h.isr = 1
      BY <1>2, <1>5, PlaceFacts
    <2>3. /\ Handler["msip"][1] = Op("msip", 0)
          /\ Handler["mtip"][1] = Op("defer", 0)
          /\ Handler["seip"][1] = Op("claim", 0)
          /\ Handler["seip"][2] = Op("serve", 0)
          /\ Handler["seip"][3] = Op("complete", 0)
          /\ Handler["stip"][1] = Op("mtimecmp", 0)
          /\ Handler["stip"][2] = Op("resume", 0)
          /\ Handler["ecall"][1] = Op("load", 0)
      BY HandlerFacts
    <2>4. \A op, arg : Op(op, arg).kind = "plain"
      BY DEF Op, Plain
    <2> QED BY <2>1, <2>2, <2>3, <2>4
  <1>6. Nth(code, h.at) \in Insn
    BY <1>1, NthType
  <1> QED BY <1>1, <1>4, <1>5, <1>6

\* The ways a line moves a hart from at to to: on, over one instruction that is
\* not registered, into, through and out of a handler.
Moves(h, g) ==
  \/ h.isr = 0 /\ g.isr = 0 /\ g.at = h.at + 1
  \/ h.isr = 0 /\ g.isr = 0 /\ g.at = h.at + 2 /\ InsnOf(h).op = "skip"
  \/ h.isr # 0 /\ g.isr # 0 /\ g.at = h.at /\ g.cause = h.cause
  \/ h.isr # 0 /\ g.isr = 0 /\ g.at = IF h.cause = "ecall" THEN h.at + 1 ELSE h.at

(* A step of the RTL that retires moves both harts so.                     *)
LEMMA RetireMoves ==
  ASSUME LockstepInv, Retire
  PROVE  Moves(rtl, rtl') /\ Look(pc(spike')) /\ pc(spike') = pc(rtl') /\ code' = code /\ HartOK(rtl')
  <1>1. PICK v \in Loaded : RtlExecutes(v) /\ Stepped(Retirement(v))
    BY DEF Retire
  <1>2. ~ SoftwarePending /\ InsnOf(rtl).op # "ecall" /\ HartOK(rtl)
    BY DEF Retire, LockstepInv
  <1>3. LockstepInv'
    BY RetireKeepsInv
  <1>4. pc(spike)' = pc(rtl)' /\ HartOK(rtl)' /\ ~ failed'
    <2>1. HartOK(rtl)' /\ HartOK(spike)' /\ SameHart' /\ ~ failed'
      BY <1>3 DEF LockstepInv
    <2>2. rtl'.at = spike'.at /\ rtl'.isr = spike'.isr /\ rtl'.cause = spike'.cause
      BY <2>1 DEF SameHart, HartOK
    <2> QED BY <2>1, <2>2 DEF pc
  <1>5. Look(pc(spike')) /\ code' = code
    BY <1>1, <1>4 DEF Stepped
  <1> DEFINE n == IF InsnOf(rtl).op = "skip" /\ rtl.x # 0 THEN 2 ELSE 1
  <1>6. rtl'.at = NextAt(rtl, n) /\ rtl'.isr = NextIsr(rtl) /\ rtl'.cause = rtl.cause
    BY <1>1, <1>2, RetiredRtl
  <1>7. Moves(rtl, rtl')
    <2>1. rtl.isr \in Nat /\ rtl.at \in Nat
      BY <1>2 DEF HartOK
    <2>2. CASE rtl.isr = 0
      BY <1>6, <2>1, <2>2 DEF NextAt, NextIsr, Moves
    <2>3. CASE rtl.isr > 0 /\ rtl.isr < Len(Handler[rtl.cause])
      BY <1>6, <2>1, <2>3 DEF NextAt, NextIsr, Moves
    <2>4. CASE rtl.isr # 0 /\ ~ (rtl.isr > 0 /\ rtl.isr < Len(Handler[rtl.cause]))
      BY <1>6, <2>1, <2>4 DEF NextAt, NextIsr, Moves
    <2> QED BY <2>1, <2>2, <2>3, <2>4
  <1> QED BY <1>4, <1>5, <1>7 DEF pc, HartOK

(* An exception enters the handler of the ecall, an interrupt that of its  *)
(* cause; what the hart then looks at is plain.                            *)
LEMMA TrapMoves ==
  ASSUME LockstepInv, TakeException \/ TakeInterrupt
  PROVE  /\ rtl'.at = rtl.at /\ rtl'.isr = 1 /\ HartOK(rtl') /\ code' = code /\ log' = log
         /\ rtl'.cause = "ecall" \/ (rtl.isr = 0 /\ InsnOf(rtl).kind \in InterruptAt)
         /\ pc(spike') = pc(rtl') /\ InsnAt(pc(rtl')).kind = "plain" /\ UNCHANGED profVars
  <1>1. LockstepInv'
    BY ExceptionKeepsInv, InterruptKeepsInv
  <1>2. HartOK(rtl)' /\ HartOK(spike)' /\ SameHart' /\ ~ failed' /\ HartOK(rtl) /\ code \in Programs
    BY <1>1 DEF LockstepInv
  <1>3. pc(spike') = pc(rtl') /\ HartOK(rtl')
    <2>1. rtl'.at = spike'.at /\ rtl'.isr = spike'.isr /\ rtl'.cause = spike'.cause
      BY <1>2 DEF SameHart, HartOK
    <2> QED BY <1>2, <2>1 DEF pc, HartOK
  <1>4. /\ rtl'.at = rtl.at /\ rtl'.isr = 1 /\ log' = log /\ \E line : Stepped(line)
        /\ rtl'.cause = "ecall" \/ (rtl.isr = 0 /\ InsnOf(rtl).kind \in InterruptAt)
    <2>1. CASE TakeException
      <3>1. /\ InsnOf(rtl).op = "ecall" /\ rtl' = Executed(rtl, 0) /\ log' = log
            /\ \E line : Stepped(line)
        BY <2>1 DEF TakeException
      <3>2. rtl' = Trapped(rtl, "ecall")
        BY <3>1 DEF Executed, WritesX
      <3>3. "ecall" \in Causes
        BY CauseFacts
      <3>4. rtl'.at = rtl.at /\ rtl'.isr = 1 /\ rtl'.cause = "ecall"
        BY <1>2, <3>2, <3>3, TrappedFacts
      <3> QED BY <3>1, <3>4
    <2>2. CASE TakeInterrupt
      <3>1. PICK cause \in Pending(rtl) :
              /\ InsnOf(rtl).kind \in InterruptAt /\ rtl' = Trapped(rtl, cause)
              /\ Stepped(Line(FALSE, FALSE, TRUE, cause, 0)) /\ log' = log
        BY <2>2 DEF TakeInterrupt
      <3>2. rtl.isr = 0 /\ cause \in Causes
        BY <1>2, <3>1, CauseFacts DEF Pending, HartOK
      <3>3. Trapped(rtl, cause).at = rtl.at /\ Trapped(rtl, cause).isr = 1
        <4>1. HartOK(rtl) /\ cause \in Causes
          BY <1>2, <3>2
        <4> QED BY <4>1 DEF Trapped, HartOK
      <3>4. rtl'.at = rtl.at /\ rtl'.isr = 1
        BY <3>1, <3>3
      <3> QED BY <3>1, <3>2, <3>4
    <2> QED BY <2>1, <2>2
  <1>5. code' = code /\ Look(pc(spike'))
    BY <1>2, <1>4 DEF Stepped
  <1>6. InsnAt(pc(rtl')).kind = "plain"
    BY <1>2, <1>3, <1>4, PlaceInsn
  <1>7. UNCHANGED profVars
    BY <1>3, <1>5, <1>6 DEF Look
  <1> QED BY <1>3, <1>4, <1>5, <1>6, <1>7

-----------------------------------------------------------------------------
\* Each registered pc is accounted for once.

\* A step that accounts for the next registered instruction, or for none.
AccountsNext ==
  /\ marks < Len(Registered(code)) /\ marks' = marks + 1 /\ code' = code
  /\ view' = Intercepted(view, Registered(code)[marks + 1])
AccountsNone == UNCHANGED <<code, marks, view>>

\* The registered instructions up to the one the hart is at are accounted for,
\* and that one is plain while an interrupt is being handled.
AccInv ==
  /\ LockstepInv /\ marks = Len(Reg(code, rtl.at))
  /\ rtl.isr # 0 /\ rtl.cause # "ecall" => Nth(code, rtl.at).kind = "plain"

(* The look at the next instruction accounts for it if it is registered.   *)
LEMMA LookNext ==
  ASSUME code \in Programs, code' = code, NEW g, HartOK(g), Look(pc(g)), g.isr = 0,
         NEW n \in Nat, g.at = n + 1, marks = Len(Reg(code, n))
  PROVE  /\ marks' = Len(Reg(code, g.at))
         /\ AccountsNext \/ AccountsNone
  <1>1. code \in Seq(Insn) /\ InsnAt(pc(g)) = Nth(code, n + 1)
    BY PlaceInsn
  <1>2. CASE Nth(code, n + 1).kind = "plain"
    <2>1. UNCHANGED profVars
      BY <1>1, <1>2 DEF Look
    <2>2. Reg(code, n + 1) = Reg(code, n)
      BY <1>1, <1>2, RegNext
    <2> QED BY <2>1, <2>2 DEF profVars, AccountsNone
  <1>3. CASE Nth(code, n + 1).kind # "plain"
    <2>1. view' = Intercepted(view, Nth(code, n + 1)) /\ marks' = marks + 1
      BY <1>1, <1>3 DEF Look
    <2>2. /\ Len(Reg(code, n)) < Len(Registered(code))
          /\ Registered(code)[Len(Reg(code, n)) + 1] = Nth(code, n + 1)
          /\ Len(Reg(code, n + 1)) = Len(Reg(code, n)) + 1
      BY <1>1, <1>3, NextRegistered
    <2> QED BY <2>1, <2>2 DEF AccountsNext
  <1> QED BY <1>2, <1>3

(* So does each line, whatever it does to the hart.                        *)
LEMMA RetireAccounts ==
  ASSUME NoneSkipped, AccInv, Retire
  PROVE  AccInv' /\ (AccountsNext \/ AccountsNone)
  <1>1. LockstepInv /\ code \in Programs /\ HartOK(rtl) /\ marks = Len(Reg(code, rtl.at))
    BY DEF AccInv, LockstepInv
  <1>2. Moves(rtl, rtl') /\ Look(pc(rtl')) /\ code' = code /\ HartOK(rtl') /\ LockstepInv'
    BY <1>1, RetireMoves, RetireKeepsInv
  <1>3. rtl.at \in Nat /\ rtl'.at \in Nat /\ code \in Seq(Insn) /\ Len(code) \in Nat
    BY <1>1, <1>2, PlaceInsn DEF HartOK
  <1>4. CASE rtl'.isr = 0 /\ rtl'.at = rtl.at + 1
    BY <1>1, <1>2, <1>3, <1>4, LookNext DEF AccInv
  <1>5. CASE rtl.isr = 0 /\ rtl'.isr = 0 /\ rtl'.at = rtl.at + 2 /\ InsnOf(rtl).op = "skip"
    <2>1. Nth(code, rtl.at).op = "skip"
      BY <1>1, <1>5, PlaceInsn DEF InsnOf
    <2>2. rtl.at \in 1 .. Len(code) /\ code[rtl.at].op = "skip"
      BY <2>1, PlainFact DEF Nth
    <2>3. rtl.at = Len(code) \/ code[rtl.at + 1].kind = "plain"
      BY <1>1, <2>2 DEF NoneSkipped, JumpsOverPlain
    <2>4. Nth(code, rtl.at + 1).kind = "plain"
      <3>1. Plain(1, "no").kind = "plain"
        BY DEF Plain
      <3> QED BY <1>3, <2>3, <3>1 DEF Nth
    <2>5. Reg(code, rtl.at + 1) = Reg(code, rtl.at)
      BY <1>3, <2>4, RegNext
    <2>6. rtl.at + 1 \in Nat /\ rtl'.at = (rtl.at + 1) + 1
      BY <1>3, <1>5
    <2>7. marks = Len(Reg(code, rtl.at + 1))
      BY <1>1, <2>5
    <2>8. /\ marks' = Len(Reg(code, rtl'.at))
          /\ AccountsNext \/ AccountsNone
      BY <1>1, <1>2, <1>5, <2>6, <2>7, LookNext
    <2> QED BY <1>2, <1>5, <2>8 DEF AccInv
  <1>6. CASE rtl'.at = rtl.at /\ rtl.isr # 0 /\ (rtl'.isr # 0 => rtl'.cause = rtl.cause)
             /\ (rtl'.isr = 0 => rtl.cause # "ecall")
    <2>1. InsnAt(pc(rtl')).kind = "plain"
      <3>1. CASE rtl'.isr # 0
        BY <1>1, <1>2, <3>1, PlaceInsn
      <3>2. CASE rtl'.isr = 0
        BY <1>1, <1>2, <1>6, <3>2, PlaceInsn DEF AccInv
      <3> QED BY <3>1, <3>2
    <2>2. UNCHANGED <<view, marks>>
      BY <1>2, <2>1 DEF Look, profVars
    <2> QED BY <1>1, <1>2, <1>6, <2>2 DEF AccInv, AccountsNone
  <1> QED BY <1>2, <1>4, <1>5, <1>6 DEF Moves

(* And every step accounts for one instruction or none.                    *)
LEMMA AccStep ==
  ASSUME NoneSkipped, TrapsAtPlain, AccInv, [Next]_vars
  PROVE  AccInv' /\ (AccountsNext \/ AccountsNone)
  <1>1. LockstepInv /\ LockstepInv' /\ code \in Programs /\ HartOK(rtl)
    BY NextKeepsInv DEF AccInv, LockstepInv
  <1>2. CASE Turn /\ (TakeException \/ TakeInterrupt)
    <2>1. /\ rtl'.at = rtl.at /\ rtl'.isr = 1 /\ code' = code /\ UNCHANGED profVars
          /\ rtl'.cause = "ecall" \/ (rtl.isr = 0 /\ InsnOf(rtl).kind \in InterruptAt)
      BY <1>1, <1>2, TrapMoves
    <2>2. rtl'.cause # "ecall" => Nth(code, rtl.at).kind = "plain"
      BY <1>1, <2>1, PlaceInsn DEF TrapsAtPlain, InsnOf
    <2> QED BY <1>1, <2>1, <2>2 DEF AccInv, AccountsNone, profVars
  <1>3. CASE Consume \/ PopBuffer \/ Finish \/ (Turn /\ Bubble) \/ UNCHANGED vars
    <2>1. UNCHANGED <<code, rtl, marks, view>>
      BY <1>3 DEF Consume, PopBuffer, Finish, Bubble, vars, rtlVars, profVars
    <2> QED BY <1>1, <2>1 DEF AccInv, AccountsNone
  <1>4. CASE Turn /\ Retire
    BY <1>4, RetireAccounts
  <1> QED BY <1>2, <1>3, <1>4 DEF Next, Turn

(* When traps are taken at plain instructions only and no program jumps    *)
(* over a registered one, each registered pc updates the profiler's view   *)
(* once, in program order: run_from_trace implements Interception.         *)
THEOREM ImplementsInterception ==
  ASSUME NoneSkipped, TrapsAtPlain
  PROVE  Spec => AccountedOnce
  <1>1. /\ \A c : Abstract!Registered(c) = Registered(c)
        /\ \A v, i : Abstract!Intercepted(v, i) = Intercepted(v, i)
        /\ Abstract!EmptyView(FirstPid) = EmptyView(FirstPid)
    BY DEF Abstract!Registered, Registered, Abstract!Intercepted, Intercepted, Abstract!Hooked, Hooked,
           Abstract!Popped, Popped, Abstract!EmptyView, EmptyView
  <1>2. Init => AccInv /\ Abstract!Init
    <2> SUFFICES ASSUME Init PROVE AccInv /\ Abstract!Init
      OBVIOUS
    <2>1. LockstepInv /\ code \in Programs /\ code \in Seq(Insn)
      BY InitInv, ProgramAssumption DEF LockstepInv
    <2>2. rtl.at = 0 /\ rtl.isr = 0 /\ marks = 0 /\ view = EmptyView(FirstPid)
      BY DEF Init, ResetHart
    <2>3. Len(Reg(code, 0)) = 0
      BY <2>1, RegNext
    <2> QED BY <1>1, <2>1, <2>2, <2>3 DEF AccInv, Abstract!Init
  <1>3. AccInv /\ [Next]_vars => AccInv' /\ [Abstract!Account]_(Abstract!vars)
    <2> SUFFICES ASSUME AccInv, [Next]_vars
                 PROVE  AccInv' /\ (Abstract!Account \/ UNCHANGED Abstract!vars)
      OBVIOUS
    <2>1. CASE AccountsNext
      BY <1>1, <2>1, AccStep DEF AccountsNext, Abstract!Account
    <2>2. CASE AccountsNone
      BY <2>2, AccStep DEF AccountsNone, Abstract!vars
    <2> QED BY <2>1, <2>2, AccStep
  <1> QED BY <1>2, <1>3, PTL DEF Spec, AccountedOnce, Abstract!Spec

-----------------------------------------------------------------------------
\* The events are the starts that have been reached.

\* StartsIn, of a given program; and the places it is applied to.
InsnIn(c, place) ==
  CASE place[2] > 0 -> Handler[place[3]][place[2]]
    [] place[2] = 0 /\ place[1] \in 1 .. Len(c) -> c[place[1]]
    [] OTHER -> Plain(1, "no")
IsStart(c, place) == InsnIn(c, place).kind = "start"
StartsOf(c, places) ==
  LET sel[n \in 0 .. Len(places)] ==
        IF n = 0 THEN <<>>
        ELSE IF IsStart(c, places[n]) THEN Append(sel[n - 1], places[n]) ELSE sel[n - 1]
  IN  sel[Len(places)]
Spots == Nat \X Nat \X Causes

(* The definitions agree, and a hart's pc is such a place.                 *)
LEMMA StartsAgree ==
  /\ \A place : InsnAt(place) = InsnIn(code, place)
  /\ EventsAreTheStarts <=> packets = StartsOf(code, Append(log, pc(rtl)))
  <1>1. \A place : InsnAt(place) = InsnIn(code, place)
    BY DEF InsnAt, InsnIn
  <1>2. EventsAreTheStarts <=> packets = StartsOf(code, Append(log, pc(rtl)))
    BY DEF EventsAreTheStarts, StartsIn, StartsOf, IsStart, InsnAt, InsnIn
  <1> QED BY <1>1, <1>2

(* A hart's pc is such a place.                                            *)
LEMMA SpotFact == ASSUME NEW h, HartOK(h) PROVE pc(h) \in Spots
  <1>1. h.at \in Nat /\ h.isr \in Nat /\ h.cause \in Causes /\ "ecall" \in Causes
    BY CauseFacts DEF HartOK
  <1> QED BY <1>1 DEF pc, Spots

(* The starts among the first n places of s, for each n.                   *)
StartSteps(f, c, s) ==
  /\ f[0] = <<>> /\ f[Len(s)] = StartsOf(c, s)
  /\ \A n \in 1 .. Len(s) : f[n] = IF IsStart(c, s[n]) THEN Append(f[n - 1], s[n]) ELSE f[n - 1]

(* StartsOf selects one place after the other.                             *)
LEMMA StartStepsExist ==
  ASSUME NEW c, NEW s \in Seq(Spots)
  PROVE  \E f \in [0 .. Len(s) -> Seq(Spots)] : StartSteps(f, c, s)
  <1> DEFINE N == Len(s)
             Put(u, n) == IF IsStart(c, s[n]) THEN Append(u, s[n]) ELSE u
             step == [n \in 1 .. N |-> [u \in Seq(Spots) |-> Put(u, n)]]
  <1>1. N \in Nat /\ \A n \in 1 .. N : s[n] \in Spots
    BY LenProperties, ElementOfSeq
  <1>2. \A n \in 1 .. N : \A u \in Seq(Spots) : step[n][u] \in Seq(Spots)
    BY <1>1, AppendProperties
  <1>3. StartsOf(c, s) =
          (CHOOSE h : h = [n \in 0 .. N |-> IF n = 0 THEN <<>> ELSE Put(h[n - 1], n)])[N]
    BY DEF StartsOf
  <1>4. \A u \in Seq(Spots), n \in 1 .. N : step[n][u] = Put(u, n)
    OBVIOUS
  <1>5. \A u, n : Put(u, n) = IF IsStart(c, s[n]) THEN Append(u, s[n]) ELSE u
    OBVIOUS
  <1> HIDE DEF N, step, Put
  <1>6. PICK g \in [0 .. N -> Seq(Spots)] : Iterates(g, <<>>, N, step)
    <2>1. N \in Nat /\ <<>> \in Seq(Spots)
      BY <1>1
    <2> QED BY <1>2, <2>1, RecursionExists
  <1>7. ASSUME NEW n \in 0 .. N, n # 0 PROVE n \in 1 .. N /\ g[n - 1] \in Seq(Spots)
    BY <1>1, <1>6, <1>7
  <1> DEFINE Is(h) == h = [n \in 0 .. N |-> IF n = 0 THEN <<>> ELSE Put(h[n - 1], n)]
             f == CHOOSE h : Is(h)
  <1>8. Is(g)
    BY <1>4, <1>6, <1>7 DEF Iterates
  <1>9. Is(f) /\ f[N] = StartsOf(c, s)
    BY <1>3, <1>8, Zenon
  <1> HIDE DEF f
  <1>10. f[0] = <<>> /\ \A n \in 1 .. N : f[n] = Put(f[n - 1], n)
    BY <1>1, <1>9
  <1>11. g[0] = <<>> /\ \A n \in 1 .. N : g[n] = Put(g[n - 1], n)
    BY <1>1, <1>8
  <1>12. \A n \in 0 .. N : f[n] = g[n]
    <2>1. \A n \in 1 .. N : f[n - 1] = g[n - 1] => f[n] = g[n]
      BY <1>10, <1>11
    <2>2. N \in Nat /\ f[0] = g[0]
      BY <1>1, <1>10, <1>11
    <2> HIDE DEF Is
    <2>3. GoOnAlike(f, g, N)
      BY <2>1, <2>2 DEF GoOnAlike
    <2>4. Alike(f, g, N)
      BY <2>2, <2>3, RecursionAgrees
    <2> QED BY <2>4 DEF Alike
  <1>13. f = g
    BY <1>6, <1>9, <1>12
  <1>14. StartSteps(f, c, s)
    BY <1>5, <1>9, <1>10 DEF StartSteps, N
  <1> QED BY <1>6, <1>13, <1>14 DEF N

\* One more place is selected when a start is registered there.
SelectsOne(c, s, p) ==
  StartsOf(c, Append(s, p)) = IF IsStart(c, p) THEN Append(StartsOf(c, s), p) ELSE StartsOf(c, s)

(* It is.                                                                  *)
LEMMA StartsAppend ==
  ASSUME NEW c, NEW s \in Seq(Spots), NEW p \in Spots
  PROVE  SelectsOne(c, s, p) /\ StartsOf(c, <<>>) = <<>>
  <1> DEFINE t == Append(s, p)
             N == Len(s)
  <1>1. /\ N \in Nat /\ t \in Seq(Spots) /\ Len(t) = N + 1 /\ t[N + 1] = p
        /\ \A n \in 1 .. N : t[n] = s[n]
    BY LenProperties, AppendProperties
  <1>2. PICK f \in [0 .. N -> Seq(Spots)] : StartSteps(f, c, s)
    BY StartStepsExist
  <1> HIDE DEF t
  <1>3. PICK g \in [0 .. Len(t) -> Seq(Spots)] : StartSteps(g, c, t)
    BY <1>1, StartStepsExist
  <1> HIDE DEF N
  <1>4. /\ f[0] = <<>> /\ f[N] = StartsOf(c, s)
        /\ \A n \in 1 .. N : f[n] = IF IsStart(c, s[n]) THEN Append(f[n - 1], s[n]) ELSE f[n - 1]
    BY <1>2 DEF StartSteps, N
  <1>5. /\ g[0] = <<>> /\ g[N + 1] = StartsOf(c, t)
        /\ \A n \in 1 .. N + 1 :
             g[n] = IF IsStart(c, t[n]) THEN Append(g[n - 1], t[n]) ELSE g[n - 1]
    BY <1>1, <1>3 DEF StartSteps
  <1>6. \A n \in 0 .. N : f[n] = g[n]
    <2>1. \A n \in 1 .. N : f[n - 1] = g[n - 1] => f[n] = g[n]
      <3> SUFFICES ASSUME NEW n \in 1 .. N, f[n - 1] = g[n - 1] PROVE f[n] = g[n]
        OBVIOUS
      <3>1. n \in 1 .. N + 1
        BY <1>1
      <3>2. t[n] = s[n]
        BY <1>1, Zenon
      <3> QED BY <1>4, <1>5, <3>1, <3>2
    <2>2. N \in Nat /\ f[0] = g[0]
      BY <1>1, <1>4, <1>5
    <2>3. GoOnAlike(f, g, N)
      BY <2>1, <2>2 DEF GoOnAlike
    <2>4. Alike(f, g, N)
      BY <2>2, <2>3, RecursionAgrees
    <2> QED BY <2>4 DEF Alike
  <1>7. f[N] = g[N] /\ N + 1 \in 1 .. N + 1 /\ (N + 1) - 1 = N /\ N \in 0 .. N
    BY <1>1, <1>6
  <1>8. g[N + 1] = IF IsStart(c, p) THEN Append(g[N], p) ELSE g[N]
    BY <1>1, <1>5, <1>7
  <1>9. StartsOf(c, <<>>) = <<>>
    <2>1. <<>> \in Seq(Spots) /\ Len(<<>>) = 0
      OBVIOUS
    <2>2. PICK h \in [0 .. 0 -> Seq(Spots)] : StartSteps(h, c, <<>>)
      BY <2>1, StartStepsExist
    <2> QED BY <2>1, <2>2 DEF StartSteps
  <1> QED BY <1>4, <1>5, <1>7, <1>8, <1>9 DEF t, SelectsOne

\* EventsAreTheStarts, with the types it needs.
EventsInv == LockstepInv /\ log \in Seq(Spots) /\ packets = StartsOf(code, Append(log, pc(rtl)))

(* An instruction that retires appends its event, when the next starts one.*)
LEMMA RetireRecords == EventsInv /\ Retire => EventsInv'
  <1> SUFFICES ASSUME EventsInv, Retire PROVE EventsInv'
    OBVIOUS
  <1>1. LockstepInv /\ code \in Programs /\ HartOK(rtl) /\ log \in Seq(Spots)
    BY DEF EventsInv, LockstepInv
  <1>2. /\ Look(pc(rtl')) /\ code' = code /\ HartOK(rtl') /\ LockstepInv'
        /\ log' = IF InsnOf(rtl).kind = "plain" THEN log ELSE Append(log, pc(rtl))
    BY <1>1, RetireMoves, RetireKeepsInv DEF Retire
  <1> DEFINE p == pc(rtl)
             q == pc(rtl')
  <1>3. p \in Spots /\ q \in Spots
    BY <1>1, <1>2, SpotFact
  <1>4. InsnOf(rtl) = InsnIn(code, p) /\ InsnAt(q) = InsnIn(code, q)
    BY StartsAgree DEF InsnOf
  <1>5. pc(rtl)' = q
    OBVIOUS
  <1> HIDE DEF p, q
  <1>6. log' \in Seq(Spots) /\ packets = StartsOf(code, log')
    <2>1. packets = StartsOf(code, Append(log, p))
      BY DEF EventsInv, p
    <2>2. SelectsOne(code, log, p)
      BY <1>1, <1>3, StartsAppend
    <2>3. Append(log, p) \in Seq(Spots)
      BY <1>1, <1>3, AppendProperties
    <2>4. InsnIn(code, p).kind = "plain" => ~ IsStart(code, p)
      BY DEF IsStart
    <2>5. log' = IF InsnIn(code, p).kind = "plain" THEN log ELSE Append(log, p)
      BY <1>2, <1>4 DEF p
    <2> QED BY <1>1, <2>1, <2>2, <2>3, <2>4, <2>5 DEF SelectsOne
  <1>7. packets' = IF IsStart(code, q) THEN Append(packets, q) ELSE packets
    BY <1>2, <1>4 DEF Look, profVars, IsStart, q
  <1>8. SelectsOne(code, log', q)
    BY <1>3, <1>6, StartsAppend
  <1>9. packets' = StartsOf(code, Append(log', q))
    BY <1>6, <1>7, <1>8 DEF SelectsOne
  <1> QED BY <1>2, <1>5, <1>6, <1>9 DEF EventsInv

(* No other line records one.                                              *)
LEMMA TrapRecords ==
  ASSUME "start" \notin InterruptAt, EventsInv, TakeException \/ TakeInterrupt
  PROVE  EventsInv'
  <1>1. LockstepInv /\ code \in Programs /\ HartOK(rtl) /\ log \in Seq(Spots) /\ LockstepInv'
    BY ExceptionKeepsInv, InterruptKeepsInv DEF EventsInv, LockstepInv
  <1>2. /\ HartOK(rtl') /\ code' = code /\ log' = log /\ UNCHANGED profVars
        /\ InsnAt(pc(rtl')).kind = "plain" /\ InsnOf(rtl).kind # "start"
    <2>1. CASE TakeException
      <3>1. InsnOf(rtl).op = "ecall" /\ (InsnOf(rtl).kind # "plain" => rtl.isr = 0)
        BY <1>1, <2>1, PlaceInsn DEF TakeException, InsnOf
      <3>2. InsnOf(rtl).kind # "plain" => InsnOf(rtl).op = "none"
        <4> SUFFICES ASSUME InsnOf(rtl).kind # "plain" PROVE InsnOf(rtl).op = "none"
          OBVIOUS
        <4>1. InsnOf(rtl) = Nth(code, rtl.at) /\ code \in Seq(Insn)
          BY <1>1, <3>1, PlaceInsn DEF InsnOf
        <4>2. rtl.at \in 1 .. Len(code) /\ Nth(code, rtl.at) = code[rtl.at]
          BY <4>1, NthType
        <4> QED BY <1>1, <4>1, <4>2, ProgramAssumption
      <3> QED BY <1>1, <2>1, <3>1, <3>2, TrapMoves
    <2>2. CASE TakeInterrupt
      <3>1. InsnOf(rtl).kind \in InterruptAt
        BY <2>2 DEF TakeInterrupt
      <3> QED BY <1>1, <2>2, <3>1, TrapMoves
    <2> QED BY <2>1, <2>2
  <1> DEFINE p == pc(rtl)
             q == pc(rtl')
  <1>3. p \in Spots /\ q \in Spots /\ ~ IsStart(code, p) /\ ~ IsStart(code, q)
    BY <1>1, <1>2, SpotFact, StartsAgree DEF InsnOf, IsStart
  <1>4. packets' = packets /\ packets = StartsOf(code, Append(log, p)) /\ pc(rtl)' = q
    BY <1>2 DEF profVars, EventsInv
  <1> HIDE DEF p, q
  <1>5. SelectsOne(code, log, p) /\ SelectsOne(code, log, q)
    BY <1>1, <1>3, StartsAppend
  <1>6. packets' = StartsOf(code, Append(log, q))
    BY <1>3, <1>4, <1>5 DEF SelectsOne
  <1> QED BY <1>1, <1>2, <1>4, <1>6 DEF EventsInv

(* When no trap is taken at a registered start, an event is recorded for   *)
(* each start that retires and for the one the hart is at (run_from_trace).*)
THEOREM EventsMatchStarts ==
  ASSUME "start" \notin InterruptAt
  PROVE  Spec => []EventsAreTheStarts
  <1>1. Init => EventsInv
    <2> SUFFICES ASSUME Init PROVE EventsInv
      OBVIOUS
    <2>1. LockstepInv /\ code \in Programs /\ HartOK(rtl) /\ log = <<>> /\ packets = <<>>
      BY InitInv DEF Init, LockstepInv
    <2>2. rtl.isr = 0 /\ rtl.at = 0
      BY DEF Init, ResetHart
    <2>3. ~ IsStart(code, pc(rtl)) /\ pc(rtl) \in Spots
      <3>1. InsnIn(code, pc(rtl)) = Nth(code, 0)
        BY <2>1, <2>2, PlaceInsn, StartsAgree
      <3>2. Nth(code, 0).kind = "plain"
        BY DEF Nth, Plain
      <3> QED BY <2>1, <3>1, <3>2, SpotFact DEF IsStart
    <2>4. <<>> \in Seq(Spots)
      OBVIOUS
    <2>5. SelectsOne(code, <<>>, pc(rtl)) /\ StartsOf(code, <<>>) = <<>>
      BY <2>3, <2>4, StartsAppend
    <2> QED BY <2>1, <2>3, <2>4, <2>5 DEF EventsInv, SelectsOne
  <1>2. EventsInv /\ [Next]_vars => EventsInv'
    <2> SUFFICES ASSUME EventsInv, [Next]_vars PROVE EventsInv'
      OBVIOUS
    <2>1. CASE Turn /\ Retire
      BY <2>1, RetireRecords
    <2>2. CASE Turn /\ (TakeException \/ TakeInterrupt)
      BY <2>2, TrapRecords
    <2>3. CASE Consume \/ PopBuffer \/ Finish \/ (Turn /\ Bubble) \/ UNCHANGED vars
      <3>1. UNCHANGED <<code, rtl, log, packets>>
        BY <2>3 DEF Consume, PopBuffer, Finish, Bubble, vars, rtlVars, profVars
      <3> QED BY <3>1, NextKeepsInv DEF EventsInv, pc
    <2> QED BY <2>1, <2>2, <2>3 DEF Next, Turn
  <1>3. EventsInv => EventsAreTheStarts
    BY StartsAgree DEF EventsInv
  <1> QED BY <1>1, <1>2, <1>3, PTL DEF Spec

-----------------------------------------------------------------------------
\* Types.

\* TypeOK is inductive with the view's type.
TypeInv == LockstepInv /\ TypeOK /\ view \in Views

(* The check, the step and the look keep the types of what they change.    *)
LEMMA SteppedTypes ==
  ASSUME TypeInv, LockstepInv', NEW line, Stepped(line)
  PROVE  /\ processor_step_cnt' \in 0 .. DEVICE_TICK_PERIOD - 1 /\ failed' \in BOOLEAN
         /\ cnt' \in 0 .. TOHOST_CHECK_PERIOD /\ exited' \in BOOLEAN
         /\ view' \in Views /\ marks' \in Nat /\ UNCHANGED <<code, bubbles>>
  <1>1. /\ processor_step_cnt \in 0 .. DEVICE_TICK_PERIOD - 1 /\ cnt \in 0 .. TOHOST_CHECK_PERIOD
        /\ exited \in BOOLEAN /\ marks \in Nat /\ view \in Views /\ code \in Programs
    BY DEF TypeInv, TypeOK
  <1>2. HartOK(spike') /\ ~ failed'
    <2>1. HartOK(spike)' /\ ~ failed'
      BY DEF LockstepInv
    <2> QED BY <2>1 DEF HartOK
  <1>3. processor_step_cnt' = (processor_step_cnt + 1) % DEVICE_TICK_PERIOD /\ failed' = Mismatch(line)
    <2>1. failed' # TRUE
      BY <1>2
    <2> HIDE DEF Mismatch
    <2> QED BY <2>1 DEF Stepped, ganged_step
  <1>4. processor_step_cnt' \in 0 .. DEVICE_TICK_PERIOD - 1
    BY <1>1, <1>3, StepAssumption
  <1>5. failed' \in BOOLEAN
    BY <1>3, Zenon DEF Mismatch
  <1>6. cnt' = (cnt + 1) % (TOHOST_CHECK_PERIOD + 1) /\ exited' = (exited \/ (cnt = 0 /\ tohost))
    BY DEF Stepped, CheckTohost
  <1>7. cnt' \in 0 .. TOHOST_CHECK_PERIOD
    BY <1>1, <1>6, LockstepAssumption
  <1>8. exited' \in BOOLEAN
    BY <1>6, Zenon
  <1>9. UNCHANGED <<code, bubbles>> /\ Look(pc(spike'))
    BY <1>2 DEF Stepped
  <1>10. view' \in Views /\ marks' \in Nat
    <2>1. CASE InsnAt(pc(spike')).kind = "plain"
      BY <1>1, <1>9, <2>1 DEF Look, profVars
    <2>2. CASE InsnAt(pc(spike')).kind # "plain"
      <3>1. InsnAt(pc(spike')) \in Insn
        BY <1>1, <1>2, <2>2, PlaceInsn
      <3>2. view' = Intercepted(view, InsnAt(pc(spike'))) /\ marks' = marks + 1
        BY <1>9, <2>2 DEF Look
      <3>3. Intercepted(view, InsnAt(pc(spike'))) \in Views
        BY <1>1, <3>1, InterceptedType
      <3> QED BY <1>1, <3>2, <3>3
    <2> QED BY <2>1, <2>2
  <1> QED BY <1>4, <1>5, <1>7, <1>8, <1>9, <1>10

\* What TypeOK says of the harts follows from where the RTL's is.
HartTypes ==
  \A h \in {rtl, spike} :
       /\ h.at \in 0 .. Len(code) + Padding + 2 /\ h.isr \in Nat /\ h.cause \in Causes
       /\ h.mip \subseteq Interrupts /\ h.mie \subseteq Interrupts
       /\ h.x \in LoadValues \union Devices \union {0}

(* It does.                                                                *)
LEMMA HartTypesFact ==
  ASSUME LockstepInv, rtl.at \in 0 .. Len(code) + Padding + 2
  PROVE  HartTypes
  <1>1. HartOK(rtl) /\ HartOK(spike) /\ spike.at = rtl.at
    BY SameFacts DEF LockstepInv
  <1> QED BY <1>1 DEF HartTypes, HartOK

(* A line moves a hart that is not past the end by at most two places.     *)
LEMMA LineMoves ==
  ASSUME LockstepInv, ~ TraceOver, Retire \/ TakeException \/ TakeInterrupt
  PROVE  rtl'.at \in 0 .. Len(code) + Padding + 2
  <1>1. rtl.at \in Nat /\ Len(code) \in Nat /\ Padding \in Nat
    BY PlaceInsn, LockstepAssumption DEF LockstepInv, HartOK
  <1>2. rtl.at <= Len(code) + Padding
    BY <1>1 DEF TraceOver
  <1>3. rtl'.at \in {rtl.at, rtl.at + 1, rtl.at + 2}
    BY RetireMoves, TrapMoves DEF Moves
  <1> QED BY <1>1, <1>2, <1>3

(* Each line keeps the types.                                              *)
LEMMA TurnTypes == TypeInv /\ Turn => TypeInv'
  <1> SUFFICES ASSUME TypeInv, Turn PROVE TypeInv'
    OBVIOUS
  <1>1. LockstepInv /\ LockstepInv' /\ TypeOK /\ view \in Views
    BY NextKeepsInv DEF TypeInv, Next, LockstepInv
  <1>2. lines' \in 0 .. FileLen /\ phase' \in {"wait", "consume", "done"}
    <2>1. lines \in 0 .. FileLen /\ phase \in {"wait", "consume", "done"} /\ FileLen \in Nat
      BY <1>1, LockstepAssumption DEF TypeOK
    <2> QED BY <2>1 DEF Turn
  <1>3. asked' \subseteq Devices /\ unserved' \subseteq Devices /\ devs'.interrupt_vector \subseteq Devices
        /\ devs'.working \subseteq Devices /\ code' \in Programs
    BY <1>1 DEF LockstepInv
  <1>4. CASE Bubble
    <2>1. /\ UNCHANGED <<code, rtl, asked, unserved, early, log, stepVars, cnt, exited, profVars>>
          /\ bubbles' \in 0 .. MaxBubbles
      BY <1>1, <1>4, LockstepAssumption DEF Bubble, TypeOK
    <2> QED BY <1>1, <1>2, <2>1 DEF TypeInv, TypeOK, stepVars, profVars
  <1>5. CASE Retire \/ TakeException \/ TakeInterrupt
    <2>1. rtl'.at \in 0 .. Len(code) + Padding + 2
      BY <1>1, <1>5, LineMoves DEF Turn
    <2>2. (\E line : Stepped(line)) /\ early' \in BOOLEAN
      <3>1. CASE Retire
        <4>1. PICK v \in Loaded : RtlExecutes(v) /\ Stepped(Retirement(v))
          BY <3>1 DEF Retire
        <4>2. early' \in BOOLEAN
          BY <4>1, Zenon DEF RtlExecutes
        <4> QED BY <4>1, <4>2
      <3>2. CASE TakeException \/ TakeInterrupt
        BY <1>1, <3>2 DEF TakeException, TakeInterrupt, TypeOK
      <3> QED BY <1>5, <3>1, <3>2
    <2>3. PICK line : Stepped(line)
      BY <2>2
    <2>4. /\ processor_step_cnt' \in 0 .. DEVICE_TICK_PERIOD - 1 /\ failed' \in BOOLEAN
          /\ cnt' \in 0 .. TOHOST_CHECK_PERIOD /\ exited' \in BOOLEAN
          /\ view' \in Views /\ marks' \in Nat /\ UNCHANGED <<code, bubbles>>
      BY <1>1, <2>3, SteppedTypes
    <2>5. HartTypes'
      <3>1. (rtl.at \in 0 .. Len(code) + Padding + 2)'
        BY <2>1, <2>4
      <3>2. HartOK(rtl)' /\ HartOK(spike)' /\ SameHart'
        BY <1>1 DEF LockstepInv
      <3>3. spike'.at = rtl'.at
        BY <3>2 DEF SameHart, HartOK
      <3> QED BY <3>1, <3>2, <3>3 DEF HartTypes, HartOK
    <2>6. view'.curpid \in Pids /\ bubbles' \in 0 .. MaxBubbles
      BY <1>1, <2>4 DEF Views, TypeOK
    <2> QED BY <1>1, <1>2, <1>3, <2>2, <2>4, <2>5, <2>6 DEF TypeInv, TypeOK, HartTypes
  <1> QED BY <1>4, <1>5 DEF Turn

(* The variables of the lockstep mode keep their types: counters wrap or   *)
(* stay in their bounds, the hart stays near its program (run_from_trace). *)
THEOREM TypeCorrect == Spec => []TypeOK
  <1>1. Init => TypeInv
    <2> SUFFICES ASSUME Init PROVE TypeInv
      OBVIOUS
    <2>1. LockstepInv /\ code \in Programs /\ Len(code) \in Nat
      BY InitInv, PlaceInsn DEF LockstepInv
    <2>2. rtl.at = 0 /\ view = EmptyView(FirstPid)
      BY DEF Init, ResetHart
    <2>3. HartTypes
      <3>1. rtl.at \in 0 .. Len(code) + Padding + 2
        BY <2>1, <2>2, LockstepAssumption
      <3> QED BY <2>1, <3>1, HartTypesFact
    <2>4. view \in Views /\ view.curpid \in Pids
      <3>1. <<>> \in Seq(Names) /\ FirstPid \in Pids
        BY LockstepAssumption
      <3> QED BY <2>2, <3>1 DEF EmptyView, Views
    <2>5. /\ processor_step_cnt \in 0 .. DEVICE_TICK_PERIOD - 1 /\ failed \in BOOLEAN /\ early \in BOOLEAN
          /\ bubbles \in 0 .. MaxBubbles /\ lines \in 0 .. FileLen /\ cnt \in 0 .. TOHOST_CHECK_PERIOD
          /\ exited \in BOOLEAN /\ phase \in {"wait", "consume", "done"} /\ marks \in Nat
      <3>1. /\ processor_step_cnt = 0 /\ failed = FALSE /\ early = FALSE /\ bubbles = 0 /\ lines = 0
            /\ cnt = 0 /\ exited = FALSE /\ phase = "wait" /\ marks = 0
        BY DEF Init, StepInit
      <3>2. /\ 0 \in 0 .. DEVICE_TICK_PERIOD - 1 /\ 0 \in 0 .. MaxBubbles /\ 0 \in 0 .. FileLen
            /\ 0 \in 0 .. TOHOST_CHECK_PERIOD
        BY StepAssumption, LockstepAssumption
      <3>3. failed \in BOOLEAN /\ early \in BOOLEAN /\ exited \in BOOLEAN
        BY <3>1, Zenon
      <3> QED BY <3>1, <3>2, <3>3
    <2>6. asked \subseteq Devices /\ unserved \subseteq Devices /\ devs.interrupt_vector \subseteq Devices
          /\ devs.working \subseteq Devices
      BY <2>1 DEF LockstepInv
    <2> QED BY <2>1, <2>3, <2>4, <2>5, <2>6 DEF TypeInv, TypeOK, HartTypes
  <1>2. TypeInv /\ [Next]_vars => TypeInv'
    <2> SUFFICES ASSUME TypeInv, [Next]_vars PROVE TypeInv'
      OBVIOUS
    <2>1. LockstepInv' /\ TypeOK /\ view \in Views
      BY NextKeepsInv DEF TypeInv
    <2>2. CASE Consume \/ PopBuffer \/ Finish
      <3>1. /\ UNCHANGED <<rtlVars, stepVars, cnt, exited, profVars>>
            /\ lines' \in 0 .. FileLen /\ phase' \in {"wait", "consume", "done"}
        BY <2>1, <2>2, LockstepAssumption DEF Consume, PopBuffer, Finish, TypeOK
      <3> QED BY <2>1, <3>1 DEF TypeInv, TypeOK, rtlVars, stepVars, profVars
    <2>3. CASE UNCHANGED vars
      BY <2>1, <2>3 DEF TypeInv, TypeOK, vars, rtlVars, stepVars, profVars
    <2> QED BY <2>2, <2>3, TurnTypes DEF Next
  <1>3. TypeInv => TypeOK
    BY DEF TypeInv
  <1> QED BY <1>1, <1>2, <1>3, PTL DEF Spec
=============================================================================
