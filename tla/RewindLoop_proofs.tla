-------------------------- MODULE RewindLoop_proofs --------------------------
(***************************************************************************)
(* Proofs of RewindLoop's invariants, for every program, every batch size  *)
(* and every interleaving, and that with no timer it implements            *)
(* Interception.                                                           *)
(***************************************************************************)
EXTENDS RewindLoop, ProfilerState_proofs

Machines(c) == [at : 1 .. Len(c) + Padding + INSN_PER_CKPT, isr : 0 .. Len(Isr),
                mtime : 0 .. Deadline, taken : BOOLEAN]
Entries(c) == (1 .. Len(c) + Padding + INSN_PER_CKPT) \X (0 .. Len(Isr)) \X (1 .. 2)
Locals == [steps : 0 .. INSN_PER_CKPT, tot : Nat, left : 0 .. INTERLEAVE, dev : Nat,
           stalled : BOOLEAN]
Packets == [stamp : Nat, truly : Nat]
Phases == {"head", "run", "scan", "pop", "ffwd", "look", "step", "submit", "done"}

TypeInv ==
  /\ timed \in BOOLEAN /\ code \in (IF timed THEN TimedPrograms ELSE Programs)
  /\ m \in Machines(code) /\ protobuf \in Machines(code)
  /\ exited \in BOOLEAN /\ in_wfi \in BOOLEAN /\ popped_empty \in BOOLEAN
  /\ rf \in Locals /\ phase \in Phases
  /\ popcnt \in Nat /\ fwd_steps \in Nat /\ marks \in Nat /\ timestamp_ \in Nat
  /\ rewind \in BOOLEAN /\ found_function \in BOOLEAN
  /\ trace \in Seq(Entries(code)) /\ log \in Seq(Entries(code))
  /\ view \in Views /\ packets \in Seq(Packets)

\* The handler runs where the target has not asked to exit yet.
HandlerInv(s, c) == s.isr > 0 => s.taken /\ s.at <= Len(c) + Padding

\* What run_for executes: at most INTERLEAVE entries too many.
StepInv ==
  /\ rf.left > 0 => /\ InRunFor /\ ~ in_wfi /\ ~ exited
                    /\ m.at + rf.left <= Len(code) + Padding + INSN_PER_CKPT
  /\ rf.tot + rf.left + rf.left <= rf.steps + INTERLEAVE
  /\ rf.steps = 0 => rf.tot = 0 /\ rf.left = 0
  /\ phase = "run" => rf.steps = INSN_PER_CKPT
  /\ phase = "ffwd" => rf.steps = FastFwd
  /\ phase = "step" => rf.steps = 1
  /\ phase \in {"run", "ffwd"} => Len(trace) = rf.tot
  /\ phase = "scan" => Len(trace) <= INSN_PER_CKPT + INTERLEAVE

\* The locals of run() between the scan and the submission.
RunInv ==
  /\ phase \in {"pop", "ffwd", "look"} => ~ found_function
  /\ phase \in {"ffwd", "look", "step", "submit"} => rewind
  /\ rewind /\ phase \in {"pop", "ffwd", "look", "step", "submit"} =>
       fwd_steps < INSN_PER_CKPT + INTERLEAVE

BaseInv ==
  /\ TypeInv
  /\ HandlerInv(m, code) /\ HandlerInv(protobuf, code)
  /\ StepInv /\ RunInv

-----------------------------------------------------------------------------
\* One instruction.

(* A program is a sequence of instructions, and so is the handler.         *)
LEMMA CodeType ==
  ASSUME TypeInv
  PROVE  /\ code \in Seq(Insn) /\ Len(code) \in Nat
         /\ Isr \in Seq(Insn) /\ Len(Isr) \in Nat /\ Len(Isr) > 0
         /\ \A i \in 1 .. Len(code) : code[i].kind = "exit" => code[i].entries = 1
<1>1. code \in Programs \union TimedPrograms
  BY DEF TypeInv
<1>2. /\ code \in Seq(Insn) /\ Isr \in Seq(Insn) /\ Isr # <<>>
      /\ \A i \in DOMAIN code : code[i].kind = "exit" => code[i].entries = 1
  BY <1>1, ProgramAssumption
<1> QED BY <1>2, LenProperties, EmptySeq

(* The instruction at a place is an instruction, of the program or plain   *)
(* outside the handler.                                                    *)
LEMMA InsnAtType ==
  ASSUME TypeInv, NEW at \in Nat \ {0}, NEW isr \in 0 .. Len(Isr)
  PROVE  /\ InsnAt(at, isr) \in Insn
         /\ isr = 0 => InsnAt(at, isr) = Nth(code, at)
<1>1. Isr \in Seq(Insn) /\ Len(Isr) \in Nat /\ code \in Seq(Insn) /\ Len(code) \in Nat
  BY CodeType
<1>2. \A i \in 1 .. Len(Isr) : Isr[i] \in Insn
  BY <1>1, ElementOfSeq
<1>3. Nth(code, at) \in Insn
  BY <1>1, NthType
<1>4. CASE isr = 0
  <2>1. InsnAt(at, isr) = Nth(code, at)
    BY <1>1, <1>4 DEF InsnAt, Nth
  <2> QED BY <1>3, <2>1
<1>5. CASE isr # 0
  <2>1. isr \in 1 .. Len(Isr) /\ isr > 0
    BY <1>1, <1>5
  <2>2. InsnAt(at, isr) = Isr[isr]
    BY <2>1 DEF InsnAt
  <2> QED BY <1>2, <1>5, <2>1, <2>2
<1> QED BY <1>4, <1>5

(* An instruction adds one or two entries to the trace.                    *)
Place(s) == <<s.at, s.isr, 1>>
Again(s) == <<s.at, s.isr, 2>>
Copies(s, n) == [c \in 1 .. n |-> <<s.at, s.isr, c>>]
Added(t, s, n) == IF n = 1 THEN Append(t, Place(s)) ELSE Append(Append(t, Place(s)), Again(s))

AddsCopies(S, t, s, n) ==
  /\ t \o Copies(s, n) = Added(t, s, n)
  /\ Added(t, s, n) \in Seq(S) /\ Len(Added(t, s, n)) = Len(t) + n

(* What Execute appends is one entry, or two.                              *)
LEMMA CopiesAppended ==
  ASSUME NEW S, NEW t \in Seq(S), NEW s, NEW n \in 1 .. 2, Place(s) \in S, Again(s) \in S
  PROVE  AddsCopies(S, t, s, n)
<1> USE DEF AddsCopies
<1> DEFINE u == Copies(s, n)
<1>1. Len(t) \in Nat
  BY LenProperties
<1>2. CASE n = 1
  <2>1. u = <<Place(s)>>
    BY <1>2 DEF Place, Copies
  <2>2. t \o u = Append(t, Place(s))
    BY <2>1, AppendIsConcat
  <2>3. Append(t, Place(s)) \in Seq(S) /\ Len(Append(t, Place(s))) = Len(t) + 1
    BY AppendProperties
  <2> QED BY <1>2, <2>2, <2>3 DEF Added
<1>3. CASE n = 2
  <2>1. u = <<Place(s), Again(s)>>
    BY <1>3 DEF Place, Again, Copies
  <2> DEFINE t1 == Append(t, Place(s))
             t2 == Append(t1, Again(s))
  <2>2. t1 \in Seq(S) /\ Len(t1) = Len(t) + 1 /\ t1[Len(t) + 1] = Place(s) /\ \A i \in 1 .. Len(t) : t1[i] = t[i]
    BY AppendProperties
  <2>3. t2 \in Seq(S) /\ Len(t2) = Len(t) + 2 /\ t2[Len(t) + 2] = Again(s) /\ \A i \in 1 .. Len(t) + 1 : t2[i] = t1[i]
    <3>1. /\ Append(t1, Again(s)) \in Seq(S) /\ Len(Append(t1, Again(s))) = Len(t1) + 1
          /\ Append(t1, Again(s))[Len(t1) + 1] = Again(s)
          /\ \A i \in 1 .. Len(t1) : Append(t1, Again(s))[i] = t1[i]
      BY <2>2, AppendProperties
    <3> QED BY <1>1, <2>2, <3>1
  <2>4. u \in Seq(S) /\ Len(u) = 2 /\ u[1] = Place(s) /\ u[2] = Again(s)
    <3>1. /\ <<Place(s), Again(s)>> \in Seq(S) /\ Len(<<Place(s), Again(s)>>) = 2
          /\ <<Place(s), Again(s)>>[1] = Place(s) /\ <<Place(s), Again(s)>>[2] = Again(s)
      OBVIOUS
    <3> HIDE DEF u
    <3> QED BY <2>1, <3>1
  <2> HIDE DEF u
  <2>5. /\ t \o u \in Seq(S) /\ Len(t \o u) = Len(t) + 2
        /\ \A i \in 1 .. Len(t) + 2 : (t \o u)[i] = IF i <= Len(t) THEN t[i] ELSE u[i - Len(t)]
    <3>1. u \in Seq(S) /\ t \in Seq(S)
      BY <2>4
    <3>2. Len(t \o u) = Len(t) + Len(u)
      BY <3>1, ConcatProperties
    <3>3. t \o u \in Seq(S)
      BY <3>1, ConcatProperties
    <3> QED BY <1>1, <2>4, <3>1, <3>2, <3>3, ConcatProperties
  <2> HIDE DEF t1, t2
  <2>6. ASSUME NEW i \in 1 .. Len(t) + 2 PROVE (t \o u)[i] = t2[i]
    <3>1. i \in 1 .. Len(t) \/ i = Len(t) + 1 \/ i = Len(t) + 2
      BY <1>1
    <3> QED BY <1>1, <2>2, <2>3, <2>4, <2>5, <3>1
  <2>7. t \o u = t2
    BY <2>3, <2>5, <2>6, SeqEqual
  <2> QED BY <1>3, <2>3, <2>7 DEF Added, t1, t2, u
<1> QED BY <1>2, <1>3

\* The instruction that is next, and the state after it.
Now == InsnAt(m.at, m.isr)
Moved(s, t) ==
  /\ t.taken = s.taken
  /\ s.isr = 0 => t.at = s.at + 1 /\ t.isr = 0
  /\ s.isr > 0 => t.at = s.at /\ t.isr = IF s.isr < Len(Isr) THEN s.isr + 1 ELSE 0

(* What Execute changes, field by field.                                   *)
LEMMA ExecuteFacts ==
  ASSUME BaseInv, Execute
  PROVE  /\ Now \in Insn /\ Place(m) \in Entries(code) /\ Again(m) \in Entries(code)
         /\ trace' = Added(trace, m, Now.entries) /\ trace' \in Seq(Entries(code))
         /\ Len(trace') = Len(trace) + Now.entries
         /\ m' \in Machines(code) /\ Moved(m, m')
         /\ rf' \in Locals /\ rf'.left < rf.left /\ rf'.tot = rf.tot + Now.entries
         /\ rf'.steps = rf.steps /\ rf'.stalled = rf.stalled
         /\ in_wfi' \in BOOLEAN /\ (in_wfi' => Now.ends = "wfi" /\ rf'.left = 0)
<1> USE DEF BaseInv
<1>1. /\ rf \in Locals /\ rf.left > 0 /\ m.at + rf.left <= Len(code) + Padding + INSN_PER_CKPT
      /\ m \in Machines(code) /\ trace \in Seq(Entries(code))
  BY DEF Execute, TypeInv, StepInv
<1>2. Len(code) \in Nat /\ Len(Isr) \in Nat /\ Padding \in Nat /\ INSN_PER_CKPT \in Nat /\ Deadline \in Nat
      /\ INTERLEAVE \in Nat
  BY CodeType, LoopAssumption
<1>3. /\ m.at \in Nat \ {0} /\ m.isr \in 0 .. Len(Isr) /\ rf.left \in Nat /\ rf.tot \in Nat /\ rf.dev \in Nat
      /\ m.mtime \in 0 .. Deadline /\ m.taken \in BOOLEAN /\ rf.left <= INTERLEAVE
      /\ m.at <= Len(code) + Padding + INSN_PER_CKPT
  BY <1>1, <1>2 DEF Locals, Machines
<1>4. Now \in Insn /\ Now.entries \in 1 .. 2
  BY <1>3, InsnAtType DEF Insn, Now
<1>5. Place(m) \in Entries(code) /\ Again(m) \in Entries(code)
  BY <1>2, <1>3 DEF Place, Again, Entries
<1>6. trace' = trace \o Copies(m, Now.entries)
  BY DEF Execute, Now, Copies
<1>7. /\ trace' = Added(trace, m, Now.entries) /\ trace' \in Seq(Entries(code))
      /\ Len(trace') = Len(trace) + Now.entries
  <2> HIDE DEF BaseInv
  <2>1. /\ trace \o Copies(m, Now.entries) = Added(trace, m, Now.entries)
        /\ Added(trace, m, Now.entries) \in Seq(Entries(code))
        /\ Len(Added(trace, m, Now.entries)) = Len(trace) + Now.entries
    <3> DEFINE S == Entries(code)
               n == Now.entries
    <3>1. trace \in Seq(S) /\ n \in 1 .. 2 /\ Place(m) \in S /\ Again(m) \in S
      BY <1>1, <1>4, <1>5
    <3> HIDE DEF S, n
    <3>2. AddsCopies(S, trace, m, n)
      BY <3>1, CopiesAppended
    <3> QED BY <3>2 DEF S, n, AddsCopies
  <2> QED BY <1>6, <2>1
<1> DEFINE left == IF Now.ends = "no" THEN rf.left - 1 ELSE 0
           next == IF m.isr = 0 THEN [m EXCEPT !.at = @ + 1]
                   ELSE [m EXCEPT !.isr = IF m.isr < Len(Isr) THEN @ + 1 ELSE 0]
<1>8. /\ rf' = [rf EXCEPT !.left = left, !.tot = @ + Now.entries]
      /\ m' = IF left = 0 THEN Ticked(next, rf.dev) ELSE next
      /\ in_wfi' = (Now.ends = "wfi")
  BY DEF Execute, Now
<1>9. left \in Nat /\ left < rf.left /\ (Now.ends = "wfi" => left = 0)
  BY <1>1, <1>3
<1>10. next \in Machines(code) /\ Moved(m, next)
  <2>1. m.isr = 0 => m.at + 1 \in 1 .. Len(code) + Padding + INSN_PER_CKPT
    BY <1>1, <1>2, <1>3
  <2>2. (IF m.isr < Len(Isr) THEN m.isr + 1 ELSE 0) \in 0 .. Len(Isr)
    BY <1>2, <1>3
  <2>3. m \in Machines(code)
    BY <1>1
  <2> HIDE DEF BaseInv
  <2>4. CASE m.isr = 0
    <3>1. next = [m EXCEPT !.at = m.at + 1]
      BY <2>4
    <3> HIDE DEF next
    <3>2. next.at = m.at + 1 /\ next.isr = m.isr /\ next.taken = m.taken
      BY <2>3, <3>1 DEF Machines
    <3>3. next \in Machines(code)
      BY <2>1, <2>3, <2>4, <3>1 DEF Machines
    <3>4. Moved(m, next)
      BY <2>4, <3>2 DEF Moved
    <3> QED BY <3>3, <3>4
  <2>5. CASE m.isr # 0
    <3> DEFINE isr == IF m.isr < Len(Isr) THEN m.isr + 1 ELSE 0
    <3>1. next = [m EXCEPT !.isr = isr]
      BY <2>5
    <3> HIDE DEF next
    <3>2. isr \in 0 .. Len(Isr)
      BY <2>2
    <3>3. next.at = m.at /\ next.isr = isr /\ next.taken = m.taken
      <4> HIDE DEF isr
      <4> QED BY <2>3, <3>1 DEF Machines
    <3>4. next \in Machines(code)
      <4> HIDE DEF isr
      <4> QED BY <2>3, <3>1, <3>2 DEF Machines
    <3>5. Moved(m, next)
      BY <2>5, <3>3 DEF Moved
    <3> QED BY <3>4, <3>5
  <2> QED BY <2>4, <2>5
<1>11. Ticked(next, rf.dev) \in Machines(code) /\ Moved(m, Ticked(next, rf.dev))
  <2> HIDE DEF next
  <2>1. next.mtime \in 0 .. Deadline
    BY <1>10 DEF Machines
  <2>2. Least(next.mtime + rf.dev, Deadline) \in 0 .. Deadline
    BY <1>2, <1>3, <2>1 DEF Least
  <2> QED BY <1>10, <2>2 DEF Ticked, Machines, Moved
<1> HIDE DEF left, next
<1>12. m' \in Machines(code) /\ Moved(m, m')
  BY <1>8, <1>10, <1>11
<1>13. /\ rf' \in Locals /\ rf'.left = left /\ rf'.tot = rf.tot + Now.entries
       /\ rf'.steps = rf.steps /\ rf'.stalled = rf.stalled
  <2>1. left \in 0 .. INTERLEAVE /\ rf.tot + Now.entries \in Nat
    BY <1>2, <1>3, <1>4, <1>9
  <2>2. rf' = [rf EXCEPT !.left = left, !.tot = rf.tot + Now.entries]
    BY <1>8
  <2> HIDE DEF BaseInv
  <2> QED BY <1>1, <2>1, <2>2 DEF Locals
<1>14. in_wfi' \in BOOLEAN /\ (in_wfi' => Now.ends = "wfi" /\ rf'.left = 0)
  <2>1. Now.ends = "wfi" => rf'.left = 0
    BY <1>9, <1>13
  <2> HIDE DEF BaseInv
  <2> QED BY <1>8, <2>1, Zenon
<1> QED BY <1>4, <1>5, <1>7, <1>12, <1>13, <1>14, <1>9

(* What StepTarget changes: an interrupt is taken, the hart waits, or the  *)
(* processor's step begins.                                                *)
LEMMA StepTargetFacts ==
  ASSUME BaseInv, StepTarget
  PROVE  /\ m' \in Machines(code) /\ m'.at = m.at /\ m.at <= Len(code) + Padding
         /\ rf' \in Locals /\ rf'.steps = rf.steps /\ rf'.tot = rf.tot /\ rf.left = 0
         /\ rf.tot < rf.steps /\ ~ rf.stalled
         /\ \/ /\ timed /\ ~ m.taken /\ m'.taken /\ m'.isr = 1 /\ m.isr = 0
               /\ rf'.left = 0 /\ rf'.stalled /\ ~ in_wfi'
            \/ /\ m'.isr = m.isr /\ m'.taken = m.taken /\ UNCHANGED in_wfi
               /\ in_wfi /\ rf'.left = 0 /\ rf'.stalled
            \/ /\ UNCHANGED <<m, in_wfi>> /\ ~ in_wfi /\ ~ rf'.stalled
               /\ rf'.left \in 1 .. INTERLEAVE /\ rf'.left <= rf.steps - rf.tot
<1> USE DEF BaseInv
<1>1. m \in Machines(code) /\ rf \in Locals /\ rf.left = 0 /\ rf.tot < rf.steps /\ ~ rf.stalled
  BY DEF StepTarget, MoreToRun, TypeInv
<1>2. /\ Len(code) \in Nat /\ Len(Isr) \in Nat /\ Len(Isr) > 0 /\ Padding \in Nat /\ INSN_PER_CKPT \in Nat
      /\ INTERLEAVE \in Nat \ {0} /\ Deadline \in Nat /\ INSNS_PER_RTC_TICK \in Nat \ {0}
  BY CodeType, LoopAssumption
<1>3. /\ m.at \in Nat \ {0} /\ m.isr \in 0 .. Len(Isr) /\ m.mtime \in 0 .. Deadline /\ m.taken \in BOOLEAN
      /\ rf.tot \in Nat /\ rf.steps \in Nat
  BY <1>1, <1>2 DEF Locals, Machines
<1>4. m.at <= Len(code) + Padding
  <2>1. m.at > Len(code) + Padding => m.isr # 0
    BY DEF StepTarget, tohost
  <2>2. m.isr > 0 => m.at <= Len(code) + Padding
    BY DEF HandlerInv
  <2> QED BY <1>2, <1>3, <2>1, <2>2
<1>5. cur_step \in 1 .. INTERLEAVE /\ cur_step <= rf.steps - rf.tot
  BY <1>1, <1>2, <1>3 DEF cur_step, Least
<1>6. dev_step \in Nat
  BY <1>2, <1>5 DEF dev_step
<1>7. ASSUME NEW s \in Machines(code)
      PROVE  Ticked(s, dev_step) \in Machines(code) /\ Ticked(s, dev_step).at = s.at
             /\ Ticked(s, dev_step).isr = s.isr /\ Ticked(s, dev_step).taken = s.taken
  <2>1. s.mtime \in 0 .. Deadline
    BY DEF Machines
  <2>2. Least(s.mtime + dev_step, Deadline) \in 0 .. Deadline
    BY <1>2, <1>6, <2>1 DEF Least
  <2> QED BY <2>2 DEF Ticked, Machines
<1>8. CASE /\ Pending /\ m' = Ticked([m EXCEPT !.isr = 1, !.taken = TRUE], dev_step)
           /\ in_wfi' = FALSE /\ rf' = [rf EXCEPT !.stalled = TRUE]
  <2> DEFINE s == [m EXCEPT !.isr = 1, !.taken = TRUE]
  <2>1. s \in Machines(code) /\ s.at = m.at /\ s.isr = 1 /\ s.taken
    <3>1. 1 \in 0 .. Len(Isr)
      BY <1>2
    <3> HIDE DEF BaseInv
    <3> QED BY <1>1, <3>1 DEF Machines
  <2> HIDE DEF s
  <2>2. m' \in Machines(code) /\ m'.at = m.at /\ m'.isr = 1 /\ m'.taken
    BY <1>7, <1>8, <2>1 DEF s
  <2>3. timed /\ ~ m.taken
    BY <1>8 DEF Pending
  <2>4. m.isr = 0
    BY <1>3, <2>3 DEF HandlerInv
  <2>5. rf' \in Locals /\ rf'.steps = rf.steps /\ rf'.tot = rf.tot /\ rf'.left = rf.left /\ rf'.stalled
    BY <1>1, <1>8 DEF Locals
  <2> QED BY <1>1, <1>4, <1>8, <2>2, <2>3, <2>4, <2>5
<1>9. CASE in_wfi /\ m' = Ticked(m, dev_step) /\ rf' = [rf EXCEPT !.stalled = TRUE] /\ UNCHANGED in_wfi
  <2>1. rf' \in Locals /\ rf'.steps = rf.steps /\ rf'.tot = rf.tot /\ rf'.left = rf.left /\ rf'.stalled
    BY <1>1, <1>9 DEF Locals
  <2> QED BY <1>1, <1>4, <1>7, <1>9, <2>1
<1>10. CASE ~ in_wfi /\ rf' = [rf EXCEPT !.left = cur_step, !.dev = dev_step] /\ UNCHANGED <<m, in_wfi>>
  <2>1. /\ rf' \in Locals /\ rf'.steps = rf.steps /\ rf'.tot = rf.tot /\ rf'.left = cur_step
        /\ rf'.stalled = rf.stalled
    <3>1. cur_step \in 0 .. INTERLEAVE
      BY <1>2, <1>5
    <3> HIDE DEF BaseInv
    <3> QED BY <1>1, <1>6, <1>10, <3>1 DEF Locals
  <2> QED BY <1>1, <1>4, <1>5, <1>10, <2>1
<1> QED BY <1>8, <1>9, <1>10 DEF StepTarget

-----------------------------------------------------------------------------
\* The types and the bounds.

(* It holds in the initial states,                                         *)
LEMMA BaseInit == Init => BaseInv
<1> SUFFICES ASSUME Init PROVE BaseInv
  OBVIOUS
<1>1. /\ INSN_PER_CKPT \in Nat \ {0} /\ INTERLEAVE \in Nat \ {0} /\ Padding \in Nat /\ Deadline \in Nat
      /\ FirstPid \in Pids
  BY LoopAssumption
<1>2. timed \in BOOLEAN /\ code \in (IF timed THEN TimedPrograms ELSE Programs)
  BY DEF Init
<1>3. Len(code) \in Nat /\ Len(Isr) \in Nat
  <2>1. code \in Seq(Insn) /\ Isr \in Seq(Insn)
    BY <1>2, ProgramAssumption
  <2> QED BY <2>1, LenProperties
<1>4. m \in Machines(code) /\ protobuf = m /\ m.isr = 0
  BY <1>1, <1>3 DEF Init, Machines
<1>5. view \in Views
  BY <1>1 DEF Init, EmptyView, Views
<1>6. rf \in Locals /\ rf.left = 0 /\ rf.tot = 0 /\ rf.steps = 0
  BY <1>1 DEF Init, RunFor, Locals
<1>7. TypeInv
  <2>1. trace \in Seq(Entries(code)) /\ log \in Seq(Entries(code)) /\ packets \in Seq(Packets)
    BY DEF Init
  <2>2. protobuf \in Machines(code)
    BY <1>4
  <2> QED BY <1>2, <1>4, <1>5, <1>6, <2>1, <2>2 DEF Init, TypeInv, Phases
<1>8. HandlerInv(m, code) /\ HandlerInv(protobuf, code)
  BY <1>4 DEF HandlerInv
<1>9. StepInv /\ RunInv
  BY <1>1, <1>6 DEF Init, StepInv, RunInv
<1> QED BY <1>7, <1>8, <1>9 DEF BaseInv

\* What no step changes.
Fixed == UNCHANGED <<code, timed>>

(* an instruction of the step keeps it,                                    *)
LEMMA BaseExecute == ASSUME BaseInv, Execute PROVE BaseInv'
<1>1. /\ Now \in Insn /\ trace' \in Seq(Entries(code)) /\ Len(trace') = Len(trace) + Now.entries
      /\ m' \in Machines(code) /\ Moved(m, m')
      /\ rf' \in Locals /\ rf'.left < rf.left /\ rf'.tot = rf.tot + Now.entries /\ rf'.steps = rf.steps
      /\ in_wfi' \in BOOLEAN /\ (in_wfi' => rf'.left = 0)
  BY ExecuteFacts
<1>2. /\ InRunFor /\ rf.left > 0
      /\ UNCHANGED <<code, timed, exited, phase, protobuf, popcnt, fwd_steps, rewind, found_function,
                     view, timestamp_, packets, log, marks, popped_empty>>
  BY DEF Execute, scanVars, profVars
<1>3. TypeInv'
  BY <1>1, <1>2 DEF BaseInv, TypeInv
<1>4. /\ rf \in Locals /\ m \in Machines(code) /\ Len(code) \in Nat /\ Len(Isr) \in Nat
      /\ INTERLEAVE \in Nat /\ INSN_PER_CKPT \in Nat /\ Padding \in Nat /\ Len(trace) \in Nat
  BY CodeType, LoopAssumption, LenProperties DEF BaseInv, TypeInv
<1>5. /\ rf.left \in Nat /\ rf'.left \in Nat /\ rf.tot \in Nat /\ rf.steps \in Nat /\ Now.entries \in 1 .. 2
      /\ m.at \in Nat /\ m.isr \in Nat /\ m'.at \in Nat /\ m'.isr \in Nat
  <2>1. Now.entries \in 1 .. 2
    BY <1>1 DEF Insn
  <2>2. rf.left \in Nat /\ rf'.left \in Nat /\ rf.tot \in Nat /\ rf.steps \in Nat
    BY <1>1, <1>4 DEF Locals
  <2>3. m.at \in Nat /\ m.isr \in Nat /\ m'.at \in Nat /\ m'.isr \in Nat
    BY <1>1, <1>4 DEF Machines
  <2> QED BY <2>1, <2>2, <2>3
<1>6. HandlerInv(m, code)' /\ HandlerInv(protobuf, code)'
  <2>1. HandlerInv(m, code) /\ HandlerInv(protobuf, code)
    BY DEF BaseInv
  <2>2. m'.isr > 0 => m.isr > 0 /\ m'.at = m.at /\ m'.taken = m.taken
    BY <1>1, <1>5 DEF Moved
  <2> QED BY <1>2, <2>1, <2>2 DEF HandlerInv
<1>7. StepInv'
  <2>1. StepInv
    BY DEF BaseInv
  <2>2. m'.at <= m.at + 1
    BY <1>1, <1>5 DEF Moved
  <2>3. rf'.left > 0 => /\ InRunFor' /\ ~ in_wfi' /\ ~ exited'
                        /\ m'.at + rf'.left <= Len(code) + Padding + INSN_PER_CKPT
    <3>1. rf'.left > 0 => ~ in_wfi'
      BY <1>1
    <3>2. ~ exited /\ m.at + rf.left <= Len(code) + Padding + INSN_PER_CKPT
      BY <1>2, <2>1 DEF StepInv
    <3>3. m'.at + rf'.left <= m.at + rf.left
      BY <1>1, <1>5, <2>2
    <3> QED BY <1>2, <1>4, <1>5, <3>1, <3>2, <3>3 DEF InRunFor
  <2>4. rf'.tot + rf'.left + rf'.left <= rf'.steps + INTERLEAVE
    <3>1. rf.tot + rf.left + rf.left <= rf.steps + INTERLEAVE
      BY <2>1 DEF StepInv
    <3>2. rf'.left + 1 <= rf.left /\ rf'.tot <= rf.tot + 2 /\ rf'.steps = rf.steps /\ rf'.tot \in Nat
      <4>1. rf'.left < rf.left /\ rf'.tot = rf.tot + Now.entries /\ rf'.steps = rf.steps
        BY <1>1
      <4>2. rf'.left + 1 <= rf.left
        BY <1>5, <4>1
      <4>3. rf'.tot <= rf.tot + 2 /\ rf'.tot \in Nat
        BY <1>5, <4>1
      <4> QED BY <4>1, <4>2, <4>3
    <3>3. /\ rf.tot \in Nat /\ rf.left \in Nat /\ rf.steps \in Nat /\ rf'.left \in Nat
          /\ INTERLEAVE \in Nat
      BY <1>4, <1>5
    <3> QED BY <3>1, <3>2, <3>3
  <2>5. /\ rf.steps = 0 => rf.left = 0
        /\ phase = "run" => rf.steps = INSN_PER_CKPT
        /\ phase = "ffwd" => rf.steps = FastFwd
        /\ phase = "step" => rf.steps = 1
        /\ phase \in {"run", "ffwd"} => Len(trace) = rf.tot
    BY <2>1 DEF StepInv
  <2>6. FastFwd' = FastFwd
    BY <1>2 DEF FastFwd
  <2>7. phase' # "scan"
    BY <1>2 DEF InRunFor
  <2> QED BY <1>1, <1>2, <1>5, <2>3, <2>4, <2>5, <2>6, <2>7 DEF StepInv
<1>8. RunInv'
  BY <1>2 DEF BaseInv, RunInv
<1> QED BY <1>3, <1>6, <1>7, <1>8 DEF BaseInv

(* and so does each other action: step_target,                             *)
LEMMA BaseStepTarget == ASSUME BaseInv, StepTarget PROVE BaseInv'
<1>1. /\ m' \in Machines(code) /\ m'.at = m.at /\ m.at <= Len(code) + Padding
      /\ rf' \in Locals /\ rf'.steps = rf.steps /\ rf'.tot = rf.tot /\ rf.left = 0
      /\ rf.tot < rf.steps
      /\ \/ m'.taken /\ rf'.left = 0 /\ ~ in_wfi'
         \/ m'.isr = m.isr /\ m'.taken = m.taken /\ UNCHANGED in_wfi /\ rf'.left = 0
         \/ /\ UNCHANGED <<m, in_wfi>> /\ ~ in_wfi
            /\ rf'.left \in 1 .. INTERLEAVE /\ rf'.left <= rf.steps - rf.tot
  BY StepTargetFacts
<1>2. /\ InRunFor /\ ~ exited
      /\ UNCHANGED <<code, timed, exited, trace, phase, protobuf, popcnt, fwd_steps, rewind,
                     found_function, view, timestamp_, packets, log, marks, popped_empty>>
  BY DEF StepTarget, MoreToRun, target_running, scanVars, profVars
<1>3. /\ rf \in Locals /\ m \in Machines(code) /\ Len(code) \in Nat /\ Len(Isr) \in Nat
      /\ INTERLEAVE \in Nat /\ INSN_PER_CKPT \in Nat /\ Padding \in Nat /\ Len(trace) \in Nat
      /\ in_wfi \in BOOLEAN
  BY CodeType, LoopAssumption, LenProperties DEF BaseInv, TypeInv
<1>4. in_wfi' \in BOOLEAN
  BY <1>3 DEF StepTarget
<1>5. TypeInv'
  BY <1>1, <1>2, <1>4 DEF BaseInv, TypeInv
<1>6. /\ rf.left \in Nat /\ rf'.left \in Nat /\ rf.tot \in Nat /\ rf.steps \in 0 .. INSN_PER_CKPT
      /\ m.at \in Nat /\ m.isr \in Nat /\ m'.at \in Nat /\ m'.isr \in Nat
  BY <1>1, <1>3 DEF Locals, Machines
<1>7. HandlerInv(m, code)' /\ HandlerInv(protobuf, code)'
  <2>1. HandlerInv(m, code) /\ HandlerInv(protobuf, code)
    BY DEF BaseInv
  <2> QED BY <1>1, <1>2, <2>1 DEF HandlerInv
<1>8. StepInv'
  <2>1. /\ rf.tot + rf.left + rf.left <= rf.steps + INTERLEAVE
        /\ phase = "run" => rf.steps = INSN_PER_CKPT
        /\ phase = "ffwd" => rf.steps = FastFwd
        /\ phase = "step" => rf.steps = 1
        /\ phase \in {"run", "ffwd"} => Len(trace) = rf.tot
    BY DEF BaseInv, StepInv
  <2>0. rf'.left = 0 \/ (rf'.left <= INTERLEAVE /\ rf'.left <= rf.steps - rf.tot /\ ~ in_wfi' /\ m' = m)
    BY <1>1
  <2>2. rf'.tot + rf'.left + rf'.left <= rf'.steps + INTERLEAVE
    <3>1. rf'.tot = rf.tot /\ rf'.steps = rf.steps /\ rf.left = 0 /\ rf.tot < rf.steps /\ INTERLEAVE \in Nat
      BY <1>1, <1>3
    <3>2. CASE rf'.left = 0
      BY <1>6, <3>1, <3>2
    <3>3. CASE rf'.left <= INTERLEAVE /\ rf'.left <= rf.steps - rf.tot
      BY <1>6, <3>1, <3>3
    <3> QED BY <2>0, <3>2, <3>3
  <2>3. rf'.left > 0 => ~ in_wfi' /\ m'.at + rf'.left <= Len(code) + Padding + INSN_PER_CKPT
    <3> SUFFICES ASSUME rf'.left > 0
                 PROVE  ~ in_wfi' /\ m'.at + rf'.left <= Len(code) + Padding + INSN_PER_CKPT
      OBVIOUS
    <3>1. ~ in_wfi' /\ m' = m /\ rf'.left <= rf.steps - rf.tot
      BY <1>6, <2>0
    <3>2. rf'.left <= INSN_PER_CKPT /\ m'.at <= Len(code) + Padding
      <4>1. rf.steps <= INSN_PER_CKPT /\ rf.steps \in Nat /\ INSN_PER_CKPT \in Nat
        BY <1>3, <1>6
      <4>2. m'.at <= Len(code) + Padding
        BY <1>1
      <4> QED BY <1>6, <3>1, <4>1, <4>2
    <3> QED BY <1>3, <1>6, <3>1, <3>2
  <2>4. FastFwd' = FastFwd /\ phase' # "scan" /\ InRunFor'
    BY <1>2 DEF FastFwd, InRunFor
  <2> QED BY <1>1, <1>2, <1>6, <2>1, <2>2, <2>3, <2>4 DEF StepInv
<1>9. RunInv'
  BY <1>2 DEF BaseInv, RunInv
<1> QED BY <1>5, <1>7, <1>8, <1>9 DEF BaseInv

(* the exit of the target,                                                 *)
LEMMA BaseHandleTohost == ASSUME BaseInv, HandleTohost PROVE BaseInv'
<1>1. /\ InRunFor /\ rf.left = 0 /\ exited' = TRUE
      /\ UNCHANGED <<code, timed, m, in_wfi, rf, trace, phase, protobuf, popcnt, fwd_steps, rewind,
                     found_function, view, timestamp_, packets, log, marks, popped_empty>>
  BY DEF HandleTohost, scanVars, profVars
<1>2. TypeInv'
  BY <1>1 DEF BaseInv, TypeInv
<1>3. StepInv'
  BY <1>1 DEF BaseInv, StepInv, FastFwd
<1>4. RunInv' /\ HandlerInv(m, code)' /\ HandlerInv(protobuf, code)'
  BY <1>1 DEF BaseInv, RunInv, HandlerInv
<1> QED BY <1>2, <1>3, <1>4 DEF BaseInv

(* run_for's return,                                                       *)
LEMMA BaseReturn == ASSUME BaseInv, Return PROVE BaseInv'
<1>1. /\ rf.left = 0 /\ phase \in {"run", "ffwd", "step"}
      /\ phase = "run" => phase' = "scan"
      /\ phase = "ffwd" => phase' = "look"
      /\ phase = "step" => phase' = IF found_function THEN "submit" ELSE "look"
      /\ UNCHANGED <<code, timed, m, exited, in_wfi, rf, trace, protobuf, popcnt, fwd_steps, rewind,
                     found_function, view, timestamp_, packets, log, marks, popped_empty>>
  BY DEF Return, InRunFor, LoopAgain, machineVars, scanVars, profVars
<1>2. phase' \in {"scan", "look", "submit"}
  BY <1>1
<1>3. TypeInv'
  BY <1>1, <1>2 DEF BaseInv, TypeInv, Phases
<1>4. StepInv'
  <2>1. /\ rf \in Locals /\ INTERLEAVE \in Nat
        /\ rf.tot + rf.left + rf.left <= rf.steps + INTERLEAVE
        /\ rf.steps = 0 => rf.tot = 0 /\ rf.left = 0
        /\ phase = "run" => rf.steps = INSN_PER_CKPT /\ Len(trace) = rf.tot
    BY LoopAssumption DEF BaseInv, StepInv, TypeInv
  <2>2. rf.tot \in Nat /\ rf.steps \in Nat
    BY <2>1 DEF Locals
  <2>3. phase' = "scan" => Len(trace) <= INSN_PER_CKPT + INTERLEAVE
    BY <1>1, <2>1, <2>2
  <2> QED BY <1>1, <1>2, <2>1, <2>3 DEF StepInv
<1>5. RunInv'
  BY <1>1, <1>2 DEF BaseInv, RunInv
<1>6. HandlerInv(m, code)' /\ HandlerInv(protobuf, code)'
  BY <1>1 DEF BaseInv, HandlerInv
<1> QED BY <1>3, <1>4, <1>5, <1>6 DEF BaseInv

(* the checkpoint and its batch,                                           *)
LEMMA BaseTakeCheckpoint == ASSUME BaseInv, TakeCheckpoint PROVE BaseInv'
<1>1. /\ rf' = RunFor(INSN_PER_CKPT) /\ protobuf' = m /\ trace' = <<>> /\ phase' = "run"
      /\ UNCHANGED <<code, timed, m, exited, in_wfi, popcnt, fwd_steps, rewind, found_function,
                     view, timestamp_, packets, log, marks, popped_empty>>
  BY DEF TakeCheckpoint, scanVars, profVars
<1>2. INSN_PER_CKPT \in Nat \ {0} /\ INTERLEAVE \in Nat
  BY LoopAssumption
<1>3. /\ rf' \in Locals /\ rf'.left = 0 /\ rf'.tot = 0 /\ rf'.steps = INSN_PER_CKPT
      /\ trace' \in Seq(Entries(code)) /\ Len(trace') = 0
  BY <1>1, <1>2 DEF RunFor, Locals
<1>4. TypeInv'
  BY <1>1, <1>3 DEF BaseInv, TypeInv, Phases
<1>5. StepInv' /\ RunInv'
  BY <1>1, <1>2, <1>3 DEF StepInv, RunInv
<1>6. HandlerInv(m, code)' /\ HandlerInv(protobuf, code)'
  BY <1>1 DEF BaseInv, HandlerInv
<1> QED BY <1>4, <1>5, <1>6 DEF BaseInv

(* The scan breaks at an entry of the trace, or at its end.                *)
LEMMA BreakType ==
  ASSUME TypeInv
  PROVE  /\ Starts # {} => /\ Break \in Starts /\ Break \in 1 .. Len(trace)
                           /\ \A i \in Starts : Break <= i
         /\ Starts = {} => Break = Len(trace) + 1
<1>1. Len(trace) \in Nat
  BY LenProperties DEF TypeInv
<1>2. Starts \in SUBSET (1 .. Len(trace))
  BY DEF Starts
<1>3. ASSUME Starts # {} PROVE \E i \in Starts : \A j \in Starts : i <= j
  <2>1. \A S \in SUBSET Nat : S # {} => \E i \in S : \A j \in S : i <= j
    <3> SUFFICES ASSUME NEW S \in SUBSET Nat, ~ \E i \in S : \A j \in S : i <= j PROVE S = {}
      OBVIOUS
    <3> DEFINE Below == {n \in Nat : \A i \in S : i >= n}
    <3>1. 0 \in Below /\ Below \in SUBSET Nat
      OBVIOUS
    <3>2. ASSUME NEW n \in Below PROVE n + 1 \in Below
      <4>1. n \notin S
        OBVIOUS
      <4> QED BY <4>1
    <3> HIDE DEF Below
    <3>3. Below = Nat
      BY <3>1, <3>2, SetInduction
    <3>4. ASSUME NEW i \in S PROVE FALSE
      <4>1. i + 1 \in Below
        BY <3>3
      <4> QED BY <4>1 DEF Below
    <3> QED BY <3>4
  <2> QED BY <1>2, <1>3, <2>1
<1>4. ASSUME Starts # {} PROVE Break \in Starts /\ \A i \in Starts : Break <= i
  <2>1. Break = CHOOSE i \in Starts : \A j \in Starts : i <= j
    BY <1>4 DEF Break
  <2> QED BY <1>3, <1>4, <2>1, Zenon
<1> QED BY <1>1, <1>2, <1>4 DEF Break

(* The exits before the break are finitely many.                           *)
LEMMA ExitsType == ASSUME TypeInv PROVE Cardinality(ExitsBefore(Break)) \in Nat
<1>1. Len(trace) \in Nat
  BY LenProperties DEF TypeInv
<1>2. IsFiniteSet(1 .. Len(trace))
  BY <1>1, FS_Interval
<1>3. ExitsBefore(Break) \subseteq 1 .. Len(trace)
  BY DEF ExitsBefore
<1>4. IsFiniteSet(ExitsBefore(Break))
  BY <1>2, <1>3, FS_Subset
<1> QED BY <1>4, FS_CardinalityType

(* the scan,                                                               *)
LEMMA BaseScan == ASSUME BaseInv, Scan PROVE BaseInv'
<1>1. /\ phase = "scan" /\ phase' = "pop"
      /\ rewind' = (Starts # {}) /\ fwd_steps' = (IF Starts # {} THEN Break - 1 ELSE 0)
      /\ popcnt' = Cardinality(ExitsBefore(Break)) /\ found_function' = FALSE
      /\ UNCHANGED <<code, timed, m, exited, in_wfi, rf, trace, protobuf, view, timestamp_, packets, log,
                     marks, popped_empty>>
  BY DEF Scan, machineVars, profVars
<1>2. TypeInv /\ Len(trace) \in Nat /\ Len(trace) <= INSN_PER_CKPT + INTERLEAVE
  BY <1>1, LenProperties DEF BaseInv, TypeInv, StepInv
<1>3. Starts # {} => Break \in 1 .. Len(trace)
  BY <1>2, BreakType
<1>4. fwd_steps' \in Nat /\ fwd_steps' < INSN_PER_CKPT + INTERLEAVE
  BY <1>1, <1>2, <1>3, LoopAssumption
<1>5. popcnt' \in Nat /\ rewind' \in BOOLEAN
  BY <1>1, <1>2, ExitsType
<1>6. TypeInv'
  BY <1>1, <1>4, <1>5 DEF BaseInv, TypeInv, Phases
<1>7. StepInv'
  BY <1>1 DEF BaseInv, StepInv, InRunFor
<1>8. RunInv'
  BY <1>1, <1>4 DEF RunInv
<1>9. HandlerInv(m, code)' /\ HandlerInv(protobuf, code)'
  BY <1>1 DEF BaseInv, HandlerInv
<1> QED BY <1>6, <1>7, <1>8, <1>9 DEF BaseInv

(* Exit is an instruction.                                                 *)
LEMMA ExitInsn == Exit \in Insn /\ Exit.kind = "exit"
<1>1. /\ "exit" \in {"start", "exit", "plain"} /\ SamePid \in Pids \union {SamePid}
      /\ FALSE \in BOOLEAN /\ 1 \in 1 .. 2 /\ "no" \in {"no", "trap", "wfi"} /\ 0 \in Nat
      /\ "" \in Names /\ "none" \in STRING \union {"none"}
  BY DEF Names
<1> QED BY <1>1, Zenon DEF Exit, Plain, Insn

(* a pop,                                                                  *)
LEMMA BasePopOne == ASSUME BaseInv, PopOne PROVE BaseInv'
<1>1. /\ phase = "pop" /\ popcnt > 0 /\ popcnt' = popcnt - 1
      /\ \/ view' = Popped(view) /\ marks' = marks + 1 /\ UNCHANGED popped_empty
         \/ popped_empty' = TRUE /\ UNCHANGED <<view, marks>>
      /\ UNCHANGED <<code, timed, m, exited, in_wfi, rf, trace, phase, protobuf, fwd_steps, rewind,
                     found_function, timestamp_, packets, log>>
  BY DEF PopOne, PopsLeft, machineVars
<1>2. view' \in Views
  BY <1>1, ExitInsn, InterceptedType DEF BaseInv, TypeInv
<1>3. popcnt' \in Nat /\ marks' \in Nat /\ popped_empty' \in BOOLEAN
  <2>1. popcnt \in Nat /\ marks \in Nat /\ popped_empty \in BOOLEAN
    BY DEF BaseInv, TypeInv
  <2>2. popcnt' \in Nat /\ marks' \in Nat
    BY <1>1, <2>1
  <2>3. popped_empty' = TRUE \/ popped_empty' = popped_empty
    BY <1>1
  <2>4. popped_empty' \in BOOLEAN
    BY <2>1, <2>3, Zenon
  <2> QED BY <2>2, <2>4
<1>4. TypeInv'
  BY <1>1, <1>2, <1>3 DEF BaseInv, TypeInv
<1>5. StepInv'
  BY <1>1 DEF BaseInv, StepInv, InRunFor
<1>6. RunInv' /\ HandlerInv(m, code)' /\ HandlerInv(protobuf, code)'
  BY <1>1 DEF BaseInv, RunInv, HandlerInv
<1> QED BY <1>4, <1>5, <1>6 DEF BaseInv

(* the restored checkpoint,                                                *)
LEMMA BaseRewind == ASSUME BaseInv, Rewind PROVE BaseInv'
<1>1. /\ phase = "pop" /\ rewind /\ m' = protobuf /\ rf' = RunFor(FastFwd) /\ phase' = "ffwd" /\ trace' = <<>>
      /\ UNCHANGED <<code, timed, exited, in_wfi, protobuf, popcnt, fwd_steps, rewind, found_function,
                     view, timestamp_, packets, log, marks, popped_empty>>
  BY DEF Rewind, scanVars, profVars
<1>2. INSN_PER_CKPT \in Nat \ {0} /\ INTERLEAVE \in Nat \ {0} /\ fwd_steps \in Nat
  BY LoopAssumption DEF BaseInv, TypeInv
<1>3. fwd_steps < INSN_PER_CKPT + INTERLEAVE
  BY <1>1 DEF BaseInv, RunInv
<1>4. FastFwd \in 0 .. INSN_PER_CKPT
  BY <1>2, <1>3 DEF FastFwd
<1>5. /\ rf' \in Locals /\ rf'.left = 0 /\ rf'.tot = 0 /\ rf'.steps = FastFwd
      /\ trace' \in Seq(Entries(code)) /\ Len(trace') = 0
  BY <1>1, <1>2, <1>4 DEF RunFor, Locals
<1>6. TypeInv'
  BY <1>1, <1>5 DEF BaseInv, TypeInv, Phases
<1>7. StepInv'
  <2>1. FastFwd' = FastFwd
    BY <1>1 DEF FastFwd
  <2> QED BY <1>1, <1>2, <1>4, <1>5, <2>1 DEF StepInv
<1>8. RunInv'
  BY <1>1 DEF BaseInv, RunInv
<1>9. HandlerInv(m, code)' /\ HandlerInv(protobuf, code)'
  BY <1>1 DEF BaseInv, HandlerInv
<1> QED BY <1>6, <1>7, <1>8, <1>9 DEF BaseInv

(* the hook and the single step,                                           *)
LEMMA BaseLookAndStep == ASSUME BaseInv, LookAndStep PROVE BaseInv'
<1>1. /\ phase = "look" /\ phase' = "step" /\ rf' = RunFor(1)
      /\ \/ /\ view' = Hooked(view, Now) /\ marks' = marks + 1 /\ found_function' = TRUE
            /\ packets' = Append(packets, [stamp |-> timestamp_, truly |-> Len(log) + Len(trace)])
         \/ UNCHANGED <<view, packets, marks, found_function>>
      /\ UNCHANGED <<code, timed, m, exited, in_wfi, trace, protobuf, popcnt, fwd_steps, rewind,
                     timestamp_, log, popped_empty>>
  BY DEF LookAndStep, Now
<1>2. INSN_PER_CKPT \in Nat \ {0} /\ INTERLEAVE \in Nat \ {0}
  BY LoopAssumption
<1>3. TypeInv /\ Len(log) \in Nat /\ Len(trace) \in Nat /\ m.at \in Nat \ {0} /\ m.isr \in 0 .. Len(Isr)
  BY LenProperties, CodeType, LoopAssumption DEF BaseInv, TypeInv, Machines
<1>4. view' \in Views
  <2>1. Now \in Insn
    BY <1>3, InsnAtType DEF Now
  <2> QED BY <1>1, <1>3, <2>1, InterceptedType DEF TypeInv
<1>5. packets' \in Seq(Packets)
  <2>1. [stamp |-> timestamp_, truly |-> Len(log) + Len(trace)] \in Packets
    BY <1>3 DEF TypeInv, Packets
  <2>2. packets \in Seq(Packets)
    BY <1>3 DEF TypeInv
  <2>3. Append(packets, [stamp |-> timestamp_, truly |-> Len(log) + Len(trace)]) \in Seq(Packets)
    BY <2>1, <2>2, AppendProperties
  <2> QED BY <1>1, <2>2, <2>3
<1>6. rf' \in Locals /\ rf'.left = 0 /\ rf'.tot = 0 /\ rf'.steps = 1
  BY <1>1, <1>2 DEF RunFor, Locals
<1>7. marks' \in Nat /\ found_function' \in BOOLEAN
  <2>1. marks \in Nat /\ found_function \in BOOLEAN
    BY <1>3 DEF TypeInv
  <2>2. marks' \in Nat
    BY <1>1, <2>1
  <2>3. found_function' = TRUE \/ found_function' = found_function
    BY <1>1
  <2>4. found_function' \in BOOLEAN
    BY <2>1, <2>3, Zenon
  <2> QED BY <2>2, <2>4
<1>8. TypeInv'
  BY <1>1, <1>3, <1>4, <1>5, <1>6, <1>7 DEF TypeInv, Phases
<1>9. StepInv'
  BY <1>1, <1>2, <1>6 DEF StepInv
<1>10. RunInv' /\ HandlerInv(m, code)' /\ HandlerInv(protobuf, code)'
  BY <1>1 DEF BaseInv, RunInv, HandlerInv
<1> QED BY <1>8, <1>9, <1>10 DEF BaseInv

(* the submission,                                                         *)
LEMMA BaseSubmit == ASSUME BaseInv, Submit PROVE BaseInv'
<1>1. /\ phase \in {"submit", "pop"} /\ timestamp_' = timestamp_ + Len(trace) /\ log' = log \o trace
      /\ phase' = "head"
      /\ UNCHANGED <<code, timed, m, exited, in_wfi, rf, trace, protobuf, popcnt, fwd_steps, rewind,
                     found_function, view, packets, marks, popped_empty>>
  BY DEF Submit, Advanced, machineVars, scanVars
<1>2. timestamp_' \in Nat /\ log' \in Seq(Entries(code))
  BY <1>1, LenProperties, ConcatProperties DEF BaseInv, TypeInv
<1>3. TypeInv'
  BY <1>1, <1>2 DEF BaseInv, TypeInv, Phases
<1>4. StepInv'
  BY <1>1 DEF BaseInv, StepInv, InRunFor
<1>5. RunInv' /\ HandlerInv(m, code)' /\ HandlerInv(protobuf, code)'
  BY <1>1 DEF BaseInv, RunInv, HandlerInv
<1> QED BY <1>3, <1>4, <1>5 DEF BaseInv

(* and the end of the loop or no step at all.                              *)
LEMMA BaseFinish == ASSUME BaseInv, Finish \/ UNCHANGED vars PROVE BaseInv'
<1>1. /\ UNCHANGED <<code, timed, m, exited, in_wfi, rf, trace, protobuf, popcnt, fwd_steps, rewind,
                     found_function, view, timestamp_, packets, log, marks, popped_empty>>
      /\ phase' = phase \/ (phase = "head" /\ phase' = "done")
  BY DEF Finish, vars, machineVars, scanVars, profVars
<1>2. TypeInv'
  BY <1>1 DEF BaseInv, TypeInv, Phases
<1>3. StepInv'
  BY <1>1 DEF BaseInv, StepInv, InRunFor, FastFwd
<1>4. RunInv' /\ HandlerInv(m, code)' /\ HandlerInv(protobuf, code)'
  BY <1>1 DEF BaseInv, RunInv, HandlerInv
<1> QED BY <1>2, <1>3, <1>4 DEF BaseInv

(* So every step keeps it,                                                 *)
LEMMA BaseStep == BaseInv /\ [Next]_vars => BaseInv'
<1> SUFFICES ASSUME BaseInv, [Next]_vars PROVE BaseInv'
  OBVIOUS
<1> QED BY BaseExecute, BaseStepTarget, BaseHandleTohost, BaseReturn, BaseTakeCheckpoint, BaseScan,
           BasePopOne, BaseRewind, BaseLookAndStep, BaseSubmit, BaseFinish DEF Next, RunForStep

(* The fast forward asks for as few instructions as leave it short of the  *)
(* start: INTERLEAVE of them are two entries each at most.                 *)
LEMMA ForwardBound == ASSUME BaseInv, phase = "ffwd" PROVE Len(trace) <= fwd_steps
<1>1. /\ rf \in Locals /\ fwd_steps \in Nat /\ INTERLEAVE \in Nat
      /\ rf.tot + rf.left + rf.left <= rf.steps + INTERLEAVE
      /\ rf.steps = 0 => rf.tot = 0
      /\ rf.steps = FastFwd /\ Len(trace) = rf.tot
  BY LoopAssumption DEF BaseInv, TypeInv, StepInv
<1>2. rf.left \in Nat /\ rf.tot \in Nat /\ rf.steps \in Nat
  BY <1>1 DEF Locals
<1>3. CASE fwd_steps < INTERLEAVE
  BY <1>1, <1>2, <1>3 DEF FastFwd
<1>4. CASE ~ (fwd_steps < INTERLEAVE)
  BY <1>1, <1>2, <1>4 DEF FastFwd
<1> QED BY <1>3, <1>4

(* and it always holds.                                                    *)
LEMMA BaseAlways == Spec => []BaseInv
BY BaseInit, BaseStep, PTL DEF Spec

(* Every variable of the functional-only loop keeps its type: the target   *)
(* never runs further past its exit than one batch, and a step never       *)
(* executes more than INTERLEAVE instructions.                             *)
THEOREM TypeCorrect == Spec => []TypeOK
<1>1. BaseInv => TypeOK
  <2> SUFFICES ASSUME BaseInv PROVE TypeOK
    OBVIOUS
  <2>1. TypeInv /\ INTERLEAVE \in Nat
    BY LoopAssumption DEF BaseInv
  <2>2. code \in Programs \union TimedPrograms
    BY <2>1 DEF TypeInv
  <2>3. \A s \in Machines(code) :
          /\ s.at \in 1 .. Len(code) + Padding + INSN_PER_CKPT /\ s.isr \in 0 .. Len(Isr)
          /\ s.mtime \in 0 .. Deadline /\ s.taken \in BOOLEAN
    BY DEF Machines
  <2>4. rf.steps \in Nat /\ rf.tot \in Nat /\ rf.left \in 0 .. INTERLEAVE
    BY <2>1, LoopAssumption DEF TypeInv, Locals
  <2>5. view.curpid \in Pids /\ DOMAIN view.stacks = Pids
    BY <2>1 DEF TypeInv, Views
  <2>6. Entries(code) = Entry
    BY DEF Entries, Entry
  <2> QED BY <2>1, <2>2, <2>3, <2>4, <2>5, <2>6 DEF TypeInv, TypeOK, Phases
<1> QED BY <1>1, BaseAlways, PTL

-----------------------------------------------------------------------------
\* The traces are one execution of the program.

InsnIn(c, at, isr) == CASE isr > 0 -> Isr[isr]
                        [] isr = 0 /\ at <= Len(c) -> c[at]
                        [] OTHER -> Plain(1, "no")
After(c, e) ==
  LET n == InsnIn(c, e[1], e[2]).entries
  IN  CASE e[3] < n -> {<<e[1], e[2], e[3] + 1>>}
        [] e[3] = n /\ e[2] = 0 -> {<<e[1] + 1, 0, 1>>, <<e[1] + 1, 1, 1>>}
        [] OTHER -> {<<e[1], IF e[2] < Len(Isr) THEN e[2] + 1 ELSE 0, 1>>}
First == {<<1, 0, 1>>, <<1, 1, 1>>}
Path(c, s) ==
  /\ s # <<>> => s[1] \in First
  /\ \A i \in 1 .. Len(s) - 1 : s[i + 1] \in After(c, s[i])
NoIsr(s) == \A i \in 1 .. Len(s) : s[i][2] = 0

\* The entries submitted and those of the current trace.
Past == IF phase \in {"head", "done"} THEN log ELSE log \o trace

PathInv ==
  /\ Path(code, Append(Past, Place(m))) /\ (~ m.taken => NoIsr(Past))
  /\ phase \notin {"head", "done"} =>
       Path(code, Append(log, Place(protobuf))) /\ (~ protobuf.taken => NoIsr(log))

(* The start of a path is a path.                                          *)
LEMMA PathShorter ==
  ASSUME NEW S, NEW c, NEW s \in Seq(S), NEW e, Path(c, Append(s, e))
  PROVE  Path(c, s)
<1>1. Len(s) \in Nat /\ (Len(s) = 0 <=> s = <<>>)
  BY LenProperties, EmptySeq
<1> DEFINE t == Append(s, e)
<1>2. Len(t) = Len(s) + 1 /\ (\A i \in 1 .. Len(s) : t[i] = s[i]) /\ t # <<>>
  BY <1>1
<1> HIDE DEF t
<1>3. t[1] \in First /\ \A i \in 1 .. Len(s) : t[i + 1] \in After(c, t[i])
  BY <1>1, <1>2 DEF Path, t
<1>4. \A i \in 1 .. Len(s) - 1 : s[i + 1] \in After(c, s[i])
  <2> SUFFICES ASSUME NEW i \in 1 .. Len(s) - 1 PROVE s[i + 1] \in After(c, s[i])
    OBVIOUS
  <2>1. i \in 1 .. Len(s) /\ i + 1 \in 1 .. Len(s)
    BY <1>1
  <2> QED BY <1>2, <1>3, <2>1
<1>5. s # <<>> => s[1] \in First
  BY <1>1, <1>2, <1>3
<1> QED BY <1>4, <1>5 DEF Path

(* A path with its last entry replaced by another that may follow.         *)
LEMMA PathReplace ==
  ASSUME NEW S, NEW c, NEW s \in Seq(S), NEW e, NEW e2, Path(c, Append(s, e)),
         s = <<>> => e2 \in First, s # <<>> => e2 \in After(c, s[Len(s)])
  PROVE  Path(c, Append(s, e2))
<1>1. Len(s) \in Nat /\ (Len(s) = 0 <=> s = <<>>)
  BY LenProperties, EmptySeq
<1> DEFINE t == Append(s, e)
           u == Append(s, e2)
<1>2. ASSUME NEW x
      PROVE  /\ Len(Append(s, x)) = Len(s) + 1 /\ Append(s, x)[Len(s) + 1] = x
             /\ \A i \in 1 .. Len(s) : Append(s, x)[i] = s[i]
             /\ Append(s, x) # <<>>
  BY <1>1
<1>3. /\ Len(t) = Len(s) + 1 /\ \A i \in 1 .. Len(s) : t[i] = s[i]
      /\ Len(u) = Len(s) + 1 /\ u[Len(s) + 1] = e2 /\ \A i \in 1 .. Len(s) : u[i] = s[i]
      /\ t # <<>>
  BY <1>2
<1> HIDE DEF t, u
<1>4. Path(c, s)
  BY PathShorter
<1>5. \A i \in 1 .. Len(s) - 1 : s[i + 1] \in After(c, s[i])
  BY <1>4 DEF Path
<1>6. s # <<>> => s[1] \in First
  BY <1>4 DEF Path
<1>7. u[1] \in First
  BY <1>1, <1>3, <1>6
<1>8. ASSUME NEW i \in 1 .. Len(u) - 1 PROVE u[i + 1] \in After(c, u[i])
  <2>1. i \in 1 .. Len(s) - 1 \/ (i = Len(s) /\ Len(s) > 0)
    BY <1>1, <1>3
  <2>2. CASE i \in 1 .. Len(s) - 1
    <3>1. i + 1 \in 1 .. Len(s) /\ i \in 1 .. Len(s)
      BY <1>1, <2>2
    <3> QED BY <1>3, <1>5, <2>2, <3>1
  <2>3. CASE i = Len(s) /\ Len(s) > 0
    BY <1>1, <1>3, <2>3
  <2> QED BY <2>1, <2>2, <2>3
<1> QED BY <1>5, <1>6, <1>7, <1>8 DEF Path, u

(* A path goes on with what may follow its last entry.                     *)
LEMMA PathAppend ==
  ASSUME NEW S, NEW c, NEW s \in Seq(S), NEW e \in S, NEW e2, Path(c, Append(s, e)), e2 \in After(c, e)
  PROVE  Path(c, Append(Append(s, e), e2))
<1> DEFINE t == Append(s, e)
<1>1. /\ Len(s) \in Nat /\ t \in Seq(S) /\ Len(t) = Len(s) + 1 /\ t[Len(t)] = e /\ t # <<>>
  BY LenProperties, AppendProperties
<1>2. Len(t) \in Nat
  BY <1>1
<1> DEFINE u == Append(t, e2)
<1> HIDE DEF t
<1>3. /\ Len(u) = Len(t) + 1 /\ u[Len(t) + 1] = e2 /\ \A i \in 1 .. Len(t) : u[i] = t[i]
      /\ u # <<>>
  BY <1>1, <1>2
<1>4. t[1] \in First /\ \A i \in 1 .. Len(t) - 1 : t[i + 1] \in After(c, t[i])
  BY <1>1 DEF Path, t
<1> HIDE DEF u
<1>5. u[1] \in First
  BY <1>1, <1>2, <1>3, <1>4
<1>6. ASSUME NEW i \in 1 .. Len(u) - 1 PROVE u[i + 1] \in After(c, u[i])
  <2>1. i \in 1 .. Len(t) - 1 \/ i = Len(t)
    BY <1>1, <1>2, <1>3
  <2>2. CASE i \in 1 .. Len(t) - 1
    <3>1. i + 1 \in 1 .. Len(t) /\ i \in 1 .. Len(t)
      BY <1>2, <2>2
    <3> QED BY <1>3, <1>4, <2>2, <3>1
  <2>3. CASE i = Len(t)
    BY <1>1, <1>2, <1>3, <2>3
  <2> QED BY <2>1, <2>2, <2>3
<1> QED BY <1>5, <1>6 DEF Path, u, t

(* Appending to the second of two sequences.                               *)
Joined(s, t, e) == s \o Append(t, e) = Append(s \o t, e)
(* Appending to the second of two joined sequences appends to both.        *)
LEMMA ConcatAppend ==
  ASSUME NEW S, NEW s \in Seq(S), NEW t \in Seq(S), NEW e \in S
  PROVE  s \o t \in Seq(S) /\ Joined(s, t, e)
<1>1. Len(s) \in Nat /\ Len(t) \in Nat
  BY LenProperties
<1> DEFINE a == s \o Append(t, e)
           b == Append(s \o t, e)
           u == s \o t
<1>2. u \in Seq(S) /\ Len(u) = Len(s) + Len(t) /\ \A i \in 1 .. Len(s) + Len(t) : u[i] = IF i <= Len(s) THEN s[i] ELSE t[i - Len(s)]
  BY ConcatProperties
<1> HIDE DEF u
<1> DEFINE v == Append(t, e)
<1>3. v \in Seq(S) /\ Len(v) = Len(t) + 1 /\ v[Len(t) + 1] = e /\ \A i \in 1 .. Len(t) : v[i] = t[i]
  BY AppendProperties
<1> HIDE DEF v
<1>4. /\ s \o v \in Seq(S) /\ Len(s \o v) = Len(s) + Len(v)
      /\ \A i \in 1 .. Len(s) + Len(v) : (s \o v)[i] = IF i <= Len(s) THEN s[i] ELSE v[i - Len(s)]
  BY <1>3, ConcatProperties
<1>5. /\ Append(u, e) \in Seq(S) /\ Len(Append(u, e)) = Len(u) + 1 /\ Append(u, e)[Len(u) + 1] = e
      /\ \A i \in 1 .. Len(u) : Append(u, e)[i] = u[i]
  <2>1. u \in Seq(S)
    BY <1>2
  <2> QED BY <2>1, AppendProperties
<1>6. ASSUME NEW i \in 1 .. Len(s) + Len(t) + 1 PROVE (s \o v)[i] = Append(u, e)[i]
  <2>1. i \in 1 .. Len(s) \/ (i \in 1 .. Len(s) + Len(t) /\ i > Len(s)) \/ i = Len(s) + Len(t) + 1
    BY <1>1
  <2>2. CASE i \in 1 .. Len(s)
    BY <1>1, <1>2, <1>3, <1>4, <1>5, <2>2
  <2>3. CASE i \in 1 .. Len(s) + Len(t) /\ i > Len(s)
    <3>1. i - Len(s) \in 1 .. Len(t)
      BY <1>1, <2>3
    <3> QED BY <1>1, <1>2, <1>3, <1>4, <1>5, <2>3, <3>1
  <2>4. CASE i = Len(s) + Len(t) + 1
    <3>1. i - Len(s) = Len(t) + 1 /\ ~ (i <= Len(s))
      BY <1>1, <2>4
    <3> QED BY <1>1, <1>2, <1>3, <1>4, <1>5, <2>4, <3>1
  <2> QED BY <2>1, <2>2, <2>3, <2>4
<1>7. s \o v = Append(u, e)
  <2>1. Len(s \o v) = Len(s) + Len(t) + 1 /\ Len(Append(u, e)) = Len(s) + Len(t) + 1
    BY <1>1, <1>2, <1>3, <1>4, <1>5
  <2> QED BY <1>4, <1>5, <1>6, <2>1, SeqEqual
<1> QED BY <1>2, <1>7 DEF u, v, Joined

JoinedAdded(s, t, x, n) == s \o Added(t, x, n) = Added(s \o t, x, n)
(* The same of an instruction of one or two entries.                       *)
LEMMA ConcatAdded ==
  ASSUME NEW S, NEW s \in Seq(S), NEW t \in Seq(S), NEW x, Place(x) \in S, Again(x) \in S,
         NEW n \in 1 .. 2
  PROVE  JoinedAdded(s, t, x, n)
<1> DEFINE e1 == Place(x)
           e2 == Again(x)
<1>1. e1 \in S /\ e2 \in S
  OBVIOUS
<1> HIDE DEF e1, e2
<1>2. Joined(s, t, e1) /\ s \o t \in Seq(S)
  BY <1>1, ConcatAppend
<1>3. Append(t, e1) \in Seq(S)
  BY <1>1, AppendProperties
<1>4. Joined(s, Append(t, e1), e2)
  BY <1>1, <1>3, ConcatAppend
<1> QED BY <1>2, <1>4 DEF Joined, JoinedAdded, Added, e1, e2

(* An executed instruction goes on with the path.                          *)
LEMMA PathAdded ==
  ASSUME NEW S, NEW c, NEW s \in Seq(S), NEW x, NEW y, Place(x) \in S, Again(x) \in S,
         NEW n \in 1 .. 2, n = InsnIn(c, x.at, x.isr).entries, x.isr \in Nat, Moved(x, y),
         Path(c, Append(s, Place(x)))
  PROVE  Path(c, Append(Added(s, x, n), Place(y)))
<1>1. Place(x)[1] = x.at /\ Place(x)[2] = x.isr /\ Place(x)[3] = 1
  BY DEF Place
<1>2. Again(x)[1] = x.at /\ Again(x)[2] = x.isr /\ Again(x)[3] = 2
  BY DEF Again
<1>3. \/ x.isr = 0 /\ Place(y) = <<x.at + 1, 0, 1>>
      \/ x.isr > 0 /\ Place(y) = <<x.at, IF x.isr < Len(Isr) THEN x.isr + 1 ELSE 0, 1>>
  BY DEF Moved, Place
<1>4. CASE n = 1
  <2>1. Place(y) \in After(c, Place(x))
    BY <1>1, <1>3, <1>4 DEF After
  <2> QED BY <1>4, <2>1, PathAppend DEF Added
<1>5. CASE n = 2
  <2>1. Again(x) \in After(c, Place(x))
    BY <1>1, <1>5 DEF After, Again
  <2>2. Place(y) \in After(c, Again(x))
    BY <1>2, <1>3, <1>5 DEF After
  <2> DEFINE s1 == Append(s, Place(x))
             e2 == Again(x)
  <2>3. s1 \in Seq(S) /\ e2 \in S
    BY AppendProperties
  <2>4. Path(c, Append(s1, e2))
    BY <2>1, PathAppend
  <2>5. Added(s, x, n) = Append(s1, e2)
    BY <1>5 DEF Added
  <2>6. Place(y) \in After(c, e2)
    BY <2>2
  <2> HIDE DEF s1, e2
  <2> QED BY <2>3, <2>4, <2>5, <2>6, PathAppend
<1> QED BY <1>4, <1>5

(* An instruction of the program is not one of the handler.                *)
LEMMA NoIsrAdded ==
  ASSUME NEW S, NEW s \in Seq(S), NEW x, Place(x) \in S, Again(x) \in S, NEW n \in 1 .. 2,
         x.isr = 0, NoIsr(s)
  PROVE  NoIsr(Added(s, x, n))
<1> DEFINE e1 == Place(x)
           e2 == Again(x)
           t == Append(s, e1)
<1>1. e1 \in S /\ e2 \in S /\ e1[2] = 0 /\ e2[2] = 0
  BY DEF Place, Again
<1>2. Len(s) \in Nat
  BY LenProperties
<1> HIDE DEF e1, e2
<1>3. t \in Seq(S) /\ Len(t) = Len(s) + 1 /\ t[Len(s) + 1] = e1 /\ \A i \in 1 .. Len(s) : t[i] = s[i]
  BY <1>1, AppendProperties
<1>4. NoIsr(t)
  <2> HIDE DEF t
  <2> SUFFICES ASSUME NEW i \in 1 .. Len(t) PROVE t[i][2] = 0
    BY DEF NoIsr
  <2>1. i \in 1 .. Len(s) \/ i = Len(s) + 1
    BY <1>2, <1>3
  <2> QED BY <1>1, <1>3, <2>1 DEF NoIsr
<1> DEFINE u == Append(t, e2)
<1>5. u \in Seq(S) /\ Len(u) = Len(t) + 1 /\ u[Len(t) + 1] = e2 /\ \A i \in 1 .. Len(t) : u[i] = t[i]
  <2> HIDE DEF t
  <2> QED BY <1>1, <1>3, AppendProperties
<1>6. NoIsr(u)
  <2> HIDE DEF t, u
  <2> SUFFICES ASSUME NEW i \in 1 .. Len(u) PROVE u[i][2] = 0
    BY DEF NoIsr
  <2>1. i \in 1 .. Len(t) \/ i = Len(t) + 1
    BY <1>2, <1>3, <1>5
  <2> QED BY <1>1, <1>4, <1>5, <2>1 DEF NoIsr
<1> QED BY <1>4, <1>6 DEF Added, e1, e2

(* An interrupt may come wherever the program goes on.                     *)
LEMMA PathInterrupted ==
  ASSUME NEW c, NEW S, NEW s \in Seq(Entries(c)), NoIsr(s), Len(Isr) \in Nat \ {0}, c \in Seq(Insn),
         NEW at \in Nat, Path(c, Append(s, <<at, 0, 1>>))
  PROVE  Path(c, Append(s, <<at, 1, 1>>))
<1> DEFINE e == <<at, 0, 1>>
           t == Append(s, e)
<1>0. Len(s) \in Nat /\ (Len(s) = 0 <=> s = <<>>)
  BY LenProperties, EmptySeq
<1> HIDE DEF e
<1>1. /\ Len(s) \in Nat /\ (Len(s) = 0 <=> s = <<>>)
      /\ Len(t) = Len(s) + 1 /\ t[Len(s) + 1] = e /\ \A i \in 1 .. Len(s) : t[i] = s[i]
      /\ t # <<>> /\ Path(c, t)
  BY <1>0 DEF e
<1> HIDE DEF t
<1> USE DEF e
<1>2. t[1] \in First /\ \A i \in 1 .. Len(s) : t[i + 1] \in After(c, t[i])
  BY <1>1 DEF Path
<1>3. s = <<>> => <<at, 1, 1>> \in First
  <2> HIDE DEF e
  <2>1. ASSUME s = <<>> PROVE e \in First
    <3>1. Len(s) + 1 = 1
      BY <1>1, <2>1
    <3>2. t[1] = e
      BY <1>1, <3>1
    <3> QED BY <1>2, <3>2
  <2> QED BY <2>1 DEF e, First
<1>4. s # <<>> => <<at, 1, 1>> \in After(c, s[Len(s)])
  <2> SUFFICES ASSUME s # <<>> PROVE <<at, 1, 1>> \in After(c, s[Len(s)])
    OBVIOUS
  <2> DEFINE l == s[Len(s)]
             n == InsnIn(c, l[1], l[2]).entries
  <2>1. Len(s) \in 1 .. Len(s)
    BY <1>1
  <2>2. l \in Entries(c) /\ l[2] = 0 /\ e \in After(c, l)
    <3>1. s[Len(s)] \in Entries(c) /\ s[Len(s)][2] = 0
      BY <2>1, ElementOfSeq DEF NoIsr
    <3> QED BY <1>1, <1>2, <2>1, <3>1
  <2> HIDE DEF l
  <2>3. l[1] \in Nat /\ l[3] \in 1 .. 2
    <3>1. Len(c) + Padding + INSN_PER_CKPT \in Nat
      BY LoopAssumption, LenProperties
    <3> QED BY <2>2, <3>1 DEF Entries
  <2> HIDE DEF n
  <2>4. \/ l[3] < n /\ After(c, l) = {<<l[1], 0, l[3] + 1>>}
        \/ l[3] = n /\ After(c, l) = {<<l[1] + 1, 0, 1>>, <<l[1] + 1, 1, 1>>}
        \/ ~ (l[3] < n) /\ l[3] # n /\ After(c, l) = {<<l[1], 1, 1>>}
    BY <2>2 DEF After, n
  <2>5. e # <<l[1], 0, l[3] + 1>> /\ e # <<l[1], 1, 1>>
    BY <2>3
  <2>6. l[3] = n /\ After(c, l) = {<<l[1] + 1, 0, 1>>, <<l[1] + 1, 1, 1>>}
    BY <2>2, <2>4, <2>5
  <2>7. e = <<l[1] + 1, 0, 1>>
    BY <2>2, <2>6
  <2>8. at = l[1] + 1
    BY <2>7
  <2> QED BY <2>6, <2>8 DEF l
<1> QED BY <1>3, <1>4, PathReplace DEF e

(* Follow, of the program's code.                                          *)
LEMMA AfterIsFollow ==
  ASSUME NEW e
  PROVE  Follow(e) = After(code, e) /\ InsnOf(e) = InsnIn(code, e[1], e[2])
BY DEF Follow, After, InsnOf, InsnAt, InsnIn

(* The entries so far are entries.                                         *)
LEMMA PastType == ASSUME TypeInv PROVE Past \in Seq(Entries(code))
BY ConcatProperties DEF TypeInv, Past

(* The path starts at the first instruction,                               *)
LEMMA PathInit == Init => PathInv
<1> SUFFICES ASSUME Init PROVE PathInv
  OBVIOUS
<1>1. Past = <<>> /\ Place(m) = <<1, 0, 1>> /\ phase = "head"
  BY DEF Init, Past, Place
<1>2. Append(Past, Place(m)) = << <<1, 0, 1>> >>
  BY <1>1
<1>3. Path(code, << <<1, 0, 1>> >>)
  BY DEF Path, First
<1>4. NoIsr(<<>>)
  BY DEF NoIsr
<1> QED BY <1>1, <1>2, <1>3, <1>4 DEF PathInv

(* an instruction goes on from where the machine is,                       *)
LEMMA PathExecute == ASSUME BaseInv, PathInv, Execute PROVE PathInv'
<1>1. /\ Now \in Insn /\ Place(m) \in Entries(code) /\ Again(m) \in Entries(code)
      /\ trace' = Added(trace, m, Now.entries) /\ Moved(m, m')
  BY ExecuteFacts
<1>2. InRunFor /\ UNCHANGED <<code, phase, protobuf, log>>
  BY DEF Execute, profVars
<1>3. /\ trace \in Seq(Entries(code)) /\ log \in Seq(Entries(code)) /\ m.isr \in Nat /\ Now.entries \in 1 .. 2
      /\ m'.isr \in Nat /\ HandlerInv(m, code) /\ Len(Isr) \in Nat /\ Past \in Seq(Entries(code))
  <2>1. TypeInv /\ HandlerInv(m, code) /\ Len(Isr) \in Nat
    BY CodeType DEF BaseInv
  <2>2. m.isr \in Nat /\ Now.entries \in 1 .. 2
    BY <1>1, <2>1 DEF TypeInv, Machines, Insn
  <2>3. m'.isr \in Nat
    BY <1>1, <2>1, <2>2 DEF Moved
  <2> QED BY <2>1, <2>2, <2>3, PastType DEF TypeInv
<1>4. Past = log \o trace /\ Past' = log \o trace'
  BY <1>2 DEF InRunFor, Past
<1>5. Past' = Added(Past, m, Now.entries)
  <2> DEFINE S == Entries(code)
             n == Now.entries
  <2>1. log \in Seq(S) /\ trace \in Seq(S) /\ Place(m) \in S /\ Again(m) \in S /\ n \in 1 .. 2
    BY <1>1, <1>3
  <2> HIDE DEF S, n
  <2>2. JoinedAdded(log, trace, m, n)
    BY <2>1, ConcatAdded
  <2> QED BY <1>1, <1>4, <2>2 DEF JoinedAdded, n
<1>6. Path(code, Append(Added(Past, m, Now.entries), Place(m')))
  <2> DEFINE S == Entries(code)
             n == Now.entries
             y == m'
  <2>1. /\ Past \in Seq(S) /\ Place(m) \in S /\ Again(m) \in S /\ n \in 1 .. 2 /\ m.isr \in Nat
        /\ Moved(m, y) /\ Path(code, Append(Past, Place(m)))
    BY <1>1, <1>3 DEF PathInv
  <2>2. n = InsnIn(code, m.at, m.isr).entries
    BY DEF Now, InsnAt, InsnIn
  <2> HIDE DEF S, n, y
  <2>3. Path(code, Append(Added(Past, m, n), Place(y)))
    BY <2>1, <2>2, PathAdded
  <2> QED BY <2>3 DEF n, y
<1>7. ~ m'.taken => NoIsr(Added(Past, m, Now.entries))
  <2> SUFFICES ASSUME ~ m'.taken PROVE NoIsr(Added(Past, m, Now.entries))
    OBVIOUS
  <2>1. ~ m.taken
    BY <1>1 DEF Moved
  <2>2. m.isr = 0 /\ NoIsr(Past)
    BY <1>3, <2>1 DEF HandlerInv, PathInv
  <2> DEFINE S == Entries(code)
             n == Now.entries
  <2>3. /\ Past \in Seq(S) /\ Place(m) \in S /\ Again(m) \in S /\ n \in 1 .. 2
    BY <1>1, <1>3
  <2> HIDE DEF S, n
  <2>4. NoIsr(Added(Past, m, n))
    BY <2>2, <2>3, NoIsrAdded
  <2> QED BY <2>4 DEF n
<1>8. phase \notin {"head", "done"} /\ phase' = phase
  BY <1>2 DEF InRunFor
<1> QED BY <1>2, <1>5, <1>6, <1>7, <1>8 DEF PathInv

(* an interrupt only moves the machine into the handler,                   *)
LEMMA PathStepTarget == ASSUME BaseInv, PathInv, StepTarget PROVE PathInv'
<1>1. /\ m'.at = m.at /\ m' \in Machines(code)
      /\ \/ m'.isr = 1 /\ m.isr = 0 /\ ~ m.taken /\ m'.taken
         \/ m'.isr = m.isr /\ m'.taken = m.taken
  BY StepTargetFacts
<1>2. UNCHANGED <<code, phase, protobuf, log, trace>>
  BY DEF StepTarget, profVars
<1>3. Past' = Past
  BY <1>2 DEF Past
<1>4. CASE m'.isr = m.isr /\ m'.taken = m.taken
  <2>1. Place(m') = Place(m)
    BY <1>1, <1>4 DEF Place
  <2> QED BY <1>2, <1>3, <1>4, <2>1 DEF PathInv
<1>5. CASE m'.isr = 1 /\ m.isr = 0 /\ ~ m.taken /\ m'.taken
  <2>1. /\ TypeInv /\ Past \in Seq(Entries(code)) /\ Len(Isr) \in Nat \ {0} /\ code \in Seq(Insn)
        /\ NoIsr(Past)
    BY <1>5, CodeType, PastType DEF BaseInv, PathInv
  <2>2. m.at \in Nat
    BY <2>1, LoopAssumption, CodeType DEF TypeInv, Machines
  <2>3. Path(code, Append(Past, <<m.at, 0, 1>>))
    BY <1>5 DEF PathInv, Place
  <2>4. Path(code, Append(Past, <<m.at, 1, 1>>))
    BY <2>1, <2>2, <2>3, PathInterrupted
  <2>5. Place(m') = <<m.at, 1, 1>>
    BY <1>1, <1>5 DEF Place
  <2> QED BY <1>2, <1>3, <1>5, <2>4, <2>5 DEF PathInv
<1> QED BY <1>1, <1>4, <1>5

(* and no step leaves the path.                                            *)
LEMMA PathStep == BaseInv /\ PathInv /\ [Next]_vars => PathInv'
<1> SUFFICES ASSUME BaseInv, PathInv, [Next]_vars PROVE PathInv'
  OBVIOUS
<1>1. log \in Seq(Entries(code)) /\ trace \in Seq(Entries(code))
  BY DEF BaseInv, TypeInv
<1>2. CASE Execute
  BY <1>2, PathExecute
<1>3. CASE StepTarget
  BY <1>3, PathStepTarget
<1>4. CASE /\ UNCHANGED <<code, m, protobuf, log, trace>>
           /\ (phase' \in {"head", "done"} <=> phase \in {"head", "done"})
  BY <1>4 DEF PathInv, Past
<1>5. CASE TakeCheckpoint
  <2>1. /\ phase = "head" /\ phase' = "run" /\ protobuf' = m /\ trace' = <<>> /\ UNCHANGED <<code, m, log>>
    BY <1>5 DEF TakeCheckpoint, profVars
  <2>2. Past = log /\ Past' = log
    BY <1>1, <2>1, ConcatEmptySeq DEF Past
  <2> QED BY <2>1, <2>2 DEF PathInv
<1>6. CASE Rewind
  <2>1. /\ phase = "pop" /\ phase' = "ffwd" /\ m' = protobuf /\ trace' = <<>> /\ UNCHANGED <<code, protobuf, log>>
    BY <1>6 DEF Rewind, profVars
  <2>2. Past' = log
    BY <1>1, <2>1, ConcatEmptySeq DEF Past
  <2> QED BY <2>1, <2>2 DEF PathInv
<1>7. CASE Submit
  <2>1. /\ phase \in {"submit", "pop"} /\ phase' = "head" /\ log' = log \o trace /\ UNCHANGED <<code, m>>
    BY <1>7 DEF Submit, machineVars
  <2>2. Past' = Past
    BY <2>1 DEF Past
  <2> QED BY <2>1, <2>2 DEF PathInv
<1>8. CASE HandleTohost
  BY <1>4, <1>8 DEF HandleTohost, profVars
<1>9. CASE Return
  <2>1. UNCHANGED <<code, m, protobuf, log, trace>> /\ phase \notin {"head", "done"} /\ phase' \notin {"head", "done"}
    BY <1>9 DEF Return, InRunFor, LoopAgain, machineVars, profVars
  <2> QED BY <1>4, <2>1
<1>10. CASE Scan \/ PopOne \/ LookAndStep
  <2>1. UNCHANGED <<code, m, protobuf, log, trace>> /\ phase \notin {"head", "done"} /\ phase' \notin {"head", "done"}
    BY <1>10 DEF Scan, PopOne, LookAndStep, machineVars, profVars
  <2> QED BY <1>4, <2>1
<1>11. CASE Finish \/ UNCHANGED vars
  <2>1. UNCHANGED <<code, m, protobuf, log, trace>> /\ (phase' = phase \/ (phase = "head" /\ phase' = "done"))
    BY <1>11 DEF Finish, vars, machineVars, profVars
  <2> QED BY <1>4, <2>1
<1> QED BY <1>2, <1>3, <1>5, <1>6, <1>7, <1>8, <1>9, <1>10, <1>11 DEF Next, RunForStep

(* The traces submitted are one execution of the program, with the timer   *)
(* set or not: between two batches the machine goes on exactly where they  *)
(* end, none of the abandoned batch is left and none of the replay missing.*)
THEOREM LogIsOneExecution == Spec => []LogFollowsProgram
<1>1. BaseInv /\ PathInv => LogFollowsProgram
  <2> SUFFICES ASSUME BaseInv, PathInv PROVE LogFollowsProgram
    OBVIOUS
  <2> DEFINE path == IF phase = "head" THEN Append(log, <<m.at, m.isr, 1>>) ELSE log
  <2>1. log \in Seq(Entries(code))
    BY DEF BaseInv, TypeInv
  <2>2. Path(code, log)
    <3>1. CASE phase \in {"head", "done"}
      <4>1. Path(code, Append(log, Place(m)))
        BY <3>1 DEF PathInv, Past
      <4> QED BY <2>1, <4>1, PathShorter
    <3>2. CASE phase \notin {"head", "done"}
      <4>1. Path(code, Append(log, Place(protobuf)))
        BY <3>2 DEF PathInv
      <4> QED BY <2>1, <4>1, PathShorter
    <3> QED BY <3>1, <3>2
  <2>3. phase = "head" => path = Append(log, Place(m)) /\ Path(code, Append(log, Place(m)))
    BY DEF PathInv, Past, Place
  <2>4. Path(code, path)
    BY <2>2, <2>3
  <2> HIDE DEF path
  <2>5. /\ path # <<>> => path[1] \in {<<1, 0, 1>>, <<1, 1, 1>>}
        /\ \A i \in 1 .. Len(path) - 1 : path[i + 1] \in Follow(path[i])
    BY <2>4, AfterIsFollow DEF Path, First
  <2> QED BY <2>5 DEF LogFollowsProgram, path
<1>2. BaseInv /\ PathInv /\ [Next]_vars => PathInv'
  BY PathStep
<1> QED BY <1>1, <1>2, PathInit, BaseAlways, PTL DEF Spec

-----------------------------------------------------------------------------
\* What a trace holds when nothing interrupts the program.

(* Appending to a sequence, entry by entry.                                *)
LEMMA AppendFacts ==
  ASSUME NEW S, NEW s \in Seq(S), NEW e
  PROVE  /\ Len(s) \in Nat /\ Len(Append(s, e)) = Len(s) + 1 /\ Append(s, e)[Len(s) + 1] = e
         /\ \A i \in 1 .. Len(s) : Append(s, e)[i] = s[i]
         /\ DOMAIN s = 1 .. Len(s) /\ DOMAIN Append(s, e) = 1 .. Len(s) + 1
<1>1. Len(s) \in Nat /\ DOMAIN s = 1 .. Len(s)
  BY LenProperties
<1> QED BY <1>1

\* The instruction an entry counts as, and where the starts are in a trace.
Counted(c, e) == IF e[3] = 1 THEN Nth(c, e[1]) ELSE Plain(1, "no")
CountedOf(c, s) == [i \in DOMAIN s |-> Counted(c, s[i])]
StartPlaces(c, s) == {i \in DOMAIN s : s[i][3] = 1 /\ Nth(c, s[i][1]).kind = "start"}

(* What an entry counts as is an instruction.                              *)
LEMMA CountedType ==
  ASSUME NEW c \in Seq(Insn), NEW e
  PROVE  Counted(c, e) \in Insn
<1>1. Nth(c, e[1]) \in Insn /\ Nth(c, Len(c) + 1) \in Insn
  BY NthType
<1>2. Nth(c, Len(c) + 1) = Plain(1, "no")
  BY LenProperties DEF Nth
<1> QED BY <1>1, <1>2 DEF Counted

CountsOn(c, s, e) == CountedOf(c, Append(s, e)) = Append(CountedOf(c, s), Counted(c, e))
(* One more entry counts as one more instruction,                          *)
LEMMA CountedAppend ==
  ASSUME NEW S, NEW c \in Seq(Insn), NEW s \in Seq(S), NEW e
  PROVE  CountedOf(c, s) \in Seq(Insn) /\ CountsOn(c, s, e)
<1>1. /\ Len(s) \in Nat /\ DOMAIN s = 1 .. Len(s) /\ DOMAIN Append(s, e) = 1 .. Len(s) + 1
      /\ Append(s, e)[Len(s) + 1] = e /\ \A i \in 1 .. Len(s) : Append(s, e)[i] = s[i]
  BY AppendFacts
<1> DEFINE u == CountedOf(c, s)
           v == CountedOf(c, Append(s, e))
           w == Append(u, Counted(c, e))
<1>2. ASSUME NEW x, NEW n \in Nat, DOMAIN x = 1 .. n
      PROVE  CountedOf(c, x) \in Seq(Insn) /\ Len(CountedOf(c, x)) = n
  <2>1. CountedOf(c, x) = [i \in 1 .. n |-> Counted(c, x[i])]
    BY <1>2 DEF CountedOf
  <2>2. \A i \in 1 .. n : Counted(c, x[i]) \in Insn
    BY CountedType
  <2> HIDE DEF Counted
  <2> QED BY <2>1, <2>2
<1>3. u \in Seq(Insn) /\ Len(u) = Len(s)
  BY <1>1, <1>2
<1>4. v \in Seq(Insn) /\ Len(v) = Len(s) + 1
  <2>1. Len(s) + 1 \in Nat
    BY <1>1
  <2> QED BY <1>1, <1>2, <2>1
<1>5. /\ w \in Seq(Insn) /\ Len(w) = Len(u) + 1 /\ w[Len(u) + 1] = Counted(c, e)
      /\ \A i \in 1 .. Len(u) : w[i] = u[i]
  BY <1>3, CountedType, AppendProperties
<1>6. /\ \A i \in 1 .. Len(s) + 1 : v[i] = Counted(c, Append(s, e)[i])
      /\ \A i \in 1 .. Len(s) : u[i] = Counted(c, s[i])
  BY <1>1 DEF CountedOf
<1> HIDE DEF u, v, w
<1>7. ASSUME NEW i \in 1 .. Len(s) + 1 PROVE v[i] = w[i]
  <2>1. i \in 1 .. Len(s) \/ i = Len(s) + 1
    BY <1>1
  <2> QED BY <1>1, <1>3, <1>5, <1>6, <2>1
<1>8. v = w
  BY <1>3, <1>4, <1>5, <1>7, SeqEqual
<1> QED BY <1>3, <1>8 DEF u, v, w, CountsOn

(* and is one more start, or none.                                         *)
LEMMA StartAppend ==
  ASSUME NEW S, NEW c, NEW s \in Seq(S), NEW e
  PROVE  StartPlaces(c, Append(s, e)) =
           IF e[3] = 1 /\ Nth(c, e[1]).kind = "start" THEN StartPlaces(c, s) \union {Len(s) + 1}
           ELSE StartPlaces(c, s)
<1>1. /\ Len(s) \in Nat /\ DOMAIN s = 1 .. Len(s) /\ DOMAIN Append(s, e) = 1 .. Len(s) + 1
      /\ Append(s, e)[Len(s) + 1] = e /\ \A i \in 1 .. Len(s) : Append(s, e)[i] = s[i]
  BY AppendFacts
<1> DEFINE t == Append(s, e)
           At(x) == x[3] = 1 /\ Nth(c, x[1]).kind = "start"
<1> HIDE DEF t
<1>2. StartPlaces(c, t) = {i \in 1 .. Len(s) + 1 : At(t[i])} /\ StartPlaces(c, s) = {i \in 1 .. Len(s) : At(s[i])}
  BY <1>1 DEF StartPlaces, t
<1>3. t[Len(s) + 1] = e /\ \A i \in 1 .. Len(s) : t[i] = s[i]
  BY <1>1 DEF t
<1>4. At(e) <=> e[3] = 1 /\ Nth(c, e[1]).kind = "start"
  OBVIOUS
<1> HIDE DEF At
<1>5. StartPlaces(c, t) = IF At(e) THEN StartPlaces(c, s) \union {Len(s) + 1} ELSE StartPlaces(c, s)
  BY <1>1, <1>2, <1>3
<1> QED BY <1>4, <1>5 DEF t

\* Where the starts of the first n instructions are.
StartsUpTo(c, n) == {Off(c, k) + 1 : k \in {k \in 0 .. n - 1 : Nth(c, k + 1).kind = "start"}}

(* One more instruction is one more start, or none.                        *)
LEMMA StartsNext ==
  ASSUME NEW c \in Seq(Insn), NEW n \in Nat
  PROVE  /\ StartsUpTo(c, 0) = {} /\ Cardinality(StartsUpTo(c, n)) \in Nat
         /\ StartsUpTo(c, n + 1) = IF Nth(c, n + 1).kind = "start"
                                     THEN StartsUpTo(c, n) \union {Off(c, n) + 1}
                                     ELSE StartsUpTo(c, n)
         /\ Nth(c, n + 1).kind = "start" =>
              Cardinality(StartsUpTo(c, n + 1)) = Cardinality(StartsUpTo(c, n)) + 1
<1> DEFINE K(i) == {k \in 0 .. i - 1 : Nth(c, k + 1).kind = "start"}
           S == StartsUpTo(c, n)
<1>1. K(n + 1) = IF Nth(c, n + 1).kind = "start" THEN K(n) \union {n} ELSE K(n)
  <2> DEFINE P(k) == Nth(c, k + 1).kind = "start"
  <2>1. P(n) <=> Nth(c, n + 1).kind = "start"
    OBVIOUS
  <2> HIDE DEF P
  <2>2. {k \in 0 .. (n + 1) - 1 : P(k)} = IF P(n) THEN {k \in 0 .. n - 1 : P(k)} \union {n}
                                          ELSE {k \in 0 .. n - 1 : P(k)}
    OBVIOUS
  <2> QED BY <2>1, <2>2 DEF P
<1>2. \A i : StartsUpTo(c, i) = {Off(c, k) + 1 : k \in K(i)}
  BY DEF StartsUpTo
<1>3. StartsUpTo(c, 0) = {}
  <2>1. K(0) = {}
    OBVIOUS
  <2> QED BY <1>2, <2>1
<1>4. \A k \in K(n) : k \in Nat /\ k < n
  OBVIOUS
<1> HIDE DEF K
<1>5. StartsUpTo(c, n + 1) = IF Nth(c, n + 1).kind = "start" THEN S \union {Off(c, n) + 1} ELSE S
  <2> DEFINE F(k) == Off(c, k) + 1
  <2>1. StartsUpTo(c, n + 1) = {F(k) : k \in K(n + 1)} /\ S = {F(k) : k \in K(n)}
    BY <1>2
  <2> HIDE DEF F, S
  <2>2. CASE Nth(c, n + 1).kind = "start"
    <3>1. K(n + 1) = K(n) \union {n}
      BY <1>1, <2>2
    <3>2. {F(k) : k \in K(n) \union {n}} = {F(k) : k \in K(n)} \union {F(n)}
      OBVIOUS
    <3>3. F(n) = Off(c, n) + 1
      BY DEF F
    <3> QED BY <2>1, <2>2, <3>1, <3>2, <3>3
  <2>3. CASE Nth(c, n + 1).kind # "start"
    BY <1>1, <2>1, <2>3
  <2> QED BY <2>2, <2>3
<1>6. IsFiniteSet(S)
  <2>1. Off(c, n) \in Nat
    BY OffNext
  <2>2. IsFiniteSet(1 .. Off(c, n))
    BY <2>1, FS_Interval
  <2>3. \A k \in K(n) : Off(c, k) + 1 \in 1 .. Off(c, n)
    <3> SUFFICES ASSUME NEW k \in K(n) PROVE Off(c, k) + 1 \in 1 .. Off(c, n)
      OBVIOUS
    <3>1. k \in Nat /\ k < n
      BY <1>4
    <3>2. Off(c, k) < Off(c, n) /\ Off(c, k) \in Nat
      BY <3>1, OffOrder, OffNext
    <3> QED BY <2>1, <3>2
  <2>4. S \subseteq 1 .. Off(c, n)
    BY <1>2, <2>3
  <2> QED BY <2>2, <2>4, FS_Subset
<1>7. Off(c, n) + 1 \notin S
  <2> SUFFICES ASSUME NEW k \in K(n), Off(c, n) + 1 = Off(c, k) + 1 PROVE FALSE
    BY <1>2
  <2>1. k \in Nat /\ k < n
    BY <1>4
  <2>2. Off(c, k) < Off(c, n) /\ Off(c, k) \in Nat /\ Off(c, n) \in Nat
    BY <2>1, OffOrder, OffNext
  <2> QED BY <2>2
<1>8. Cardinality(S) \in Nat /\ Cardinality(S \union {Off(c, n) + 1}) = Cardinality(S) + 1
  BY <1>6, <1>7, FS_CardinalityType, FS_AddElement
<1> QED BY <1>3, <1>5, <1>8

\* s is what the first n instructions leave.
Content(v, c, s, n) ==
  /\ Len(s) = Off(c, n)
  /\ StartPlaces(c, s) = StartsUpTo(c, n)
  /\ ViewAfter(v, CountedOf(c, s)) = ViewAt(v, c, n)

(* No instruction leaves nothing.                                          *)
LEMMA ContentNone ==
  ASSUME NEW v \in Views, NEW c \in Seq(Insn)
  PROVE  Content(v, c, <<>>, 0)
<1>1. Len(<<>>) = 0 /\ Off(c, 0) = 0 /\ 0 \in Nat
  BY OffNext
<1>2. StartPlaces(c, <<>>) = {} /\ StartsUpTo(c, 0) = {}
  <2>1. DOMAIN <<>> = {}
    OBVIOUS
  <2>2. StartPlaces(c, <<>>) = {}
    BY <2>1 DEF StartPlaces
  <2> QED BY <1>1, <2>2, StartsNext
<1>3. CountedOf(c, <<>>) = <<>>
  BY DEF CountedOf
<1>4. ViewAfter(v, <<>>) = v /\ ViewAt(v, c, 0) = v
  BY <1>1, ViewAfterNone, ViewNext
<1> QED BY <1>1, <1>2, <1>3, <1>4 DEF Content

(* One more instruction.                                                   *)
LEMMA ContentNext ==
  ASSUME NEW S, NEW v \in Views, NEW c \in Seq(Insn), NEW s \in Seq(S), NEW n \in Nat,
         NEW x, Place(x) \in S, Again(x) \in S, x.at = n + 1, Content(v, c, s, n)
  PROVE  Content(v, c, Added(s, x, Nth(c, n + 1).entries), n + 1)
<1> DEFINE i == Nth(c, n + 1)
           e1 == Place(x)
           e2 == Again(x)
           s1 == Append(s, e1)
           s2 == Append(s1, e2)
<1>1. e1[1] = n + 1 /\ e1[3] = 1 /\ e2[1] = n + 1 /\ e2[3] = 2
  BY DEF Place, Again
<1>2. i \in Insn /\ i.entries \in 1 .. 2
  BY NthType, OffNext
<1>3. Off(c, n) \in Nat /\ Off(c, n + 1) = Off(c, n) + i.entries
  BY OffNext
<1>4. s1 \in Seq(S) /\ s2 \in Seq(S)
  BY AppendProperties
<1>5. Len(s) = Off(c, n) /\ Len(s1) = Len(s) + 1 /\ Len(s2) = Len(s1) + 1
  BY <1>4, AppendFacts DEF Content
<1>6. Counted(c, e1) = i /\ Counted(c, e2) = Plain(1, "no")
  BY <1>1 DEF Counted
<1>7. CountsOn(c, s, e1) /\ CountedOf(c, s) \in Seq(Insn) /\ CountedOf(c, s1) \in Seq(Insn)
  BY <1>4, CountedAppend
<1>8. CountsOn(c, s1, e2)
  BY <1>4, CountedAppend
<1>9. Plain(1, "no") \in Insn /\ Plain(1, "no").kind = "plain"
  <2>1. Nth(c, 0) \in Insn /\ Nth(c, 0) = Plain(1, "no")
    BY NthType, LenProperties DEF Nth
  <2> QED BY <2>1 DEF Plain
<1>10. StartPlaces(c, s1) = IF i.kind = "start" THEN StartPlaces(c, s) \union {Len(s) + 1}
                            ELSE StartPlaces(c, s)
  <2>1. StartPlaces(c, s1) = IF e1[3] = 1 /\ Nth(c, e1[1]).kind = "start"
                               THEN StartPlaces(c, s) \union {Len(s) + 1} ELSE StartPlaces(c, s)
    BY StartAppend
  <2> QED BY <1>1, <2>1
<1>11. StartPlaces(c, s2) = StartPlaces(c, s1)
  <2>1. e2[3] # 1
    BY <1>1
  <2> HIDE DEF e2, s1
  <2> QED BY <1>4, <2>1, StartAppend
<1> HIDE DEF i, e1, e2, s1, s2
<1>12. StartPlaces(c, s1) = StartsUpTo(c, n + 1)
  BY <1>5, <1>10, StartsNext DEF Content, i
<1>13. ViewAfter(v, CountedOf(c, s1)) = ViewAt(v, c, n + 1)
  <2>1. CountedOf(c, s1) = Append(CountedOf(c, s), i)
    BY <1>6, <1>7 DEF CountsOn, s1
  <2>2. ViewAfter(v, Append(CountedOf(c, s), i)) = Intercepted(ViewAfter(v, CountedOf(c, s)), i)
    BY <1>2, <1>7, ViewAfterAppend
  <2>3. ViewAt(v, c, n + 1) = Intercepted(ViewAt(v, c, n), i)
    BY ViewNext DEF i
  <2> QED BY <2>1, <2>2, <2>3 DEF Content
<1>14. ViewAfter(v, CountedOf(c, s2)) = ViewAfter(v, CountedOf(c, s1))
  <2>1. CountedOf(c, s2) = Append(CountedOf(c, s1), Plain(1, "no"))
    BY <1>6, <1>8 DEF CountsOn, s2
  <2>2. ViewAfter(v, Append(CountedOf(c, s1), Plain(1, "no"))) =
          Intercepted(ViewAfter(v, CountedOf(c, s1)), Plain(1, "no"))
    BY <1>7, <1>9, ViewAfterAppend
  <2>3. Intercepted(ViewAfter(v, CountedOf(c, s1)), Plain(1, "no")) = ViewAfter(v, CountedOf(c, s1))
    BY <1>9 DEF Intercepted
  <2> QED BY <2>1, <2>2, <2>3
<1>15. CASE i.entries = 1
  <2>1. Added(s, x, i.entries) = s1
    BY <1>15 DEF Added, s1, e1
  <2> QED BY <1>3, <1>5, <1>12, <1>13, <1>15, <2>1 DEF Content, i
<1>16. CASE i.entries = 2
  <2>1. Added(s, x, i.entries) = s2
    BY <1>16 DEF Added, s1, s2, e1, e2
  <2>2. Len(s2) = Off(c, n + 1)
    BY <1>3, <1>5, <1>16
  <2> QED BY <1>11, <1>12, <1>13, <1>14, <2>1, <2>2 DEF Content, i
<1> QED BY <1>2, <1>15, <1>16

-----------------------------------------------------------------------------
\* What the scan finds.

IsStart(c, e) == Nth(c, e[1]).kind = "start"
IsExit(c, e) == Nth(c, e[1]).kind = "exit"

\* b is where a scan of t breaks; the exits before it.
IsBreak(c, t, b) ==
  /\ b \in 1 .. Len(t) + 1 /\ \A i \in 1 .. b - 1 : ~ IsStart(c, t[i])
  /\ b <= Len(t) => IsStart(c, t[b])
ExitsTo(c, t, b) == {i \in 1 .. b - 1 : IsExit(c, t[i])}
ExitsIn(c, t, b) == Cardinality(ExitsTo(c, t, b))

\* No instruction from p to q - 1 is a start.
NoStarts(c, p, q) == \A k \in p .. q - 1 : Nth(c, k).kind # "start"

(* The break and the exits before it when the trace grows by one entry.    *)
BreakAfter(c, t, u, b, e) ==
  /\ b <= Len(t) \/ IsStart(c, e) => IsBreak(c, u, b) /\ ExitsIn(c, u, b) = ExitsIn(c, t, b)
                                     /\ b <= Len(u)
  /\ b = Len(t) + 1 /\ ~ IsStart(c, e) =>
       IsBreak(c, u, b + 1) /\ b + 1 = Len(u) + 1
       /\ ExitsIn(c, u, b + 1) = ExitsIn(c, t, b) + (IF IsExit(c, e) THEN 1 ELSE 0)

(* Where the scan breaks, one entry later.                                 *)
LEMMA BreakAppend ==
  ASSUME NEW S, NEW c, NEW t \in Seq(S), NEW e, NEW b, IsBreak(c, t, b)
  PROVE  BreakAfter(c, t, Append(t, e), b, e) /\ ExitsIn(c, t, b) \in Nat
<1> DEFINE u == Append(t, e)
<1>1. Len(t) \in Nat /\ Len(u) = Len(t) + 1 /\ u[Len(t) + 1] = e /\ \A i \in 1 .. Len(t) : u[i] = t[i]
  BY AppendFacts
<1> HIDE DEF u
<1>2. b \in 1 .. Len(t) + 1 /\ b \in Nat
  BY <1>1 DEF IsBreak
<1>3. \A i \in 1 .. b - 1 : i \in 1 .. Len(t) /\ u[i] = t[i]
  BY <1>1, <1>2
<1>4. ExitsTo(c, u, b) = ExitsTo(c, t, b)
  BY <1>3 DEF ExitsTo
<1>5. IsFiniteSet(ExitsTo(c, t, b)) /\ b \notin ExitsTo(c, t, b)
  <2>1. IsFiniteSet(1 .. b - 1)
    BY <1>2, FS_Interval
  <2>2. ExitsTo(c, t, b) \subseteq 1 .. b - 1
    BY DEF ExitsTo
  <2> QED BY <1>2, <2>1, <2>2, FS_Subset
<1>6. Cardinality(ExitsTo(c, t, b)) \in Nat
  BY <1>5, FS_CardinalityType
<1>7. ASSUME b <= Len(t) PROVE IsBreak(c, u, b) /\ b <= Len(u)
  <2>1. b \in 1 .. Len(t)
    BY <1>1, <1>2, <1>7
  <2>2. u[b] = t[b]
    BY <1>1, <2>1
  <2> QED BY <1>1, <1>3, <1>7, <2>1, <2>2 DEF IsBreak
<1>8. ASSUME b = Len(t) + 1, IsStart(c, e) PROVE IsBreak(c, u, b) /\ b <= Len(u)
  BY <1>1, <1>3, <1>8 DEF IsBreak
<1>9. ASSUME b = Len(t) + 1, ~ IsStart(c, e)
      PROVE  /\ IsBreak(c, u, b + 1) /\ b + 1 = Len(u) + 1
             /\ ExitsIn(c, u, b + 1) = ExitsIn(c, t, b) + (IF IsExit(c, e) THEN 1 ELSE 0)
  <2>1. \A i \in 1 .. (b + 1) - 1 : i \in 1 .. b - 1 \/ i = b
    BY <1>2
  <2>2. IsBreak(c, u, b + 1)
    BY <1>1, <1>2, <1>3, <1>9, <2>1 DEF IsBreak
  <2>3. ExitsTo(c, u, b + 1) = IF IsExit(c, e) THEN ExitsTo(c, t, b) \union {b} ELSE ExitsTo(c, t, b)
    <3>1. {i \in 1 .. (b + 1) - 1 : IsExit(c, u[i])} =
            IF IsExit(c, u[b]) THEN {i \in 1 .. b - 1 : IsExit(c, u[i])} \union {b}
            ELSE {i \in 1 .. b - 1 : IsExit(c, u[i])}
      BY <1>2
    <3>2. u[b] = e
      BY <1>1, <1>9
    <3> QED BY <1>4, <3>1, <3>2 DEF ExitsTo
  <2>4. Cardinality(ExitsTo(c, t, b) \union {b}) = Cardinality(ExitsTo(c, t, b)) + 1
    BY <1>5, FS_AddElement
  <2> QED BY <1>1, <1>6, <1>9, <2>2, <2>3, <2>4 DEF ExitsIn
<1>10. b <= Len(t) \/ b = Len(t) + 1
  BY <1>1, <1>2
<1>11. ExitsIn(c, u, b) = ExitsIn(c, t, b) /\ ExitsIn(c, t, b) \in Nat
  BY <1>4, <1>6 DEF ExitsIn
<1>12. b <= Len(t) \/ IsStart(c, e) => IsBreak(c, u, b) /\ b <= Len(u)
  BY <1>7, <1>8, <1>10
<1> QED BY <1>9, <1>11, <1>12 DEF BreakAfter, u

\* t is the trace of the instructions from p to q - 1; the scan of t breaks
\* at the first start among them, the j-th instruction, or at its end.
ScannedTo(c, p, q, t, b, j) ==
  /\ IsBreak(c, t, b) /\ j \in p .. q /\ NoStarts(c, p, j)
  /\ Off(c, p - 1) + b = Off(c, j - 1) + 1
  /\ Len(Reg(c, p - 1)) + ExitsIn(c, t, b) = Len(Reg(c, j - 1))
  /\ b = Len(t) + 1 => j = q
  /\ b <= Len(t) => j < q /\ Nth(c, j).kind = "start"
Scanned(c, p, q, t) == \E b \in Nat, j \in Nat : ScannedTo(c, p, q, t, b, j)

(* The scan of an empty trace.                                             *)
LEMMA ScannedNone ==
  ASSUME NEW c \in Seq(Insn), NEW p \in Nat \ {0}
  PROVE  Scanned(c, p, p, <<>>)
<1>1. Len(<<>>) = 0 /\ IsBreak(c, <<>>, 1)
  BY DEF IsBreak
<1>2. ExitsIn(c, <<>>, 1) = 0
  <2>1. ExitsTo(c, <<>>, 1) = {}
    BY DEF ExitsTo
  <2> QED BY <2>1, FS_EmptySet DEF ExitsIn
<1>3. p - 1 \in Nat /\ Off(c, p - 1) \in Nat /\ Len(Reg(c, p - 1)) \in Nat
  <2>1. p - 1 \in Nat
    OBVIOUS
  <2> QED BY <2>1, OffNext, RegNext
<1>4. NoStarts(c, p, p)
  BY DEF NoStarts
<1>5. ScannedTo(c, p, p, <<>>, 1, p)
  BY <1>1, <1>2, <1>3, <1>4 DEF ScannedTo
<1> QED BY <1>5 DEF Scanned

(* One more instruction: an exit has one entry; a start, or what follows   *)
(* one, changes nothing.                                                   *)
LEMMA ScannedNext ==
  ASSUME NEW S, NEW c \in Seq(Insn), NEW p \in Nat \ {0}, NEW q \in Nat, NEW t \in Seq(S), NEW x,
         Place(x) \in S, Again(x) \in S, x.at = q, q > 0, Scanned(c, p, q, t),
         Nth(c, q).kind = "exit" => Nth(c, q).entries = 1
  PROVE  Scanned(c, p, q + 1, Added(t, x, Nth(c, q).entries))
<1> DEFINE i == Nth(c, q)
           e1 == Place(x)
           e2 == Again(x)
           t1 == Append(t, e1)
           t2 == Append(t1, e2)
<1>1. PICK b \in Nat, j \in Nat : ScannedTo(c, p, q, t, b, j)
  BY DEF Scanned
<1>2. /\ IsBreak(c, t, b) /\ j \in p .. q /\ NoStarts(c, p, j) /\ Off(c, p - 1) + b = Off(c, j - 1) + 1
      /\ Len(Reg(c, p - 1)) + ExitsIn(c, t, b) = Len(Reg(c, j - 1))
      /\ b = Len(t) + 1 => j = q
      /\ b <= Len(t) => j < q /\ Nth(c, j).kind = "start"
  BY <1>1 DEF ScannedTo
<1>3. /\ i \in Insn /\ i.entries \in 1 .. 2 /\ (i.kind = "exit" => i.entries = 1)
      /\ i.kind \in {"start", "exit", "plain"}
  <2>1. i \in Insn
    BY NthType
  <2> QED BY <2>1 DEF Insn
<1>4. /\ (IsStart(c, e1) <=> i.kind = "start") /\ (IsExit(c, e1) <=> i.kind = "exit")
      /\ (IsStart(c, e2) <=> i.kind = "start") /\ (IsExit(c, e2) <=> i.kind = "exit")
  BY DEF IsStart, IsExit, Place, Again
<1>5. t1 \in Seq(S) /\ t2 \in Seq(S)
  BY AppendProperties
<1> HIDE DEF e1, e2, t2
<1>6. BreakAfter(c, t, t1, b, e1) /\ ExitsIn(c, t, b) \in Nat
  BY <1>2, BreakAppend
<1>7. Len(t) \in Nat /\ Len(t1) = Len(t) + 1 /\ Len(t1) \in Nat /\ b \in 1 .. Len(t) + 1
  BY <1>2, AppendFacts DEF IsBreak
<1> HIDE DEF t1
<1>8. ASSUME NEW r, IsBreak(c, t1, r) PROVE BreakAfter(c, t1, t2, r, e2) /\ ExitsIn(c, t1, r) \in Nat
  BY <1>5, <1>8, BreakAppend DEF t2
<1>9. Added(t, x, i.entries) = IF i.entries = 1 THEN t1 ELSE t2
  BY DEF Added, t1, t2, e1, e2
<1>10. /\ Off(c, q) = Off(c, q - 1) + i.entries /\ Off(c, q - 1) \in Nat
       /\ i.kind = "plain" => Len(Reg(c, q)) = Len(Reg(c, q - 1))
       /\ i.kind # "plain" => Len(Reg(c, q)) = Len(Reg(c, q - 1)) + 1
       /\ Len(Reg(c, q - 1)) \in Nat
  <2> DEFINE r == q - 1
  <2>1. r \in Nat /\ r + 1 = q
    OBVIOUS
  <2> HIDE DEF r
  <2>2. Off(c, r + 1) = Off(c, r) + Nth(c, r + 1).entries /\ Off(c, r) \in Nat
    BY <2>1, OffNext
  <2>3. /\ Nth(c, r + 1).kind = "plain" => Len(Reg(c, r + 1)) = Len(Reg(c, r))
        /\ Nth(c, r + 1).kind # "plain" => Len(Reg(c, r + 1)) = Len(Reg(c, r)) + 1
        /\ Len(Reg(c, r)) \in Nat
    BY <2>1, RegNext
  <2> QED BY <2>1, <2>2, <2>3 DEF r
<1>14. p - 1 \in Nat /\ Off(c, p - 1) \in Nat /\ Len(Reg(c, p - 1)) \in Nat
  <2>1. p - 1 \in Nat
    OBVIOUS
  <2> QED BY <2>1, OffNext, RegNext
<1> HIDE DEF i
<1>11. CASE b <= Len(t) \/ i.kind = "start"
  <2>1. IsBreak(c, t1, b) /\ ExitsIn(c, t1, b) = ExitsIn(c, t, b) /\ b <= Len(t1)
    BY <1>4, <1>6, <1>11 DEF BreakAfter
  <2>2. IsBreak(c, t2, b) /\ ExitsIn(c, t2, b) = ExitsIn(c, t, b) /\ b <= Len(t2)
    BY <1>8, <2>1 DEF BreakAfter
  <2>3. j \in p .. q + 1 /\ j < q + 1 /\ Nth(c, j).kind = "start"
    BY <1>2, <1>7, <1>11 DEF i
  <2>4. Len(t2) \in Nat
    BY <1>5, LenProperties
  <2>5. b # Len(t1) + 1 /\ b # Len(t2) + 1
    BY <1>7, <2>1, <2>2, <2>4
  <2>6. ScannedTo(c, p, q + 1, t1, b, j) /\ ScannedTo(c, p, q + 1, t2, b, j)
    BY <1>2, <2>1, <2>2, <2>3, <2>5 DEF ScannedTo
  <2> QED BY <1>9, <2>6 DEF i, Scanned
<1>12. CASE b = Len(t) + 1 /\ i.kind # "start"
  <2>1. /\ IsBreak(c, t1, b + 1) /\ b + 1 = Len(t1) + 1
        /\ ExitsIn(c, t1, b + 1) = ExitsIn(c, t, b) + (IF i.kind = "exit" THEN 1 ELSE 0)
    BY <1>4, <1>6, <1>12 DEF BreakAfter
  <2>2. /\ IsBreak(c, t2, (b + 1) + 1) /\ (b + 1) + 1 = Len(t2) + 1
        /\ ExitsIn(c, t2, (b + 1) + 1) = ExitsIn(c, t1, b + 1) + (IF i.kind = "exit" THEN 1 ELSE 0)
    BY <1>4, <1>8, <1>12, <2>1 DEF BreakAfter
  <2>3. j = q /\ q + 1 \in p .. q + 1 /\ NoStarts(c, p, q + 1) /\ (q + 1) - 1 = q
    <3>1. j = q
      BY <1>2, <1>12
    <3>2. \A k \in p .. (q + 1) - 1 : k \in p .. q - 1 \/ k = q
      OBVIOUS
    <3> QED BY <1>2, <1>12, <3>1, <3>2 DEF NoStarts, i
  <2>4. CASE i.entries = 1
    <3>1. Off(c, p - 1) + (b + 1) = Off(c, q) + 1
      <4>1. Off(c, p - 1) + b = Off(c, q - 1) + 1 /\ Off(c, q) = Off(c, q - 1) + 1
        <5>1. Off(c, p - 1) + b = Off(c, q - 1) + 1
          BY <1>2, <2>3
        <5>2. Off(c, q) = Off(c, q - 1) + 1
          BY <1>10, <2>4
        <5> QED BY <5>1, <5>2
      <4> DEFINE before == Off(c, p - 1)
                 last == Off(c, q - 1)
                 new == Off(c, q)
      <4>2. before \in Nat /\ last \in Nat
        BY <1>10, <1>14
      <4>3. before + b = last + 1 /\ new = last + 1
        BY <4>1
      <4> HIDE DEF before, last, new
      <4>4. before + (b + 1) = new + 1
        BY <4>2, <4>3
      <4> QED BY <4>4 DEF before, new
    <3>2. Len(Reg(c, p - 1)) + ExitsIn(c, t1, b + 1) = Len(Reg(c, q))
      <4>1. Len(Reg(c, p - 1)) + ExitsIn(c, t, b) = Len(Reg(c, q - 1))
        BY <1>2, <2>3
      <4>2. i.kind = "exit" \/ i.kind = "plain"
        BY <1>3, <1>12
      <4>3. CASE i.kind = "exit"
        <5>1. /\ ExitsIn(c, t1, b + 1) = ExitsIn(c, t, b) + 1
              /\ Len(Reg(c, q)) = Len(Reg(c, q - 1)) + 1
          BY <1>10, <2>1, <4>3
        <5> QED BY <1>6, <1>14, <4>1, <5>1
      <4>4. CASE i.kind = "plain"
        <5>1. /\ ExitsIn(c, t1, b + 1) = ExitsIn(c, t, b) + 0
              /\ Len(Reg(c, q)) = Len(Reg(c, q - 1))
          BY <1>10, <2>1, <4>4
        <5> QED BY <1>6, <1>14, <4>1, <5>1
      <4> QED BY <4>2, <4>3, <4>4
    <3>3. ~ (b + 1 <= Len(t1))
      BY <1>7, <2>1
    <3>4. ScannedTo(c, p, q + 1, t1, b + 1, q + 1)
      BY <2>1, <2>3, <3>1, <3>2, <3>3 DEF ScannedTo
    <3>5. b + 1 \in Nat /\ q + 1 \in Nat
      OBVIOUS
    <3> QED BY <1>9, <2>4, <3>4, <3>5 DEF i, Scanned
  <2>5. CASE i.entries = 2
    <3>0. i.kind = "plain"
      BY <1>3, <1>12, <2>5
    <3>1. Off(c, p - 1) + ((b + 1) + 1) = Off(c, q) + 1
      <4>1. Off(c, p - 1) + b = Off(c, q - 1) + 1 /\ Off(c, q) = Off(c, q - 1) + 2
        <5>1. Off(c, p - 1) + b = Off(c, q - 1) + 1
          BY <1>2, <2>3
        <5>2. Off(c, q) = Off(c, q - 1) + 2
          BY <1>10, <2>5
        <5> QED BY <5>1, <5>2
      <4> DEFINE before == Off(c, p - 1)
                 last == Off(c, q - 1)
                 new == Off(c, q)
      <4>2. before \in Nat /\ last \in Nat
        BY <1>10, <1>14
      <4>3. before + b = last + 1 /\ new = last + 2
        BY <4>1
      <4> HIDE DEF before, last, new
      <4>4. before + ((b + 1) + 1) = new + 1
        BY <4>2, <4>3
      <4> QED BY <4>4 DEF before, new
    <3>2. Len(Reg(c, p - 1)) + ExitsIn(c, t2, (b + 1) + 1) = Len(Reg(c, q))
      <4>1. Len(Reg(c, p - 1)) + ExitsIn(c, t, b) = Len(Reg(c, q - 1))
        BY <1>2, <2>3
      <4>2. /\ ExitsIn(c, t1, b + 1) = ExitsIn(c, t, b) + 0
            /\ ExitsIn(c, t2, (b + 1) + 1) = ExitsIn(c, t1, b + 1) + 0
            /\ Len(Reg(c, q)) = Len(Reg(c, q - 1))
        BY <1>10, <2>1, <2>2, <3>0
      <4>3. ExitsIn(c, t, b) \in Nat
        BY <1>6
      <4> QED BY <4>1, <4>2, <4>3
    <3>3. ~ ((b + 1) + 1 <= Len(t2))
      <4>1. Len(t2) \in Nat
        BY <1>5, LenProperties
      <4> QED BY <2>2, <4>1
    <3>4. ScannedTo(c, p, q + 1, t2, (b + 1) + 1, q + 1)
      BY <2>2, <2>3, <3>1, <3>2, <3>3 DEF ScannedTo
    <3>5. (b + 1) + 1 \in Nat /\ q + 1 \in Nat
      OBVIOUS
    <3> QED BY <1>9, <2>5, <3>4, <3>5 DEF i, Scanned
  <2> QED BY <1>3, <2>4, <2>5
<1>13. b <= Len(t) \/ b = Len(t) + 1
  BY <1>7
<1> QED BY <1>11, <1>12, <1>13

-----------------------------------------------------------------------------
\* What has been accounted for.

Fresh == EmptyView(FirstPid)
Marks(c, n) == Len(Reg(c, n))

\* The marks, the view and the packets are those of the first n instructions.
Accounted(c, n, mk, vw, pk) ==
  /\ mk = Marks(c, n) /\ vw = ViewAt(Fresh, c, n)
  /\ {pk[i].truly + 1 : i \in DOMAIN pk} = StartsUpTo(c, n)
  /\ Len(pk) = Cardinality(StartsUpTo(c, n))

(* The empty view is a view.                                               *)
LEMMA FreshType == Fresh \in Views
BY LoopAssumption DEF Fresh, EmptyView, Views

(* At first nothing is accounted for.                                      *)
LEMMA AccountedNone ==
  ASSUME NEW c \in Seq(Insn)
  PROVE  Accounted(c, 0, 0, Fresh, <<>>)
<1>1. 0 \in Nat /\ Len(<<>>) = 0 /\ DOMAIN <<>> = {}
  OBVIOUS
<1>2. Reg(c, 0) = <<>>
  BY <1>1, RegNext
<1>3. StartsUpTo(c, 0) = {}
  BY <1>1, StartsNext
<1>4. ViewAt(Fresh, c, 0) = Fresh
  BY <1>1, FreshType, ViewNext
<1>5. Cardinality({}) = 0
  BY FS_EmptySet
<1> QED BY <1>1, <1>2, <1>3, <1>4, <1>5 DEF Accounted, Marks

\* The next registered instruction after the first n is the k-th, and these
\* are the marks, the view and the instruction there.
NextOne(c, n, k) ==
  /\ Marks(c, n) < Len(Registered(c)) /\ Registered(c)[Marks(c, n) + 1] = Nth(c, k)
  /\ Marks(c, k) = Marks(c, n) + 1
  /\ ViewAt(Fresh, c, k) = Intercepted(ViewAt(Fresh, c, n), Nth(c, k))
  /\ ViewAt(Fresh, c, k - 1) = ViewAt(Fresh, c, n)

(* What follows instructions that nobody registered is the next one.       *)
LEMMA NextOneIs ==
  ASSUME NEW c \in Seq(Insn), NEW n \in Nat, NEW k \in Nat, StopsAt(Fresh, c, n, k)
  PROVE  NextOne(c, n, k + 1) /\ k + 1 \in 1 .. Len(c)
<1>1. Nth(c, k + 1).kind # "plain" /\ Reg(c, k) = Reg(c, n) /\ ViewAt(Fresh, c, k) = ViewAt(Fresh, c, n)
  BY DEF StopsAt, Quiet
<1>2. /\ Len(Reg(c, k)) < Len(Registered(c)) /\ Registered(c)[Len(Reg(c, k)) + 1] = Nth(c, k + 1)
      /\ Len(Reg(c, k + 1)) = Len(Reg(c, k)) + 1 /\ k + 1 \in 1 .. Len(c)
  BY <1>1, NextRegistered
<1>3. ViewAt(Fresh, c, k + 1) = Intercepted(ViewAt(Fresh, c, k), Nth(c, k + 1))
  BY FreshType, ViewNext
<1>4. (k + 1) - 1 = k
  OBVIOUS
<1> QED BY <1>1, <1>2, <1>3, <1>4 DEF NextOne, Marks

(* The starts are the same as long as no instruction is one.               *)
LEMMA StartsQuiet ==
  ASSUME NEW c, NEW n \in Nat, NEW k \in Nat, n <= k, NoStarts(c, n + 1, k + 1)
  PROVE  StartsUpTo(c, k) = StartsUpTo(c, n)
<1>1. \A i \in 0 .. k - 1 : Nth(c, i + 1).kind = "start" => i \in 0 .. n - 1
  <2> SUFFICES ASSUME NEW i \in 0 .. k - 1, i \notin 0 .. n - 1 PROVE Nth(c, i + 1).kind # "start"
    OBVIOUS
  <2>1. i + 1 \in n + 1 .. (k + 1) - 1
    OBVIOUS
  <2> QED BY <2>1 DEF NoStarts
<1>2. 0 .. n - 1 \subseteq 0 .. k - 1
  OBVIOUS
<1> DEFINE P(i) == Nth(c, i + 1).kind = "start"
<1>3. {i \in 0 .. k - 1 : P(i)} = {i \in 0 .. n - 1 : P(i)}
  BY <1>1, <1>2
<1> QED BY <1>3 DEF StartsUpTo

(* From the first k instructions to the first q - 1, with no start in      *)
(* between, as many exits are left as the marks differ: none, and the first*)
(* q - 1 are accounted for; or the next is an exit.                        *)
PopsLeftAre(c, k, q, cnt) == cnt + Marks(c, k) = Marks(c, q - 1)
(* No pop left.                                                            *)
LEMMA PopsDone ==
  ASSUME NEW c \in Seq(Insn), NEW k \in Nat, NEW q \in Nat, k <= q - 1, NoStarts(c, k + 1, q),
         PopsLeftAre(c, k, q, 0), NEW mk, NEW vw, NEW pk, Accounted(c, k, mk, vw, pk)
  PROVE  Accounted(c, q - 1, mk, vw, pk)
<1> DEFINE d == (q - 1) - k
<1>1. d \in Nat /\ k + d = q - 1 /\ q - 1 \in Nat /\ (q - 1) + 1 = q
  OBVIOUS
<1> HIDE DEF d
<1>2. Quiet(Fresh, c, k, k + d)
  <2>1. Quiet(Fresh, c, k, k + d) \/ \E i \in k .. k + d - 1 : StopsAt(Fresh, c, k, i)
    BY <1>1, FreshType, QuietOrStops
  <2>2. ASSUME NEW i \in k .. k + d - 1, StopsAt(Fresh, c, k, i) PROVE FALSE
    <3>1. i \in Nat /\ i + 1 \in Nat
      BY <1>1
    <3>2. Marks(c, i + 1) = Marks(c, k) + 1
      BY <2>2, <3>1, NextOneIs DEF NextOne
    <3> DEFINE r == (k + d) - (i + 1)
    <3>3. r \in Nat /\ (i + 1) + r = k + d
      BY <1>1
    <3> HIDE DEF r
    <3>4. Prefix(Reg(c, i + 1), Reg(c, (i + 1) + r))
      BY <3>1, <3>3, RegPrefix
    <3>5. Marks(c, i + 1) <= Marks(c, q - 1)
      BY <1>1, <3>3, <3>4 DEF Prefix, Marks
    <3>6. Marks(c, k) \in Nat /\ Marks(c, q - 1) \in Nat
      BY <1>1, RegNext DEF Marks
    <3>7. 0 + Marks(c, k) = Marks(c, q - 1)
      BY DEF PopsLeftAre
    <3> QED BY <3>2, <3>5, <3>6, <3>7
  <2> QED BY <2>1, <2>2
<1>3. Marks(c, q - 1) = Marks(c, k) /\ ViewAt(Fresh, c, q - 1) = ViewAt(Fresh, c, k)
  BY <1>1, <1>2 DEF Quiet, Marks
<1>4. StartsUpTo(c, q - 1) = StartsUpTo(c, k)
  <2>1. q - 1 \in Nat /\ NoStarts(c, k + 1, (q - 1) + 1)
    BY <1>1
  <2> QED BY <2>1, StartsQuiet
<1> QED BY <1>3, <1>4 DEF Accounted

(* One pop or more left.                                                   *)
LEMMA PopNext ==
  ASSUME NEW c \in Seq(Insn), NEW k \in Nat, NEW q \in Nat, k <= q - 1, NoStarts(c, k + 1, q),
         NEW cnt \in Nat \ {0}, PopsLeftAre(c, k, q, cnt)
  PROVE  \E n \in k + 1 .. q - 1 : /\ NextOne(c, k, n) /\ Nth(c, n).kind = "exit" /\ n \in 1 .. Len(c)
                                   /\ StartsUpTo(c, n) = StartsUpTo(c, k)
                                   /\ PopsLeftAre(c, n, q, cnt - 1)
<1> DEFINE d == (q - 1) - k
<1>1. d \in Nat /\ k + d = q - 1 /\ q - 1 \in Nat
  OBVIOUS
<1> HIDE DEF d
<1>2. Marks(c, k) \in Nat /\ cnt + Marks(c, k) = Marks(c, q - 1)
  BY RegNext DEF Marks, PopsLeftAre
<1>3. ~ Quiet(Fresh, c, k, k + d)
  <2> SUFFICES ASSUME Quiet(Fresh, c, k, k + d) PROVE FALSE
    OBVIOUS
  <2>1. Marks(c, q - 1) = Marks(c, k)
    BY <1>1 DEF Quiet, Marks
  <2> QED BY <1>2, <2>1
<1>4. PICK i \in k .. k + d - 1 : StopsAt(Fresh, c, k, i)
  BY <1>1, <1>3, FreshType, QuietOrStops
<1>5. i \in Nat /\ i + 1 \in k + 1 .. q - 1
  BY <1>1
<1>6. NextOne(c, k, i + 1) /\ i + 1 \in 1 .. Len(c)
  BY <1>4, <1>5, NextOneIs
<1>7. Nth(c, i + 1).kind # "plain" /\ Nth(c, i + 1).kind # "start"
  BY <1>4, <1>5 DEF StopsAt, NoStarts
<1>8. Nth(c, i + 1).kind = "exit"
  <2>1. Nth(c, i + 1) \in Insn
    BY NthType
  <2> QED BY <1>7, <2>1 DEF Insn
<1>9. StartsUpTo(c, i + 1) = StartsUpTo(c, k)
  <2>1. i + 1 \in Nat /\ k <= i + 1 /\ (i + 1) + 1 <= q
    BY <1>5
  <2>2. NoStarts(c, k + 1, (i + 1) + 1)
    BY <2>1 DEF NoStarts
  <2> QED BY <2>1, <2>2, StartsQuiet
<1>10. PopsLeftAre(c, i + 1, q, cnt - 1)
  BY <1>2, <1>6 DEF NextOne, PopsLeftAre
<1> QED BY <1>5, <1>6, <1>8, <1>9, <1>10

(* A hook accounts for the start it is run for.                            *)
LEMMA HookNext ==
  ASSUME NEW c \in Seq(Insn), NEW n \in Nat, Nth(c, n + 1).kind = "start",
         NEW mk, NEW vw, NEW pk \in Seq(Packets), NEW e \in Packets, e.truly = Off(c, n),
         Accounted(c, n, mk, vw, pk)
  PROVE  /\ Accounted(c, n + 1, mk + 1, Hooked(vw, Nth(c, n + 1)), Append(pk, e))
         /\ NextOne(c, n, n + 1) /\ n + 1 \in 1 .. Len(c)
<1>1. StopsAt(Fresh, c, n, n)
  BY DEF StopsAt, Quiet
<1>2. NextOne(c, n, n + 1) /\ n + 1 \in 1 .. Len(c)
  BY <1>1, NextOneIs
<1>3. mk + 1 = Marks(c, n + 1) /\ Hooked(vw, Nth(c, n + 1)) = ViewAt(Fresh, c, n + 1)
  BY <1>2 DEF NextOne, Accounted, Intercepted
<1>4. /\ StartsUpTo(c, n + 1) = StartsUpTo(c, n) \union {Off(c, n) + 1}
      /\ Cardinality(StartsUpTo(c, n + 1)) = Cardinality(StartsUpTo(c, n)) + 1
  BY StartsNext
<1> DEFINE pk2 == Append(pk, e)
<1>5. /\ Len(pk) \in Nat /\ Len(pk2) = Len(pk) + 1 /\ pk2[Len(pk) + 1] = e
      /\ \A i \in 1 .. Len(pk) : pk2[i] = pk[i]
      /\ DOMAIN pk = 1 .. Len(pk) /\ DOMAIN pk2 = 1 .. Len(pk) + 1
  BY AppendFacts
<1> HIDE DEF pk2
<1>6. {pk2[i].truly + 1 : i \in DOMAIN pk2} = {pk[i].truly + 1 : i \in DOMAIN pk} \union {Off(c, n) + 1}
  <2>1. 1 .. Len(pk) + 1 = (1 .. Len(pk)) \union {Len(pk) + 1}
    BY <1>5
  <2>2. {pk2[i].truly + 1 : i \in DOMAIN pk2} =
          {pk2[i].truly + 1 : i \in 1 .. Len(pk)} \union {pk2[Len(pk) + 1].truly + 1}
    BY <1>5, <2>1
  <2> QED BY <1>5, <2>2
<1>7. Accounted(c, n + 1, mk + 1, Hooked(vw, Nth(c, n + 1)), pk2)
  BY <1>3, <1>4, <1>5, <1>6 DEF Accounted
<1> QED BY <1>2, <1>7 DEF pk2

-----------------------------------------------------------------------------
\* With no timer, the traces are those of the program up to where it is.

PlaceInv ==
  /\ m.isr = 0 /\ ~ m.taken /\ protobuf.isr = 0 /\ ~ protobuf.taken
  /\ Content(Fresh, code, Past, m.at - 1)
  /\ phase \notin {"head", "done"} => Content(Fresh, code, log, protobuf.at - 1)
  /\ phase \in {"run", "scan"} => Scanned(code, protobuf.at, m.at, trace)
  /\ rf.left > 0 => ~ rf.stalled
  /\ rf.stalled => in_wfi

(* It holds in the initial states.                                         *)
LEMMA PlaceInit == Init => PlaceInv
<1> SUFFICES ASSUME Init PROVE PlaceInv
  OBVIOUS
<1>1. code \in Seq(Insn)
  BY ProgramAssumption DEF Init
<1>2. Content(Fresh, code, <<>>, 0)
  BY <1>1, FreshType, ContentNone
<1>3. m.at - 1 = 0 /\ Past = <<>> /\ phase = "head"
  BY DEF Init, Past
<1> QED BY <1>2, <1>3 DEF Init, PlaceInv, RunFor

(* Where the machine and the checkpoint are.                               *)
LEMMA PlaceFacts ==
  ASSUME BaseInv, PlaceInv
  PROVE  /\ m.at \in Nat \ {0} /\ protobuf.at \in Nat \ {0}
         /\ m.at - 1 \in Nat /\ protobuf.at - 1 \in Nat
         /\ code \in Seq(Insn) /\ Now = Nth(code, m.at)
         /\ Len(log) \in Nat /\ Len(trace) \in Nat
         /\ phase \notin {"head", "done"} =>
              /\ Len(log) = Off(code, protobuf.at - 1)
              /\ Len(log) + Len(trace) = Off(code, m.at - 1)
              /\ protobuf.at <= m.at
<1>1. TypeInv
  BY DEF BaseInv
<1>2. /\ code \in Seq(Insn) /\ Len(code) \in Nat /\ INSN_PER_CKPT \in Nat /\ Padding \in Nat /\ Len(Isr) \in Nat
  BY <1>1, CodeType, LoopAssumption
<1>3. m.at \in Nat \ {0} /\ protobuf.at \in Nat \ {0}
  BY <1>1, <1>2 DEF TypeInv, Machines
<1>4. m.at - 1 \in Nat /\ protobuf.at - 1 \in Nat
  BY <1>3
<1>5. Now = Nth(code, m.at)
  <2>1. 0 \in 0 .. Len(Isr) /\ m.isr = 0
    BY <1>2 DEF PlaceInv
  <2> QED BY <1>1, <1>3, <2>1, InsnAtType DEF Now
<1>6. log \in Seq(Entries(code)) /\ trace \in Seq(Entries(code))
  BY <1>1 DEF TypeInv
<1>7. Len(log) \in Nat /\ Len(trace) \in Nat /\ Len(log \o trace) = Len(log) + Len(trace)
  BY <1>6, LenProperties, ConcatProperties
<1>8. ASSUME phase \notin {"head", "done"}
      PROVE  /\ Len(log) = Off(code, protobuf.at - 1)
             /\ Len(log) + Len(trace) = Off(code, m.at - 1)
             /\ protobuf.at <= m.at
  <2>1. Len(log) = Off(code, protobuf.at - 1) /\ Len(log) + Len(trace) = Off(code, m.at - 1)
    BY <1>7, <1>8 DEF PlaceInv, Content, Past
  <2>2. Off(code, protobuf.at - 1) <= Off(code, m.at - 1)
    BY <1>7, <2>1
  <2>3. protobuf.at - 1 <= m.at - 1
    BY <1>2, <1>4, <2>2, OffOrder
  <2> QED BY <1>3, <2>1, <2>3
<1> QED BY <1>2, <1>3, <1>4, <1>5, <1>7, <1>8

(* An instruction of the step keeps it,                                    *)
LEMMA PlaceExecute == ASSUME BaseInv, PlaceInv, Execute PROVE PlaceInv'
<1>1. /\ Now \in Insn /\ Place(m) \in Entries(code) /\ Again(m) \in Entries(code)
      /\ trace' = Added(trace, m, Now.entries) /\ Moved(m, m')
      /\ rf'.stalled = rf.stalled /\ in_wfi' \in BOOLEAN
  BY ExecuteFacts
<1>2. InRunFor /\ rf.left > 0 /\ UNCHANGED <<code, timed, phase, protobuf, log>>
  BY DEF Execute, profVars
<1>3. /\ m.at \in Nat \ {0} /\ m.at - 1 \in Nat /\ protobuf.at \in Nat \ {0} /\ code \in Seq(Insn)
      /\ Now = Nth(code, m.at)
  BY PlaceFacts
<1>4. m'.at = m.at + 1 /\ m'.isr = 0 /\ ~ m'.taken /\ m'.at - 1 = m.at
  <2>1. m'.at = m.at + 1 /\ m'.isr = 0 /\ ~ m'.taken
    BY <1>1 DEF PlaceInv, Moved
  <2> QED BY <1>3, <2>1
<1>5. trace \in Seq(Entries(code)) /\ log \in Seq(Entries(code)) /\ Past \in Seq(Entries(code))
  BY PastType DEF BaseInv, TypeInv
<1>6. Now.entries \in 1 .. 2
  BY <1>1 DEF Insn
<1>7. Content(Fresh, code, Past', m'.at - 1)
  <2> DEFINE S == Entries(code)
             n == Now.entries
             k == m.at - 1
  <2>1. log \in Seq(S) /\ trace \in Seq(S) /\ Place(m) \in S /\ Again(m) \in S /\ n \in 1 .. 2 /\ Past \in Seq(S)
    BY <1>1, <1>5, <1>6
  <2>2. k \in Nat /\ m.at = k + 1 /\ Content(Fresh, code, Past, k)
    BY <1>3 DEF PlaceInv
  <2>3. n = Nth(code, k + 1).entries
    BY <1>3, <2>2
  <2> HIDE DEF S, n, k
  <2>4. JoinedAdded(log, trace, m, n)
    BY <2>1, ConcatAdded
  <2>5. Content(Fresh, code, Added(Past, m, Nth(code, k + 1).entries), k + 1)
    BY <1>3, <2>1, <2>2, FreshType, ContentNext
  <2>6. Past = log \o trace /\ Past' = log \o trace'
    BY <1>2 DEF InRunFor, Past
  <2>7. Past' = Added(Past, m, n)
    BY <1>1, <2>4, <2>6 DEF JoinedAdded, n
  <2> QED BY <1>4, <2>2, <2>3, <2>5, <2>7
<1>8. phase = "run" => Scanned(code, protobuf.at, m'.at, trace')
  <2> SUFFICES ASSUME phase = "run" PROVE Scanned(code, protobuf.at, m'.at, trace')
    OBVIOUS
  <2> DEFINE S == Entries(code)
             p == protobuf.at
             q == m.at
  <2>1. /\ trace \in Seq(S) /\ Place(m) \in S /\ Again(m) \in S /\ p \in Nat \ {0} /\ q \in Nat /\ q > 0
        /\ m.at = q /\ Scanned(code, p, q, trace)
    BY <1>1, <1>3, <1>5 DEF PlaceInv
  <2>2. Nth(code, q).kind = "exit" => Nth(code, q).entries = 1
    <3>1. \A i \in 1 .. Len(code) : code[i].kind = "exit" => code[i].entries = 1
      BY CodeType DEF BaseInv
    <3>2. Nth(code, q).kind = "exit" => q \in 1 .. Len(code) /\ Nth(code, q) = code[q]
      BY <1>3, NthType
    <3> QED BY <3>1, <3>2
  <2> HIDE DEF S, p, q
  <2>3. Scanned(code, p, q + 1, Added(trace, m, Nth(code, q).entries))
    BY <1>3, <2>1, <2>2, ScannedNext
  <2> QED BY <1>1, <1>3, <1>4, <2>3 DEF p, q
<1>9. ~ rf'.stalled
  BY <1>1, <1>2 DEF PlaceInv
<1>10. phase \in {"run", "ffwd", "step"} /\ Content(Fresh, code, log, protobuf.at - 1)
       /\ protobuf.isr = 0 /\ ~ protobuf.taken
  BY <1>2 DEF PlaceInv, InRunFor
<1> QED BY <1>2, <1>4, <1>7, <1>8, <1>9, <1>10 DEF PlaceInv

(* and so does every step.                                                 *)
LEMMA PlaceStep == BaseInv /\ PlaceInv /\ ~ timed /\ [Next]_vars => PlaceInv'
<1> SUFFICES ASSUME BaseInv, PlaceInv, ~ timed, [Next]_vars PROVE PlaceInv'
  OBVIOUS
<1>1. log \in Seq(Entries(code)) /\ trace \in Seq(Entries(code))
  BY DEF BaseInv, TypeInv
<1>2. CASE Execute
  BY <1>2, PlaceExecute
<1>3. CASE StepTarget
  <2>1. /\ m'.at = m.at /\ m'.isr = m.isr /\ m'.taken = m.taken /\ UNCHANGED in_wfi
        /\ rf'.stalled => in_wfi /\ rf'.left = 0
    BY <1>3, StepTargetFacts
  <2>2. UNCHANGED <<code, trace, phase, protobuf, log>>
    BY <1>3 DEF StepTarget, profVars
  <2>3. Past' = Past
    BY <2>2 DEF Past
  <2>4. rf'.left > 0 => ~ rf'.stalled
    BY <2>1
  <2> QED BY <2>1, <2>2, <2>3, <2>4 DEF PlaceInv
<1>4. CASE /\ UNCHANGED <<code, m, in_wfi, protobuf, log, trace>>
           /\ rf' = rf \/ (rf'.left = 0 /\ ~ rf'.stalled)
           /\ phase' \in {"head", "done"} <=> phase \in {"head", "done"}
           /\ phase' \in {"run", "scan"} => phase \in {"run", "scan"}
  <2>1. Past' = Past
    BY <1>4 DEF Past
  <2>2. (rf'.left > 0 => ~ rf'.stalled) /\ (rf'.stalled => in_wfi)
    BY <1>4 DEF PlaceInv
  <2> QED BY <1>4, <2>1, <2>2 DEF PlaceInv
<1>5. CASE TakeCheckpoint
  <2>1. /\ phase = "head" /\ phase' = "run" /\ protobuf' = m /\ trace' = <<>> /\ UNCHANGED <<code, m, log, in_wfi>>
        /\ rf'.left = 0 /\ ~ rf'.stalled
    BY <1>5 DEF TakeCheckpoint, profVars, RunFor
  <2>2. Past = log /\ Past' = log
    BY <1>1, <2>1, ConcatEmptySeq DEF Past
  <2>3. m.at \in Nat \ {0} /\ code \in Seq(Insn)
    BY PlaceFacts
  <2>4. Scanned(code, m.at, m.at, <<>>)
    BY <2>3, ScannedNone
  <2> QED BY <2>1, <2>2, <2>4 DEF PlaceInv
<1>6. CASE Rewind
  <2>1. /\ phase = "pop" /\ phase' = "ffwd" /\ m' = protobuf /\ trace' = <<>>
        /\ UNCHANGED <<code, protobuf, log, in_wfi>> /\ rf'.left = 0 /\ ~ rf'.stalled
    BY <1>6 DEF Rewind, profVars, RunFor
  <2>2. Past' = log
    BY <1>1, <2>1, ConcatEmptySeq DEF Past
  <2> QED BY <2>1, <2>2 DEF PlaceInv
<1>7. CASE Submit
  <2>1. /\ phase \in {"submit", "pop"} /\ phase' = "head" /\ log' = log \o trace
        /\ UNCHANGED <<code, m, protobuf, in_wfi, rf>>
    BY <1>7 DEF Submit, machineVars
  <2>2. Past' = Past
    BY <2>1 DEF Past
  <2> QED BY <2>1, <2>2 DEF PlaceInv
<1>8. CASE HandleTohost
  BY <1>4, <1>8 DEF HandleTohost, profVars
<1>9. CASE Return
  <2>1. UNCHANGED <<code, m, in_wfi, rf, protobuf, log, trace>> /\ phase \notin {"head", "done"} /\ phase' \notin {"head", "done"}
        /\ (phase' \in {"run", "scan"} => phase \in {"run", "scan"})
    BY <1>9 DEF Return, InRunFor, LoopAgain, machineVars, profVars
  <2> QED BY <1>4, <2>1
<1>10. CASE Scan \/ PopOne
  <2>1. UNCHANGED <<code, m, in_wfi, rf, protobuf, log, trace>> /\ phase \notin {"head", "done"} /\ phase' = "pop"
    BY <1>10 DEF Scan, PopOne, machineVars, profVars
  <2> QED BY <1>4, <2>1
<1>11. CASE LookAndStep
  <2>1. UNCHANGED <<code, m, in_wfi, protobuf, log, trace>> /\ phase = "look" /\ phase' = "step"
        /\ rf'.left = 0 /\ ~ rf'.stalled
    BY <1>11 DEF LookAndStep, RunFor
  <2> QED BY <1>4, <2>1
<1>12. CASE Finish \/ UNCHANGED vars
  <2>1. UNCHANGED <<code, m, in_wfi, rf, protobuf, log, trace>> /\ (phase' = phase \/ (phase = "head" /\ phase' = "done"))
    BY <1>12 DEF Finish, vars, machineVars, profVars
  <2> QED BY <1>4, <2>1
<1> QED BY <1>2, <1>3, <1>5, <1>6, <1>7, <1>8, <1>9, <1>10, <1>11, <1>12 DEF Next, RunForStep

-----------------------------------------------------------------------------
\* With no timer, what is accounted for in each phase.

Acc(n) == Accounted(code, n, marks, view, packets)

\* The rewinding target: the first start from the checkpoint on.
Target(c, p, q, far) ==
  /\ q >= p /\ Nth(c, q).kind = "start" /\ NoStarts(c, p, q)
  /\ Off(c, p - 1) + far = Off(c, q - 1)

\* The pops go from the first n instructions to those before the q-th: the
\* start, or the next one.  A hart that waits has nothing to pop.
Popping(q, n) ==
  /\ Acc(n)
  /\ IF rewind THEN Target(code, protobuf.at, q, fwd_steps) ELSE q = m.at
  /\ \/ /\ protobuf.at - 1 <= n /\ n <= q - 1 /\ NoStarts(code, protobuf.at, q)
        /\ PopsLeftAre(code, n, q, popcnt)
     \/ in_wfi /\ popcnt = 0 /\ ~ rewind

\* The replay goes to the q-th instruction and one further.
Replaying(q) ==
  /\ Target(code, protobuf.at, q, fwd_steps)
  /\ IF found_function THEN Acc(q) ELSE Acc(q - 1)
  /\ phase = "look" => m.at <= q
  /\ phase = "step" =>
       /\ rf.left <= 1
       /\ rf.tot = 0 => IF found_function THEN m.at = q ELSE m.at < q
       /\ rf.tot > 0 => rf.left = 0 /\ IF found_function THEN m.at = q + 1 ELSE m.at <= q
  /\ phase = "submit" => found_function /\ (m.at = q + 1 \/ in_wfi \/ exited)

\* A hart that waits, and a target that asked to exit before a rewind, do not
\* execute what was accounted for.
AccInv == (popped_empty /\ phase = "pop") \/
  /\ phase \in {"head", "done"} =>
       Acc(m.at - 1) \/ ((in_wfi \/ (exited /\ rewind)) /\ \E n \in Nat : Acc(n))
  /\ phase \in {"run", "scan"} =>
       Acc(protobuf.at - 1) \/ (in_wfi /\ trace = <<>> /\ \E n \in Nat : Acc(n))
  /\ phase = "pop" => \E q \in Nat, n \in Nat : Popping(q, n)
  /\ phase \in {"ffwd", "look", "step", "submit"} => \E q \in Nat : Replaying(q)

UntimedInv == timed \/ (PlaceInv /\ AccInv)
Inv == BaseInv /\ PathInv /\ UntimedInv

(* It holds in the initial states.                                         *)
LEMMA AccInit == Init => AccInv
<1> SUFFICES ASSUME Init PROVE AccInv
  OBVIOUS
<1>1. code \in Seq(Insn)
  BY ProgramAssumption DEF Init
<1>2. Accounted(code, 0, 0, Fresh, <<>>)
  BY <1>1, AccountedNone
<1>3. m.at - 1 = 0 /\ marks = 0 /\ view = Fresh /\ packets = <<>> /\ phase = "head"
  BY DEF Init, Fresh
<1>4. Acc(m.at - 1)
  BY <1>2, <1>3 DEF Acc
<1> QED BY <1>3, <1>4 DEF AccInv

(* An instruction of the step keeps it,                                    *)
LEMMA AccExecute ==
  ASSUME BaseInv, PlaceInv, AccInv, ~ timed, ~ popped_empty, Execute
  PROVE  AccInv'
<1>1. /\ Moved(m, m') /\ rf'.left < rf.left /\ rf'.tot = rf.tot + Now.entries /\ Now \in Insn
      /\ rf' \in Locals
  BY ExecuteFacts
<1>2. /\ InRunFor /\ rf.left > 0
      /\ UNCHANGED <<code, phase, protobuf, popcnt, fwd_steps, rewind, found_function,
                     view, packets, marks, popped_empty>>
  BY DEF Execute, scanVars, profVars
<1>3. ~ in_wfi /\ rf \in Locals
  BY <1>2 DEF BaseInv, StepInv, TypeInv
<1>4. m'.at = m.at + 1 /\ m.at \in Nat
  BY <1>1, PlaceFacts DEF PlaceInv, Moved
<1>5. rf.left \in Nat /\ rf'.left \in Nat /\ rf.tot \in Nat /\ Now.entries \in 1 .. 2
  <2>1. Now.entries \in 1 .. 2
    BY <1>1 DEF Insn
  <2> QED BY <1>1, <1>3, <2>1 DEF Locals
<1>6. CASE phase = "run"
  <2>1. Acc(protobuf.at - 1)
    BY <1>3, <1>6 DEF AccInv
  <2> QED BY <1>2, <1>6, <2>1 DEF AccInv, Acc
<1>7. CASE phase \in {"ffwd", "step"}
  <2>1. PICK q \in Nat : Replaying(q)
    BY <1>7 DEF AccInv
  <2>2. Target(code, protobuf.at, q, fwd_steps) /\ (IF found_function THEN Acc(q) ELSE Acc(q - 1))
    BY <2>1 DEF Replaying
  <2>3. phase = "step" =>
          /\ rf'.left = 0 /\ rf'.tot > 0
          /\ IF found_function THEN m'.at = q + 1 ELSE m'.at <= q
    <3> SUFFICES ASSUME phase = "step"
                 PROVE  /\ rf'.left = 0 /\ rf'.tot > 0
                        /\ IF found_function THEN m'.at = q + 1 ELSE m'.at <= q
      OBVIOUS
    <3>1. rf.left <= 1 /\ (rf.tot > 0 => rf.left = 0)
          /\ (rf.tot = 0 => IF found_function THEN m.at = q ELSE m.at < q)
      BY <2>1 DEF Replaying
    <3>2. rf.tot = 0
      BY <1>2, <1>5, <3>1
    <3>3. IF found_function THEN m.at = q ELSE m.at < q
      BY <3>1, <3>2
    <3>4. rf'.left = 0 /\ rf'.tot > 0
      BY <1>1, <1>5, <3>1
    <3> QED BY <1>4, <3>3, <3>4
  <2>4. Acc(q)' = Acc(q) /\ Acc(q - 1)' = Acc(q - 1)
    BY <1>2 DEF Acc
  <2>5. Replaying(q)'
    BY <1>2, <1>7, <2>2, <2>3, <2>4 DEF Replaying
  <2> QED BY <1>2, <1>7, <2>5 DEF AccInv
<1> QED BY <1>2, <1>6, <1>7 DEF InRunFor

(* step_target keeps it,                                                   *)
LEMMA AccStepTarget ==
  ASSUME BaseInv, PlaceInv, AccInv, ~ timed, ~ popped_empty, StepTarget
  PROVE  AccInv'
<1>1. /\ m'.at = m.at /\ UNCHANGED in_wfi
      /\ rf' \in Locals /\ rf'.steps = rf.steps /\ rf'.tot = rf.tot /\ rf.left = 0
      /\ rf.tot < rf.steps
      /\ rf'.left = 0 \/ rf'.left <= rf.steps - rf.tot
  BY StepTargetFacts
<1>2. /\ InRunFor
      /\ UNCHANGED <<code, exited, trace, phase, protobuf, popcnt, fwd_steps, rewind, found_function,
                     view, packets, marks, popped_empty>>
  BY DEF StepTarget, scanVars, profVars
<1>3. \A n : Acc(n)' = Acc(n)
  BY <1>2 DEF Acc
<1>4. CASE phase = "run"
  <2>1. Acc(protobuf.at - 1) \/ (in_wfi /\ trace = <<>> /\ \E n \in Nat : Acc(n))
    BY <1>4 DEF AccInv
  <2>2. Acc(protobuf.at - 1)' \/ (in_wfi' /\ trace' = <<>> /\ \E n \in Nat : Acc(n)')
    BY <1>1, <1>2, <1>3, <2>1 DEF Acc
  <2> QED BY <1>2, <1>4, <2>2 DEF AccInv
<1>5. CASE phase \in {"ffwd", "step"}
  <2>1. PICK q \in Nat : Replaying(q)
    BY <1>5 DEF AccInv
  <2>2. Target(code, protobuf.at, q, fwd_steps) /\ (IF found_function THEN Acc(q) ELSE Acc(q - 1))
    BY <2>1 DEF Replaying
  <2>3. phase = "step" =>
          /\ rf'.left <= 1 /\ rf'.tot = 0
          /\ IF found_function THEN m'.at = q ELSE m'.at < q
    <3> SUFFICES ASSUME phase = "step"
                 PROVE  /\ rf'.left <= 1 /\ rf'.tot = 0
                        /\ IF found_function THEN m'.at = q ELSE m'.at < q
      OBVIOUS
    <3>1. rf.steps = 1 /\ rf.tot \in Nat /\ rf'.left \in Nat
      BY <1>1 DEF BaseInv, StepInv, TypeInv, Locals
    <3>2. rf.tot = 0
      BY <1>1, <3>1
    <3>3. IF found_function THEN m.at = q ELSE m.at < q
      BY <2>1, <3>2 DEF Replaying
    <3> QED BY <1>1, <3>1, <3>2, <3>3
  <2>4. Replaying(q)'
    BY <1>2, <1>3, <1>5, <2>2, <2>3 DEF Replaying, Acc
  <2> QED BY <1>2, <1>5, <2>4 DEF AccInv
<1> QED BY <1>2, <1>4, <1>5 DEF InRunFor

(* and the exit of the target,                                             *)
LEMMA AccHandleTohost ==
  ASSUME BaseInv, PlaceInv, AccInv, ~ timed, ~ popped_empty, HandleTohost
  PROVE  AccInv'
<1>1. /\ InRunFor
      /\ UNCHANGED <<code, m, in_wfi, rf, trace, phase, protobuf, popcnt, fwd_steps, rewind, found_function,
                     view, packets, marks, popped_empty>>
  BY DEF HandleTohost, scanVars, profVars
<1>2. CASE phase = "run"
  <2>1. Acc(protobuf.at - 1) \/ (in_wfi /\ trace = <<>> /\ \E n \in Nat : Acc(n))
    BY <1>2 DEF AccInv
  <2>2. Acc(protobuf.at - 1)' \/ (in_wfi' /\ trace' = <<>> /\ \E n \in Nat : Acc(n)')
    BY <1>1, <2>1 DEF Acc
  <2> QED BY <1>1, <1>2, <2>2 DEF AccInv
<1>3. CASE phase \in {"ffwd", "step"}
  <2>1. PICK q \in Nat : Replaying(q)
    BY <1>3 DEF AccInv
  <2>2. Replaying(q)'
    BY <1>1, <1>3, <2>1 DEF Replaying, Acc
  <2> QED BY <1>1, <1>3, <2>2 DEF AccInv
<1> QED BY <1>1, <1>2, <1>3 DEF InRunFor

(* The fast forward stops at the target or before it.                      *)
LEMMA ForwardStops ==
  ASSUME BaseInv, PlaceInv, phase = "ffwd", NEW q \in Nat, Target(code, protobuf.at, q, fwd_steps)
  PROVE  m.at <= q /\ Len(trace) <= fwd_steps
<1>1. /\ m.at \in Nat /\ m.at - 1 \in Nat /\ code \in Seq(Insn) /\ protobuf.at \in Nat \ {0}
      /\ Len(log) \in Nat /\ Len(trace) \in Nat
      /\ Len(log) = Off(code, protobuf.at - 1) /\ Len(log) + Len(trace) = Off(code, m.at - 1)
  BY PlaceFacts
<1>2. Len(trace) <= fwd_steps
  BY ForwardBound
<1>3. q \in Nat \ {0} /\ q - 1 \in Nat
  BY <1>1 DEF Target
<1>4. Off(code, m.at - 1) <= Off(code, q - 1)
  <2>1. fwd_steps \in Nat
    BY DEF BaseInv, TypeInv
  <2> QED BY <1>1, <1>2, <2>1 DEF Target
<1>5. m.at - 1 <= q - 1
  BY <1>1, <1>3, <1>4, OffOrder
<1> QED BY <1>1, <1>2, <1>3, <1>5

(* and run_for's return: a single step that found the target executed it,  *)
LEMMA AccReturn ==
  ASSUME BaseInv, PlaceInv, AccInv, ~ timed, ~ popped_empty, Return
  PROVE  AccInv'
<1>1. /\ rf.left = 0 /\ phase \in {"run", "ffwd", "step"} /\ ~ MoreToRun
      /\ phase = "run" => phase' = "scan"
      /\ phase = "ffwd" => phase' = "look"
      /\ phase = "step" => phase' = IF found_function THEN "submit" ELSE "look"
      /\ UNCHANGED <<code, m, exited, in_wfi, rf, trace, protobuf, popcnt, fwd_steps, rewind,
                     found_function, view, packets, marks, popped_empty>>
  BY DEF Return, InRunFor, LoopAgain, machineVars, scanVars, profVars
<1>2. CASE phase = "run"
  <2>1. Acc(protobuf.at - 1) \/ (in_wfi /\ trace = <<>> /\ \E n \in Nat : Acc(n))
    BY <1>2 DEF AccInv
  <2>2. Acc(protobuf.at - 1)' \/ (in_wfi' /\ trace' = <<>> /\ \E n \in Nat : Acc(n)')
    BY <1>1, <2>1 DEF Acc
  <2> QED BY <1>1, <1>2, <2>2 DEF AccInv
<1>3. CASE phase \in {"ffwd", "step"}
  <2>1. PICK q \in Nat : Replaying(q)
    BY <1>3 DEF AccInv
  <2>2. Target(code, protobuf.at, q, fwd_steps) /\ (IF found_function THEN Acc(q) ELSE Acc(q - 1))
    BY <2>1 DEF Replaying
  <2>3. phase' = "look" => m.at <= q
    <3>1. CASE phase = "ffwd"
      BY <2>2, <3>1, ForwardStops
    <3>2. CASE phase = "step" /\ phase' = "look"
      <4>1. ~ found_function
        BY <1>1, <3>2
      <4>2. (rf.tot = 0 => m.at < q) /\ (rf.tot > 0 => m.at <= q)
        BY <2>1, <3>2, <4>1 DEF Replaying
      <4>3. rf.tot \in Nat /\ m.at \in Nat
        BY PlaceFacts DEF BaseInv, TypeInv, Locals
      <4> QED BY <4>2, <4>3
    <3> QED BY <1>1, <1>3, <3>1, <3>2
  <2>4. phase' = "submit" => found_function /\ (m.at = q + 1 \/ in_wfi \/ exited)
    <3> SUFFICES ASSUME phase' = "submit"
                 PROVE  found_function /\ (m.at = q + 1 \/ in_wfi \/ exited)
      OBVIOUS
    <3>1. phase = "step" /\ found_function
      BY <1>1, <1>3
    <3>2. rf.steps = 1 /\ rf.tot \in Nat
      BY <3>1 DEF BaseInv, StepInv, TypeInv, Locals
    <3>3. ASSUME ~ exited, ~ in_wfi PROVE m.at = q + 1
      <4>1. ~ rf.stalled
        BY <3>3 DEF PlaceInv
      <4>2. rf.tot > 0
        BY <1>1, <3>2, <3>3, <4>1 DEF MoreToRun, target_running
      <4> QED BY <2>1, <3>1, <4>2 DEF Replaying
    <3> QED BY <3>1, <3>3
  <2>5. phase' \in {"look", "submit"}
    BY <1>1, <1>3
  <2>6. Replaying(q)'
    BY <1>1, <2>2, <2>3, <2>4, <2>5 DEF Replaying, Acc
  <2> QED BY <1>1, <2>5, <2>6 DEF AccInv
<1> QED BY <1>1, <1>2, <1>3

(* and the checkpoint: what was accounted for is what comes before it,     *)
LEMMA AccTakeCheckpoint ==
  ASSUME BaseInv, PlaceInv, AccInv, ~ timed, ~ popped_empty, TakeCheckpoint
  PROVE  AccInv'
<1>1. /\ phase = "head" /\ ~ exited /\ phase' = "run" /\ protobuf' = m /\ trace' = <<>>
      /\ UNCHANGED <<code, m, in_wfi, view, packets, marks, popped_empty>>
  BY DEF TakeCheckpoint, target_running, profVars
<1>2. Acc(m.at - 1) \/ (in_wfi /\ \E n \in Nat : Acc(n))
  BY <1>1 DEF AccInv
<1>3. Acc(protobuf.at - 1)' \/ (in_wfi' /\ trace' = <<>> /\ \E n \in Nat : Acc(n)')
  BY <1>1, <1>2 DEF Acc
<1> QED BY <1>1, <1>3 DEF AccInv

(* With no timer interrupt taken, what the scan finds.                     *)
LEMMA ScanFinds ==
  ASSUME BaseInv, PathInv, ~ m.taken, phase = "scan", NEW b \in Nat, IsBreak(code, trace, b)
  PROVE  /\ Starts = {} <=> b = Len(trace) + 1
         /\ Break = b /\ Cardinality(ExitsBefore(Break)) = ExitsIn(code, trace, b)
<1>1. /\ TypeInv /\ log \in Seq(Entries(code)) /\ trace \in Seq(Entries(code))
      /\ Len(log) \in Nat /\ Len(trace) \in Nat
  BY LenProperties DEF BaseInv, TypeInv
<1>2. \A i \in 1 .. Len(trace) : trace[i][2] = 0
  <2> SUFFICES ASSUME NEW i \in 1 .. Len(trace) PROVE trace[i][2] = 0
    OBVIOUS
  <2>1. NoIsr(log \o trace)
    BY DEF PathInv, Past
  <2>2. Len(log \o trace) = Len(log) + Len(trace) /\ (log \o trace)[Len(log) + i] = trace[i]
    BY <1>1, ConcatProperties
  <2>3. Len(log) + i \in 1 .. Len(log \o trace)
    BY <1>1, <2>2
  <2> QED BY <2>1, <2>2, <2>3 DEF NoIsr
<1>3. \A i \in 1 .. Len(trace) : InsnOf(trace[i]) = Nth(code, trace[i][1])
  <2> SUFFICES ASSUME NEW i \in 1 .. Len(trace) PROVE InsnOf(trace[i]) = Nth(code, trace[i][1])
    OBVIOUS
  <2>1. trace[i] \in Entries(code)
    BY <1>1, ElementOfSeq
  <2>2. Len(code) \in Nat /\ Len(Isr) \in Nat /\ Padding \in Nat /\ INSN_PER_CKPT \in Nat
    BY <1>1, CodeType, LoopAssumption
  <2>3. trace[i][1] \in Nat \ {0} /\ 0 \in 0 .. Len(Isr)
    BY <2>1, <2>2 DEF Entries
  <2> QED BY <1>1, <1>2, <2>3, InsnAtType DEF InsnOf
<1>4. DOMAIN trace = 1 .. Len(trace) /\ b \in 1 .. Len(trace) + 1
  BY <1>1, LenProperties DEF IsBreak
<1>5. Starts = {i \in 1 .. Len(trace) : IsStart(code, trace[i])}
  BY <1>3, <1>4 DEF Starts, IsStart
<1>6. Starts = {} <=> b = Len(trace) + 1
  <2>1. ASSUME b = Len(trace) + 1 PROVE Starts = {}
    BY <1>1, <1>5, <2>1 DEF IsBreak
  <2>2. ASSUME b # Len(trace) + 1 PROVE b \in Starts
    BY <1>1, <1>4, <1>5, <2>2 DEF IsBreak
  <2> QED BY <2>1, <2>2
<1>7. Break = b
  <2>1. CASE b = Len(trace) + 1
    BY <1>6, <2>1 DEF Break
  <2>2. CASE b # Len(trace) + 1
    <3>1. Break \in 1 .. Len(trace) /\ Break \in Starts /\ \A i \in Starts : Break <= i
      BY <1>1, <1>6, <2>2, BreakType
    <3>2. b \in Starts /\ \A i \in 1 .. b - 1 : i \notin Starts
      BY <1>1, <1>4, <1>5, <2>2 DEF IsBreak
    <3> QED BY <1>1, <3>1, <3>2
  <2> QED BY <2>1, <2>2
<1>8. ExitsBefore(b) = ExitsTo(code, trace, b)
  <2>1. \A i : i \in 1 .. Len(trace) /\ i < b <=> i \in 1 .. b - 1
    BY <1>1, <1>4
  <2> QED BY <1>3, <1>4, <2>1 DEF ExitsBefore, ExitsTo, IsExit
<1> QED BY <1>6, <1>7, <1>8 DEF ExitsIn

(* and the scan: the pops are the exits before the target,                 *)
LEMMA AccScan ==
  ASSUME BaseInv, PathInv, PlaceInv, AccInv, ~ timed, ~ popped_empty, Scan
  PROVE  AccInv'
<1>1. /\ phase = "scan" /\ phase' = "pop"
      /\ rewind' = (Starts # {}) /\ fwd_steps' = (IF Starts # {} THEN Break - 1 ELSE 0)
      /\ popcnt' = Cardinality(ExitsBefore(Break))
      /\ UNCHANGED <<code, m, in_wfi, trace, protobuf, view, packets, log, marks, popped_empty>>
  BY DEF Scan, machineVars, profVars
<1>2. ~ m.taken /\ Scanned(code, protobuf.at, m.at, trace)
  BY <1>1 DEF PlaceInv
<1>3. /\ m.at \in Nat \ {0} /\ protobuf.at \in Nat \ {0} /\ code \in Seq(Insn) /\ Len(trace) \in Nat
      /\ protobuf.at - 1 \in Nat
  BY PlaceFacts
<1>4. \A n : Acc(n)' = Acc(n)
  BY <1>1 DEF Acc
<1>5. CASE Acc(protobuf.at - 1)
  <2> DEFINE p == protobuf.at
  <2>1. PICK b \in Nat, j \in Nat : ScannedTo(code, p, m.at, trace, b, j)
    BY <1>2 DEF Scanned
  <2>2. /\ IsBreak(code, trace, b) /\ j \in p .. m.at /\ NoStarts(code, p, j)
        /\ Off(code, p - 1) + b = Off(code, j - 1) + 1
        /\ Marks(code, p - 1) + ExitsIn(code, trace, b) = Marks(code, j - 1)
        /\ b = Len(trace) + 1 => j = m.at
        /\ b <= Len(trace) => j < m.at /\ Nth(code, j).kind = "start"
    BY <2>1 DEF ScannedTo, Marks
  <2>3. /\ Starts = {} <=> b = Len(trace) + 1
        /\ Break = b /\ popcnt' = ExitsIn(code, trace, b)
    BY <1>1, <1>2, <2>2, ScanFinds
  <2>4. b \in 1 .. Len(trace) + 1
    BY <2>2 DEF IsBreak
  <2>5. Marks(code, p - 1) \in Nat /\ ExitsIn(code, trace, b) \in Nat
    <3>1. trace \in Seq(Entries(code))
      BY DEF BaseInv, TypeInv
    <3> QED BY <1>3, <2>2, <3>1, RegNext, BreakAppend DEF Marks
  <2>6. PopsLeftAre(code, p - 1, j, popcnt')
    BY <2>2, <2>3, <2>5 DEF PopsLeftAre
  <2>7. IF rewind' THEN Target(code, p, j, fwd_steps') ELSE j = m.at
    <3>1. CASE Starts = {}
      BY <1>1, <2>2, <2>3, <3>1
    <3>2. CASE Starts # {}
      <4>5. rewind'
        <5>1. rewind' = (Starts # {})
          BY <1>1
        <5> QED BY <3>2, <5>1, Zenon
      <4>1. b <= Len(trace) /\ fwd_steps' = b - 1 /\ rewind'
        <5>1. b # Len(trace) + 1 /\ fwd_steps' = Break - 1
          BY <1>1, <2>3, <3>2
        <5> QED BY <1>3, <2>3, <2>4, <4>5, <5>1
      <4>2. Off(code, p - 1) \in Nat /\ Off(code, j - 1) \in Nat
        <5>1. j - 1 \in Nat
          BY <1>3, <2>2
        <5> QED BY <1>3, <5>1, OffNext
      <4>3. Off(code, p - 1) + (b - 1) = Off(code, j - 1)
        BY <2>2, <4>2
      <4> QED BY <1>3, <2>2, <4>1, <4>3 DEF Target
    <3> QED BY <3>1, <3>2
  <2>8. p - 1 <= p - 1 /\ p - 1 <= j - 1
    BY <1>3, <2>2
  <2>9. Popping(j, p - 1)'
    BY <1>1, <1>4, <1>5, <2>2, <2>6, <2>7, <2>8 DEF Popping, Acc
  <2> QED BY <1>1, <1>3, <2>9 DEF AccInv
<1>6. CASE in_wfi /\ trace = <<>> /\ \E n \in Nat : Acc(n)
  <2>1. IsBreak(code, trace, 1) /\ Len(trace) = 0 /\ 1 \in Nat
    BY <1>6 DEF IsBreak
  <2>2. Starts = {} /\ popcnt' = ExitsIn(code, trace, 1)
    BY <1>1, <1>2, <2>1, ScanFinds
  <2>3. ExitsIn(code, trace, 1) = 0
    <3>1. ExitsTo(code, trace, 1) = {}
      BY DEF ExitsTo
    <3> QED BY <3>1, FS_EmptySet DEF ExitsIn
  <2>4. PICK n \in Nat : Acc(n)
    BY <1>6
  <2>5. Popping(m.at, n)'
    BY <1>1, <1>4, <1>6, <2>2, <2>3, <2>4 DEF Popping
  <2> QED BY <1>1, <1>3, <2>5 DEF AccInv
<1> QED BY <1>1, <1>5, <1>6 DEF AccInv

(* One pop accounts for the next registered instruction, which is an exit; *)
(* a view that has nothing to pop ends the model's run.                    *)
LEMMA PopAccounts ==
  ASSUME BaseInv, PlaceInv, NEW q \in Nat, NEW n \in Nat, Popping(q, n), popcnt > 0
  PROVE  \E k \in n + 1 .. q - 1 :
           /\ NextOne(code, n, k) /\ Nth(code, k).kind = "exit" /\ k \in 1 .. Len(code)
           /\ StartsUpTo(code, k) = StartsUpTo(code, n)
           /\ PopsLeftAre(code, k, q, popcnt - 1)
<1>1. popcnt \in Nat \ {0} /\ code \in Seq(Insn) /\ protobuf.at \in Nat \ {0}
  BY PlaceFacts DEF BaseInv, TypeInv
<1>2. /\ protobuf.at - 1 <= n /\ n <= q - 1 /\ NoStarts(code, protobuf.at, q)
      /\ PopsLeftAre(code, n, q, popcnt)
  BY <1>1 DEF Popping
<1>3. NoStarts(code, n + 1, q)
  <2>1. \A k \in n + 1 .. q - 1 : k \in protobuf.at .. q - 1
    BY <1>1, <1>2
  <2> QED BY <1>2, <2>1 DEF NoStarts
<1> QED BY <1>1, <1>2, <1>3, PopNext

(* and a pop,                                                              *)
LEMMA AccPopOne ==
  ASSUME BaseInv, PlaceInv, AccInv, ~ timed, ~ popped_empty, PopOne
  PROVE  AccInv'
<1>1. /\ phase = "pop" /\ popcnt > 0 /\ popcnt' = popcnt - 1
      /\ \/ view' = Popped(view) /\ marks' = marks + 1 /\ UNCHANGED popped_empty
         \/ popped_empty' = TRUE
      /\ UNCHANGED <<code, m, in_wfi, phase, protobuf, fwd_steps, rewind, packets>>
  BY DEF PopOne, PopsLeft, machineVars
<1>2. CASE popped_empty' = TRUE
  BY <1>1, <1>2 DEF AccInv
<1>3. CASE view' = Popped(view) /\ marks' = marks + 1 /\ UNCHANGED popped_empty
  <2>1. PICK q \in Nat, n \in Nat : Popping(q, n)
    BY <1>1 DEF AccInv
  <2>2. popcnt \in Nat /\ protobuf.at \in Nat \ {0} /\ code \in Seq(Insn)
    BY PlaceFacts DEF BaseInv, TypeInv
  <2>3. PICK k \in n + 1 .. q - 1 :
           /\ NextOne(code, n, k) /\ Nth(code, k).kind = "exit" /\ k \in 1 .. Len(code)
           /\ StartsUpTo(code, k) = StartsUpTo(code, n)
           /\ PopsLeftAre(code, k, q, popcnt - 1)
    BY <1>1, <2>1, PopAccounts
  <2>4. /\ protobuf.at - 1 <= n /\ n <= q - 1 /\ NoStarts(code, protobuf.at, q)
        /\ IF rewind THEN Target(code, protobuf.at, q, fwd_steps) ELSE q = m.at
        /\ Acc(n)
    BY <1>1, <2>1, <2>2 DEF Popping
  <2>5. k \in Nat /\ protobuf.at - 1 <= k /\ k <= q - 1
    BY <2>2, <2>4
  <2>6. ViewAt(Fresh, code, k) = Popped(ViewAt(Fresh, code, n)) /\ Marks(code, k) = Marks(code, n) + 1
    BY <2>3 DEF NextOne, Intercepted
  <2>7. Accounted(code, k, marks + 1, Popped(view), packets)
    BY <2>3, <2>4, <2>6 DEF Acc, Accounted
  <2>8. Acc(k)'
    BY <1>1, <1>3, <2>7 DEF Acc
  <2>9. Popping(q, k)'
    BY <1>1, <2>3, <2>4, <2>5, <2>8 DEF Popping
  <2> QED BY <1>1, <2>5, <2>9 DEF AccInv
<1> QED BY <1>1, <1>2, <1>3

(* When the pops are done, what comes before the q-th is accounted for.    *)
LEMMA PopsAccounted ==
  ASSUME BaseInv, PlaceInv, NEW q \in Nat, NEW n \in Nat, Popping(q, n), popcnt = 0
  PROVE  Acc(q - 1) \/ (in_wfi /\ ~ rewind)
<1>1. code \in Seq(Insn) /\ protobuf.at \in Nat \ {0}
  BY PlaceFacts
<1>2. CASE in_wfi /\ ~ rewind
  BY <1>2
<1>3. CASE ~ (in_wfi /\ ~ rewind)
  <2>1. /\ protobuf.at - 1 <= n /\ n <= q - 1 /\ NoStarts(code, protobuf.at, q)
        /\ PopsLeftAre(code, n, q, 0) /\ Acc(n)
    BY <1>3 DEF Popping
  <2>2. NoStarts(code, n + 1, q)
    <3>1. \A k \in n + 1 .. q - 1 : k \in protobuf.at .. q - 1
      BY <1>1, <2>1
    <3> QED BY <2>1, <3>1 DEF NoStarts
  <2>3. Accounted(code, n, marks, view, packets)
    BY <2>1 DEF Acc
  <2>4. Accounted(code, q - 1, marks, view, packets)
    BY <1>1, <2>1, <2>2, <2>3, PopsDone
  <2> QED BY <2>4 DEF Acc
<1> QED BY <1>2, <1>3

(* and the restored checkpoint,                                            *)
LEMMA AccRewind ==
  ASSUME BaseInv, PlaceInv, AccInv, ~ timed, ~ popped_empty, Rewind
  PROVE  AccInv'
<1>1. /\ phase = "pop" /\ popcnt = 0 /\ rewind /\ phase' = "ffwd"
      /\ UNCHANGED <<code, protobuf, fwd_steps, found_function, view, packets, marks, popped_empty>>
  BY DEF Rewind, PopsLeft, scanVars, profVars, BaseInv, TypeInv
<1>2. ~ found_function
  BY <1>1 DEF BaseInv, RunInv
<1>3. PICK q \in Nat, n \in Nat : Popping(q, n)
  BY <1>1 DEF AccInv
<1>4. Acc(q - 1) /\ Target(code, protobuf.at, q, fwd_steps)
  BY <1>1, <1>3, PopsAccounted DEF Popping
<1>5. Replaying(q)'
  BY <1>1, <1>2, <1>4 DEF Replaying, Acc
<1> QED BY <1>1, <1>5 DEF AccInv

(* The first start the single steps come to is the target.                 *)
LEMMA LookFinds ==
  ASSUME BaseInv, PlaceInv, phase = "look", NEW q \in Nat, Replaying(q)
  PROVE  (Now.kind = "start" <=> m.at = q) /\ m.at <= q /\ m.at \in Nat /\ Acc(q - 1)
<1>1. /\ m.at \in Nat \ {0} /\ protobuf.at \in Nat \ {0} /\ protobuf.at <= m.at /\ Now = Nth(code, m.at)
  BY PlaceFacts
<1>2. ~ found_function
  BY DEF BaseInv, RunInv
<1>3. /\ Nth(code, q).kind = "start" /\ NoStarts(code, protobuf.at, q) /\ m.at <= q /\ Acc(q - 1)
  BY <1>2 DEF Replaying, Target
<1>4. ASSUME m.at # q PROVE Now.kind # "start"
  <2>1. m.at \in protobuf.at .. q - 1
    BY <1>1, <1>3, <1>4
  <2> QED BY <1>1, <1>3, <2>1 DEF NoStarts
<1> QED BY <1>1, <1>3, <1>4

(* Its hook accounts for it.                                               *)
LEMMA HookAccounts ==
  ASSUME BaseInv, PlaceInv, phase = "look", NEW q \in Nat, Replaying(q), Now.kind = "start"
  PROVE  /\ NextOne(code, q - 1, q) /\ q \in 1 .. Len(code) /\ Acc(q - 1)
         /\ Accounted(code, q, marks + 1, Hooked(view, Now),
                      Append(packets, [stamp |-> timestamp_, truly |-> Len(log) + Len(trace)]))
<1>1. m.at = q /\ Acc(q - 1)
  BY LookFinds
<1>2. /\ q \in Nat \ {0} /\ q - 1 \in Nat /\ code \in Seq(Insn) /\ Now = Nth(code, q)
      /\ Len(log) \in Nat /\ Len(trace) \in Nat /\ Len(log) + Len(trace) = Off(code, q - 1)
  BY <1>1, PlaceFacts
<1> DEFINE e == [stamp |-> timestamp_, truly |-> Len(log) + Len(trace)]
           n == q - 1
<1>3. timestamp_ \in Nat /\ packets \in Seq(Packets)
  BY DEF BaseInv, TypeInv
<1>4. e \in Packets /\ e.truly = Off(code, n)
  BY <1>2, <1>3 DEF Packets
<1>5. n \in Nat /\ n + 1 = q /\ Nth(code, n + 1).kind = "start"
  BY <1>2
<1>6. Accounted(code, n, marks, view, packets)
  BY <1>1 DEF Acc
<1> HIDE DEF e, n
<1>7. /\ Accounted(code, n + 1, marks + 1, Hooked(view, Nth(code, n + 1)), Append(packets, e))
      /\ NextOne(code, n, n + 1) /\ n + 1 \in 1 .. Len(code)
  BY <1>2, <1>3, <1>4, <1>5, <1>6, HookNext
<1> QED BY <1>1, <1>2, <1>5, <1>7 DEF e, n

(* and the hook with its single step,                                      *)
LEMMA AccLookAndStep ==
  ASSUME BaseInv, PlaceInv, AccInv, ~ timed, ~ popped_empty, LookAndStep
  PROVE  AccInv'
<1>1. /\ phase = "look" /\ phase' = "step" /\ rf'.left = 0 /\ rf'.tot = 0
      /\ UNCHANGED <<code, m, protobuf, fwd_steps, popped_empty>>
      /\ \/ /\ Now.kind = "start" /\ view' = Hooked(view, Now) /\ marks' = marks + 1
            /\ found_function' = TRUE
            /\ packets' = Append(packets, [stamp |-> timestamp_, truly |-> Len(log) + Len(trace)])
         \/ Now.kind # "start" /\ UNCHANGED <<view, packets, marks, found_function>>
  BY DEF LookAndStep, RunFor, Now
<1>2. PICK q \in Nat : Replaying(q)
  BY <1>1 DEF AccInv
<1>3. Target(code, protobuf.at, q, fwd_steps) /\ ~ found_function
  BY <1>1, <1>2 DEF Replaying, BaseInv, RunInv
<1>4. (Now.kind = "start" <=> m.at = q) /\ m.at <= q /\ m.at \in Nat /\ Acc(q - 1)
  BY <1>1, <1>2, LookFinds
<1>5. CASE Now.kind = "start"
  <2>1. Acc(q)'
    BY <1>1, <1>2, <1>5, HookAccounts DEF Acc
  <2>2. Replaying(q)'
    BY <1>1, <1>3, <1>4, <1>5, <2>1 DEF Replaying
  <2> QED BY <1>1, <2>2 DEF AccInv
<1>6. CASE Now.kind # "start"
  <2>1. Acc(q - 1)' /\ m'.at < q
    BY <1>1, <1>4, <1>6 DEF Acc
  <2>2. Replaying(q)'
    BY <1>1, <1>3, <1>6, <2>1 DEF Replaying
  <2> QED BY <1>1, <2>2 DEF AccInv
<1> QED BY <1>5, <1>6

(* and the submission,                                                     *)
LEMMA AccSubmit ==
  ASSUME BaseInv, PlaceInv, AccInv, ~ timed, ~ popped_empty, Submit
  PROVE  AccInv'
<1>1. /\ phase = "submit" \/ (phase = "pop" /\ popcnt = 0 /\ ~ rewind)
      /\ phase' = "head"
      /\ UNCHANGED <<code, m, exited, in_wfi, rewind, view, packets, marks, popped_empty>>
  BY DEF Submit, PopsLeft, machineVars, scanVars, BaseInv, TypeInv
<1>2. m.at \in Nat \ {0}
  BY PlaceFacts
<1>3. Acc(m.at - 1) \/ ((in_wfi \/ (exited /\ rewind)) /\ \E n \in Nat : Acc(n))
  <2>1. CASE phase = "submit"
    <3>1. PICK q \in Nat : Replaying(q)
      BY <2>1 DEF AccInv
    <3>2. found_function /\ (m.at = q + 1 \/ in_wfi \/ exited) /\ Acc(q) /\ rewind
      BY <2>1, <3>1 DEF Replaying, BaseInv, RunInv
    <3>3. (q + 1) - 1 = q
      OBVIOUS
    <3> QED BY <3>2, <3>3
  <2>2. CASE phase = "pop" /\ popcnt = 0 /\ ~ rewind
    <3>1. PICK q \in Nat, n \in Nat : Popping(q, n)
      BY <2>2 DEF AccInv
    <3>2. Acc(q - 1) \/ in_wfi
      BY <2>2, <3>1, PopsAccounted
    <3>3. q = m.at /\ Acc(n)
      BY <2>2, <3>1 DEF Popping
    <3> QED BY <3>2, <3>3
  <2> QED BY <1>1, <2>1, <2>2
<1>4. Acc(m.at - 1)' \/ ((in_wfi' \/ (exited' /\ rewind')) /\ \E n \in Nat : Acc(n)')
  BY <1>1, <1>3 DEF Acc
<1> QED BY <1>1, <1>4 DEF AccInv

(* and the end of the loop or no step at all.                              *)
LEMMA AccIdle ==
  ASSUME BaseInv, AccInv, Finish \/ UNCHANGED vars
  PROVE  AccInv'
<1>1. /\ UNCHANGED <<code, m, exited, in_wfi, rf, trace, protobuf, popcnt, fwd_steps, rewind,
                     found_function, view, packets, marks, popped_empty>>
      /\ phase' = phase \/ (phase = "head" /\ phase' = "done")
  BY DEF Finish, vars, machineVars, scanVars, profVars
<1>2. /\ \A n : Acc(n)' = Acc(n)
      /\ Acc(m.at - 1)' = Acc(m.at - 1) /\ Acc(protobuf.at - 1)' = Acc(protobuf.at - 1)
      /\ \A q, n : Popping(q, n)' = Popping(q, n)
  BY <1>1 DEF Acc, Popping
<1>3. phase' = phase => \A q : Replaying(q)' = Replaying(q)
  BY <1>1, <1>2 DEF Replaying, Acc
<1>4. CASE phase' = phase
  BY <1>1, <1>2, <1>3, <1>4 DEF AccInv
<1>5. CASE phase = "head" /\ phase' = "done"
  BY <1>1, <1>2, <1>5 DEF AccInv
<1> QED BY <1>1, <1>4, <1>5

(* Each step keeps it.                                                     *)
LEMMA UntimedStep == Inv /\ [Next]_vars => UntimedInv'
<1> SUFFICES ASSUME Inv, [Next]_vars PROVE UntimedInv'
  OBVIOUS
<1>1. UNCHANGED timed
  BY DEF Next, RunForStep, HandleTohost, StepTarget, Execute, Return, TakeCheckpoint, Scan, PopOne,
         Rewind, LookAndStep, Submit, Finish, vars, machineVars
<1>2. CASE timed
  BY <1>1, <1>2 DEF UntimedInv
<1>3. CASE ~ timed
  <2>1. BaseInv /\ PathInv /\ PlaceInv /\ AccInv
    BY <1>3 DEF Inv, UntimedInv
  <2>2. PlaceInv'
    BY <1>3, <2>1, PlaceStep
  <2>3. AccInv'
    <3>1. CASE Finish \/ UNCHANGED vars
      BY <2>1, <3>1, AccIdle
    <3>2. CASE Next
      <4>1. ~ popped_empty
        BY <3>2 DEF Next
      <4> QED BY <1>3, <2>1, <3>1, <3>2, <4>1, AccHandleTohost, AccStepTarget, AccExecute, AccReturn,
                 AccTakeCheckpoint, AccScan, AccPopOne, AccRewind, AccLookAndStep, AccSubmit
              DEF Next, RunForStep
    <3> QED BY <3>1, <3>2
  <2> QED BY <2>2, <2>3 DEF UntimedInv
<1> QED BY <1>2, <1>3

(* The inductive invariant holds.                                          *)
LEMMA Always == Spec => []Inv
<1>1. Init => Inv
  BY BaseInit, PathInit, PlaceInit, AccInit DEF Inv, UntimedInv
<1>2. Inv /\ [Next]_vars => Inv'
  <2>1. Inv => BaseInv /\ PathInv
    BY DEF Inv
  <2> QED BY <2>1, BaseStep, PathStep, UntimedStep DEF Inv
<1> QED BY <1>1, <1>2, PTL DEF Spec

(* What is accounted for bounds how far the replay has gone.               *)
LEMMA StopsShort == Inv => FastFwdStopsShort
<1> SUFFICES ASSUME Inv PROVE FastFwdStopsShort
  OBVIOUS
<1>1. phase = "ffwd" => Len(trace) <= fwd_steps
  BY ForwardBound DEF Inv
<1>2. ASSUME phase = "look", ~ timed PROVE Len(trace) <= fwd_steps
  <2>1. BaseInv /\ PlaceInv /\ AccInv
    BY <1>2 DEF Inv, UntimedInv
  <2>2. PICK q \in Nat : Replaying(q)
    BY <1>2, <2>1 DEF AccInv
  <2>3. m.at <= q /\ Target(code, protobuf.at, q, fwd_steps)
    BY <1>2, <2>1, <2>2, LookFinds DEF Replaying
  <2>4. /\ m.at \in Nat \ {0} /\ m.at - 1 \in Nat /\ code \in Seq(Insn) /\ Len(log) \in Nat
        /\ Len(trace) \in Nat /\ Len(log) = Off(code, protobuf.at - 1)
        /\ Len(log) + Len(trace) = Off(code, m.at - 1) /\ fwd_steps \in Nat
    BY <1>2, <2>1, PlaceFacts DEF BaseInv, TypeInv
  <2>5. q - 1 \in Nat /\ m.at - 1 <= q - 1
    BY <2>3, <2>4
  <2>6. Off(code, m.at - 1) <= Off(code, q - 1)
    BY <2>4, <2>5, OffOrder
  <2> QED BY <2>3, <2>4, <2>6 DEF Target
<1> QED BY <1>1, <1>2 DEF FastFwdStopsShort

(* The fast forward never runs past the place of the start in the batch,   *)
(* and with no timer nor do the single steps until it is found.            *)
THEOREM FastForwardStopsShort == Spec => []FastFwdStopsShort
BY StopsShort, Always, PTL

-----------------------------------------------------------------------------
\* Each registered instruction is accounted for once.

\* A step that accounts for the next registered instruction, or none.
AccountsNext ==
  /\ marks < Len(Registered(code))
  /\ view' = Intercepted(view, Registered(code)[marks + 1]) /\ marks' = marks + 1
  /\ UNCHANGED <<code, timed>>
AccountsNone == UNCHANGED <<code, timed>> /\ (timed \/ UNCHANGED <<marks, view>>)

(* Every step accounts for the next registered instruction, or for none.   *)
LEMMA Accounts == Inv /\ [Next]_vars => AccountsNext \/ AccountsNone
<1> SUFFICES ASSUME Inv, [Next]_vars PROVE AccountsNext \/ AccountsNone
  OBVIOUS
<1>1. UNCHANGED <<code, timed>>
  BY DEF Next, RunForStep, HandleTohost, StepTarget, Execute, Return, TakeCheckpoint, Scan, PopOne,
         Rewind, LookAndStep, Submit, Finish, vars, machineVars
<1>2. CASE timed
  BY <1>1, <1>2 DEF AccountsNone
<1>3. CASE ~ timed /\ ~ popped_empty
  <2>1. BaseInv /\ PlaceInv /\ AccInv
    BY <1>3 DEF Inv, UntimedInv
  <2>2. CASE PopOne
    <3>1. phase = "pop" /\ popcnt > 0
      BY <2>2 DEF PopOne, PopsLeft
    <3>2. PICK q \in Nat, n \in Nat : Popping(q, n)
      BY <1>3, <2>1, <3>1 DEF AccInv
    <3>3. PICK k \in n + 1 .. q - 1 : NextOne(code, n, k) /\ Nth(code, k).kind = "exit"
      BY <2>1, <3>1, <3>2, PopAccounts
    <3>4. marks = Marks(code, n)
      BY <3>2 DEF Popping, Acc, Accounted
    <3>5. \/ view' = Popped(view) /\ marks' = marks + 1
          \/ UNCHANGED <<view, marks>>
      BY <2>2 DEF PopOne
    <3> QED BY <1>1, <3>3, <3>4, <3>5 DEF NextOne, AccountsNext, AccountsNone, Intercepted
  <2>3. CASE LookAndStep
    <3>1. /\ phase = "look"
          /\ \/ Now.kind = "start" /\ view' = Hooked(view, Now) /\ marks' = marks + 1
             \/ UNCHANGED <<view, marks>>
      BY <2>3 DEF LookAndStep, Now
    <3>2. PICK q \in Nat : Replaying(q)
      BY <1>3, <2>1, <3>1 DEF AccInv
    <3>3. CASE Now.kind = "start" /\ view' = Hooked(view, Now) /\ marks' = marks + 1
      <4>1. NextOne(code, q - 1, q) /\ Acc(q - 1) /\ m.at = q
        BY <2>1, <3>1, <3>2, <3>3, HookAccounts, LookFinds
      <4>2. Now = Nth(code, q) /\ marks = Marks(code, q - 1)
        BY <2>1, <4>1, PlaceFacts DEF Acc, Accounted
      <4> QED BY <1>1, <3>3, <4>1, <4>2 DEF NextOne, AccountsNext, Intercepted
    <3>4. CASE UNCHANGED <<view, marks>>
      BY <1>1, <3>4 DEF AccountsNone
    <3> QED BY <3>1, <3>3, <3>4
  <2>4. CASE HandleTohost \/ StepTarget \/ Execute \/ Return \/ TakeCheckpoint \/ Scan \/ Rewind
             \/ Submit \/ Finish \/ UNCHANGED vars
    <3>1. UNCHANGED <<marks, view>>
      BY <2>4 DEF HandleTohost, StepTarget, Execute, Return, TakeCheckpoint, Scan, Rewind, Submit,
                  Finish, vars, profVars
    <3> QED BY <1>1, <3>1 DEF AccountsNone
  <2> QED BY <2>2, <2>3, <2>4 DEF Next, RunForStep
<1>4. CASE popped_empty
  <2>1. UNCHANGED <<marks, view>>
    BY <1>4 DEF Next, vars, profVars
  <2> QED BY <1>1, <2>1 DEF AccountsNone
<1> QED BY <1>2, <1>3, <1>4

(* The loop implements Interception: with no timer, every execution of a   *)
(* registered pc changes the view once and in program order, though the    *)
(* batch runs it a first time and the replay a second.                     *)
THEOREM ImplementsInterception == Spec => AccountedOnce
<1>1. /\ \A c : Abstract!Registered(c) = Registered(c)
      /\ \A v, i : Abstract!Intercepted(v, i) = Intercepted(v, i)
      /\ Abstract!EmptyView(FirstPid) = EmptyView(FirstPid)
  BY DEF Abstract!Registered, Registered, Abstract!Intercepted, Intercepted, Abstract!Hooked, Hooked,
         Abstract!Popped, Popped, Abstract!EmptyView, EmptyView
<1>2. Init => Abstract!Init
  <2> SUFFICES ASSUME Init PROVE Abstract!Init
    OBVIOUS
  <2>1. code \in Programs \union TimedPrograms /\ marks = 0 /\ view = EmptyView(FirstPid)
    BY DEF Init
  <2> QED BY <1>1, <2>1 DEF Abstract!Init
<1>3. Inv /\ [Next]_vars => [Abstract!Account]_(Abstract!vars)
  <2> SUFFICES ASSUME Inv, [Next]_vars PROVE Abstract!Account \/ UNCHANGED Abstract!vars
    OBVIOUS
  <2>1. CASE AccountsNext /\ ~ timed
    <3>1. Abstract!Account
      BY <1>1, <2>1 DEF AccountsNext, Abstract!Account
    <3> QED BY <3>1
  <2>2. CASE AccountsNone \/ (AccountsNext /\ timed)
    BY <2>2 DEF AccountsNone, AccountsNext, Abstract!vars
  <2> QED BY <2>1, <2>2, Accounts
<1> QED BY <1>2, <1>3, Always, PTL DEF Spec, AccountedOnce, Abstract!Spec

-----------------------------------------------------------------------------
\* The timestamps.

\* A batch and the instructions its last step may add.
Batch == INSN_PER_CKPT + INTERLEAVE
Near(packet) == packet.stamp <= packet.truly /\ (timed \/ packet.truly < packet.stamp + Batch)
StampInv ==
  /\ timestamp_ = Len(log)
  /\ \A i \in 1 .. Len(packets) : Near(packets[i])

(* Only the hook stamps a packet, and only the submission moves the clock. *)
LEMMA StampStep == Inv /\ StampInv /\ [Next]_vars => StampInv'
<1> SUFFICES ASSUME Inv, StampInv, [Next]_vars PROVE StampInv'
  OBVIOUS
<1> USE DEF Near
<1>1. BaseInv /\ TypeInv
  BY DEF Inv, BaseInv
<1>2. CASE LookAndStep
  <2>1. /\ phase = "look" /\ UNCHANGED <<timed, timestamp_, log, trace>>
        /\ \/ packets' = Append(packets, [stamp |-> timestamp_, truly |-> Len(log) + Len(trace)])
           \/ UNCHANGED packets
    BY <1>2 DEF LookAndStep
  <2>2. Len(log) \in Nat /\ Len(trace) \in Nat /\ packets \in Seq(Packets) /\ fwd_steps \in Nat /\ Batch \in Nat
    BY <1>1, LenProperties, LoopAssumption DEF TypeInv, Batch
  <2>3. timed \/ Len(trace) < Batch
    <3>1. fwd_steps < Batch /\ ~ found_function
      BY <1>1, <2>1 DEF BaseInv, RunInv, Batch
    <3>2. timed \/ Len(trace) <= fwd_steps
      BY <2>1, <3>1, StopsShort DEF FastFwdStopsShort
    <3> QED BY <2>2, <3>1, <3>2
  <2> DEFINE e == [stamp |-> timestamp_, truly |-> Len(log) + Len(trace)]
  <2>4. e.stamp = Len(log) /\ e.truly = Len(log) + Len(trace)
    BY DEF StampInv
  <2> HIDE DEF e
  <2>5. Near(e)
    BY <2>2, <2>3, <2>4
  <2>6. ASSUME packets' = Append(packets, e), NEW i \in 1 .. Len(packets') PROVE Near(packets'[i])
    <3>1. /\ Len(packets) \in Nat /\ Len(packets') = Len(packets) + 1 /\ packets'[Len(packets) + 1] = e
          /\ \A k \in 1 .. Len(packets) : packets'[k] = packets[k]
      BY <2>2, <2>6, AppendFacts
    <3>2. i = Len(packets) + 1 \/ i \in 1 .. Len(packets)
      BY <3>1
    <3>3. i \in 1 .. Len(packets) => Near(packets'[i])
      BY <3>1 DEF StampInv
    <3> QED BY <2>5, <3>1, <3>2, <3>3
  <2>7. \A i \in 1 .. Len(packets') : Near(packets'[i])
    BY <2>1, <2>6 DEF StampInv, e
  <2> QED BY <2>1, <2>7 DEF StampInv
<1>3. CASE Submit
  <2>1. /\ timestamp_' = timestamp_ + Len(trace) /\ log' = log \o trace /\ UNCHANGED <<timed, packets>>
    BY <1>3 DEF Submit, Advanced, machineVars
  <2>2. Len(log \o trace) = Len(log) + Len(trace)
    BY <1>1, ConcatProperties DEF TypeInv
  <2> QED BY <2>1, <2>2 DEF StampInv
<1>4. CASE HandleTohost \/ StepTarget \/ Execute \/ Return \/ TakeCheckpoint \/ Scan \/ PopOne \/ Rewind
           \/ Finish \/ UNCHANGED vars
  <2>1. UNCHANGED <<timed, timestamp_, log, packets>>
    BY <1>4 DEF HandleTohost, StepTarget, Execute, Return, TakeCheckpoint, Scan, PopOne, Rewind,
                Finish, vars, machineVars, profVars
  <2> QED BY <2>1 DEF StampInv
<1> QED BY <1>2, <1>3, <1>4 DEF Next, RunForStep

(* A packet is never stamped later than its event and, with no timer, less *)
(* than a batch and its last step early.                                   *)
THEOREM StampsBounded == Spec => []StampBound
<1>1. Init => StampInv
  BY DEF Init, StampInv
<1>2. Inv /\ StampInv => StampBound
  <2> SUFFICES ASSUME Inv, StampInv, NEW i \in DOMAIN packets
               PROVE  /\ packets[i].stamp <= packets[i].truly
                      /\ timed \/ packets[i].truly < packets[i].stamp + INSN_PER_CKPT + INTERLEAVE
    BY DEF StampBound
  <2>1. packets \in Seq(Packets)
    BY DEF Inv, BaseInv, TypeInv
  <2>2. i \in 1 .. Len(packets) /\ packets[i] \in Packets
    BY <2>1, LenProperties, ElementOfSeq
  <2>3. packets[i].stamp \in Nat /\ INSN_PER_CKPT \in Nat /\ INTERLEAVE \in Nat
    BY <2>2, LoopAssumption DEF Packets
  <2>4. packets[i].stamp + Batch = packets[i].stamp + INSN_PER_CKPT + INTERLEAVE
    BY <2>3 DEF Batch
  <2> QED BY <2>2, <2>4 DEF StampInv, Near
<1> QED BY <1>1, <1>2, Always, StampStep, PTL DEF Spec

-----------------------------------------------------------------------------
\* Between two batches, what is accounted for is what was submitted.

CalmInv == timed \/
  /\ ~ in_wfi
  /\ exited => \/ phase \in {"run", "scan"} /\ NoStarts(code, protobuf.at, m.at)
               \/ phase \in {"pop", "head", "done"} /\ ~ rewind

(* A batch in which the target exits has no start.                         *)
LEMMA ExitQuiet ==
  ASSUME LongPadding, BaseInv, PlaceInv, phase = "run", HandleTohost
  PROVE  NoStarts(code, protobuf.at, m.at)
<1>1. /\ m.at \in Nat \ {0} /\ protobuf.at \in Nat \ {0} /\ code \in Seq(Insn)
      /\ m.at - 1 \in Nat /\ protobuf.at - 1 \in Nat
      /\ Len(log) \in Nat /\ Len(trace) \in Nat /\ protobuf.at <= m.at
      /\ Len(log) = Off(code, protobuf.at - 1) /\ Len(log) + Len(trace) = Off(code, m.at - 1)
  BY PlaceFacts
<1>2. Len(code) \in Nat /\ Padding \in Nat /\ INSN_PER_CKPT \in Nat
  BY CodeType, LoopAssumption DEF BaseInv
<1>3. Len(trace) < INSN_PER_CKPT /\ m.at > Len(code) + Padding
  BY DEF HandleTohost, MoreToRun, tohost, BaseInv, StepInv
<1>4. m.at - protobuf.at <= Len(trace)
  <2> DEFINE d == m.at - protobuf.at
             n == protobuf.at - 1
  <2>1. d \in Nat /\ n \in Nat /\ n + d = m.at - 1
    BY <1>1
  <2> HIDE DEF d
  <2>2. Off(code, n) + d <= Off(code, n + d)
    BY <1>1, <2>1, OffGrows
  <2>3. Len(log) + d <= Len(log) + Len(trace)
    BY <1>1, <2>1, <2>2
  <2>4. d <= Len(trace)
    BY <1>1, <2>1, <2>3
  <2> QED BY <2>4 DEF d
<1>5. ASSUME NEW k \in protobuf.at .. m.at - 1, Nth(code, k).kind = "start" PROVE FALSE
  <2>1. k \in 1 .. Len(code)
    BY <1>1, <1>5, NthType
  <2>2. k \in Nat /\ protobuf.at <= k
    BY <1>1
  <2> QED BY <1>1, <1>2, <1>3, <1>4, <2>1, <2>2 DEF LongPadding
<1> QED BY <1>5 DEF NoStarts

(* Every step keeps it: the target does not exit while it is replayed,     *)
LEMMA CalmStep ==
  ASSUME NoWfi, LongPadding, Inv, CalmInv, [Next]_vars
  PROVE  CalmInv'
<1>1. UNCHANGED <<code, timed>>
  BY DEF Next, RunForStep, HandleTohost, StepTarget, Execute, Return, TakeCheckpoint, Scan, PopOne,
         Rewind, LookAndStep, Submit, Finish, vars, machineVars
<1>2. CASE timed
  BY <1>1, <1>2 DEF CalmInv
<1>3. CASE ~ timed
  <2>1. BaseInv /\ PathInv /\ PlaceInv /\ AccInv
    BY <1>3 DEF Inv, UntimedInv
  <2>2. /\ ~ in_wfi
        /\ exited => \/ phase \in {"run", "scan"} /\ NoStarts(code, protobuf.at, m.at)
                     \/ phase \in {"pop", "head", "done"} /\ ~ rewind
    BY <1>3 DEF CalmInv
  <2>3. CASE HandleTohost /\ ~ popped_empty
    <3>1. InRunFor /\ UNCHANGED <<code, m, in_wfi, phase, protobuf, rewind>>
      BY <2>3 DEF HandleTohost, scanVars
    <3>2. CASE phase = "run"
      BY <2>1, <2>2, <2>3, <3>1, <3>2, ExitQuiet DEF CalmInv
    <3>3. CASE phase \in {"ffwd", "step"}
      <4>1. PICK q \in Nat : Replaying(q)
        BY <2>1, <2>3, <3>3 DEF AccInv
      <4>2. Target(code, protobuf.at, q, fwd_steps)
        BY <4>1 DEF Replaying
      <4>3. code \in Seq(Insn) /\ Len(code) \in Nat /\ Padding \in Nat /\ m.at \in Nat
        BY <2>1, PlaceFacts, LoopAssumption, LenProperties
      <4>4. q \in 1 .. Len(code)
        BY <4>2, <4>3, NthType DEF Target
      <4>5. m.at <= q
        <5>1. CASE phase = "ffwd"
          BY <2>1, <4>2, <5>1, ForwardStops
        <5>2. CASE phase = "step"
          <6>1. rf.steps = 1 /\ rf.tot < rf.steps /\ rf.tot \in Nat
            BY <2>1, <2>3, <5>2 DEF HandleTohost, MoreToRun, BaseInv, StepInv, TypeInv, Locals
          <6>2. rf.tot = 0
            BY <6>1
          <6>3. IF found_function THEN m.at = q ELSE m.at < q
            BY <4>1, <5>2, <6>2 DEF Replaying
          <6> QED BY <4>3, <6>3
        <5> QED BY <3>3, <5>1, <5>2
      <4>6. m.at > Len(code) + Padding
        BY <2>3 DEF HandleTohost, tohost
      <4> QED BY <4>3, <4>4, <4>5, <4>6
    <3> QED BY <3>1, <3>2, <3>3 DEF InRunFor
  <2>4. CASE StepTarget
    <3>1. ~ exited /\ UNCHANGED exited
      BY <2>4 DEF StepTarget, MoreToRun, target_running
    <3>2. UNCHANGED in_wfi
      BY <1>3, <2>1, <2>4, StepTargetFacts
    <3> QED BY <2>2, <3>1, <3>2 DEF CalmInv
  <2>5. CASE Execute
    <3>1. ~ exited /\ UNCHANGED exited /\ in_wfi' = (Now.ends = "wfi")
      BY <2>1, <2>5 DEF Execute, BaseInv, StepInv, Now
    <3>2. Now.ends # "wfi"
      <4>1. Now = Nth(code, m.at) /\ code \in Programs
        BY <1>3, <2>1, PlaceFacts DEF BaseInv, TypeInv
      <4>2. Nth(code, m.at).ends # "wfi"
        BY <4>1 DEF NoWfi, Nth, Plain
      <4> QED BY <4>1, <4>2
    <3>3. ~ in_wfi'
      BY <3>1, <3>2, Zenon
    <3> QED BY <3>1, <3>3 DEF CalmInv
  <2>6. CASE Scan /\ ~ popped_empty
    <3>1. /\ phase = "scan" /\ phase' = "pop" /\ rewind' = (Starts # {})
          /\ UNCHANGED <<exited, in_wfi>>
      BY <2>6 DEF Scan, machineVars
    <3>2. ASSUME exited PROVE ~ rewind'
      <4>1. NoStarts(code, protobuf.at, m.at)
        BY <2>2, <3>1, <3>2
      <4>2. PICK b \in Nat, j \in Nat : ScannedTo(code, protobuf.at, m.at, trace, b, j)
        BY <2>1, <3>1 DEF PlaceInv, Scanned
      <4>3. Len(trace) \in Nat /\ protobuf.at \in Nat /\ m.at \in Nat
        BY <2>1, PlaceFacts
      <4>4. /\ IsBreak(code, trace, b) /\ b \in 1 .. Len(trace) + 1 /\ j \in protobuf.at .. m.at
            /\ b <= Len(trace) => j < m.at /\ Nth(code, j).kind = "start"
        BY <4>2 DEF ScannedTo, IsBreak
      <4>5. ~ (b <= Len(trace))
        <5> SUFFICES ASSUME b <= Len(trace) PROVE FALSE
          OBVIOUS
        <5>1. j \in protobuf.at .. m.at - 1
          BY <4>3, <4>4
        <5> QED BY <4>1, <4>4, <5>1 DEF NoStarts
      <4>6. b = Len(trace) + 1
        BY <4>3, <4>4, <4>5
      <4>7. Starts = {}
        BY <2>1, <3>1, <4>4, <4>6, ScanFinds DEF PlaceInv
      <4> QED BY <3>1, <4>7, Zenon
    <3> QED BY <2>2, <3>1, <3>2 DEF CalmInv
  <2>7. CASE Return \/ TakeCheckpoint \/ PopOne \/ Rewind \/ LookAndStep \/ Submit
             \/ Finish \/ UNCHANGED vars
    <3>1. UNCHANGED <<exited, in_wfi, rewind>>
      BY <2>7 DEF Return, TakeCheckpoint, PopOne, Rewind, LookAndStep, Submit, Finish, vars,
                  machineVars, scanVars, profVars
    <3>2. ASSUME exited
          PROVE  \/ phase' \in {"run", "scan"} /\ phase \in {"run", "scan"} /\ UNCHANGED <<m, protobuf>>
                 \/ phase' \in {"pop", "head", "done"} /\ phase \in {"pop", "head", "done"} /\ ~ rewind
      BY <2>2, <2>7, <3>2 DEF Return, TakeCheckpoint, PopOne, Rewind, LookAndStep, Submit, Finish, vars,
                  machineVars, scanVars, profVars, target_running, InRunFor
    <3> QED BY <1>1, <2>2, <3>1, <3>2 DEF CalmInv
  <2>8. CASE popped_empty
    BY <2>2, <2>7, <2>8 DEF Next
  <2> QED BY <2>3, <2>4, <2>5, <2>6, <2>7, <2>8 DEF Next, RunForStep
<1> QED BY <1>2, <1>3

(* so it always holds.                                                     *)
LEMMA CalmAlways == ASSUME NoWfi, LongPadding PROVE Spec => []CalmInv
<1>1. Init => CalmInv
  BY DEF Init, CalmInv
<1>2. Inv /\ CalmInv /\ [Next]_vars => CalmInv'
  BY CalmStep
<1> QED BY <1>1, <1>2, Always, PTL DEF Spec

(* With no timer and none of its handler in the traces, what was submitted *)
(* is what the first instructions leave.                                   *)
LEMMA Submitted ==
  ASSUME Inv, CalmInv, ~ timed, phase \in {"head", "done"}
  PROVE  /\ Executed = CountedOf(code, log)
         /\ {i \in DOMAIN log : log[i][3] = 1 /\ InsnOf(log[i]).kind = "start"} = StartPlaces(code, log)
         /\ Content(Fresh, code, log, m.at - 1) /\ Acc(m.at - 1)
<1>1. BaseInv /\ PathInv /\ PlaceInv /\ AccInv /\ TypeInv
  BY DEF Inv, UntimedInv, BaseInv
<1>2. NoIsr(log) /\ Content(Fresh, code, log, m.at - 1)
  BY <1>1 DEF PathInv, PlaceInv, Past
<1>3. log \in Seq(Entries(code)) /\ Len(log) \in Nat /\ DOMAIN log = 1 .. Len(log)
  BY <1>1, LenProperties DEF TypeInv
<1>4. \A i \in DOMAIN log : InsnOf(log[i]) = Nth(code, log[i][1])
  <2> SUFFICES ASSUME NEW i \in 1 .. Len(log) PROVE InsnOf(log[i]) = Nth(code, log[i][1])
    BY <1>3
  <2>1. log[i] \in Entries(code) /\ log[i][2] = 0
    BY <1>2, <1>3, ElementOfSeq DEF NoIsr
  <2>2. Len(code) \in Nat /\ Len(Isr) \in Nat /\ Padding \in Nat /\ INSN_PER_CKPT \in Nat
    BY <1>1, CodeType, LoopAssumption
  <2>3. log[i][1] \in Nat \ {0} /\ 0 \in 0 .. Len(Isr)
    BY <2>1, <2>2 DEF Entries
  <2> QED BY <1>1, <2>1, <2>3, InsnAtType DEF InsnOf
<1>5. Executed = CountedOf(code, log)
  BY <1>4 DEF Executed, CountedOf, Counted
<1>6. {i \in DOMAIN log : log[i][3] = 1 /\ InsnOf(log[i]).kind = "start"} = StartPlaces(code, log)
  BY <1>4 DEF StartPlaces
<1>7. Acc(m.at - 1)
  BY <1>1 DEF AccInv, CalmInv
<1> QED BY <1>2, <1>5, <1>6, <1>7

(* Between two batches, with no timer, the events submitted are the        *)
(* registered starts of the submitted traces, each once and at its place.  *)
THEOREM EventsMatchStarts == ASSUME NoWfi, LongPadding PROVE Spec => []EventsAreTheStarts
<1>1. Inv /\ CalmInv => EventsAreTheStarts
  <2> SUFFICES ASSUME Inv, CalmInv, phase = "head", ~ timed
               PROVE  LET starts == {i \in DOMAIN log : log[i][3] = 1 /\ InsnOf(log[i]).kind = "start"}
                      IN  /\ {packets[i].truly + 1 : i \in DOMAIN packets} = starts
                          /\ Len(packets) = Cardinality(starts)
    BY DEF EventsAreTheStarts
  <2>1. /\ {i \in DOMAIN log : log[i][3] = 1 /\ InsnOf(log[i]).kind = "start"} = StartPlaces(code, log)
        /\ Content(Fresh, code, log, m.at - 1) /\ Acc(m.at - 1)
    BY Submitted
  <2> QED BY <2>1 DEF Content, Acc, Accounted
<1> QED BY <1>1, Always, CalmAlways, PTL

\* No pop finds an empty call stack.
NestInv == timed \/ ~ popped_empty

(* The exit that is popped is the next one of the program.                 *)
LEMMA NestStep ==
  ASSUME Nested, Inv, NestInv, [Next]_vars
  PROVE  NestInv'
<1>1. CASE PopOne /\ ~ timed /\ ~ popped_empty
  <2>1. BaseInv /\ PlaceInv /\ AccInv
    BY <1>1 DEF Inv, UntimedInv
  <2>2. phase = "pop" /\ popcnt > 0
    BY <1>1 DEF PopOne, PopsLeft
  <2>3. PICK q \in Nat, n \in Nat : Popping(q, n)
    BY <1>1, <2>1, <2>2 DEF AccInv
  <2>4. PICK k \in n + 1 .. q - 1 :
          NextOne(code, n, k) /\ Nth(code, k).kind = "exit" /\ k \in 1 .. Len(code)
    BY <2>1, <2>2, <2>3, PopAccounts
  <2>5. code \in Programs /\ code \in Seq(Insn) /\ Len(code) \in Nat /\ Nth(code, k) = code[k]
    BY <1>1, <2>1, <2>4, CodeType DEF BaseInv, TypeInv, Nth
  <2>6. CanPop(ViewAfter(Fresh, SubSeq(code, 1, k - 1)))
    BY <2>4, <2>5 DEF Nested, WellNested, Fresh
  <2>7. SubSeq(code, 1, k - 1) = FirstOf(code, k - 1)
    <3>1. k - 1 \in 0 .. Len(code)
      BY <2>4, <2>5
    <3> QED BY <2>5, <3>1, FirstAll
  <2>8. view = ViewAt(Fresh, code, k - 1)
    BY <2>3, <2>4 DEF Popping, Acc, Accounted, NextOne
  <2>9. CanPop(view)
    BY <2>6, <2>7, <2>8 DEF ViewAt
  <2> QED BY <1>1, <2>9 DEF PopOne, NestInv
<1>2. CASE ~ PopOne \/ timed \/ popped_empty
  BY <1>2 DEF NestInv, Next, RunForStep, HandleTohost, StepTarget, Execute, Return, TakeCheckpoint, Scan,
              PopOne, Rewind, LookAndStep, Submit, Finish, vars, machineVars, profVars
<1> QED BY <1>1, <1>2

(* With no timer, the current PID and the call stacks between two batches  *)
(* are those of the submitted traces intercepted one instruction at a time,*)
(* and no pop finds an empty call stack, when the program nests its exits. *)
THEOREM ProfileFollowsLog ==
  ASSUME NoWfi, LongPadding, Nested
  PROVE  Spec => []ProfileMatchesLog
<1>1. Init => NestInv
  BY DEF Init, NestInv
<1>2. Inv /\ NestInv /\ [Next]_vars => NestInv'
  BY NestStep
<1>3. Inv /\ CalmInv /\ NestInv => ProfileMatchesLog
  <2> SUFFICES ASSUME Inv, CalmInv, ~ timed, ~ popped_empty, phase \in {"head", "done"}
               PROVE  view = ViewAfter(EmptyView(FirstPid), Executed)
    BY DEF ProfileMatchesLog, NestInv
  <2>1. Executed = CountedOf(code, log) /\ Content(Fresh, code, log, m.at - 1) /\ Acc(m.at - 1)
    BY Submitted
  <2> QED BY <2>1 DEF Content, Acc, Accounted, Fresh
<1> QED BY <1>1, <1>2, <1>3, Always, CalmAlways, PTL DEF Spec
=============================================================================
