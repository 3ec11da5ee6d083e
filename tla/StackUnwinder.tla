--------------------------- MODULE StackUnwinder ---------------------------
(***************************************************************************)
(* stack_unwinder_t::add_instruction: the stack of labels rebuilt from the *)
(* addresses of executed instructions, looked up in ProgText.  The program *)
(* that executes them is external: it calls, returns, calls in tail        *)
(* position and is interrupted, and its true stack is in frames.  One      *)
(* image stands for all binaries, since labels are compared without the    *)
(* binary; an address outside it is a binary the unwinder has not got.     *)
(*                                                                         *)
(* The operators with a suffix (Unwound_Once) are faulty variants.         *)
(***************************************************************************)
EXTENDS ProgText

CONSTANTS
  Outside,     \* addresses of a binary that is not known
  Handler,     \* where an interrupt goes
  MaxDepth,    \* bound: frames
  MaxStray     \* bound: tail calls and interrupted calls

VARIABLES
  frames,        \* the true stack: the pc of each frame, the last is executed
  label_stack,
  stray,         \* history: tail calls, interrupts where the subroutine changes, switches
  lost           \* history: one of them in an assembly sequence, or a switch

unwinderVars == <<frames, label_stack, stray, lost>>

MISC == "USERSPACE_MISC"

\* Labels as they are pushed; cycles and indents are left out.
Label(label, asm) == [label |-> label, asm_sequence |-> asm]
Misc == Label(MISC, FALSE)

-----------------------------------------------------------------------------
\* add_instruction

\* An address without a label empties the stack.
Unlabelled(stack) == <<Misc>>

MiscPopped(stack) == IF stack # <<>> /\ Last(stack) = Misc THEN Front(stack) ELSE stack

\* Labels are popped until the one looked for is on top, or none is left.
Unwound_Once(stack, label) == Front(stack)
Unwound(stack, label) ==
  LET found == {i \in DOMAIN stack : stack[i].label = label}
  IN  IF found = {} THEN <<>> ELSE SubSeq(stack, 1, Max(found))

Labelled(stack, instr) ==
  LET label == Label(instr.function_name, instr.in_asm_sequence)
  IN  IF stack = <<>> THEN <<label>>
      ELSE IF Last(stack).label = label.label THEN stack
      ELSE IF instr.in_asm_sequence /\ Last(stack).asm_sequence THEN Append(Front(stack), label)
      ELSE IF instr.is_callsite \/ ~ instr.is_fn_entry THEN Unwound(stack, label.label)
      ELSE Append(stack, label)

add_instruction(pc) ==
  /\ LET instr == getInstrFromAddr(pc)
     IN  label_stack' = IF instr = null THEN Unlabelled(label_stack)
                        ELSE Labelled(MiscPopped(label_stack), instr)
  /\ UNCHANGED textVars

-----------------------------------------------------------------------------
\* The program.

\* Where its subroutine begins.
EntryOf(pc) == Max({k \in DOMAIN table : k <= pc})
Known(pc) == pc \in DOMAIN progtext /\ subroutine_find(pc) # null
SameSubroutine(pc, other) == Known(pc) /\ Known(other) /\ EntryOf(pc) = EntryOf(other)

InAsm(pc) == Known(pc) /\ ~ subroutine_find(pc).function

\* The frames with another pc in the last.
At(pc) == [frames EXCEPT ![Len(frames)] = pc]

\* What the program may execute next, if nothing interrupts it.
StepTo == IF Last(frames) \in Outside THEN {frames}
          ELSE {At(pc) : pc \in {q \in DOMAIN progtext : SameSubroutine(Last(frames), q)} \ DOMAIN table}
CallTo ==
  {Append(At(pc + 1), k) : pc \in {q \in {Last(frames)} : SameSubroutine(q, q + 1)}, k \in DOMAIN table}
ReturnTo == IF Len(frames) > 1 THEN {Front(frames)} ELSE {}
TailCallTo == {At(k) : k \in (IF Last(frames) \in Outside THEN {} ELSE DOMAIN table)}

Execute(stack) ==
  /\ Len(stack) <= MaxDepth
  /\ frames' = stack
  /\ add_instruction(Last(stack))

Start ==
  /\ stage = "run" /\ frames = <<>>
  /\ \E pc \in Outside \union {Min(DOMAIN table)} : Execute(<<pc>>)
  /\ UNCHANGED <<stray, lost>>

\* An unknown binary that is back starts anew.
Nested ==
  /\ \E stack \in StepTo \union CallTo \union ReturnTo : Execute(stack)
  /\ IF Last(frames') \in Outside THEN stray' = 0 /\ lost' = FALSE
     ELSE UNCHANGED <<stray, lost>>

Strays(hides) ==
  /\ stray < MaxStray
  /\ stray' = stray + 1
  /\ lost' = (lost \/ hides)

TailCall ==
  /\ \E stack \in TailCallTo : Execute(stack)
  /\ Strays(InAsm(Last(frames)))

\* The handler is called between two instructions, the second of which may
\* be the first of a subroutine.
Interrupt ==
  \E stack \in StepTo \union CallTo \union ReturnTo :
    /\ Execute(Append(stack, Handler))
    /\ IF stack \in StepTo THEN UNCHANGED <<stray, lost>> ELSE Strays(InAsm(Last(frames)))

\* The kernel goes on with another task, where that had been left.
Switch ==
  /\ Known(Last(frames))
  /\ \E pc \in {q \in DOMAIN progtext : Known(q)} \ DOMAIN table, below \in {<<out>> : out \in Outside} :
       Execute(Append(below, pc))
  /\ Strays(TRUE)

UnwinderInit ==
  /\ TextInit
  /\ frames = <<>>
  /\ label_stack = <<>>
  /\ stray = 0
  /\ lost = FALSE

Run == frames # <<>> /\ (Nested \/ TailCall \/ Interrupt \/ Switch)

UnwinderNext == (TextNext /\ UNCHANGED unwinderVars) \/ Start \/ Run

UnwinderSpec == UnwinderInit /\ Inputs /\ [][UnwinderNext]_<<textVars, unwinderVars>>

-----------------------------------------------------------------------------

\* The elements of s at the positions in set.
Picked(s, set) ==
  LET picked[i \in 0 .. Len(s)] ==
        IF i = 0 THEN <<>>
        ELSE IF i \in set THEN Append(picked[i - 1], s[i]) ELSE picked[i - 1]
  IN  picked[Len(s)]

\* The labels of the frames that have executed an instruction: the last, and
\* those that will not go on with their first.
LabelOf(pc) == LET sub == subroutine_find(pc) IN Label(sub.name, ~ sub.function)
Begun == {i \in DOMAIN frames : i = Len(frames) \/ frames[i] \notin DOMAIN table}
TrueStack ==
  LET known == Picked(frames, {i \in Begun : Known(frames[i])})
  IN  [i \in DOMAIN known |-> LabelOf(known[i])]

\* What can be told of them: a recursive call is not one, and of assembly
\* sequences that call one another only the last is kept.
More(stack, i) ==
  /\ i < Len(stack)
  /\ \/ stack[i].label = stack[i + 1].label
     \/ stack[i].asm_sequence /\ stack[i + 1].asm_sequence
Merged(stack) == Picked(stack, {i \in DOMAIN stack : ~ More(stack, i)})

Expected == IF Known(Last(frames)) THEN Merged(TrueStack) ELSE <<Misc>>

IsSubsequence(s, t) ==
  \E into \in [DOMAIN s -> DOMAIN t] :
    /\ \A i \in DOMAIN s : s[i] = t[into[i]]
    /\ \A i, j \in DOMAIN s : i < j => into[i] < into[j]

(* What add_instruction has rebuilt is the stack of the frames: exactly as  *)
(* long as the program only calls and returns and is interrupted within    *)
(* subroutines; after a tail call or an interrupted call its labels are    *)
(* all there, in order, with others in between, until an unknown binary is *)
(* back; and the label on top is right unless the stack is empty, whatever *)
(* was interrupted.                                                        *)
LabelsAreStack ==
  frames # <<>> =>
    /\ stray = 0 => label_stack = Expected
    /\ ~ lost =>
         /\ IsSubsequence(Expected, label_stack)
         /\ Last(label_stack) = Last(Expected)
    /\ label_stack = <<>> \/ Last(label_stack) = Last(Expected)
=============================================================================
