--------------------------- MODULE ProfilerState ---------------------------
(***************************************************************************)
(* The part of profiler_state_t (profiler/profiler_state.cc) that          *)
(* intercepted instructions change: the current PID and the call stack of  *)
(* each PID; and the registered program counters that change it.           *)
(*                                                                         *)
(* An instruction is abstracted to what the profiler makes of its pc:      *)
(*   kind     "start" when the pc is registered with add_prof_func,        *)
(*            "exit" when it is registered with add_prof_exit, or "plain"; *)
(*   fn, to, push                                                          *)
(*            what update_profiler of the registered function does: set    *)
(*            curpid to `to` (finish_task_switch) or leave it (SamePid),   *)
(*            and return an entry for fn to push, or none;                 *)
(*   entries  how many trace entries one execution leaves: 2 for an        *)
(*            instruction that Spike retries after serializing (CSR        *)
(*            accesses), else 1;                                           *)
(*   ends     how it ends the processor's step: "no" when it does not,     *)
(*            "trap" or "wfi" when it does;                                *)
(*   op, arg  what it does to the hart and the devices (HartModel).        *)
(***************************************************************************)
EXTENDS Naturals, Sequences

CONSTANTS Pids, SamePid

Plain(entries, ends) == [kind |-> "plain", fn |-> "", to |-> SamePid, push |-> FALSE,
                         entries |-> entries, ends |-> ends, op |-> "none", arg |-> 0]
Op(op, arg) == [Plain(1, "no") EXCEPT !.op = op, !.arg = arg]
Exit == [Plain(1, "no") EXCEPT !.kind = "exit"]
Start(fn, to, push, entries) ==
  [kind |-> "start", fn |-> fn, to |-> to, push |-> push, entries |-> entries, ends |-> "no",
   op |-> "none", arg |-> 0]

\* A function's name, or none.
Names == STRING \union {""}
Insn == [kind : {"start", "exit", "plain"}, fn : Names, to : Pids \union {SamePid},
         push : BOOLEAN, entries : 1 .. 2, ends : {"no", "trap", "wfi"},
         op : STRING \union {"none"}, arg : Nat]

\* The registered instructions among insns.
Registered(insns) ==
  LET sel[n \in 0 .. Len(insns)] ==
        IF n = 0 THEN <<>>
        ELSE IF insns[n].kind = "plain" THEN sel[n - 1] ELSE Append(sel[n - 1], insns[n])
  IN  sel[Len(insns)]

\* The profiler's view: cur_pid_ and pid_to_callstack_ (absent means empty).
EmptyView(pid) == [curpid |-> pid, stacks |-> [p \in Pids |-> <<>>]]

\* update_profiler of the function registered at the pc, then push_callstack
\* on the curpid it leaves.
Hooked(v, i) ==
  LET cur == IF i.to = SamePid THEN v.curpid ELSE i.to
  IN  [curpid |-> cur,
       stacks |-> IF i.push THEN [v.stacks EXCEPT ![cur] = Append(@, i.fn)] ELSE v.stacks]

\* pop_callstack of the current PID; pop_back of an empty vector is undefined.
CanPop(v) == v.stacks[v.curpid] # <<>>
Popped(v) == [v EXCEPT !.stacks[v.curpid] = SubSeq(@, 1, Len(@) - 1)]

\* What one executed instruction does to the view, one instruction at a time
\* (the loop of run_from_trace).
Intercepted(v, i) ==
  CASE i.kind = "start" -> Hooked(v, i)
    [] i.kind = "exit"  -> Popped(v)
    [] i.kind = "plain" -> v

\* The view after a whole sequence of executed instructions, one at a time.
ViewAfter(v, insns) ==
  LET after[n \in 0 .. Len(insns)] ==
        IF n = 0 THEN v ELSE Intercepted(after[n - 1], insns[n])
  IN  after[Len(insns)]

\* Programs in which an exit is reached only inside an intercepted function.
WellNested(v, insns) ==
  \A n \in 1 .. Len(insns) :
    insns[n].kind = "exit" => CanPop(ViewAfter(v, SubSeq(insns, 1, n - 1)))
=============================================================================
