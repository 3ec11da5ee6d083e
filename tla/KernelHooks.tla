---------------------------- MODULE KernelHooks ----------------------------
(***************************************************************************)
(* The functions of the Linux kernel the profiler intercepts, and what     *)
(* their update_profiler does (profiler/callstack_info.cc) to              *)
(* profiler_state_t: which binary a PID and an ASID belong to, the current *)
(* PID and the call stack of each PID.                                     *)
(*                                                                         *)
(* The constructor of profiler_t registers do_execveat_common and          *)
(* finish_task_switch at their first instruction, set_mm_asid at its csrw  *)
(* satp, each with its returns as exits; kernel_clone and                  *)
(* pick_next_task_fair only at their returns.                              *)
(*                                                                         *)
(* The kernel is external: one hart, tasks that fork, exec and are         *)
(* switched at any point that may sleep.  An address space is its ASID,    *)
(* never used again.  current is the task register tp points to.           *)
(*                                                                         *)
(* The operators with a suffix (kernel_clone_NoDefault) are faulty         *)
(* variants.                                                               *)
(***************************************************************************)
EXTENDS Naturals, Sequences

CONSTANTS
  Pids, Idle, InitTask,  \* InitTask's program is not started by an exec
  Bins, X,               \* binaries; "X", the name when the parent has none
  NoBin,                 \* no entry in a table
  MaxAsid                \* bound: address spaces created in all

ASSUME HooksAssumption ==
  /\ Idle \in Pids /\ InitTask \in Pids \ {Idle}
  /\ X \notin Bins /\ NoBin \notin Bins \union {X}
  /\ MaxAsid \in Nat \ {0}

VARIABLES
  \* the kernel
  phase,    \* task, satp, asid, mmap, switching, switched, finish: where the
            \* hart is
  current, next,  \* the running task and the one picked
  satp,     \* the ASID in the csr, 0 at boot
  asids,    \* address spaces created so far
  at,       \* where a task is: none (no such task), user, clone, exec, execed
  mm, bin,  \* its address space, 0 if it has none, and its binary
  arg,      \* the child it clones or the file it executes
  waiting,  \* parents that wait for a vfork child to exec
  kstack,   \* per task, the intercepted functions it is inside, innermost last
  strays,   \* history: tasks that ran before their parent's kernel_clone had
            \* returned or whose exec failed, and the ones they forked; until
            \* they exec
  \* profiler_state_t
  pid_to_bin_, asid_to_bin_, cur_pid_, pid_to_callstack_,
  pexited   \* a pexit has stopped the profiler

tasks == <<at, mm, bin, arg>>
kernelVars == <<phase, current, next, satp, asids, tasks, waiting, kstack, strays>>
tables == <<pid_to_bin_, asid_to_bin_>>
profVars == <<tables, cur_pid_, pid_to_callstack_, pexited>>
vars == <<kernelVars, profVars>>

Names == Bins \union {X, NoBin}

Init ==
  /\ phase = "task" /\ current = Idle /\ next = Idle /\ satp = 0 /\ asids = 1
  /\ at = [p \in Pids |-> IF p \in {Idle, InitTask} THEN "user" ELSE "none"]
  /\ mm = [p \in Pids |-> IF p = InitTask THEN 1 ELSE 0]
  /\ bin = [p \in Pids |-> IF p = InitTask THEN X ELSE NoBin]
  /\ arg = [p \in Pids |-> NoBin]
  /\ waiting = {} /\ kstack = [p \in Pids |-> <<>>] /\ strays = {}
  /\ pid_to_bin_ = [p \in Pids |-> NoBin]
  /\ asid_to_bin_ = [a \in 0 .. MaxAsid |-> NoBin]
  /\ cur_pid_ = Idle
  /\ pid_to_callstack_ = [p \in Pids |-> <<>>]
  /\ pexited = FALSE

-----------------------------------------------------------------------------
\* The hooks.

push_callstack(pid, func, binary) ==
  pid_to_callstack_' =
    [pid_to_callstack_ EXCEPT ![pid] = Append(@, [fn |-> func, bin |-> binary])]

\* At an exit; pop_back of an empty vector is undefined, StackIsKernels rules
\* it out.
pop_callstack ==
  /\ pid_to_callstack_' =
       [pid_to_callstack_ EXCEPT ![cur_pid_] = SubSeq(@, 1, Len(@) - 1)]
  /\ UNCHANGED <<tables, cur_pid_, pexited>>

do_execveat_common_Late(file) ==
  /\ push_callstack(cur_pid_, "exec", file)
  /\ UNCHANGED <<tables, cur_pid_, pexited>>
do_execveat_common(file) ==
  /\ pid_to_bin_' = [pid_to_bin_ EXCEPT ![current] = file]
  /\ push_callstack(cur_pid_, "exec", file)
  /\ UNCHANGED <<asid_to_bin_, cur_pid_, pexited>>

called_by_do_execveat_common(cs) == cs # <<>> /\ cs[Len(cs)].fn = "exec"

\* The pc is that of the csrw: satp still holds the ASID it is about to leave.
set_mm_asid ==
  LET cs == pid_to_callstack_[current] IN
  /\ IF called_by_do_execveat_common(cs)
       THEN /\ asid_to_bin_' = [asid_to_bin_ EXCEPT ![satp] = cs[Len(cs)].bin]
            /\ pexited' = (current # cur_pid_)
       ELSE UNCHANGED <<asid_to_bin_, pexited>>
  /\ push_callstack(cur_pid_, "asid", NoBin)
  /\ UNCHANGED <<pid_to_bin_, cur_pid_>>

kernel_clone_NoDefault(newpid) ==
  /\ pid_to_bin_' = [pid_to_bin_ EXCEPT ![newpid] = current]
  /\ UNCHANGED <<asid_to_bin_, cur_pid_, pid_to_callstack_, pexited>>
kernel_clone(newpid) ==
  LET parent == pid_to_bin_[current] IN
  /\ pid_to_bin_' =
       [pid_to_bin_ EXCEPT ![newpid] = IF parent = NoBin THEN X ELSE parent]
  /\ UNCHANGED <<asid_to_bin_, cur_pid_, pid_to_callstack_, pexited>>

\* Only a packet.
pick_next_task_fair_SetsPid(picked) ==
  cur_pid_' = picked /\ UNCHANGED <<tables, pid_to_callstack_, pexited>>
pick_next_task_fair(picked) == UNCHANGED profVars

\* The task register already holds the new task.
finish_task_switch_PushFirst(now) ==
  /\ push_callstack(cur_pid_, "switch", NoBin)
  /\ cur_pid_' = now
  /\ UNCHANGED <<tables, pexited>>
finish_task_switch(now) ==
  /\ cur_pid_' = now
  /\ push_callstack(now, "switch", NoBin)
  /\ UNCHANGED <<tables, pexited>>

-----------------------------------------------------------------------------
\* The kernel.  Each step that passes a registered pc runs its hook.

Running(where) == phase = "task" /\ at[current] = where

Enter(p, func) == kstack' = [kstack EXCEPT ![p] = Append(@, func)]
Leave == kstack' = [kstack EXCEPT ![current] = SubSeq(@, 1, Len(@) - 1)]

\* Whether the parent of p is still inside the kernel_clone that made p.
BeingCloned(p) == \E q \in Pids : at[q] = "clone" /\ arg[q] = p

\* kernel_clone: the child exists and may run before the parent returns; one
\* that shares the address space (vfork) runs until its exec.
Clone(c, shared) ==
  /\ Running("user") /\ current # Idle /\ at[c] = "none"
  /\ shared \/ asids < MaxAsid
  /\ asids' = IF shared THEN asids ELSE asids + 1
  /\ at' = [at EXCEPT ![current] = "clone", ![c] = "user"]
  /\ arg' = [arg EXCEPT ![current] = c]
  /\ mm' = [mm EXCEPT ![c] = IF shared THEN mm[current] ELSE asids + 1]
  /\ bin' = [bin EXCEPT ![c] = bin[current]]
  /\ waiting' = IF shared THEN waiting \union {current} ELSE waiting
  /\ strays' = IF current \in strays THEN strays \union {c} ELSE strays
  /\ UNCHANGED <<phase, current, next, satp, kstack, profVars>>

CloneReturn ==
  /\ Running("clone") /\ current \notin waiting
  /\ kernel_clone(arg[current])
  /\ at' = [at EXCEPT ![current] = "user"]
  /\ arg' = [arg EXCEPT ![current] = NoBin]
  /\ UNCHANGED <<phase, current, next, satp, asids, mm, bin, waiting, kstack, strays>>

Exec(file) ==
  /\ Running("user") /\ current # Idle
  /\ do_execveat_common(file)
  /\ Enter(current, "exec")
  /\ at' = [at EXCEPT ![current] = "exec"]
  /\ arg' = [arg EXCEPT ![current] = file]
  /\ strays' = IF BeingCloned(current) THEN strays ELSE strays \ {current}
  /\ UNCHANGED <<phase, current, next, satp, asids, mm, bin, waiting>>

\* The new program's address space replaces the old one.
ExecMmap ==
  /\ Running("exec") /\ asids < MaxAsid
  /\ set_mm_asid
  /\ Enter(current, "asid")
  /\ asids' = asids + 1 /\ satp' = asids + 1
  /\ at' = [at EXCEPT ![current] = "execed"]
  /\ mm' = [mm EXCEPT ![current] = asids + 1]
  /\ bin' = [bin EXCEPT ![current] = arg[current]]
  /\ waiting' = {p \in waiting : arg[p] # current}
  /\ phase' = "mmap"
  /\ UNCHANGED <<current, next, arg, strays>>

ExecReturn ==
  /\ Running("execed") \/ Running("exec")
  /\ pop_callstack /\ Leave
  /\ strays' = IF at[current] = "exec" THEN strays \union {current} ELSE strays
  /\ at' = [at EXCEPT ![current] = "user"]
  /\ arg' = [arg EXCEPT ![current] = NoBin]
  /\ UNCHANGED <<phase, current, next, satp, asids, mm, bin, waiting>>

\* schedule: a task is picked; its address space goes into satp while current
\* is still the one that leaves; a task with none borrows what is there.
MayRun(p) == at[p] # "none" /\ p # current /\ p \notin waiting

Pick(p) ==
  /\ phase = "task" /\ MayRun(p)
  /\ pick_next_task_fair(p)
  /\ next' = p
  /\ phase' = IF mm[p] \in {0, satp} THEN "switching" ELSE "satp"
  /\ UNCHANGED <<current, satp, asids, tasks, waiting, kstack, strays>>

SwitchMm ==
  /\ phase = "satp"
  /\ set_mm_asid
  /\ Enter(current, "asid")
  /\ satp' = mm[next]
  /\ phase' = "asid"
  /\ UNCHANGED <<current, next, asids, tasks, waiting, strays>>

SetMmAsidReturn ==
  /\ phase \in {"asid", "mmap"}
  /\ pop_callstack /\ Leave
  /\ phase' = IF phase = "asid" THEN "switching" ELSE "task"
  /\ UNCHANGED <<current, next, satp, asids, tasks, waiting, strays>>

\* __switch_to loads tp; the task that runs now gets to finish_task_switch next,
\* from context_switch or, when it is new, from schedule_tail.
SwitchTo ==
  /\ phase = "switching"
  /\ current' = next
  /\ strays' = IF BeingCloned(next) THEN strays \union {next} ELSE strays
  /\ phase' = "switched"
  /\ UNCHANGED <<next, satp, asids, tasks, waiting, kstack, profVars>>

FinishTaskSwitch ==
  /\ phase = "switched"
  /\ finish_task_switch(current)
  /\ Enter(current, "switch")
  /\ phase' = "finish"
  /\ UNCHANGED <<current, next, satp, asids, tasks, waiting, strays>>

FinishTaskSwitchReturn ==
  /\ phase = "finish"
  /\ pop_callstack /\ Leave
  /\ phase' = "task"
  /\ UNCHANGED <<current, next, satp, asids, tasks, waiting, strays>>

Next ==
  /\ ~ pexited
  /\ \/ \E c \in Pids, shared \in BOOLEAN : Clone(c, shared)
     \/ \E file \in Bins : Exec(file)
     \/ \E p \in Pids : Pick(p)
     \/ CloneReturn \/ ExecMmap \/ ExecReturn
     \/ SwitchMm \/ SetMmAsidReturn
     \/ SwitchTo \/ FinishTaskSwitch \/ FinishTaskSwitchReturn

Spec == Init /\ [][Next]_vars

-----------------------------------------------------------------------------

(* Types of the variables. *)
Fns == {"exec", "asid", "switch"}

TypeOK ==
  /\ phase \in {"task", "satp", "asid", "mmap", "switching", "switched", "finish"}
  /\ current \in Pids /\ next \in Pids /\ satp \in 0 .. MaxAsid /\ asids \in 1 .. MaxAsid
  /\ at \in [Pids -> {"none", "user", "clone", "exec", "execed"}]
  /\ mm \in [Pids -> 0 .. MaxAsid] /\ bin \in [Pids -> Names]
  /\ arg \in [Pids -> Names \union Pids]
  /\ waiting \subseteq Pids /\ strays \subseteq Pids /\ kstack \in [Pids -> Seq(Fns)]
  /\ pid_to_bin_ \in [Pids -> Names] /\ asid_to_bin_ \in [0 .. MaxAsid -> Names]
  /\ cur_pid_ \in Pids /\ pid_to_callstack_ \in [Pids -> Seq([fn : Fns, bin : Names])]
  /\ pexited \in BOOLEAN

SameStacks ==
  \A p \in Pids :
    [i \in DOMAIN pid_to_callstack_[p] |-> pid_to_callstack_[p][i].fn] = kstack[p]

\* A registered exit is ahead of the current task.
MayPop == phase \in {"asid", "mmap", "finish"} \/ Running("exec") \/ Running("execed")

(* Whatever the interleaving of forks, execs and context switches, the     *)
(* profiler's call stack of each PID is the one of the kernel: pushes and  *)
(* pops, which go by cur_pid_, find the stack of the task that runs, and   *)
(* no pop finds an empty one.                                              *)
StackIsKernels == SameStacks /\ (MayPop => pid_to_callstack_[cur_pid_] # <<>>)

(* The check of set_mm_asid never stops the profiler: cur_pid_, which only *)
(* finish_task_switch sets, agrees with the kernel whenever the hook runs, *)
(* also when a task that is inside exec is switched away from.             *)
NoPexit == ~ pexited

(* What makes the two inductive: except between the switch of tp and the   *)
(* hook of finish_task_switch, cur_pid_ is the task that runs, tasks       *)
(* inside exec or kernel_clone know their file or child, and the depth of  *)
(* a task's stack follows from where it is.                                *)
PidAgrees == phase # "switched" => cur_pid_ = current

ArgFits == \A p \in Pids :
  /\ at[p] \in {"exec", "execed"} => arg[p] \in Bins
  /\ at[p] = "clone" => arg[p] \in Pids

Depth == \A p \in Pids :
  Len(kstack[p]) = (IF at[p] \in {"exec", "execed"} THEN 1 ELSE 0)
    + (IF p = current /\ phase \in {"asid", "mmap", "finish"} THEN 1 ELSE 0)

HooksInv == TypeOK /\ PidAgrees /\ ArgFits /\ Depth /\ SameStacks /\ NoPexit

BinOf(p) == IF pid_to_bin_[p] = NoBin THEN X ELSE pid_to_bin_[p]

Mapped(p) == at[p] = "user" /\ p # Idle /\ ~ BeingCloned(p) => BinOf(p) = bin[p]

(* A PID whose fork and exec calls have returned is mapped to the binary   *)
(* it runs, which is what the process mapping table is for, unless it is a *)
(* stray: the hooks write at the entry of exec and at the return of        *)
(* kernel_clone, and no other order of events makes that wrong.            *)
PidsMapped == \A p \in Pids \ strays : Mapped(p)

(* A fork adds an entry to the table; one that is there is replaced only   *)
(* by an exec of its own task.                                             *)
OnlyExecReplaces ==
  [][\A p \in Pids : pid_to_bin_[p] \notin {NoBin, pid_to_bin_'[p]} => p = current]_vars

(* When an exec has returned, the address space of the new program is      *)
(* mapped to its binary: process_callstack attributes user instructions by *)
(* the ASID they ran under.                                                *)
AsidMapped ==
  [][at[current] = "execed" /\ at'[current] = "user"
       => asid_to_bin_[satp] = bin[current]]_vars
=============================================================================
