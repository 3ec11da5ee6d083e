------------------------ MODULE KernelHooks_proofs ------------------------
(***************************************************************************)
(* Proofs about KernelHooks, for any set of tasks, binaries and address    *)
(* spaces: HooksInv is inductive, so the profiler's call stacks are the    *)
(* kernel's and the check of set_mm_asid never stops the profiler;         *)
(* TableInv is inductive with it, so the PID table has the binaries.       *)
(***************************************************************************)
EXTENDS KernelHooks, SequenceTheorems, TLAPS

(* The call stack of a PID holds the entries of the hooks, the kernel's    *)
(* stack their functions.                                                  *)
Entries == [fn : Fns, bin : Names]

FnsOf(cs) == [i \in DOMAIN cs |-> cs[i].fn]

(* The functions of a call stack are a sequence of its length. *)
LEMMA FnsType ==
  ASSUME NEW cs \in Seq(Entries)
  PROVE  /\ FnsOf(cs) \in Seq(Fns) /\ Len(FnsOf(cs)) = Len(cs)
         /\ \A i \in 1 .. Len(cs) : FnsOf(cs)[i] = cs[i].fn
  <1>1. Len(cs) \in Nat /\ DOMAIN cs = 1 .. Len(cs)
    BY LenProperties
  <1>2. ASSUME NEW i \in 1 .. Len(cs) PROVE cs[i].fn \in Fns
    <2>1. cs[i] \in Entries
      BY ElementOfSeq
    <2> QED BY <2>1 DEF Entries
  <1>3. FnsOf(cs) \in [1 .. Len(cs) -> Fns]
    BY <1>1, <1>2 DEF FnsOf
  <1>4. FnsOf(cs) \in Seq(Fns)
    BY <1>1, <1>3, SeqDef
  <1>5. DOMAIN FnsOf(cs) = 1 .. Len(FnsOf(cs)) /\ Len(FnsOf(cs)) \in Nat
    BY <1>4, LenProperties
  <1>6. Len(FnsOf(cs)) = Len(cs)
    BY <1>1, <1>3, <1>5
  <1> QED BY <1>1, <1>4, <1>6 DEF FnsOf

(* Pushing an entry pushes its function. *)
LEMMA PushFn ==
  ASSUME NEW cs \in Seq(Entries), NEW func \in Fns, NEW binary \in Names
  PROVE  /\ Append(cs, [fn |-> func, bin |-> binary]) \in Seq(Entries)
         /\ FnsOf(Append(cs, [fn |-> func, bin |-> binary])) = Append(FnsOf(cs), func)
  <1> DEFINE e == [fn |-> func, bin |-> binary]
             new == Append(cs, e)
  <1>1. e \in Entries /\ e.fn = func
    BY DEF Entries
  <1>2. new \in Seq(Entries) /\ Len(new) = Len(cs) + 1 /\ Len(cs) \in Nat
    BY <1>1, AppendProperties, LenProperties
  <1>3. /\ \A i \in 1 .. Len(cs) : new[i] = cs[i]
        /\ new[Len(cs) + 1] = e
    BY <1>1, AppendProperties
  <1>4. FnsOf(cs) \in Seq(Fns) /\ Len(FnsOf(cs)) = Len(cs)
    BY FnsType
  <1>5. FnsOf(new) \in Seq(Fns) /\ Len(FnsOf(new)) = Len(cs) + 1
    BY <1>2, FnsType
  <1>6. /\ Append(FnsOf(cs), func) \in Seq(Fns)
        /\ Len(Append(FnsOf(cs), func)) = Len(cs) + 1
        /\ \A i \in 1 .. Len(cs) : Append(FnsOf(cs), func)[i] = FnsOf(cs)[i]
        /\ Append(FnsOf(cs), func)[Len(cs) + 1] = func
    BY <1>4, AppendProperties
  <1>7. ASSUME NEW i \in 1 .. Len(cs) + 1
        PROVE  FnsOf(new)[i] = Append(FnsOf(cs), func)[i]
    <2>1. FnsOf(new)[i] = new[i].fn
      BY <1>2, FnsType
    <2>2. CASE i = Len(cs) + 1
      BY <1>1, <1>3, <1>6, <2>1, <2>2, Zenon
    <2>3. CASE i \in 1 .. Len(cs)
      BY <1>3, <1>6, <2>1, <2>3, FnsType
    <2>4. Len(cs) \in Nat
      BY <1>2
    <2>5. i \in 1 .. Len(cs) \/ i = Len(cs) + 1
      BY <2>4
    <2> QED BY <2>2, <2>3, <2>5, Zenon
  <1> QED BY <1>2, <1>5, <1>6, <1>7, SeqEqual

(* All but the last element of a sequence. *)
LEMMA PopSeq ==
  ASSUME NEW S, NEW s \in Seq(S), s # <<>>
  PROVE  /\ SubSeq(s, 1, Len(s) - 1) \in Seq(S)
         /\ Len(SubSeq(s, 1, Len(s) - 1)) = Len(s) - 1
         /\ \A i \in 1 .. Len(s) - 1 : SubSeq(s, 1, Len(s) - 1)[i] = s[i]
  <1> DEFINE n == Len(s) - 1
  <1>1. Len(s) \in Nat \ {0} /\ n \in Nat
    BY EmptySeq
  <1>2. \A i \in 1 .. n : s[i] \in S
    BY <1>1, ElementOfSeq
  <1>3. 1 \in Int /\ n \in Int
    BY <1>1
  <1> HIDE DEF n
  <1>4. /\ SubSeq(s, 1, n) \in Seq(S)
        /\ Len(SubSeq(s, 1, n)) = IF 1 <= n THEN n - 1 + 1 ELSE 0
        /\ \A i \in 1 .. n - 1 + 1 : SubSeq(s, 1, n)[i] = s[1 + i - 1]
    BY <1>2, <1>3, SubSeqProperties
  <1>5. SubSeq(s, 1, n) \in Seq(S) /\ Len(SubSeq(s, 1, n)) = n
    BY <1>1, <1>4
  <1>6. \A i \in 1 .. n : SubSeq(s, 1, n)[i] = s[i]
    BY <1>1, <1>4
  <1> QED BY <1>5, <1>6 DEF n

(* Popping an entry pops its function. *)
LEMMA PopFn ==
  ASSUME NEW cs \in Seq(Entries), cs # <<>>
  PROVE  /\ SubSeq(cs, 1, Len(cs) - 1) \in Seq(Entries)
         /\ FnsOf(SubSeq(cs, 1, Len(cs) - 1)) = SubSeq(FnsOf(cs), 1, Len(FnsOf(cs)) - 1)
         /\ Len(SubSeq(cs, 1, Len(cs) - 1)) = Len(cs) - 1
  <1> DEFINE new == SubSeq(cs, 1, Len(cs) - 1)
             fns == SubSeq(FnsOf(cs), 1, Len(cs) - 1)
  <1>1. Len(cs) \in Nat \ {0}
    BY EmptySeq
  <1>2. /\ new \in Seq(Entries) /\ Len(new) = Len(cs) - 1
        /\ \A i \in 1 .. Len(cs) - 1 : new[i] = cs[i]
    BY PopSeq
  <1>3. FnsOf(cs) \in Seq(Fns) /\ Len(FnsOf(cs)) = Len(cs)
    BY FnsType
  <1>4. /\ fns \in Seq(Fns) /\ Len(fns) = Len(cs) - 1
        /\ \A i \in 1 .. Len(cs) - 1 : fns[i] = FnsOf(cs)[i]
    BY <1>1, <1>3
  <1>5. FnsOf(new) \in Seq(Fns) /\ Len(FnsOf(new)) = Len(cs) - 1
    BY <1>2, FnsType
  <1>6. ASSUME NEW i \in 1 .. Len(cs) - 1
        PROVE  FnsOf(new)[i] = fns[i]
    <2>1. FnsOf(new)[i] = new[i].fn
      BY <1>2, FnsType
    <2>2. FnsOf(cs)[i] = cs[i].fn
      BY <1>1, FnsType
    <2> QED BY <1>2, <1>4, <2>1, <2>2
  <1>7. FnsOf(new) = fns
    BY <1>4, <1>5, <1>6, SeqEqual
  <1> QED BY <1>2, <1>3, <1>7

-----------------------------------------------------------------------------

StackTypes ==
  /\ kstack \in [Pids -> Seq(Fns)]
  /\ pid_to_callstack_ \in [Pids -> Seq(Entries)]

(* What a hook that pushes and the kernel's call do to the stacks. *)
LEMMA PushStep ==
  ASSUME StackTypes, SameStacks, NEW p \in Pids, NEW func \in Fns, NEW binary \in Names,
         push_callstack(p, func, binary), Enter(p, func)
  PROVE  /\ StackTypes' /\ SameStacks'
         /\ \A q \in Pids :
              Len(kstack'[q]) = IF q = p THEN Len(kstack[q]) + 1 ELSE Len(kstack[q])
  <1> DEFINE e == [fn |-> func, bin |-> binary]
             cs == pid_to_callstack_[p]
  <1>1. /\ cs \in Seq(Entries) /\ kstack[p] \in Seq(Fns) /\ FnsOf(cs) = kstack[p]
    BY DEF StackTypes, SameStacks, FnsOf
  <1>2. /\ pid_to_callstack_' = [pid_to_callstack_ EXCEPT ![p] = Append(cs, e)]
        /\ kstack' = [kstack EXCEPT ![p] = Append(kstack[p], func)]
    BY DEF push_callstack, Enter
  <1>3. /\ Append(cs, e) \in Seq(Entries)
        /\ FnsOf(Append(cs, e)) = Append(kstack[p], func)
    BY <1>1, PushFn
  <1>4. /\ Append(kstack[p], func) \in Seq(Fns)
        /\ Len(Append(kstack[p], func)) = Len(kstack[p]) + 1
    BY <1>1, AppendProperties
  <1>5. StackTypes'
    BY <1>2, <1>3, <1>4 DEF StackTypes
  <1>6. ASSUME NEW q \in Pids
        PROVE  /\ FnsOf(pid_to_callstack_'[q]) = kstack'[q]
               /\ Len(kstack'[q]) = IF q = p THEN Len(kstack[q]) + 1 ELSE Len(kstack[q])
    <2>1. CASE q = p
      <3>1. pid_to_callstack_'[q] = Append(cs, e) /\ kstack'[q] = Append(kstack[p], func)
        BY <1>2, <2>1 DEF StackTypes
      <3> QED BY <1>3, <1>4, <2>1, <3>1
    <2>2. CASE q # p
      <3>1. pid_to_callstack_'[q] = pid_to_callstack_[q] /\ kstack'[q] = kstack[q]
        BY <1>2, <2>2 DEF StackTypes
      <3> QED BY <2>2, <3>1 DEF SameStacks, FnsOf
    <2> QED BY <2>1, <2>2
  <1> QED BY <1>5, <1>6 DEF SameStacks, FnsOf

(* What an exit and the kernel's return do to the stacks. *)
LEMMA PopStep ==
  ASSUME StackTypes, SameStacks, cur_pid_ = current, current \in Pids,
         Len(kstack[current]) \in Nat \ {0}, pop_callstack, Leave
  PROVE  /\ StackTypes' /\ SameStacks'
         /\ \A q \in Pids :
              Len(kstack'[q]) = IF q = current THEN Len(kstack[q]) - 1 ELSE Len(kstack[q])
  <1> DEFINE p == current
             cs == pid_to_callstack_[p]
             new == SubSeq(cs, 1, Len(cs) - 1)
             left == SubSeq(kstack[p], 1, Len(kstack[p]) - 1)
  <1>1. cs \in Seq(Entries) /\ kstack[p] \in Seq(Fns) /\ FnsOf(cs) = kstack[p]
    BY DEF StackTypes, SameStacks, FnsOf
  <1>2. /\ pid_to_callstack_' = [pid_to_callstack_ EXCEPT ![p] = new]
        /\ kstack' = [kstack EXCEPT ![p] = left]
    BY DEF pop_callstack, Leave
  <1>3. cs # <<>> /\ kstack[p] # <<>>
    <2>1. Len(cs) = Len(kstack[p])
      BY <1>1, FnsType
    <2>2. Len(<<>>) = 0
      BY EmptySeq
    <2> QED BY <2>1, <2>2
  <1>4. new \in Seq(Entries) /\ FnsOf(new) = left
    BY <1>1, <1>3, PopFn
  <1>5. left \in Seq(Fns) /\ Len(left) = Len(kstack[p]) - 1
    BY <1>1, <1>3, PopSeq
  <1>6. StackTypes'
    BY <1>2, <1>4, <1>5 DEF StackTypes
  <1>7. ASSUME NEW q \in Pids
        PROVE  /\ FnsOf(pid_to_callstack_'[q]) = kstack'[q]
               /\ Len(kstack'[q]) = IF q = p THEN Len(kstack[q]) - 1 ELSE Len(kstack[q])
    <2>1. CASE q = p
      <3>1. pid_to_callstack_'[q] = new /\ kstack'[q] = left
        BY <1>2, <2>1 DEF StackTypes
      <3> QED BY <1>4, <1>5, <2>1, <3>1
    <2>2. CASE q # p
      <3>1. pid_to_callstack_'[q] = pid_to_callstack_[q] /\ kstack'[q] = kstack[q]
        BY <1>2, <2>2 DEF StackTypes
      <3> QED BY <2>2, <3>1 DEF SameStacks, FnsOf
    <2> QED BY <2>1, <2>2
  <1> QED BY <1>6, <1>7 DEF SameStacks, FnsOf

-----------------------------------------------------------------------------

Phases == {"task", "satp", "asid", "mmap", "switching", "switched", "finish"}
Ats == {"none", "user", "clone", "exec", "execed"}

KernelTypes ==
  /\ phase \in Phases /\ current \in Pids /\ next \in Pids
  /\ satp \in 0 .. MaxAsid /\ asids \in 1 .. MaxAsid
  /\ at \in [Pids -> Ats] /\ mm \in [Pids -> 0 .. MaxAsid]
  /\ bin \in [Pids -> Names] /\ arg \in [Pids -> Names \union Pids]
  /\ waiting \subseteq Pids /\ strays \subseteq Pids

TableTypes ==
  /\ pid_to_bin_ \in [Pids -> Names] /\ asid_to_bin_ \in [0 .. MaxAsid -> Names]
  /\ pexited \in BOOLEAN /\ cur_pid_ \in Pids

Types == KernelTypes /\ TableTypes /\ StackTypes

(* The type invariant in three parts: the kernel, the tables, the stacks. *)
LEMMA TypeParts == TypeOK <=> Types
  BY DEF TypeOK, Types, KernelTypes, TableTypes, StackTypes, Phases, Ats, Entries

Inv == Types /\ PidAgrees /\ ArgFits /\ Depth /\ SameStacks /\ NoPexit

(* The invariant the steps below preserve is HooksInv. *)
LEMMA InvIsHooksInv == Inv <=> HooksInv
  BY TypeParts DEF Inv, HooksInv

(* set_mm_asid keeps the type of the ASID table and never stops the        *)
(* profiler.                                                               *)
LEMMA SetMmAsid ==
  ASSUME Inv, phase \in {"task", "satp"}, set_mm_asid
  PROVE  TableTypes' /\ cur_pid_' = cur_pid_ /\ ~ pexited'
  <1> DEFINE cs == pid_to_callstack_[current]
  <1>1. CASE called_by_do_execveat_common(cs)
    <2>1. cs \in Seq(Entries) /\ cs # <<>>
      BY <1>1 DEF called_by_do_execveat_common, Inv, Types, KernelTypes, StackTypes
    <2>2. Len(cs) \in 1 .. Len(cs)
      BY <2>1, EmptySeq
    <2>3. cs[Len(cs)] \in Entries
      BY <2>1, <2>2, ElementOfSeq
    <2>4. cs[Len(cs)].bin \in Names
      BY <2>3 DEF Entries
    <2>5. asid_to_bin_' = [asid_to_bin_ EXCEPT ![satp] = cs[Len(cs)].bin]
      BY <1>1 DEF set_mm_asid
    <2>6. asid_to_bin_' \in [0 .. MaxAsid -> Names]
      BY <2>4, <2>5 DEF Inv, Types, TableTypes
    <2> QED BY <1>1, <2>6 DEF set_mm_asid, Inv, PidAgrees, Types, TableTypes
  <1>2. CASE ~ called_by_do_execveat_common(cs)
    BY <1>2 DEF set_mm_asid, Inv, Types, TableTypes, NoPexit
  <1> QED BY <1>1, <1>2

(* The initial states satisfy the invariant. *)
LEMMA InitInv == Init => Inv
  <1> SUFFICES ASSUME Init PROVE Inv
    OBVIOUS
  <1>1. Idle \in Pids /\ InitTask \in Pids /\ 1 \in 1 .. MaxAsid /\ {0, 1} \subseteq 0 .. MaxAsid
    BY HooksAssumption
  <1>2. KernelTypes
    BY <1>1 DEF Init, KernelTypes, Phases, Ats, Names
  <1>3. TableTypes
    BY <1>1 DEF Init, TableTypes, Names
  <1>4. StackTypes
    BY EmptySeq DEF Init, StackTypes
  <1>5. ASSUME NEW p \in Pids
        PROVE  /\ FnsOf(pid_to_callstack_[p]) = kstack[p]
               /\ Len(kstack[p]) = 0
               /\ at[p] \in {"none", "user"}
    <2>1. pid_to_callstack_[p] = <<>> /\ kstack[p] = <<>>
      BY DEF Init
    <2>2. FnsOf(<<>>) = <<>>
      <3>1. FnsOf(<<>>) \in Seq(Fns) /\ Len(FnsOf(<<>>)) = 0
        BY EmptySeq, FnsType
      <3> QED BY <3>1, EmptySeq
    <2> QED BY <2>1, <2>2, EmptySeq DEF Init
  <1> QED BY <1>2, <1>3, <1>4, <1>5 DEF Init, Inv, Types, PidAgrees, ArgFits, Depth,
             SameStacks, FnsOf, NoPexit

-----------------------------------------------------------------------------
\* One lemma per action.

(* A fork touches neither the stacks nor the profiler, and the child is    *)
(* outside every intercepted function.                                     *)
LEMMA CloneInv ==
  ASSUME Inv, NEW c \in Pids, NEW shared \in BOOLEAN, Clone(c, shared)
  PROVE  Inv'
  <1>1. KernelTypes'
    <2>1. shared \/ asids + 1 \in 1 .. MaxAsid
      BY HooksAssumption DEF Inv, Types, KernelTypes, Clone
    <2>2. /\ asids' \in 1 .. MaxAsid
          /\ (IF shared THEN mm[current] ELSE asids + 1) \in 0 .. MaxAsid
      BY <2>1, HooksAssumption DEF Inv, Types, KernelTypes, Clone
    <2> QED BY <2>2 DEF Clone, Inv, Types, KernelTypes, Ats
  <1>2. /\ at' = [at EXCEPT ![current] = "clone", ![c] = "user"]
        /\ arg' = [arg EXCEPT ![current] = c]
        /\ phase = "task" /\ at[current] = "user" /\ at[c] = "none"
        /\ UNCHANGED <<phase, current, kstack>>
    BY DEF Clone, Running
  <1>3. ArgFits'
    BY <1>2 DEF Inv, Types, KernelTypes, ArgFits
  <1>4. Depth'
    BY <1>2 DEF Inv, Types, KernelTypes, Depth
  <1> QED BY <1>1, <1>3, <1>4 DEF Clone, Inv, Types, TableTypes, StackTypes, PidAgrees,
             SameStacks, NoPexit, profVars, tables

(* The return of kernel_clone writes only the PID table. *)
LEMMA CloneReturnInv ==
  ASSUME Inv, CloneReturn
  PROVE  Inv'
  <1>1. /\ at' = [at EXCEPT ![current] = "user"]
        /\ arg' = [arg EXCEPT ![current] = NoBin]
        /\ phase = "task" /\ at[current] = "clone" /\ arg[current] \in Pids
        /\ UNCHANGED <<phase, current, kstack>>
    BY DEF CloneReturn, Running, Inv, Types, KernelTypes, ArgFits
  <1>2. KernelTypes'
    BY <1>1 DEF CloneReturn, Inv, Types, KernelTypes, Ats, Names
  <1>3. TableTypes'
    BY <1>1 DEF CloneReturn, kernel_clone, Inv, Types, KernelTypes, TableTypes, Names
  <1>4. ArgFits'
    BY <1>1 DEF Inv, Types, KernelTypes, ArgFits
  <1>5. Depth'
    BY <1>1 DEF Inv, Types, KernelTypes, Depth
  <1> QED BY <1>2, <1>3, <1>4, <1>5 DEF CloneReturn, kernel_clone, Inv, Types,
             StackTypes, PidAgrees, SameStacks, NoPexit

(* Entering exec writes the PID table and pushes on both stacks. *)
LEMMA ExecInv ==
  ASSUME Inv, NEW file \in Bins, Exec(file)
  PROVE  Inv'
  <1>1. /\ at' = [at EXCEPT ![current] = "exec"]
        /\ arg' = [arg EXCEPT ![current] = file]
        /\ phase = "task" /\ at[current] = "user"
        /\ UNCHANGED <<phase, current>>
    BY DEF Exec, Running
  <1>2. KernelTypes'
    BY <1>1 DEF Exec, Inv, Types, KernelTypes, Ats, Names
  <1>3. TableTypes'
    BY DEF Exec, do_execveat_common, Inv, Types, KernelTypes, TableTypes, Names
  <1>4. /\ StackTypes' /\ SameStacks'
        /\ \A q \in Pids :
             Len(kstack'[q]) = IF q = current THEN Len(kstack[q]) + 1 ELSE Len(kstack[q])
    <2>1. push_callstack(current, "exec", file) /\ Enter(current, "exec")
      BY <1>1 DEF Exec, do_execveat_common, Inv, PidAgrees
    <2>2. "exec" \in Fns /\ file \in Names /\ current \in Pids
      BY DEF Fns, Names, Inv, Types, KernelTypes
    <2> QED BY <2>1, <2>2, PushStep DEF Inv, Types
  <1>5. ArgFits'
    BY <1>1 DEF Inv, Types, KernelTypes, ArgFits
  <1>6. Depth'
    BY <1>1, <1>4 DEF Inv, Types, KernelTypes, Depth
  <1> QED BY <1>2, <1>3, <1>4, <1>5, <1>6 DEF Exec, do_execveat_common, Inv, Types,
             PidAgrees, NoPexit

(* set_mm_asid runs for the current task, inside exec or a switch. *)
LEMMA AsidPush ==
  ASSUME Inv, phase \in {"task", "satp"}, set_mm_asid, Enter(current, "asid")
  PROVE  /\ StackTypes' /\ SameStacks'
         /\ \A q \in Pids :
              Len(kstack'[q]) = IF q = current THEN Len(kstack[q]) + 1 ELSE Len(kstack[q])
  <1>1. push_callstack(current, "asid", NoBin)
    BY DEF set_mm_asid, Inv, PidAgrees
  <1>2. "asid" \in Fns /\ NoBin \in Names /\ current \in Pids
    BY DEF Fns, Names, Inv, Types, KernelTypes
  <1> QED BY <1>1, <1>2, PushStep DEF Inv, Types

(* The csrw of an exec pushes on both stacks; the task stays inside exec. *)
LEMMA ExecMmapInv ==
  ASSUME Inv, ExecMmap
  PROVE  Inv'
  <1>1. /\ at' = [at EXCEPT ![current] = "execed"] /\ arg' = arg
        /\ phase = "task" /\ phase' = "mmap" /\ at[current] = "exec"
        /\ UNCHANGED current
    BY DEF ExecMmap, Running
  <1>2. KernelTypes'
    <2>1. asids + 1 \in 1 .. MaxAsid /\ asids + 1 \in 0 .. MaxAsid
      BY HooksAssumption DEF Inv, Types, KernelTypes, ExecMmap
    <2>2. arg[current] \in Names
      BY <1>1 DEF Inv, Types, KernelTypes, ArgFits, Names
    <2> QED BY <1>1, <2>1, <2>2 DEF ExecMmap, Inv, Types, KernelTypes, Ats, Phases
  <1>3. TableTypes' /\ cur_pid_' = cur_pid_ /\ ~ pexited'
    BY <1>1, SetMmAsid DEF ExecMmap
  <1>4. /\ StackTypes' /\ SameStacks'
        /\ \A q \in Pids :
             Len(kstack'[q]) = IF q = current THEN Len(kstack[q]) + 1 ELSE Len(kstack[q])
    BY <1>1, AsidPush DEF ExecMmap
  <1>5. ArgFits'
    BY <1>1 DEF Inv, Types, KernelTypes, ArgFits
  <1>6. Depth'
    BY <1>1, <1>4 DEF Inv, Types, KernelTypes, Depth
  <1> QED BY <1>1, <1>2, <1>3, <1>4, <1>5, <1>6 DEF Inv, Types, PidAgrees, NoPexit

(* The length of the current task's stack, where a return pops it. *)
LEMMA ReturnPops ==
  ASSUME Inv, MayPop
  PROVE  Len(kstack[current]) \in Nat \ {0} /\ current \in Pids /\ cur_pid_ = current
  <1>1. current \in Pids
    BY DEF Inv, Types, KernelTypes
  <1>2. phase # "switched"
    BY DEF MayPop, Running
  <1> QED BY <1>1, <1>2 DEF Inv, Depth, MayPop, Running, PidAgrees

(* A return from exec, successful or not, pops both stacks. *)
LEMMA ExecReturnInv ==
  ASSUME Inv, ExecReturn
  PROVE  Inv'
  <1>1. /\ at' = [at EXCEPT ![current] = "user"]
        /\ arg' = [arg EXCEPT ![current] = NoBin]
        /\ phase = "task" /\ at[current] \in {"exec", "execed"}
        /\ UNCHANGED <<phase, current>>
    BY DEF ExecReturn, Running
  <1>2. KernelTypes'
    BY <1>1 DEF ExecReturn, Inv, Types, KernelTypes, Ats, Names
  <1>3. TableTypes' /\ cur_pid_' = cur_pid_ /\ ~ pexited'
    BY DEF ExecReturn, pop_callstack, Inv, Types, TableTypes, NoPexit, tables
  <1>4. /\ StackTypes' /\ SameStacks'
        /\ \A q \in Pids :
             Len(kstack'[q]) = IF q = current THEN Len(kstack[q]) - 1 ELSE Len(kstack[q])
    BY <1>1, ReturnPops, PopStep DEF ExecReturn, MayPop, Inv, Types
  <1>5. ArgFits'
    BY <1>1 DEF Inv, Types, KernelTypes, ArgFits
  <1>6. Depth'
    BY <1>1, <1>4 DEF Inv, Types, KernelTypes, Depth
  <1> QED BY <1>1, <1>2, <1>3, <1>4, <1>5, <1>6 DEF Inv, Types, PidAgrees, NoPexit

(* The choice of the next task changes neither stacks nor tables. *)
LEMMA PickInv ==
  ASSUME Inv, NEW p \in Pids, Pick(p)
  PROVE  Inv'
  <1>1. /\ phase = "task" /\ phase' \in {"switching", "satp"}
        /\ UNCHANGED <<current, at, arg, kstack>>
    BY DEF Pick, tasks
  <1>2. KernelTypes'
    BY <1>1 DEF Pick, tasks, Inv, Types, KernelTypes, Phases
  <1>3. ArgFits' /\ Depth'
    BY <1>1 DEF Inv, ArgFits, Depth
  <1> QED BY <1>1, <1>2, <1>3 DEF Pick, pick_next_task_fair, profVars, tables, Inv, Types,
             TableTypes, StackTypes, PidAgrees, SameStacks, NoPexit

(* The csrw of a switch runs while current is the task that leaves. *)
LEMMA SwitchMmInv ==
  ASSUME Inv, SwitchMm
  PROVE  Inv'
  <1>1. phase = "satp" /\ phase' = "asid" /\ UNCHANGED <<current, at, arg>>
    BY DEF SwitchMm, tasks
  <1>2. KernelTypes'
    BY <1>1 DEF SwitchMm, tasks, Inv, Types, KernelTypes, Phases
  <1>3. TableTypes' /\ cur_pid_' = cur_pid_ /\ ~ pexited'
    BY <1>1, SetMmAsid DEF SwitchMm
  <1>4. /\ StackTypes' /\ SameStacks'
        /\ \A q \in Pids :
             Len(kstack'[q]) = IF q = current THEN Len(kstack[q]) + 1 ELSE Len(kstack[q])
    BY <1>1, AsidPush DEF SwitchMm
  <1>5. ArgFits'
    BY <1>1 DEF Inv, ArgFits
  <1>6. Depth'
    BY <1>1, <1>4 DEF Inv, Types, KernelTypes, Depth
  <1> QED BY <1>1, <1>2, <1>3, <1>4, <1>5, <1>6 DEF Inv, Types, PidAgrees, NoPexit

(* The returns of set_mm_asid and of finish_task_switch. *)
LEMMA KernelReturnInv ==
  ASSUME Inv, SetMmAsidReturn \/ FinishTaskSwitchReturn
  PROVE  Inv'
  <1>1. /\ phase \in {"asid", "mmap", "finish"} /\ phase' \in {"switching", "task"}
        /\ UNCHANGED <<current, at, arg>> /\ pop_callstack /\ Leave
    BY DEF SetMmAsidReturn, FinishTaskSwitchReturn, tasks
  <1>2. KernelTypes'
    BY <1>1 DEF SetMmAsidReturn, FinishTaskSwitchReturn, tasks, Inv, Types, KernelTypes, Phases
  <1>3. TableTypes' /\ cur_pid_' = cur_pid_ /\ ~ pexited'
    BY <1>1 DEF pop_callstack, Inv, Types, TableTypes, NoPexit, tables
  <1>4. /\ StackTypes' /\ SameStacks'
        /\ \A q \in Pids :
             Len(kstack'[q]) = IF q = current THEN Len(kstack[q]) - 1 ELSE Len(kstack[q])
    BY <1>1, ReturnPops, PopStep DEF MayPop, Inv, Types
  <1>5. ArgFits'
    BY <1>1 DEF Inv, ArgFits
  <1>6. Depth'
    <2>1. ASSUME NEW q \in Pids
          PROVE  Len(kstack'[q]) = IF at[q] \in {"exec", "execed"} THEN 1 ELSE 0
      <3>1. Len(kstack[q]) = (IF at[q] \in {"exec", "execed"} THEN 1 ELSE 0)
                               + (IF q = current THEN 1 ELSE 0)
        BY <1>1 DEF Inv, Depth
      <3> QED BY <1>4, <3>1
    <2>2. phase' \notin {"asid", "mmap", "finish"}
      BY <1>1
    <2> QED BY <1>1, <2>1, <2>2 DEF Depth
  <1> QED BY <1>1, <1>2, <1>3, <1>4, <1>5, <1>6 DEF Inv, Types, PidAgrees, NoPexit

(* current becomes the task that was picked, between two hooks. *)
LEMMA SwitchToInv ==
  ASSUME Inv, SwitchTo
  PROVE  Inv'
  <1>1. /\ phase = "switching" /\ phase' = "switched" /\ current' = next /\ next \in Pids
        /\ UNCHANGED <<at, arg, kstack, profVars>>
    BY DEF SwitchTo, tasks, Inv, Types, KernelTypes
  <1>2. KernelTypes'
    BY <1>1 DEF SwitchTo, tasks, Inv, Types, KernelTypes, Phases
  <1>3. ArgFits' /\ Depth'
    BY <1>1 DEF Inv, ArgFits, Depth
  <1> QED BY <1>1, <1>2, <1>3 DEF profVars, tables, Inv, Types, TableTypes, StackTypes, PidAgrees,
             SameStacks, NoPexit

(* cur_pid_ becomes the task that runs, and the push is on its stack. *)
LEMMA FinishTaskSwitchInv ==
  ASSUME Inv, FinishTaskSwitch
  PROVE  Inv'
  <1>1. /\ phase = "switched" /\ phase' = "finish" /\ current \in Pids
        /\ cur_pid_' = current /\ UNCHANGED <<current, at, arg>>
    BY DEF FinishTaskSwitch, finish_task_switch, tasks, Inv, Types, KernelTypes
  <1>2. KernelTypes'
    BY <1>1 DEF FinishTaskSwitch, tasks, Inv, Types, KernelTypes, Phases
  <1>3. TableTypes' /\ ~ pexited'
    BY <1>1 DEF FinishTaskSwitch, finish_task_switch, Inv, Types, TableTypes, NoPexit, tables
  <1>4. /\ StackTypes' /\ SameStacks'
        /\ \A q \in Pids :
             Len(kstack'[q]) = IF q = current THEN Len(kstack[q]) + 1 ELSE Len(kstack[q])
    <2>1. push_callstack(current, "switch", NoBin) /\ Enter(current, "switch")
      BY DEF FinishTaskSwitch, finish_task_switch
    <2>2. "switch" \in Fns /\ NoBin \in Names
      BY DEF Fns, Names
    <2> QED BY <1>1, <2>1, <2>2, PushStep DEF Inv, Types
  <1>5. ArgFits'
    BY <1>1 DEF Inv, ArgFits
  <1>6. Depth'
    <2>1. phase' \in {"asid", "mmap", "finish"} /\ current' = current
      BY <1>1
    <2>2. ASSUME NEW q \in Pids
          PROVE  Len(kstack'[q]) = (IF at[q] \in {"exec", "execed"} THEN 1 ELSE 0)
                                     + (IF q = current THEN 1 ELSE 0)
      <3>1. phase \notin {"asid", "mmap", "finish"}
        BY <1>1
      <3>2. Len(kstack[q]) = (IF at[q] \in {"exec", "execed"} THEN 1 ELSE 0)
        BY <3>1 DEF Inv, Depth
      <3> QED BY <1>4, <3>2
    <2> QED BY <1>1, <2>1, <2>2 DEF Depth
  <1> QED BY <1>1, <1>2, <1>3, <1>4, <1>5, <1>6 DEF Inv, Types, PidAgrees, NoPexit

-----------------------------------------------------------------------------

(* Every step preserves the invariant. *)
LEMMA NextInv == Inv /\ [Next]_vars => Inv'
  <1> SUFFICES ASSUME Inv, [Next]_vars PROVE Inv'
    OBVIOUS
  <1>1. ASSUME NEW c \in Pids, NEW shared \in BOOLEAN, Clone(c, shared) PROVE Inv'
    BY <1>1, CloneInv
  <1>2. ASSUME NEW file \in Bins, Exec(file) PROVE Inv'
    BY <1>2, ExecInv
  <1>3. ASSUME NEW p \in Pids, Pick(p) PROVE Inv'
    BY <1>3, PickInv
  <1>4. CASE CloneReturn
    BY <1>4, CloneReturnInv
  <1>5. CASE ExecMmap
    BY <1>5, ExecMmapInv
  <1>6. CASE ExecReturn
    BY <1>6, ExecReturnInv
  <1>7. CASE SwitchMm
    BY <1>7, SwitchMmInv
  <1>8. CASE SetMmAsidReturn \/ FinishTaskSwitchReturn
    BY <1>8, KernelReturnInv
  <1>9. CASE SwitchTo
    BY <1>9, SwitchToInv
  <1>11. CASE FinishTaskSwitch
    BY <1>11, FinishTaskSwitchInv
  <1>10. CASE UNCHANGED vars
    BY <1>10 DEF Inv, Types, KernelTypes, TableTypes, StackTypes, PidAgrees, ArgFits, Depth,
         SameStacks, NoPexit, vars, kernelVars, profVars, tables, tasks
  <1> QED BY <1>1, <1>2, <1>3, <1>4, <1>5, <1>6, <1>7, <1>8, <1>9, <1>10, <1>11 DEF Next

(* HooksInv holds in every reachable state: whatever is forked, executed   *)
(* and switched, the stacks are the kernel's, and cur_pid_ is the running  *)
(* task but for the moment between the switch of tp and the hook of        *)
(* finish_task_switch.                                                     *)
LEMMA HooksInvariant == Spec => []HooksInv
  <1>1. Spec => []Inv
    BY InitInv, NextInv, PTL DEF Spec
  <1> QED BY <1>1, InvIsHooksInv, PTL

(* Types of the variables. *)
THEOREM TypeCorrect == Spec => []TypeOK
  <1>1. HooksInv => TypeOK
    BY DEF HooksInv
  <1> QED BY <1>1, HooksInvariant, PTL

(* The profiler's call stacks are the kernel's, and pop_callstack, which   *)
(* does not check, never finds an empty vector.                            *)
THEOREM StacksFollowKernel == Spec => []StackIsKernels
  <1>1. HooksInv => StackIsKernels
    <2> SUFFICES ASSUME HooksInv, MayPop PROVE pid_to_callstack_[cur_pid_] # <<>>
      BY DEF HooksInv, StackIsKernels
    <2>1. Inv
      BY InvIsHooksInv
    <2>2. Len(kstack[current]) # 0 /\ current \in Pids /\ cur_pid_ = current
      BY <2>1, ReturnPops
    <2>3. FnsOf(pid_to_callstack_[current]) = kstack[current]
      BY <2>1, <2>2 DEF Inv, SameStacks, FnsOf
    <2>4. pid_to_callstack_[current] \in Seq(Entries)
      BY <2>1, <2>2 DEF Inv, Types, StackTypes
    <2>5. Len(pid_to_callstack_[current]) # 0
      BY <2>2, <2>3, <2>4, FnsType
    <2> QED BY <2>2, <2>5, EmptySeq
  <1> QED BY <1>1, HooksInvariant, PTL

(* The check of set_mm_asid never stops the profiler. *)
THEOREM NeverPexits == Spec => []NoPexit
  <1>1. HooksInv => NoPexit
    BY DEF HooksInv
  <1> QED BY <1>1, HooksInvariant, PTL

-----------------------------------------------------------------------------
\* The process mapping table.

(* A child that has not run since it was cloned is no stray: neither is    *)
(* its parent, and both have the same binary.                              *)
Cloning ==
  \A q \in Pids : at[q] = "clone" =>
    /\ at[arg[q]] # "none"
    /\ arg[q] \notin strays =>
         /\ q \notin strays /\ at[arg[q]] = "user" /\ arg[q] # current
         /\ bin[arg[q]] = bin[q]

(* The table has the binary a task runs, or the one it is about to run.    *)
Tracked ==
  \A p \in Pids \ (strays \union {Idle}) : ~ BeingCloned(p) =>
    /\ at[p] \in {"user", "clone", "execed"} => BinOf(p) = bin[p]
    /\ at[p] = "exec" => BinOf(p) = arg[p]

(* The strengthening of PidsMapped, inductive together with HooksInv.      *)
TableInv == at[Idle] = "user" /\ Cloning /\ Tracked

(* A task that runs while it is being cloned is a stray.                   *)
LEMMA RunsAsStray ==
  ASSUME TypeOK, Cloning, NEW p \in Pids, BeingCloned(p), p \notin strays
  PROVE  p # current /\ at[p] = "user"
  BY DEF Cloning, BeingCloned

(* Initially nothing is being cloned and no entry is written. *)
LEMMA TableInit == Init => TableInv
  <1> SUFFICES ASSUME Init PROVE TableInv
    OBVIOUS
  <1>1. /\ Idle \in Pids /\ InitTask \in Pids
        /\ \A p \in Pids : at[p] = IF p \in {Idle, InitTask} THEN "user" ELSE "none"
        /\ \A p \in Pids : bin[p] = IF p = InitTask THEN X ELSE NoBin
        /\ \A p \in Pids : pid_to_bin_[p] = NoBin
    BY HooksAssumption DEF Init
  <1>2. Cloning
    BY <1>1 DEF Cloning
  <1>3. Tracked
    BY <1>1 DEF Tracked, BinOf
  <1> QED BY <1>1, <1>2, <1>3 DEF TableInv

(* What is left alone leaves the table invariant.                          *)
LEMMA TableSame ==
  ASSUME TableInv, UNCHANGED <<at, arg, bin, strays, current, pid_to_bin_>>
  PROVE  TableInv'
  BY DEF TableInv, Cloning, Tracked, BeingCloned, BinOf

(* A fork makes a child that shares its parent's binary; a stray is marked. *)
LEMMA TableClone ==
  ASSUME HooksInv, TableInv, NEW c \in Pids, NEW shared \in BOOLEAN, Clone(c, shared)
  PROVE  TableInv'
  <1>1. /\ at[current] = "user" /\ current # Idle /\ at[c] = "none" /\ current \in Pids /\ c # current
        /\ at' = [at EXCEPT ![current] = "clone", ![c] = "user"]
        /\ arg' = [arg EXCEPT ![current] = c] /\ bin' = [bin EXCEPT ![c] = bin[current]]
        /\ strays' = IF current \in strays THEN strays \union {c} ELSE strays
        /\ UNCHANGED <<current, pid_to_bin_>>
        /\ DOMAIN at = Pids /\ DOMAIN arg = Pids /\ DOMAIN bin = Pids
        /\ \A q \in Pids : at[q] = "clone" => arg[q] \in Pids
    BY DEF Clone, Running, HooksInv, TypeOK, ArgFits, profVars, tables
  <1>2. /\ at'[current] = "clone" /\ at'[c] = "user" /\ \A p \in Pids \ {current, c} : at'[p] = at[p]
        /\ arg'[current] = c /\ \A p \in Pids \ {current} : arg'[p] = arg[p]
        /\ bin'[c] = bin[current] /\ \A p \in Pids \ {c} : bin'[p] = bin[p]
    BY <1>1
  <1>3. at'[Idle] = "user"
    BY <1>1, <1>2, HooksAssumption DEF TableInv
  <1>4. Cloning'
    <2> SUFFICES ASSUME NEW q \in Pids, at'[q] = "clone"
                 PROVE  /\ at'[arg'[q]] # "none"
                        /\ arg'[q] \notin strays' =>
                             /\ q \notin strays' /\ at'[arg'[q]] = "user" /\ arg'[q] # current
                             /\ bin'[arg'[q]] = bin'[q]
      BY <1>1 DEF Cloning
    <2>1. CASE q = current
      BY <1>1, <1>2, <2>1
    <2>2. CASE q # current
      <3>1. /\ q # c /\ at[q] = "clone" /\ arg'[q] = arg[q] /\ arg[q] \in Pids
            /\ at[arg[q]] # "none" /\ bin'[q] = bin[q]
        BY <1>1, <1>2, <2>2 DEF TableInv, Cloning
      <3>2. arg[q] # c
        BY <1>1, <3>1
      <3>3. at'[arg[q]] # "none"
        BY <1>1, <1>2, <3>1, <3>2
      <3>4. ASSUME arg[q] \notin strays'
            PROVE  /\ q \notin strays' /\ at'[arg[q]] = "user" /\ arg[q] # current
                   /\ bin'[arg[q]] = bin[q]
        <4>1. /\ arg[q] \notin strays /\ q \notin strays /\ at[arg[q]] = "user" /\ arg[q] # current
              /\ bin[arg[q]] = bin[q]
          BY <1>1, <3>1, <3>4 DEF TableInv, Cloning
        <4> QED BY <1>1, <1>2, <3>1, <3>2, <4>1
      <3> QED BY <3>1, <3>3, <3>4
    <2> QED BY <2>1, <2>2
  <1>5. \A p \in Pids : BeingCloned(p)' <=> BeingCloned(p) \/ p = c
    BY <1>1, <1>2 DEF BeingCloned
  <1>6. Tracked'
    <2> SUFFICES ASSUME NEW p \in Pids \ (strays' \union {Idle}), ~ BeingCloned(p), p # c
                 PROVE  /\ at'[p] \in {"user", "clone", "execed"} => BinOf(p)' = bin'[p]
                        /\ at'[p] = "exec" => BinOf(p)' = arg'[p]
      BY <1>5 DEF Tracked
    <2>1. p \notin strays /\ BinOf(p)' = BinOf(p) /\ bin'[p] = bin[p]
      BY <1>1, <1>2 DEF BinOf
    <2> QED BY <1>1, <1>2, <2>1 DEF TableInv, Tracked
  <1> QED BY <1>3, <1>4, <1>6 DEF TableInv

(* The return of kernel_clone gives the child its parent's entry. *)
LEMMA TableCloneReturn ==
  ASSUME HooksInv, TableInv, CloneReturn
  PROVE  TableInv'
  <1> DEFINE c == arg[current]
  <1>1. /\ at[current] = "clone" /\ current \in Pids /\ c \in Pids /\ current # Idle
        /\ at' = [at EXCEPT ![current] = "user"] /\ arg' = [arg EXCEPT ![current] = NoBin]
        /\ pid_to_bin_' = [pid_to_bin_ EXCEPT ![c] = BinOf(current)]
        /\ UNCHANGED <<bin, strays, current>>
        /\ DOMAIN at = Pids /\ DOMAIN arg = Pids /\ DOMAIN pid_to_bin_ = Pids
        /\ \A q \in Pids : at[q] = "clone" => arg[q] \in Pids
    BY DEF CloneReturn, Running, kernel_clone, BinOf, HooksInv, TypeOK, ArgFits, TableInv
  <1>2. /\ at'[current] = "user" /\ \A p \in Pids \ {current} : at'[p] = at[p] /\ arg'[p] = arg[p]
        /\ pid_to_bin_'[c] = BinOf(current) /\ \A p \in Pids \ {c} : pid_to_bin_'[p] = pid_to_bin_[p]
    BY <1>1
  <1>3. at'[Idle] = "user"
    BY <1>1, <1>2, HooksAssumption DEF TableInv
  <1>4. Cloning'
    <2> SUFFICES ASSUME NEW q \in Pids, at'[q] = "clone"
                 PROVE  /\ at'[arg'[q]] # "none"
                        /\ arg'[q] \notin strays =>
                             /\ q \notin strays /\ at'[arg'[q]] = "user" /\ arg'[q] # current
                             /\ bin[arg'[q]] = bin[q]
      BY <1>1 DEF Cloning
    <2>1. q # current /\ at[q] = "clone" /\ arg'[q] = arg[q] /\ arg[q] \in Pids
      BY <1>1, <1>2
    <2> QED BY <1>1, <1>2, <2>1 DEF TableInv, Cloning
  <1>5. \A p \in Pids : BeingCloned(p) => BeingCloned(p)' \/ p = c
    BY <1>1, <1>2 DEF BeingCloned
  <1>6. BinOf(current) # NoBin
    BY HooksAssumption DEF BinOf
  <1>7. Tracked'
    <2> SUFFICES ASSUME NEW p \in Pids \ (strays \union {Idle}), ~ BeingCloned(p)'
                 PROVE  /\ at'[p] \in {"user", "clone", "execed"} => BinOf(p)' = bin[p]
                        /\ at'[p] = "exec" => BinOf(p)' = arg'[p]
      BY <1>1 DEF Tracked
    <2>1. CASE p = c
      <3>1. current \notin strays /\ at[c] = "user" /\ c # current /\ bin[c] = bin[current]
        BY <1>1, <2>1 DEF TableInv, Cloning
      <3>2. ~ BeingCloned(current)
        BY <1>1, <3>1, RunsAsStray DEF TableInv, HooksInv
      <3>3. BinOf(current) = bin[current]
        BY <1>1, <3>1, <3>2 DEF TableInv, Tracked
      <3>4. BinOf(p)' = BinOf(current)
        BY <1>2, <1>6, <2>1 DEF BinOf
      <3> QED BY <1>2, <2>1, <3>1, <3>3, <3>4
    <2>2. CASE p # c
      <3>1. ~ BeingCloned(p) /\ BinOf(p)' = BinOf(p)
        BY <1>2, <1>5, <2>2 DEF BinOf
      <3> QED BY <1>1, <1>2, <3>1 DEF TableInv, Tracked
    <2> QED BY <2>1, <2>2
  <1> QED BY <1>3, <1>4, <1>7 DEF TableInv

(* Entering exec writes the entry of the binary the task is about to run. *)
LEMMA TableExec ==
  ASSUME HooksInv, TableInv, NEW file \in Bins, Exec(file)
  PROVE  TableInv'
  <1>1. /\ at[current] = "user" /\ current \in Pids /\ current # Idle
        /\ at' = [at EXCEPT ![current] = "exec"] /\ arg' = [arg EXCEPT ![current] = file]
        /\ pid_to_bin_' = [pid_to_bin_ EXCEPT ![current] = file]
        /\ strays' = IF BeingCloned(current) THEN strays ELSE strays \ {current}
        /\ UNCHANGED <<bin, current>>
        /\ DOMAIN at = Pids /\ DOMAIN arg = Pids /\ DOMAIN pid_to_bin_ = Pids
    BY DEF Exec, Running, do_execveat_common, HooksInv, TypeOK
  <1>2. /\ at'[current] = "exec" /\ arg'[current] = file /\ pid_to_bin_'[current] = file
        /\ \A p \in Pids \ {current} : /\ at'[p] = at[p] /\ arg'[p] = arg[p]
                                       /\ pid_to_bin_'[p] = pid_to_bin_[p]
    BY <1>1
  <1>3. \A p : BeingCloned(p)' <=> BeingCloned(p)
    BY <1>1, <1>2 DEF BeingCloned
  <1>4. Cloning'
    <2> SUFFICES ASSUME NEW q \in Pids, at'[q] = "clone"
                 PROVE  /\ at'[arg'[q]] # "none"
                        /\ arg'[q] \notin strays' =>
                             /\ q \notin strays' /\ at'[arg'[q]] = "user" /\ arg'[q] # current
                             /\ bin[arg'[q]] = bin[q]
      BY <1>1 DEF Cloning
    <2>1. q # current /\ at[q] = "clone" /\ arg'[q] = arg[q] /\ arg[q] \in Pids /\ BeingCloned(arg[q])
      BY <1>1, <1>2 DEF BeingCloned, HooksInv, ArgFits
    <2>2. arg[q] = current => current \in strays /\ current \in strays'
      BY <1>1, <2>1, RunsAsStray DEF TableInv, HooksInv
    <2> QED BY <1>1, <1>2, <2>1, <2>2 DEF TableInv, Cloning
  <1>5. Tracked'
    <2> SUFFICES ASSUME NEW p \in Pids \ (strays' \union {Idle}), ~ BeingCloned(p)
                 PROVE  /\ at'[p] \in {"user", "clone", "execed"} => BinOf(p)' = bin[p]
                        /\ at'[p] = "exec" => BinOf(p)' = arg'[p]
      BY <1>1, <1>3 DEF Tracked
    <2>1. CASE p = current
      BY <1>2, <2>1, HooksAssumption DEF BinOf
    <2>2. CASE p # current
      <3>1. p \notin strays /\ BinOf(p)' = BinOf(p)
        BY <1>1, <1>2, <2>2 DEF BinOf
      <3> QED BY <1>2, <2>2, <3>1 DEF TableInv, Tracked
    <2> QED BY <2>1, <2>2
  <1>6. at'[Idle] = "user"
    BY <1>1, <1>2, HooksAssumption DEF TableInv
  <1> QED BY <1>4, <1>5, <1>6 DEF TableInv

(* The csrw of an exec starts the binary the table already has. *)
LEMMA TableExecMmap ==
  ASSUME HooksInv, TableInv, ExecMmap
  PROVE  TableInv'
  <1>1. /\ at[current] = "exec" /\ current \in Pids /\ current # Idle
        /\ at' = [at EXCEPT ![current] = "execed"] /\ bin' = [bin EXCEPT ![current] = arg[current]]
        /\ UNCHANGED <<arg, strays, current, pid_to_bin_>>
        /\ DOMAIN at = Pids /\ DOMAIN bin = Pids
        /\ \A q \in Pids : at[q] = "clone" => arg[q] \in Pids
    BY DEF ExecMmap, Running, set_mm_asid, HooksInv, TypeOK, ArgFits, TableInv
  <1>2. /\ at'[current] = "execed" /\ bin'[current] = arg[current]
        /\ \A p \in Pids \ {current} : at'[p] = at[p] /\ bin'[p] = bin[p]
    BY <1>1
  <1>3. \A p : BeingCloned(p)' <=> BeingCloned(p)
    BY <1>1, <1>2 DEF BeingCloned
  <1>4. Cloning'
    <2> SUFFICES ASSUME NEW q \in Pids, at'[q] = "clone"
                 PROVE  /\ at'[arg[q]] # "none"
                        /\ arg[q] \notin strays =>
                             /\ q \notin strays /\ at'[arg[q]] = "user" /\ arg[q] # current
                             /\ bin'[arg[q]] = bin'[q]
      BY <1>1 DEF Cloning
    <2>1. q # current /\ at[q] = "clone" /\ arg[q] \in Pids
      BY <1>1, <1>2
    <2> QED BY <1>1, <1>2, <2>1 DEF TableInv, Cloning
  <1>5. Tracked'
    <2> SUFFICES ASSUME NEW p \in Pids \ (strays \union {Idle}), ~ BeingCloned(p)
                 PROVE  /\ at'[p] \in {"user", "clone", "execed"} => BinOf(p)' = bin'[p]
                        /\ at'[p] = "exec" => BinOf(p)' = arg[p]
      BY <1>1, <1>3 DEF Tracked
    <2>1. BinOf(p)' = BinOf(p)
      BY <1>1 DEF BinOf
    <2> QED BY <1>1, <1>2, <2>1 DEF TableInv, Tracked
  <1>6. at'[Idle] = "user"
    BY <1>1, <1>2, HooksAssumption DEF TableInv
  <1> QED BY <1>4, <1>5, <1>6 DEF TableInv

(* A failed exec makes a stray; after a successful one the entry is right. *)
LEMMA TableExecReturn ==
  ASSUME HooksInv, TableInv, ExecReturn
  PROVE  TableInv'
  <1>1. /\ at[current] \in {"exec", "execed"} /\ current \in Pids
        /\ at' = [at EXCEPT ![current] = "user"] /\ arg' = [arg EXCEPT ![current] = NoBin]
        /\ strays' = IF at[current] = "exec" THEN strays \union {current} ELSE strays
        /\ UNCHANGED <<bin, current, pid_to_bin_>>
        /\ DOMAIN at = Pids /\ DOMAIN arg = Pids
        /\ \A q \in Pids : at[q] = "clone" => arg[q] \in Pids
    BY DEF ExecReturn, Running, pop_callstack, tables, HooksInv, TypeOK, ArgFits
  <1>2. /\ at'[current] = "user"
        /\ \A p \in Pids \ {current} : at'[p] = at[p] /\ arg'[p] = arg[p]
    BY <1>1
  <1>3. \A p : BeingCloned(p)' <=> BeingCloned(p)
    BY <1>1, <1>2 DEF BeingCloned
  <1>4. Cloning'
    <2> SUFFICES ASSUME NEW q \in Pids, at'[q] = "clone"
                 PROVE  /\ at'[arg'[q]] # "none"
                        /\ arg'[q] \notin strays' =>
                             /\ q \notin strays' /\ at'[arg'[q]] = "user" /\ arg'[q] # current
                             /\ bin[arg'[q]] = bin[q]
      BY <1>1 DEF Cloning
    <2>1. q # current /\ at[q] = "clone" /\ arg[q] \in Pids /\ arg'[q] = arg[q]
      BY <1>1, <1>2
    <2> QED BY <1>1, <1>2, <2>1 DEF TableInv, Cloning
  <1>5. Tracked'
    <2> SUFFICES ASSUME NEW p \in Pids \ (strays' \union {Idle}), ~ BeingCloned(p)
                 PROVE  /\ at'[p] \in {"user", "clone", "execed"} => BinOf(p)' = bin[p]
                        /\ at'[p] = "exec" => BinOf(p)' = arg'[p]
      BY <1>1, <1>3 DEF Tracked
    <2>1. p \notin strays /\ BinOf(p)' = BinOf(p)
      BY <1>1 DEF BinOf
    <2> QED BY <1>1, <1>2, <2>1 DEF TableInv, Tracked
  <1>6. at'[Idle] = "user"
    BY <1>2, HooksAssumption DEF TableInv
  <1> QED BY <1>4, <1>5, <1>6 DEF TableInv

(* A task that runs while it is still being cloned becomes a stray. *)
LEMMA TableSwitchTo ==
  ASSUME HooksInv, TableInv, SwitchTo
  PROVE  TableInv'
  <1>1. /\ current' = next /\ next \in Pids
        /\ strays' = IF BeingCloned(next) THEN strays \union {next} ELSE strays
        /\ UNCHANGED <<at, arg, bin, pid_to_bin_>>
        /\ \A q \in Pids : at[q] = "clone" => arg[q] \in Pids
    BY DEF SwitchTo, tasks, profVars, tables, HooksInv, TypeOK, ArgFits
  <1>2. \A p : BeingCloned(p)' <=> BeingCloned(p)
    BY <1>1 DEF BeingCloned
  <1>3. Cloning'
    <2> SUFFICES ASSUME NEW q \in Pids, at[q] = "clone", arg[q] \notin strays'
                 PROVE  /\ q \notin strays' /\ at[arg[q]] = "user" /\ arg[q] # next
                        /\ bin[arg[q]] = bin[q]
      BY <1>1 DEF TableInv, Cloning
    <2>1. /\ arg[q] \notin strays /\ q \notin strays /\ at[arg[q]] = "user"
          /\ bin[arg[q]] = bin[q]
      BY <1>1 DEF TableInv, Cloning
    <2>2. ~ BeingCloned(q)
      BY <2>1, RunsAsStray DEF TableInv, HooksInv
    <2>3. arg[q] # next
      BY <1>1 DEF BeingCloned
    <2> QED BY <1>1, <2>1, <2>2, <2>3
  <1>4. Tracked'
    BY <1>1, <1>2 DEF TableInv, Tracked, BinOf
  <1> QED BY <1>1, <1>3, <1>4 DEF TableInv

(* Every step preserves the table invariant. *)
LEMMA TableNext == HooksInv /\ TableInv /\ [Next]_vars => TableInv'
  <1> SUFFICES ASSUME HooksInv, TableInv, [Next]_vars PROVE TableInv'
    OBVIOUS
  <1>1. ASSUME NEW p \in Pids, Pick(p) PROVE TableInv'
    BY <1>1, TableSame DEF Pick, pick_next_task_fair, tasks, profVars, tables
  <1>2. CASE SwitchMm
    BY <1>2, TableSame DEF SwitchMm, set_mm_asid, tasks
  <1>5. CASE FinishTaskSwitch
    BY <1>5, TableSame DEF FinishTaskSwitch, finish_task_switch, tasks, tables
  <1>3. CASE SetMmAsidReturn \/ FinishTaskSwitchReturn
    BY <1>3, TableSame DEF SetMmAsidReturn, FinishTaskSwitchReturn, pop_callstack, tasks, tables
  <1>4. CASE UNCHANGED vars
    BY <1>4, TableSame DEF vars, kernelVars, profVars, tasks, tables
  <1> QED BY <1>1, <1>2, <1>3, <1>4, <1>5, TableClone, TableCloneReturn, TableExec, TableExecMmap,
             TableExecReturn, TableSwitchTo DEF Next

(* The process mapping table has the binary of every task whose fork and   *)
(* exec have returned, strays excepted: update_profiler of do_execveat_    *)
(* common and kernel_clone write it at the right moments for all others.   *)
THEOREM TableIsRight == Spec => []PidsMapped
  <1>1. TableInv => PidsMapped
    BY DEF TableInv, Tracked, PidsMapped, Mapped
  <1> QED BY <1>1, HooksInvariant, TableInit, TableNext, PTL DEF Spec
=============================================================================
