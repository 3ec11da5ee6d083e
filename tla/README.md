# Verification of the vertical profiler

The vertical profiler runs a RISC-V system (firmware, Linux, user programs) on a
functional simulator built from Spike, watches the program counters it executes, and
rebuilds from them who was running: which process, which binary, inside which kernel
functions. It does so in two ways: alone, with checkpoints and rewinds
(`profiler_t::run`), or in lockstep with the commit log of an RTL simulation
(`profiler_t::run_from_trace`). This directory holds TLA+ models of its core, TLC
configurations for them and TLAPS proofs about them.

All paths below are relative to `src/src/` unless they begin with `src/`.

    tlc -config MCTraceReader.cfg MCTraceReader      # one of the runs of PROJECT.json
    tlapm TraceReader_proofs.tla                     # one of the eight proof modules

## 1. The system

| Component | Source | State it keeps | Operations | Status |
|---|---|---|---|---|
| Trace reader | `lib/trace_reader.*` | ring buffers, `consumable`, `producer_id`, `consumer_id`, `trace_id`, `init` | claim, decompress, publish, drain, release, advance | modelled |
| Thread pools and logger | `profiler/thread_pool.*`, `profiler/logger.*` | job queues, `should_terminate`, `packet_traces_`, `trace_idx_` | `queue_job`, `stop`, `threadloop`, submit, flush | modelled |
| Functional-only loop | `profiler/profiler.cc` `run`, `spike-top/sim_lib.cc` `run_for` | checkpoint, `target_trace`, timestamp, locals of the loop | checkpoint, batch, scan, pop, rewind, fast forward, single step, submit | modelled |
| Lockstep loop | `profiler/profiler.cc` `run_from_trace` | line buffer, `cnt`, exit code | consume a line, bubble, step, look at the pc, next buffer | modelled |
| Kernel function hooks | `profiler/callstack_info.*`, `profiler/profiler_state.*` | `pid_to_bin_`, `asid_to_bin_`, `cur_pid_`, `pid_to_callstack_` | `update_profiler` of five kernel functions, push, pop | partly |
| In-place memory checkpoint | `spike-top/mmu_lib.*`, `sim_lib.cc` (`serialize_proto`, `deserialize_proto`) | `ckpt_ppn`, `mm_ckpt`, `ckpt_mempool`, `serialize_called`, TLBs | store, copy a page, save, restore | partly |
| Architectural checkpoint | `spike-top/processor_lib.cc`, `sim_lib.cc`, `ns16550_lib.cc` | registers, CSRs, CLINT, PLIC, UART; the message | serialize, deserialize | modelled |
| Checkpoint message classes | `spike-top/arch-state.pb.*` | fields, has bits, bytes | set, read, write to bytes, parse | modelled |
| Ganged step | `sim_lib.cc` `ganged_step` | Spike's hart, `processor_step_cnt` | refuse, force an interrupt, tick, step, compare, lower, write back | modelled |
| Lockstep devices | `spike-top/ganged_devices.*` | the PLIC's `interrupt_vector`, CLINT registers | submit, lower, alert, store, tick | partly |
| Objdump and string parsers | `profiler/objdump_parser.*`, `lib/string_parser.*` | function bodies, first and last addresses | read a listing; find exits, calls, CSR writes, registers | modelled |
| DWARF tables | `tracerv/tracerv_dwarf.*`, `tracerv_elf.*`, `tracerv_processing.*` | table of subroutines, array of labels | enter DWARF entries and symbols, fill the array, look up | modelled |
| Stack unwinder | `profiler/stack_unwinder*`, `tracerv/trace_tracker.*` | stack of labels | fold executed addresses into a stack | partly |
| Memory layout | `profiler/profiler_main.cc`, `spike-top/spike_lib.cc` | memory regions | parse `-m`, align, merge overlapping regions | partly |
| Perfetto output, reformatting tool, scripts | | | formatting | left out |

### How the parts interact

    RTL files ──> trace reader threads ──rings──> run_from_trace ──┐
                                                                  ├─hooks─> profiler_state
    run: checkpoint ─ batch ─ scan ─ rewind ─ single step ─────────┘          │
         │                                                     packets, traces│
    sim_lib / mmu_lib (serialize, deserialize, stores)               logger + thread pools
         └─ arch-state messages                                               │
    run_from_trace ─ ganged_step ─ ganged PLIC, CLINT, plugin devices     trace files
                                                                              │
    before: objdump listing ─> objdump_parser ─> pcs to register          stack_unwinder
            -m base:size ─> memory regions                  DWARF, symbols ───┘

The profiler thread calls everything by plain calls. It shares memory with two other kinds
of thread: the decompressing threads of the reader (under `buffer_mutex` and
`consumable_mutex`; the rings themselves have no lock) and the two pools of the logger
(under a mutex and a condition variable each). The target is a third party: it is
deterministic given its state, but which instruction comes next, when a task is switched
and when an interrupt is taken is not in the profiler's hands.

### What is hard, and what makes each part correct

* Trace reader: ownership of a buffer is passed by two indices of which equality means
  both *full* and *empty*. Correct: one owner per buffer at a time, lines in file order,
  each claimed file delivered and released.
* Pools and logger: lost wakeups, the order of packets, what becomes of jobs that are
  queued when `stop` is called. Correct: each job is run once, in order for events; `stop`
  returns; nothing is lost.
* Functional-only loop: what was counted in the first execution (pops, steps to the
  start) is used on the second. Correct: each intercepted pc is accounted for once and in
  program order, and the submitted traces are one execution of the program.
* Lockstep loop: the profiler is one instruction ahead of the trace and looks at tohost
  only now and then. Correct: the same promise as the other loop, and an end.
* Ganged step: the functional hart takes an interrupt when its own `mip` and `mie` say so
  and not when the trace does; a bit forced into `mip` stays until a store lowers it, and
  the devices of the two simulators finish their work at different times. Correct: after
  each line both harts are at the same place with the same register and enabled interrupts,
  nothing is left pending, and the PLIC knows the devices that have asked.
* Hooks: they run at the entry of some functions and the return of others, while tasks
  are switched in between. Correct: the stacks are the kernel's, the tables name the
  binary that runs.
* Checkpoint: stores that hit the TLB are not seen. Correct: what would be restored is
  always the memory at the checkpoint, and every register is both saved and restored,
  through a message of which a field that was never set reads as zero.
* Offline tools: tables in which entries overlap, have gaps and no end; a stack told from
  labels alone; words at fixed positions of lines of different lengths; sums that wrap.
  Correct: each agrees with what the table, the program, the listing or the command line says.

`PROJECT.json` lists these as hazards, each at its line, with the properties that cover it.

## 2. The modules

| Module | What it is |
|---|---|
| `TraceBuffer` | `trace_buffer_t` as operators on a ring record |
| `TraceReader` | the reader's threads and the profiler thread that drains it |
| `TraceDelivery` | abstract: the lines of all files, one at a time, in order |
| `ThreadPool` | `threadpool_t`, one action per critical section |
| `Logger` | `logger_t` over two instances of `ThreadPool` |
| `ProfilerState` | the view (current PID, call stacks), what an intercepted instruction does to it |
| `Interception` | abstract: every registered pc accounted for once, in program order |
| `RewindLoop` | `profiler_t::run` with `run_for`; implements `Interception` |
| `HartModel` | the hart both simulators have: program, interrupts by priority, handlers (external) |
| `GangedDevices` | the ganged PLIC and CLINT, as operators on a record |
| `GangedStep` | `sim_lib_t::ganged_step` on `HartModel` and `GangedDevices` |
| `Lockstep` | `profiler_t::run_from_trace` over `GangedStep`, and the RTL (external); implements `Interception` |
| `KernelHooks` | the five `update_profiler` functions driven by a model of fork, exec, schedule |
| `SnapshotMemory` | abstract: memory that is saved and restored as a whole |
| `PageCheckpoint` | lazy page copies; implements `SnapshotMemory` |
| `ArchStateProto` | the generated message classes: fields, wire tags, writing and parsing |
| `HartCheckpoint` | what the message of a checkpoint holds, and what is taken from it; uses `ArchStateProto` |
| `Checkpoint` | `PageCheckpoint` and `HartCheckpoint` together: the two calls as a whole |
| `ProgText` | the table of a binary's subroutines and the array of labels |
| `StackUnwinder` | `add_instruction` over `ProgText`, and a program with its true stack (external) |
| `ObjdumpParser` | the listing's functions and the look-ups in them |
| `MemLayout` | the `-m` option |
| `MC*` | instances for TLC; `MCOfflineTools` holds the last four, a behaviour being one of them |
| `*_proofs` | theorems and their proofs |

An operator with a suffix (`MayClaim_Always` before `MayClaim`) is a plausible fault of the
definition after it; it is in no behaviour, and each checked property is known to fail
when the definition is replaced by one of these.

### TraceReader

| Model | Code |
|---|---|
| `consumer_id`, `producer_id`, `trace_id`, `init` | the members of `trace_reader_t` |
| `worker[t]` | a thread's place in `threadloop` and its locals |
| `cpc`, `bufid`, `taken` | the profiler thread's place in the loop of `run_from_trace`, its counter, and lines taken |
| `Claim` | the critical section of `threadloop`, 155-173 |
| `OpenAndRead` | `gzopen`, `gzread`; without a free descriptor the file looks empty, as in the code |
| `PushLine`, `Publish` | `generate_trace`, one line and the end |
| `CanConsume`, `Pop`, `DoneConsume`, `PopBuffer` | the calls of the same names |
| `FileAppears` | the RTL simulation (external) |

A line of a trace is `<<file, number>>`. `assert(!full())` sets `aborted`, after which
nothing happens. Note that `done_consume` and `pop_buffer` are separate critical sections,
and that between them the buffer is unpublished but still current.

### ThreadPool and Logger

Each critical section of `queue_job`, `stop` and `threadloop` is one action; the
notification and the joins, which come after the unlock, are actions of their own, so
that a thread can run in between. `pc[t] = "wait"` is the condition variable's wait set;
`NotifyOne` wakes one member or none, `SpuriousWakeup` models wakeups without cause.
`Logger` instantiates the pool for `start(4)` and `start(1)`. The profiler thread may call
the submit functions in any order before the final flush, which covers both loops.

### ProfilerState, RewindLoop

An instruction is what the profiler makes of its pc: `start` (registered with
`add_prof_func`), `exit` (`add_prof_exit`) or `plain`, with what its hook does to the
current PID and the stacks, how many trace entries one execution leaves (two when Spike
serializes and retries), whether it ends the processor's step, and, for the lockstep mode,
what it does to the hart and the devices (`op`, `arg`).

`RewindLoop` follows `run` statement by statement: `TakeCheckpoint`, `run_for` (as
`HandleTohost`, `StepTarget`, `Execute`, `Return`), `Scan`, `PopOne`, `Rewind`, the top of
the do-while `LookAndStep`, `Submit`, `Finish`. `m` is the state a checkpoint saves; the
exit code and `in_wfi` are outside it, as in the code. Timer interrupts come from `mtime`,
which advances by `dev_step` per step of the target: differently in the batch and in the
replay. That is why the replay may take another path. Whether the timer is set is chosen with
the program (`timed`), since the promises differ (section 6).

### HartModel, GangedDevices, GangedStep, Lockstep

| Model | Code |
|---|---|
| `spike` | the processor `ganged_step` steps: pc, interrupt state, one register |
| `devs.interrupt_vector` | the member of `plic_ganged_t` |
| `devs.working` | devices (plugins) with work that their next tick finishes |
| `Refused` | `return false` before the step: no pending interrupt, unknown cause |
| `DevsAsked`, `DevsTicked` | the tick for an SEIP with no bit set, and that of every `DEVICE_TICK_PERIOD`-th step |
| `Forced` | `backdoor_write_with_mask` of `mip` |
| `HartStepped`, `DevsStepped` | `proc->step(1)` (Spike): an interrupt, or an instruction with its device accesses |
| `Lowered` | the scan of `log_mem_write` for stores to the CLINT |
| `WrittenBack` | the scan of `log_reg_write`: the trace's value replaces Spike's |
| `Mismatch` | the comparison of the pc, for a line that retires |
| `rtl`, `asked`, `unserved`, `early` | the RTL's hart and devices (external), and history |
| `Consume`, `Turn`, `PopBuffer`, `Finish` | the loops of `run_from_trace` |
| `Bubble`, `Retire`, `TakeException`, `TakeInterrupt` | the kinds of line; `CheckTohost` and `Look` are the rest of the body |

The RTL runs a program of `HartModel` with its own devices, writes a line for each step and
takes a hardware interrupt at any time after it rises. Spike runs the same program; the
values its loads return differ, and its devices finish at other times. The handlers are
those of the kernel and the firmware as far as `ganged_step` depends on them: which stores
lower an interrupt, and where the timer is masked and handed on as STIP.

### KernelHooks

The upper half is the code: `do_execveat_common`, `set_mm_asid`, `kernel_clone`,
`pick_next_task_fair`, `finish_task_switch` are the bodies of the `update_profiler` functions
followed by the caller's `push_callstack`. The lower half is the environment, marked
external: tasks that fork (with an own or a shared address space), exec (which may fail),
and are switched wherever they may sleep, on one hart (the code reads `get_core(0)`
only). Every kernel step that passes a registered pc runs its hook. The switch of the task
register (`SwitchTo`) and the hook at the entry of `finish_task_switch` are two steps, with `cur_pid_` one task
behind in between. `kstack` is the
kernel's truth the profiler's stacks are compared with. `strays` is a history variable
that names the two orders of events that make the PID table wrong.

### PageCheckpoint

`StoreFast` (a TLB hit, Spike's), `StoreSlow` (`store_slow_path_intrapage`), `Touch` (Spike's
`mem_t` allocates a page), `Evict`, `serialize_proto`, `deserialize_proto`. Host pages and
buffers are what malloc returns, so pages freed by a restore may come back for another
page number. `Mmus` are the hart's and `debug_mmu`. `saved` is a history variable.

### ArchStateProto, HartCheckpoint, Checkpoint

The target's state is a function on cells `<<register, index, part>>`. `Saved*` lists the
fields `serialize_proto` sets, `Restored*` those `deserialize_proto` takes, each in the order
and the groups of the code; `CellOf` is where the `gen_*` functions read a field from,
`FieldFor` which field a cell has in the end after the `set_*` functions, some of which write
a register that belongs to another CSR. The cells come from both tables, so that a register
missing in one of them is a cell that is not brought back. `ckpt_uart` is the copy the UART
keeps to itself. `NotRestored` is what the code does not promise: `in_wfi`, `fromhost_queue`,
the exit code, and the value of `hstateen`, which is lost.

Between the two calls the message is a string of bytes. `ArchStateProto` holds, for every
class in it, the table of its fields, by which the accessors work and which says what an unset
field reads as, and the table of its wire tags, by which `_InternalSerialize` writes and
`_InternalParse` reads. The two tables come from different functions of the generated code; a
field that has one tag when written and another when read, or none, is a cell lost.

`Checkpoint` joins the halves of the two calls; `MCCheckpoint` lets a behaviour change the
memory or one cell, since the halves share nothing and every cell is copied by itself.

### ProgText, StackUnwinder

`die_subprogram` and `Symbol` enter one DWARF entry or symbol into `table`, with the rules for
entries that exist already; `Allocate`, `Populate` and `FillEnd` are the constructor's loop
over the table, with `offset` and `prev` its locals. `subroutine_find` is the code's look-up in
the table itself, against which the array is checked. `StackUnwinder` executes addresses of a
program that keeps its `frames`: `Nested` calls and returns, `TailCall`, `Interrupt` and
`Switch` between tasks; each runs `add_instruction` on the address. What can be recovered of
the true stack is `Expected`, written without reference to the algorithm.

### ObjdumpParser, MemLayout

`ReadLine` is one turn of the constructor's loop, for any line of a small set: a title, an
instruction with and without operands, an empty line. The look-ups (`get_func_exits_va`,
`get_func_csrw_va`, `func_args_reg`, ...) are operators over the maps it leaves; the
position rules, and the vector that is not cleared, are as in the code. `Tuple`, `BeginMerge`,
`MergeNext`, `EndMerge` follow `parse_mem_layout` and `merge_overlapping_memory_regions`, with
sums modulo `WORD`.

## 3. The runs

| Run | Shows | Distinct states |
|---|---|---|
| `trace_reader` | ownership, in-order delivery, release of claimed files, no assertion failure | 5,315 |
| `trace_reader_stall` | finding: files that come late are never read | |
| `logger` | packets and traces owned once, events in order, no lost wakeup, `stop` returns | 27,554 |
| `logger_lost` | finding: queued jobs are dropped by `stop` | |
| `rewind_loop` | each intercepted pc once, at its place, timestamps bounded; with a timer and WFI the traces are still one execution; the run ends | 401,694 |
| `rewind_loop_exit` | finding: an exit in a batch with an intercepted start never ends | |
| `lockstep` | both harts stay together through interrupts, exceptions and loads; the same promise as the other loop, across bubbles and files; it ends | 678,581 |
| `checkpoint` | lazy copies implement save and restore; registers, CSRs and devices come back through the message's bytes | 11,047 |
| `kernel_hooks` | stacks are the kernel's, the profiler never stops itself, PID table | 483,589 |
| `kernel_hooks_fork` | finding: a child that has run exec is mapped back | |
| `kernel_hooks_asid` | finding: the ASID that is left is mapped | |
| `offline_tools` | labels agree with the table, the stack with the program, addresses with the listing, regions with the command line | 281,179 |

Type invariants are called `TypeOK` throughout. The other properties:

* `Exclusive`, `OwnershipInv`: one owner per ring. `InOrder`: the reader implements
  `TraceDelivery`. `ClaimedIsDelivered`: every claimed file is drained and released.
* `PacketOwnedOnce`: a packet has one holder, so that none is printed or deleted twice.
  `TraceWrittenOnce`, `EventLogInOrder`, `StopReturns`, `QueuedIsPrinted`.
* `ProfileMatchesLog`: between batches the view is what the submitted traces give when
  intercepted one by one, and no pop finds an empty stack. `AccountedOnce`: the loop implements `Interception`.
  `FastFwdStopsShort`: the fast forward, which counts entries but executes
  instructions, does not pass the start, and neither, without a timer, do the single steps.
  `StampBound`: an event's timestamp is never late and, without a timer, less than a batch and an
  interleave early. `EventsAreTheStarts`: events and starts correspond.
  `LogFollowsProgram`: no instruction of an abandoned batch is in the traces and none of
  the replay is missing.
* `InLockstep`: no line fails, and after each the harts agree in place, register and enabled
  interrupts. `NothingPendingUnasked`: no hardware interrupt is left pending outside the
  handlers, where Spike would take it unasked. `VectorCovers`: the PLIC knows, now or at the
  next tick, every device that has asked and was not served, and no other unless a device was
  accessed before Spike's had finished. `EventsAreTheStarts`, `AccountedOnce`: as above.
* `StackIsKernels`, `NoPexit`, `PidsMapped` (with the action properties
  `OnlyExecReplaces`, `AsidMapped`, which do not hold).
* `Recoverable`: what a restore would give is the memory at the checkpoint.
  `RestoresMemory`: the checkpoint implements `SnapshotMemory`. `RestoresTarget`: a restore
  brings back the memory and every promised cell as they were when it was taken.
* `TextIsTable`: the array gives what a look-up in the table gives, when DWARF entries are
  disjoint and none is empty. `LabelsAreStack`: without tail calls, interrupted calls and switches the labels are
  the true stack, and with them the true stack is a part of the labels and has the same top,
  unless an assembly sequence was interrupted. `FunctionsFound`: first and last address of each
  function are those of the listing; the exits and CSR writes found are such instructions of the
  function, and include every one right behind a line that is long enough. A parser that clears its vector
  keeps it, too; what the code's misses is in section 6. `LayoutIsAsked`: the pages that were asked for, each once, in order.

### Bounds

| Bound | Value | Why it is enough |
|---|---|---|
| `NBuffers`, `Threads` | 3, 3 | three owners at once (filling, published, drained), ids that wrap |
| `NumFiles`, `FileLen` | 5 files of 2, 0, 2, 1, 2 lines | every buffer is used again; an empty file; rings that start anywhere |
| `MaxEntries` | 3 | a ring wraps around in its second use |
| `FdLimit` | as many as files | the failing `gzopen` is in the model; the runs leave it out, section 6 |
| `Hw`, `Threshold` | 2, 2 | two trace threads, one packet thread; batches of two and more |
| `MaxTraces`, `MaxPackets` | 3, 3 | more traces than threads, a second batch |
| `INSN_PER_CKPT`, `INTERLEAVE`, `INSNS_PER_RTC_TICK` | 8 (7 in `rewind_loop_exit`), 3, 3 | a batch is not a multiple of the interleave, so that the last step is a short one; starts on both sides of `INTERLEAVE` |
| `MaxLen`, `MaxTimed`, alphabets | 5, and 4 with the timer | every program of that length over plain, serializing and trapping instructions, starts with and without a push, switches of PID, and exits |
| `Padding` | 8 (7 in the lockstep run) | the target's exit comes in a batch of its own: with less, `rewind_loop_exit` happens |
| `Deadline` | 3 | the interrupt falls in the batch, in the fast forward and in the single steps |
| `TOHOST_CHECK_PERIOD`, lockstep `FileLen`, `MaxBubbles` | 3, 3, 1 | several checks and several file boundaries in a trace |
| lockstep `MaxLen`, `MaxOps` | 4, 3 | every program of that length with up to three loads, skips, exceptions, requests to devices and software interrupts |
| `Devices`, `DEVICE_TICK_PERIOD` | {1, 2}, 3 | two devices at work at once, served in either order, ticks between and during their handlers |
| `LoadValues`, `DeviceValues` | {0, 1}, {0, 3} | Spike's devices return the trace's value, and another |
| `InterruptAt` | `plain` | the interrupt comes at an instruction nobody registered; section 6 |
| `Pids`, `MaxAsid`, `Bins` | idle, init and two more; 3; one | a fork in a fork, an exec in a vfork child, two address spaces to switch between; the name `X` is a second binary |
| `Slots`, `NHarts`, `NContexts`, `RegValues` | 2 each | arrays with a first and a last; the absent CSRs are those of RNMI, section 6 |
| `Ppns`, `Hosts`, `Bufs`, `Mmus`, `Values` | 2 each | an old and a new page, a buffer used again, a page freed and mapped elsewhere, two TLBs |
| `lowpc`, `highpc`, entries, symbols | 0, 10; up to 2 of 6, up to 3 of 7 | gaps, labels within functions, two entries at an address, overlap, an empty entry, call sites outside, a symbol at the image's end |
| `Outside`, `Handler`, `MaxDepth`, `MaxStray` | {20}, 6, 4, 2 | recursion, calls through assembly, an unknown binary, two irregular steps one after the other |
| `Names`, `MaxLines` | {f, g}, 6 | a function twice in a listing, one after another, one without an end |
| `WORD`, `PGSIZE`, `max_allowed_pa` | 16, 2, 11 | sums wrap, tuples beyond the highest address |
| `Bases`, `Sizes`, `MaxTuples` | 6 and 6 values, 3 | aligned and unaligned, touching, nested and chained overlaps |

`CHECK_DEADLOCK FALSE` is stated where the system really stops: the reader when all is
drained or it stalls, the loops and the logger at their end, the offline tools when their
input is read, the hooks at `MaxAsid`, and `Checkpoint` shares the setting (it never deadlocks, a checkpoint can always be
taken). Symmetry is used for the host pages and buffers only, in a run without liveness.

### Fairness

* `TraceReader`: weak fairness of each thread and of the profiler thread. They poll and are
  scheduled by the host; none is ever disabled by another for ever while it has work. Files
  are assumed to appear: the RTL simulation goes on.
* `Logger`: weak fairness of every pool thread and of the call the profiler thread is in.
  Nothing is assumed about when the profiler's loop ends or what it submits.
* `RewindLoop`, `Lockstep`: one thread that nothing blocks, weak fairness of `Next`.
* The safety-only specifications (`KernelHooks`, `PageCheckpoint`, `Checkpoint`, `MCOfflineTools`)
  assume none.

## 4. Findings

Five statements of the repository that the code does not keep, each with a run that shows it:

1. `lib/trace_reader.cc:165`: `producer_id == consumer_id` is read as *full* even when all
   buffers have been released. If the reader ever catches up with the threads with the ids
   equal, no further file is claimed and the profiler waits for ever.
2. `profiler/thread_pool.h:82`: a thread told to terminate returns without looking at the
   queue, so the last traces and packets are lost; `process_callstack` asserts on the
   missing files.
3. `profiler/profiler.cc:252`: a batch that reaches the target's exit and also holds a
   registered start rewinds; the exit code stays set, `run_for` executes nothing, and the
   do-while never finds its pc.
4. `profiler/callstack_info.cc:170`: `kernel_clone` is hooked at its return, by when the child
   may have run exec; its entry is overwritten with the parent's binary.
5. `profiler/callstack_info.cc:120`: satp is read at the `csrw` that is about to change it.

## 5. What is proved

Eight modules hold theorems, checked by TLAPS for every value of the constants that the
named assumptions allow (`ReaderAssumption`, `LoggerAssumption`, `HooksAssumption`, `PageAssumption`, for the
loop with checkpoints `LoopAssumption` and `RewindLoop`'s `ProgramAssumption`, for the
lockstep mode `HartModel`'s `ProgramAssumption`, `DeviceAssumption`, `StepAssumption` and
`LockstepAssumption`, for the labels `TextAssumption`: positive sizes, distinguished model values
that differ, `FileLen` a function, what a program may hold). A hypothesis beyond these is named in its theorem.

**`TraceReader_proofs`**: `Ownership` (`Spec => []OwnershipInv`), `TypeCorrect`, `ExclusiveBuffers`.
`Exclusive` is not inductive: nothing in it says why `producer_id` points to a free buffer.
`OwnershipInv` adds `Window` (files claimed and unreleased are `bufid .. trace_id - 1`, at most
one per buffer, in consecutive buffers from `consumer_id`, with `producer_id` after the last),
`Filling` (a busy thread's file is among them and sits in its buffer) and `Published` (so are
the published ones; the one being drained is published until `done_consume`). The claim test
`producer_id # consumer_id \/ init` gives fewer than `NBuffers` files in flight, so the new
file's buffer differs from all others: lemmas on `BufferOf` carry this. No bound on threads,
buffers or files is used.

`ReaderDelivers` (`Spec => InOrder`, the reader implements
`TraceDelivery`) and `RingsNeverFull` (`Spec => []NoAssertFailure`). `OwnershipInv` says who owns
a ring, not what is in it; `ContentInv` adds that a ring being filled holds a prefix of its file
(`Written`), an unused one nothing (`Unused`), a published one all of it but what the profiler
has taken (`Complete`), and that the profiler leaves a ring only when it has taken it all
(`Drained`). The ring lemmas (`PushAppends`, `PopTakesFirst` and those on indices that wrap) say
what `push` and `pop` do to such a run of lines. Both theorems have the hypothesis `EnoughFds`,
no more files than descriptors, which `Counted` turns into a free one at every `gzopen`; the
second also has `ShortFiles`, files shorter than a ring. Neither can be dropped (section 6).

**`PageCheckpoint_proofs`**: `AlwaysRecoverable` (`Spec => []Recoverable`), `TypeCorrect`,
`CheckpointRestoresMemory` (`Spec => Memory!Spec`). `Recoverable` is `Mapped` (no two pages
share a host page, TLBs hold existing pages), `BufferOwnedOnce` (a buffer holds one copy, none
in use is in the pool) and `Held` (a page a store can reach unseen has been copied; the copy,
or else the page, is what was saved). It is inductive together with `TypeOK`. The refinement
maps every store to `Write`, `serialize_proto` to `Save`, `deserialize_proto` to `Restore` and
the allocation of a page, which reads as zero before and after, to a stutter.

**`KernelHooks_proofs`**: `TypeCorrect`, `StacksFollowKernel`, `NeverPexits`, from the inductive
invariant `HooksInv`. That stacks agree needs `PidAgrees` (pushes and pops go by
`cur_pid_`, the kernel by `current`; the two differ between the switch of the task register and the
hook of `finish_task_switch`, where nothing is pushed or popped) and `Depth` (how deep a stack is follows from where its
task is, hence no pop finds it empty); the latter needs `ArgFits`. `TableIsRight`
(`Spec => []PidsMapped`) rests on `TableInv`: the table has the binary a task runs, or inside
exec the one it is about to run (`Tracked`), and a child that has not run since its fork, whose
entry is still to be written, has its parent's binary (`Cloning`). The number of tasks,
binaries and address spaces is arbitrary.

**`Logger_proofs`**: `TypeCorrect`, `TracesWrittenOnce`, `PacketsOwnedOnce`, `EventLogOrdered`, for any
number of threads, traces and packets. `TraceWrittenOnce` is inductive with `TypeOK`.
`PacketOwnedOnce` counts elements and is proved from `OnceInv`, which says of the vector, the
log, the queue and the threads' batches that none repeats a packet and no two share one; a
thread whose batch is finished and one without a batch are the same to it. `EventLogInOrder`
needs `LineInv`, that log, batch in print, queue and vector hold `1 .. submitted` in this
order, and one thread at most: hence the hypothesis `SmallHost`, `Hw < 32` (section 6).

**`Lockstep_proofs`**: `StaysInLockstep` (`Spec => []InLockstep`), `OnlySoftwarePends`,
`VectorCoversDevices`, for any programs, any devices, any tick period, any length of files and any
time at which an interrupt is taken. `InLockstep` is not inductive: Spike follows the trace only
if its own `mip` offers the interrupt of the line and no other. `LockstepInv` therefore adds
`LoweredInTime` (a hardware interrupt in Spike's `mip` is one whose handler has still to lower it,
or the masked timer), `SameHart` (the software's interrupt is in both harts' `mip` or in
neither), `PlicAsks` (the RTL raises SEIP exactly while a device has asked, and the claimed
device is not among them) and that the PLIC and the working devices include the unserved ones,
so that an SEIP of the trace is never refused. `VectorCoversDevices` has the hypothesis
`SmallIds`, ids below 32: with larger ones the shift in `lower_external_interrupt` misses
(section 6). `DeviceAssumption` alone allows what the code asserts, ids below 64, and suffices
for the other two.

The three remaining properties of the loop rest on these. `TypeCorrect` (`Spec => []TypeOK`) needs
no hypothesis. `ImplementsInterception` (`Spec => AccountedOnce`): `AccInv` says that what the
profiler has looked at is what is registered among the instructions up to the RTL's place, and that
the one an interrupt or a skipping exception has stopped at is not registered. Each line
of the trace then maps to the abstract step of its pc, and bubbles, lines of the handlers, checks of
`tohost` and file boundaries to stutters. Its hypotheses are `NoneSkipped` (no exception returns beyond
a registered instruction, which the profiler then never sees) and `TrapsAtPlain` (no interrupt at a
registered pc, which is then looked at twice, section 6). `EventsMatchStarts` needs only that no
interrupt comes at a start. The run checks the hypotheses of its programs (`MCAssumption`).

**`ProfilerState_proofs`**: the lemmas on the view and on the registered instructions that both loops need. The
model's `ViewAfter` and `Registered` are folds and hence recursive functions, so their values come by
induction: `SetInduction` is induction over the naturals stated for a set, derived from the
well-foundedness of `<`; `RecursionExists` and `RecursionAgrees` say that a function with
the recursive equations exists on `0 .. n` and is the only one. From these, `ViewAfterAppend` and
`RegisteredAppend` say what one more instruction adds, `NextRegistered` what the next registered
instruction of a prefix is, `QuietOrStops` that entries either hold nothing registered or have a first
stop, and `OffOrder` that an earlier place in the trace is an earlier one in the program.

**`RewindLoop_proofs`**: all seven safety properties of `run`, for any program, batch and interleave.

* `TypeCorrect`, `FastForwardStopsShort` and `LogIsOneExecution` (`Spec => []LogFollowsProgram`),
  with timer and without. `Inv` is `BaseInv /\ PathInv /\ UntimedInv`. `BaseInv` has the types, what a
  handler may be in the middle of (`HandlerInv`), how many instructions `run_for` has still to
  execute in this slice and how far they can reach (`StepInv`), and which of `rewind`,
  `found_function` and `fwd_steps` belongs to which phase (`RunInv`). `PathInv`: the log with the
  batch at hand is one execution, and, as long as a rewind is possible, so is the log with what
  the checkpoint has.
* `ImplementsInterception` (`Spec => AccountedOnce`, which is about runs without a timer), without
  hypothesis. There the replay
  takes the path of the batch it replaces: `PlaceInv` says that log and trace are determined by where the
  hart is, `AccInv` that what was looked at is what is registered in the log, and in the middle of a
  batch how far pops and replay have come in it (`Popping`, `Replaying`). A rewind and the replay
  up to the start map to stutters, a pop and the look at the start to the abstract step.
* `StampsBounded` (`Spec => []StampBound`): the clock is the length of the log, and only a submission moves it.
* `EventsMatchStarts`, with `NoWfi` (with no timer nothing wakes a waiting hart, and the replay never
  finds its pc) and `LongPadding` (the target exits more than a batch after its last start). The
  first is so in both runs, the second in `rewind_loop`; `rewind_loop_exit` is the counterexample without it.
  `CalmInv` says that an exit comes in a batch without starts.
* `ProfileFollowsLog` (`Spec => []ProfileMatchesLog`), with, besides, `Nested`: the exit of a
  function is reached only inside an intercepted one. Otherwise `pop` finds an empty stack.

**`OfflineTools_proofs`**: the tools that run before and after, for any input.

* `LabelsFollowTable` (`TextSpec => []TextIsTable`), for any entries and symbols. While the
  table is built, `Apart` says that no subroutine reaches beyond the next, which for symbols is what
  `Taken` sees to. While the array is filled, `FillInv` says: the array has no holes (`ImageInv`), the label
  before is kept exactly if its subroutine has no end (`PrevInv`), and an address is labelled by the greatest
  key done that is not after it, unless that one is at its end, or has none and nothing has been done after it
  (`Labels`). It follows that no entry finds its place labelled, and that when the loop breaks off at a
  symbol beyond the image, nothing of the image is missed. The theorem has no hypothesis beyond
  `TextAssumption`, that the null pointer is no label; `Disjoint` is in the property.
* `LayoutCorrect` (`LayoutSpec => []LayoutIsAsked`), for any tuples of `-m`, any page size and any word that is a
  multiple of it (`LayoutAssumption`). `LayoutInv` has the types and, of the regions at any moment of the
  merge: each is whole pages within the word, the merged ones are apart and in order and end before those
  still to merge (`OrderInv`), and the pages they cover are the pages the tuples touch (`PagesInv`). That a
  rounded size never reaches beyond the word is where the multiple is needed. That the sort returns the regions in order is
  derived from its definition.
* `ParserCorrect` (`ParserSpec => []FunctionsFound`), for any listing, without hypothesis. `ParserInv` says of the
  lines read so far that the open function is the one the last title named (`OpenInv`), that the
  lines of a body have at least three words (`InsnsLong`), that functions with a title are the keys (`KeysInv`), and of each function its first
  address (`StartInv`), its last (`EndInv`) and its body: the lines of its listings in ascending order,
  each once (`BodyInv`). The two passes over the body, for exits and for `csrw`, are folds whose vector is not
  cleared; what it holds is the parity of the short lines since (`Since`, `Odd`), by induction
  (`SetInduction`, `RecursionExists`, as in `ProfilerState_proofs`). The lemma `FoundSeen` says exactly what
  is found, all but what comes after an odd number of short lines, and `SureSeen` that this includes what
  comes right behind a long one.
* `LabelsTellStack` (`UnwinderSpec => []LabelsAreStack`), for any program, depth of the stack and number of
  labels left over. Its hypothesis `ImageFits` says what the unwinder takes for granted of the image it
  looks into: the subroutines are disjoint, those of one name are of one kind, the array holds every entry, the
  trap handler is one, and the unknown binary has no address in it and its label is no
  subroutine's. `UnwinderInv` says two things of the frames. They are sound (`Frames`): those below the last are of
  known subroutines or the single unknown one, and a frame yet to begin is one whose call was interrupted. And
  the labels tell of them (`ToldOf`): equal to the true stack if nothing has strayed, else with the stack as a
  subsequence and the same top, or, once a label was lost, empty or with the right top. What can be
  recovered of the stack is a fold, whose values again come by induction (`PickedAppend`, `MergedAppend`).
  What one address does to the labels is `ToldCalled`, `ToldReplaced`, `ToldStays` and
  `ToldReturned`, and each action of the program comes down to one or two of them.

### Only model-checked

* Liveness (`ClaimedIsDelivered`, `StopReturns`, `QueuedIsPrinted`, `Terminates`): fairness and
  `ENABLED` are outside the reach of the prover used.
* `RestoresTarget`: writing and parsing nested messages is recursive in `ArchStateProto`, and the
  prover has no arithmetic in a module that reaches a RECURSIVE operator.

Induction over data is possible where a definition is a recursive function or a fold of a
community module; what the provers cannot use are RECURSIVE operators and library theorems with an
operator as a parameter.

## 6. Divergences without a run

Seen while modelling. The models contain the behaviour, or leave it out by a named bound.

* The ring holds one line less than "max insns per file" (`lib/trace_reader.cc:27`): a file of
  exactly that many lines fails the assertion. The runs use shorter files.
* `gzopen` without `gzclose` (`lib/trace_reader.cc:177`): after enough files, descriptors run out
  and the files look empty. `FdLimit` models it.
* Hosts with 32 threads or more get more than one packet thread (`profiler/thread_pool.h:32`
  takes the larger of the two bounds), and `EventLogInOrder` no longer holds. The run has `Hw = 2`.
* A timer interrupt between a hook and its instruction (`profiler/profiler.cc:260`) makes the same
  pc, and its hook, come again. `AccountedOnce` and `EventsAreTheStarts` are therefore checked
  without a timer, and `LogFollowsProgram` with one. The same holds for the lockstep mode at a
  registered pc (`profiler.cc:338`), hence `InterruptAt`.
* `in_wfi` is not in the checkpoint (`spike-top/processor_lib.cc:207`): after a rewind a hart may
  first have to be woken by an interrupt that has not come yet in the restored state.
* Events carry the timestamp of the start of their batch (`profiler.cc:279`): `StampBound` says how
  far off it can be. With a timer the replay may execute more than the batch did, since its clock is slower
  when traps cut steps short, and only the upper half of the bound is stated.
* A failed exec leaves the table with the file that was asked for (`callstack_info.cc:69`).
  `PidsMapped` excludes it by `strays`.
* The comment at `profiler/profiler_state.h:60-65` says that `cur_pid_` is updated when CFS decides and is then one
  step ahead of the kernel. Only the hook of `finish_task_switch` sets it (`callstack_info.cc:234`; that of
  `pick_next_task_fair` submits a packet): it is right until the task register changes and then one step
  behind, up to that hook (`phase = "switched"`). No other hook runs in between, which is why `StackIsKernels` and
  `NoPexit` hold. Under the design of the comment, `pick_next_task_fair_SetsPid`, the mutant of
  `NoPexit`, a switch inside exec stops the profiler.
* `target_running` negates only `signal_exit` (`spike-top/sim_lib.cc:377`): after a signal the target
  counts as running whatever its exit code.
* `gzread` cuts a file at `max_file_bytes` (`lib/trace_reader.cc:178`).
* The value of `hstateen` is built and never attached to the message (`processor_lib.cc:711`): a
  restore sets it to 0. Only a hart with Smstateen and H has it.
* `mnepc` is cast to `basic_csr_t` (`processor_lib.cc:728`), which it is not: the null pointer is
  followed on a hart with Smrnmi. `HartAssumption` leaves such harts out.
* Neither function names the vector unit, the triggers or a load reservation; Spike keeps them.
* `ShutdownProtobufLibrary` is called after each serialize and deserialize
  (`sim_lib.cc`); the library's documentation does not allow its use after that.
* Of a repeated field, entries that are absent are skipped, so that the ones after them move
  forward; `serialize_mem = TRUE` and `DEBUG_MEM` are reached by no program.
* Some CSRs are restored through the messages of others, twice in places
  (`processor_lib.cc:386` and after); the last write wins, which `FieldFor` records.

Lockstep:

* `plic_ganged_t::lower_external_interrupt` shifts the `int` 1 (`ganged_devices.cc:48`): for an id
  of 32 or more another bit is tested, and the interrupt stays. The assertion allows ids below 64.
* An SEIP is accepted as soon as any device has a bit set (`sim_lib.cc:697`), not the one the RTL
  claims. If the handler accesses a device whose Spike counterpart has not finished, its bit comes
  up afterwards and stays: `early` marks it. A stale bit does no harm to the step (`InLockstep`
  is proved without `~ early`), but a later SEIP is then accepted without a tick.
* STIP and SSIP are not forced: that they come at the same instruction rests on the RTL taking an
  interrupt at the instruction after the CSR write that raises it.
* The comment at the debug interrupt says the step is not executed; `step(1)` is called.
* Hart n's `mtimecmp` is looked for at `4 * n` and not `8 * n`; hart 0 is the only one.
* `has_w` is not tested before a write-back, floating point registers are not written back,
  `was_read` is never read and neither is `magic_addrs` (`sim_lib.cc:672`).
* The lockstep loop sends no `fromhost` answer; `log_reg_write` of the instruction before is still
  there after a trap; it is not written back as long as the line of a trap has no `val`.
* `clint_ganged_t::store` computes the interrupt to raise and drops it.

Offline tools:

* The first address of a subprogram that is empty gets its label (`tracerv_processing.cc:82`), while the look-up
  in the table finds nothing there; one that ends at address 0 would count as one without an end.
* Labels are compared without their binary, and the label stack left at the end is not printed.
* A tail call, or an interrupt between a call and its first instruction, leaves a label until the
  next return. Routines in assembly that follow one another share one label and may hide frames or
  empty the stack (`STACK ZEROED`). An unknown binary (`USERSPACE_MISC`) resets it.
* `last_instr` of a table entry is never set; a symbol at the image's end breaks off the fill loop;
  of overlapping DWARF entries the first wins; a second symbol table section is not read.
* A symbol without an end beyond the image would write past the array; it is assumed not to exist.
* `objdump_parser`: a line of `...` ends a function; the last function of a listing without a blank
  line behind it has no end; static functions of one name share a body; `func_ret_reg` asserts
  unless there is a `mv a0, ...`.
* `objdump_parser`: a line with too few words is skipped without clearing the vector that `split` appends to
  (`objdump_parser.cc:149`, `:168`), so the next line is read at the wrong words. A `ret` right behind the title
  is missed, and so is a `csrw` right behind the title or an instruction without operands, where line 176 then stops the
  profiler with "csr not found in function". After two short lines the words are cleared again: what is
  missed comes after an odd number of them (`FoundSeen`). `FunctionsFound` allows the miss and does not
  require it.
* `-m`: a tuple that reaches beyond 2^64 wraps around; a size of zero at an unaligned base gives a
  page; the special case of the whole space is out of reach with fewer than 64 address bits.
* `--user-info` opens the objdump listing for the DWARF tables (`profiler_main.cc:499` takes `info[0]`).

Elsewhere:

* `process_callstack` leaves out the last trace file (`profiler.cc:366`).
* On a TLB hit in the slow path, `take_checkpoint` is given `tlb_data`'s offset and not the host
  page (`spike-top/mmu_lib.cc:46`). It needs a misaligned store that is split, or a debug trigger on the page.

## 7. What is not modelled

Formatting (perfetto packets, logs, measurements), the reformatting tool and the scripts, option
parsing other than `-m`, the text of a trace line (`parse_line_into_rtltrace`), merging, copying and
reflection of the generated classes, what libelf and libdwarf return, Spike itself beyond what
`src/` relies on, signals, more than one hart (the code says `TODO : multicore support` wherever it
matters). `trace_tracker.cc` has the stack algorithm for one binary and is covered by
`StackUnwinder`; lines 119 to 260 of `spike_lib.cc` are a copy of the memory options. The words of
an argument (which register or memory word a hook reads) are abstracted to its value. In the
lockstep mode loads from devices and `mtime` are values of `DeviceValues`, and the plugin devices
finish their work within one tick.

## 8. Plan

All parts of the inventory that keep state are modelled, in the order of their importance to the
promise of the profiler: the two loops, what they rest on (reader, logger, hooks, checkpoint,
ganged step), then the tools that run before and after. What is left, most useful first:

1. Composition: `RewindLoop` over `Checkpoint`, `Lockstep` over `TraceReader`; today the loops assume
   what those modules are shown to promise.
2. The other form of `-m` and the remaining options; loads of the ganged devices.
