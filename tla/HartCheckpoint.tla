--------------------------- MODULE HartCheckpoint ---------------------------
(***************************************************************************)
(* processor_lib_t::serialize_proto and deserialize_proto, what sim_lib_t  *)
(* adds to the message for the CLINT and the PLIC, and the UART, which     *)
(* keeps its copy to itself.  A cell <<register, index, part>> is a piece  *)
(* of the target's state, a field <<name, index, part>> a scalar somewhere *)
(* in the message; a value is a model value.  What is put into the message *)
(* and what is taken from it are hundreds of lines apart in the code and   *)
(* are given here one by one, as the code lists them.  In between the      *)
(* message is a string of bytes (ArchStateProto).                          *)
(*                                                                         *)
(* Some CSRs hold no state: sstatus is a view of mstatus, and a            *)
(* virtualized CSR is a pair, the second of which is the vs CSR.  A        *)
(* message field that is such a view names another register's cell.        *)
(* Between two steps no counter has a prev_val: bump clears it.  The masks *)
(* and base statuses in the messages are constants nothing reads.          *)
(*                                                                         *)
(* The operators with a suffix (UartRestored_NoQueue) are faulty variants. *)
(***************************************************************************)
EXTENDS ArchStateProto, FiniteSetsExt

CONSTANTS
  RegValues,   \* what a cell may hold; Reset is what it holds at reset
  Absent,      \* CSRs this hart's ISA has not got
  Slots,       \* array of registers -> how many of it there are, from the first
  NHarts,      \* harts the CLINT knows; the message has the first one's state
  NContexts    \* the PLIC's contexts

VARIABLES
  hart,        \* the target's cells, of the hart and the devices
  msg,         \* the bytes of the message
  ckpt_uart,   \* ns16550_lib_t's ckpt_ members
  snapshot     \* history: the cells at the last checkpoint

hartVars == <<hart, msg, ckpt_uart, snapshot>>

Val(names) == names \X {0} \X {"val"}
Has(names) == names \ Absent
Array(name, parts) == {name} \X (1 .. Slots[name]) \X parts
Virtualized(names) == Has(names) \X {0} \X {"orig", "virt"}
Counters(names) == Has(names) \X {0} \X {"val", "config"}
Timers(names) == Has(names) \X {0} \X {"val", "intr_mask"}
DcsrParts == DOMAIN DCSR
Dcsr == Has({"dcsr"}) \X {0} \X DcsrParts

-----------------------------------------------------------------------------
\* The fields of the message that serialize_proto sets, CSR by CSR.

SavedRegisters ==
  Val({"pc", "prv", "prev_prv", "prv_changed", "v_changed", "v", "prev_v"})
    \union Array("xpr", {"val"}) \union Array("fpr", {"v0", "v1"})

SavedMachine ==
  Val(Has({"misa", "mstatus", "mepc", "mtval", "mscratch", "mtvec", "mcause", "time", "mie",
           "mip", "medeleg", "mcounteren", "scounteren"}))
    \union Counters({"minstret", "mcycle"}) \union Array("mevent", {"val"})

SavedVirtual ==
  Virtualized({"sepc", "stval", "sscratch", "stvec", "satp", "scause"})

SavedHypervisor ==
  Val(Has({"mtval2", "mtinst", "hstatus", "hideleg", "hedeleg", "hcounteren", "htimedelta",
           "htval", "htinst", "hgatp"}))
    \union (Has({"hideleg"}) \X {0} \X {"mideleg"})
    \union (Has({"sstatus"}) \X {0} \X {"orig", "virt"})

SavedDebug ==
  Val(Has({"dpc", "dscratch0", "dscratch1", "tselect", "scontext", "hcontext", "mseccfg"}))
    \union Dcsr \union Array("pmpaddr", {"val", "cfg"})

\* For hstateen the message gets an index and no value.
SavedEnables ==
  Val(Has({"fflags", "frm", "senvcfg", "henvcfg"})) \union (Has({"henvcfg"}) \X {0} \X {"menvcfg"})
    \union Array("mstateen", {"val"}) \union Array("sstateen", {"val", "index"})
    \union Array("hstateen", {"index"})

SavedLast ==
  Val(Has({"mnscratch", "mnepc", "mnstatus", "jvt", "miselect", "srmcfg"}))
    \union Timers({"stimecmp", "vstimecmp"}) \union Virtualized({"siselect"})

SavedFlags ==
  Val({"debug_mode", "serialized", "single_step", "last_inst_priv", "last_inst_xlen", "last_inst_flen"})

Saved == SavedRegisters \union SavedMachine \union SavedVirtual \union SavedHypervisor
           \union SavedDebug \union SavedEnables \union SavedLast \union SavedFlags

\* ns16550_lib_t::serialize_proto copies these members.
UartSaved == {"dll", "dlm", "iir", "ier", "fcr", "lcr", "mcr", "lsr", "msr", "scr",
              "backoff_counter", "rx_queue"}

\* The cell a field is read from: the gen_ functions follow the pointers of
\* sstatus, hideleg and henvcfg.
CellOf(field) ==
  CASE field = <<"sstatus", 0, "orig">> -> <<"mstatus", 0, "val">>
    [] field = <<"hideleg", 0, "mideleg">> -> <<"mideleg", 0, "val">>
    [] field = <<"henvcfg", 0, "menvcfg">> -> <<"menvcfg", 0, "val">>
    [] OTHER -> field

\* Where the gen_ functions put a part of a CSR in its message.
GenPath ==
  LET val == [val |-> <<"val">>]
      basic == [val |-> <<"basic_csr", "val">>]
  IN  [BasicCSR |-> val, MisaCSR |-> basic, MstatusCSR |-> val, MaskedCSR |-> basic,
       MedelegCSR |-> basic,
       VirtBasicCSR |-> [orig |-> <<"nonvirt_csr", "val">>, virt |-> <<"virt_csr", "val">>],
       SstatusCSR |-> [orig |-> <<"orig_sstatus", "mstatus_csr", "val">>,
                       virt |-> <<"virt_sstatus", "val">>],
       WideCntrCSR |-> val @@ [config |-> <<"config_csr", "masked_csr", "basic_csr", "val">>],
       HidelegCSR |-> [val |-> <<"hideleg_csr", "basic_csr", "val">>,
                       mideleg |-> <<"mideleg_csr", "val">>],
       HenvcfgCSR |-> [val |-> <<"henvcfg", "basic_csr", "val">>,
                       menvcfg |-> <<"menvcfg", "basic_csr", "val">>],
       HstateenCSR |-> [val |-> <<"masked_csr", "basic_csr", "val">>, index |-> <<"index">>],
       PmpCSR |-> basic @@ [cfg |-> <<"cfg">>],
       StimecmpCSR |-> basic @@ [intr_mask |-> <<"intr_mask">>],
       DCSR |-> [part \in DcsrParts |-> <<part>>],
       Float128 |-> [v0 |-> <<"v0">>, v1 |-> <<"v1">>]]

\* The parts of a register that are put into the message.
SavedElements == {<<field[1], field[2]>> : field \in Saved}
SavedParts == [e \in SavedElements |-> {f[3] : f \in {g \in Saved : <<g[1], g[2]>> = e}}]

Element(name, i) ==
  LET type == ArchState[name].type
      set(part, m) == Set(type, m, GenPath[type][part], hart[CellOf(<<name, i, part>>)])
  IN  IF type \in Scalars THEN hart[<<name, i, "val">>]
      ELSE FoldSet(set, New(type), SavedParts[<<name, i>>])

\* The message of the hart, that of the CLINT and that of the PLIC.
arch_proto ==
  [name \in DOMAIN ArchState |->
     IF ArchState[name].many THEN [i \in 1 .. Slots[name] |-> Element(name, i)]
     ELSE IF ArchState[name].type \in Scalars THEN Element(name, 0)
     ELSE IF <<name, 0>> \in SavedElements THEN <<Element(name, 0)>> ELSE <<>>]

\* A hart id as the value of a scalar field.
Id(h) == IF h = 0 THEN Reset ELSE h

clint_proto ==
  [mtime |-> hart[<<"mtime", 0, "val">>],
   mtimecmp |-> [i \in 1 .. NHarts |-> [k |-> Id(i - 1), v |-> hart[<<"mtimecmp", i - 1, "val">>]]]]

\* A context's arrays of words are one word each here.
plic_proto ==
  LET word(c, part) == <<hart[<<"contexts", c, part>>]>>
  IN  [contexts |->
         [c \in 1 .. NContexts |->
            [priority_threshold |-> hart[<<"contexts", c, "priority_threshold">>],
             enable |-> word(c, "enable"), pending |-> word(c, "pending"),
             claimed |-> word(c, "claimed"), pending_priority |-> word(c, "pending_priority")]],
       priority |-> [i \in 1 .. Slots["priority"] |-> hart[<<"priority", i, "val">>]],
       level |-> [i \in 1 .. Slots["level"] |-> hart[<<"level", i, "val">>]]]

-----------------------------------------------------------------------------
\* The fields deserialize_proto takes from the message, if it has them.

RestoredRegisters ==
  Val({"pc", "prv", "prev_prv", "prv_changed", "v_changed", "v", "prev_v"})
    \union Array("xpr", {"val"}) \union Array("fpr", {"v0", "v1"})

RestoredMachine ==
  Val({"misa", "mstatus", "mepc", "mtval", "mscratch", "mtvec", "mcause", "time", "mie", "mip",
       "medeleg", "mcounteren", "scounteren"})
    \union Counters({"minstret", "mcycle"}) \union Array("mevent", {"val"})

RestoredVirtual ==
  {"sepc", "stval", "sscratch", "stvec", "satp", "scause"} \X {0} \X {"orig", "virt"}

RestoredHypervisor ==
  Val({"mtval2", "mtinst", "hstatus", "hideleg", "hedeleg", "hcounteren", "htimedelta", "htval",
       "htinst", "hgatp"})
    \union {<<"hideleg", 0, "mideleg">>, <<"sstatus", 0, "orig">>, <<"sstatus", 0, "virt">>}

RestoredDebug ==
  Val({"dpc", "dscratch0", "dscratch1", "tselect", "scontext", "hcontext", "mseccfg"})
    \union ({"dcsr"} \X {0} \X DcsrParts) \union Array("pmpaddr", {"val", "cfg"})

RestoredEnables ==
  Val({"fflags", "frm", "senvcfg", "henvcfg"}) \union {<<"henvcfg", 0, "menvcfg">>}
    \union Array("mstateen", {"val"})
    \union Array("sstateen", {"val", "index"}) \union Array("hstateen", {"val", "index"})

RestoredLast ==
  Val({"mnscratch", "mnepc", "mnstatus", "jvt", "miselect", "srmcfg"})
    \union ({"stimecmp", "vstimecmp"} \X {0} \X {"val", "intr_mask"})
    \union ({"siselect"} \X {0} \X {"orig", "virt"})

RestoredFlags ==
  Val({"debug_mode", "serialized", "single_step", "last_inst_priv", "last_inst_xlen", "last_inst_flen"})

Restored == RestoredRegisters \union RestoredMachine \union RestoredVirtual
              \union RestoredHypervisor \union RestoredDebug \union RestoredEnables
              \union RestoredLast \union RestoredFlags

UartRestored_NoQueue == {"dll", "dlm", "iir", "ier", "fcr", "lcr", "mcr", "lsr", "msr", "scr",
                         "backoff_counter"}
UartRestored == {"dll", "dlm", "iir", "ier", "fcr", "lcr", "mcr", "lsr", "msr", "scr",
                 "backoff_counter", "rx_queue"}

\* The field whose value a cell has in the end: the set_ functions write the
\* registers behind sstatus, hideleg and henvcfg, and sstatus comes after
\* mstatus.
FieldFor(cell) ==
  CASE cell = <<"mstatus", 0, "val">> /\ "sstatus" \notin Absent -> <<"sstatus", 0, "orig">>
    [] cell = <<"mideleg", 0, "val">> -> <<"hideleg", 0, "mideleg">>
    [] cell = <<"menvcfg", 0, "val">> -> <<"henvcfg", 0, "menvcfg">>
    [] OTHER -> cell

\* Where the set_ functions take a part of a CSR from.
SetPath ==
  LET val == [val |-> <<"val">>]
      basic == [val |-> <<"basic_csr", "val">>]
  IN  [BasicCSR |-> val, MedelegCSR |-> basic, MisaCSR |-> basic, MstatusCSR |-> val,
       MaskedCSR |-> basic,
       SstatusCSR |-> [orig |-> <<"orig_sstatus", "mstatus_csr", "val">>,
                       virt |-> <<"virt_sstatus", "val">>],
       WideCntrCSR |-> val @@ [config |-> <<"config_csr", "masked_csr", "basic_csr", "val">>],
       VirtBasicCSR |-> [orig |-> <<"nonvirt_csr", "val">>, virt |-> <<"virt_csr", "val">>],
       HidelegCSR |-> [val |-> <<"hideleg_csr", "basic_csr", "val">>,
                       mideleg |-> <<"mideleg_csr", "val">>],
       DCSR |-> [part \in DcsrParts |-> <<part>>],
       PmpCSR |-> basic @@ [cfg |-> <<"cfg">>],
       HenvcfgCSR |-> [val |-> <<"henvcfg", "basic_csr", "val">>,
                       menvcfg |-> <<"menvcfg", "basic_csr", "val">>],
       HstateenCSR |-> [val |-> <<"masked_csr", "basic_csr", "val">>, index |-> <<"index">>],
       StimecmpCSR |-> basic @@ [intr_mask |-> <<"intr_mask">>],
       Float128 |-> [v0 |-> <<"v0">>, v1 |-> <<"v1">>]]

\* Whether the message has the register of a field, and the field's value.
InMessage(arch, field) ==
  IF ArchState[field[1]].many THEN field[2] <= Len(arch[field[1]])
  ELSE HasField("ArchState", arch, field[1])
FieldValue(arch, field) ==
  LET kind == ArchState[field[1]]
      element == IF kind.many THEN arch[field[1]][field[2]]
                 ELSE IF kind.type \in Scalars THEN arch[field[1]]
                 ELSE Sub("ArchState", arch, field[1])
  IN  IF kind.type \in Scalars THEN element
      ELSE Get(kind.type, element, SetPath[kind.type][field[3]])

-----------------------------------------------------------------------------
\* The target.

Uart(regs) == {"uart"} \X {0} \X regs

\* State of processor_t and sim_lib_t that neither function names.
Unsaved == Val({"in_wfi", "fromhost_queue", "exitcode"})

\* The registers either table names, as far as this hart has them, and the
\* devices.
HartCells ==
  {c \in {CellOf(field) : field \in Saved \union Restored} : c[1] \notin Absent}
ClintCells == Val({"mtime"}) \union ({"mtimecmp"} \X (0 .. NHarts - 1) \X {"val"})
PlicCells ==
  Array("priority", {"val"}) \union Array("level", {"val"})
    \union ({"contexts"} \X (1 .. NContexts) \X DOMAIN PLICContext)
Cells ==
  HartCells \union ClintCells \union PlicCells \union Uart(UartSaved \union UartRestored)
    \union Unsaved

HartInit ==
  /\ hart = [c \in Cells |-> Reset]
  /\ msg = [tag \in {} |-> <<>>]
  /\ ckpt_uart = [r \in UartSaved |-> Reset]
  /\ snapshot = hart

\* The target, a device or the host changes a piece of state.
Write(cell, v) ==
  /\ hart' = [hart EXCEPT ![cell] = v]
  /\ UNCHANGED <<msg, ckpt_uart, snapshot>>

\* The message of a checkpoint; pages is what it holds of the memory.
sim_proto(pages) ==
  [arch_state |-> <<arch_proto>>, clint |-> <<clint_proto>>, plic |-> <<plic_proto>>,
   sparse_mm |-> pages]

serialize_hart(pages) ==
  /\ msg' = InternalSerialize("SimState", sim_proto(pages))
  /\ ckpt_uart' = [r \in UartSaved |-> hart[<<"uart", 0, r>>]]
  /\ snapshot' = hart
  /\ UNCHANGED hart

\* The parsed message, and the cells taken from its parts: a register the
\* message has not got keeps its value; mtimecmp is cleared and filled by the
\* keys of the entries.
Parsed == InternalParse("SimState", msg)

HartRestored(arch) ==
  [c \in HartCells |->
     IF FieldFor(c) \in Restored /\ InMessage(arch, FieldFor(c))
       THEN FieldValue(arch, FieldFor(c)) ELSE hart[c]]

ClintRestored(clint) ==
  LET entries(h) == {i \in 1 .. Len(clint.mtimecmp) : clint.mtimecmp[i].k = Id(h)}
  IN  [c \in ClintCells |->
         IF c[1] = "mtime" THEN clint.mtime
         ELSE IF entries(c[2]) = {} THEN Reset
         ELSE clint.mtimecmp[Max(entries(c[2]))].v]

PlicRestored(plic) ==
  [c \in PlicCells |->
     IF c[1] = "contexts"
       THEN LET context == plic.contexts[c[2]]
            IN  IF c[3] = "priority_threshold" THEN context[c[3]] ELSE context[c[3]][1]
     ELSE plic[c[1]][c[2]]]

deserialize_hart ==
  /\ LET sim == Parsed
         restored == HartRestored(sim.arch_state[1])
                       @@ ClintRestored(Sub("SimState", sim, "clint"))
                       @@ PlicRestored(Sub("SimState", sim, "plic"))
                       @@ [c \in Uart(UartRestored) |-> ckpt_uart[c[3]]]
     IN  hart' = restored @@ hart
  /\ UNCHANGED <<msg, ckpt_uart, snapshot>>

\* What a restore does not bring back: the state nobody saves, and hstateen,
\* whose value serialize_proto builds and never attaches to the message.
NotRestored == Unsaved \union Array("hstateen", {"val"})
Promised == Cells \ NotRestored
=============================================================================
