--------------------------- MODULE ArchStateProto ---------------------------
(***************************************************************************)
(* The message classes protoc generated from arch-state.proto.  Each class *)
(* is two tables: its fields with their types, which determine what the    *)
(* accessors give and what has_ says of them, and its wire: the field      *)
(* behind each tag, by which _InternalSerialize, ByteSizeLong and          *)
(* _InternalParse write, measure and read it.  The prefix msg_ is left     *)
(* out.  CSR, SatpCSR, TimeProxyCSR and McontextCSR are in no message a    *)
(* checkpoint holds.                                                       *)
(*                                                                         *)
(* A message is a function on its class's fields: a value for a scalar     *)
(* field, a sequence for a repeated one, and none or one message for a     *)
(* singular message field.  Its bytes are a function from tags to the      *)
(* payloads written under the tag, in order; between tags the order means  *)
(* nothing to the parser.                                                  *)
(***************************************************************************)
EXTENDS Naturals, Sequences, TLC

CONSTANT Reset    \* zero: what a scalar that was never set reads as

One(type) == [type |-> type, many |-> FALSE]
Many(type) == [type |-> type, many |-> TRUE]
All(names, type) == [f \in names |-> One(type)]
From(first, names) == [t \in first .. first + Len(names) - 1 |-> names[t - first + 1]]

Scalars == {"uint64", "uint32", "int32", "bool", "bytes"}

-----------------------------------------------------------------------------
\* The classes of a CSR.

BasicCSR == [val |-> One("uint64")]
BasicCSR_wire == <<"val">>

MisaCSR == [basic_csr |-> One("BasicCSR"), max_isa |-> One("uint64"), write_mask |-> One("uint64")]
MisaCSR_wire == <<"basic_csr", "max_isa", "write_mask">>

VirtBasicCSR == All({"nonvirt_csr", "virt_csr"}, "BasicCSR")
VirtBasicCSR_wire == <<"nonvirt_csr", "virt_csr">>

BaseStatusCSR ==
  [has_page |-> One("bool"), sstatus_write_mask |-> One("uint64"), sstatus_read_mask |-> One("uint64")]
BaseStatusCSR_wire == <<"has_page", "sstatus_write_mask", "sstatus_read_mask">>

MstatusCSR == [base_status_csr |-> One("BaseStatusCSR"), val |-> One("uint64")]
MstatusCSR_wire == <<"base_status_csr", "val">>

SstatusProxyCSR == [base_status_csr |-> One("BaseStatusCSR"), mstatus_csr |-> One("MstatusCSR")]
SstatusProxyCSR_wire == <<"base_status_csr", "mstatus_csr">>

VsstatusCSR == [base_status_csr |-> One("BaseStatusCSR"), val |-> One("uint64")]
VsstatusCSR_wire == <<"base_status_csr", "val">>

SstatusCSR == [orig_sstatus |-> One("SstatusProxyCSR"), virt_sstatus |-> One("VsstatusCSR")]
SstatusCSR_wire == <<"orig_sstatus", "virt_sstatus">>

MaskedCSR == [basic_csr |-> One("BasicCSR"), mask |-> One("uint64")]
MaskedCSR_wire == <<"basic_csr", "mask">>

OptionalUInt64 == [val |-> One("uint64")]
OptionalUInt64_wire == <<"val">>

SmcntrpmfCSR == [masked_csr |-> One("MaskedCSR"), prev_val |-> One("OptionalUInt64")]
SmcntrpmfCSR_wire == <<"masked_csr", "prev_val">>

WideCntrCSR == [val |-> One("uint64"), config_csr |-> One("SmcntrpmfCSR")]
WideCntrCSR_wire == <<"val", "config_csr">>

MedelegCSR == [basic_csr |-> One("BasicCSR"), hypervisor_exceptions |-> One("uint64")]
MedelegCSR_wire == <<"basic_csr", "hypervisor_exceptions">>

HstateenCSR == [masked_csr |-> One("MaskedCSR"), index |-> One("uint32")]
HstateenCSR_wire == <<"masked_csr", "index">>

DCSR ==
  All({"prv", "cause"}, "uint32")
    @@ All({"step", "ebreakm", "ebreaks", "ebreaku", "ebreakvs", "ebreakvu", "halt", "v"}, "bool")
DCSR_wire ==
  <<"prv", "step", "ebreakm", "ebreaks", "ebreaku", "ebreakvs", "ebreakvu", "halt", "v", "cause">>

PmpCSR == [basic_csr |-> One("BasicCSR"), cfg |-> One("uint32"), pmpidx |-> One("uint64")]
PmpCSR_wire == <<"basic_csr", "cfg", "pmpidx">>

StimecmpCSR == [basic_csr |-> One("BasicCSR"), intr_mask |-> One("uint64")]
StimecmpCSR_wire == <<"basic_csr", "intr_mask">>

HidelegCSR == [hideleg_csr |-> One("MaskedCSR"), mideleg_csr |-> One("BasicCSR")]
HidelegCSR_wire == <<"hideleg_csr", "mideleg_csr">>

HenvcfgCSR == All({"henvcfg", "menvcfg"}, "MaskedCSR")
HenvcfgCSR_wire == <<"henvcfg", "menvcfg">>

Float128 == [v0 |-> One("uint64"), v1 |-> One("uint64")]
Float128_wire == <<"v0", "v1">>

-----------------------------------------------------------------------------
\* ArchState, a group of fields at a time.

ArchRegisters ==
  [xpr |-> Many("uint64"), fpr |-> Many("Float128")]
    @@ All({"pc", "prv", "prev_prv"}, "uint64")
    @@ All({"prv_changed", "v_changed", "v", "prev_v"}, "bool")
ArchRegisters_wire ==
  From(1, <<"pc", "xpr", "fpr", "prv", "prev_prv", "prv_changed", "v_changed", "v", "prev_v">>)

ArchMachine ==
  [misa |-> One("MisaCSR"), mstatus |-> One("MstatusCSR"), mevent |-> Many("BasicCSR")]
    @@ All({"mepc", "mtval", "mscratch", "mtvec", "mcause", "time", "mie", "mip"}, "BasicCSR")
    @@ All({"minstret", "mcycle"}, "WideCntrCSR")
ArchMachine_wire ==
  From(10, <<"misa", "mstatus", "mepc", "mtval", "mscratch", "mtvec", "mcause", "minstret",
             "mcycle", "time", "mevent">>) @@ From(25, <<"mie", "mip">>)

ArchDelegation ==
  [medeleg |-> One("MedelegCSR")] @@ All({"mcounteren", "scounteren"}, "MaskedCSR")
ArchDelegation_wire == From(34, <<"medeleg">>) @@ From(36, <<"mcounteren", "scounteren">>)

ArchVirtual == All({"sepc", "stval", "sscratch", "stvec", "satp", "scause"}, "VirtBasicCSR")
ArchVirtual_wire == From(38, <<"sepc", "stval", "sscratch", "stvec", "satp", "scause">>)

ArchHypervisor ==
  [hideleg |-> One("HidelegCSR"), sstatus |-> One("SstatusCSR")]
    @@ All({"hstatus", "hedeleg", "hcounteren"}, "MaskedCSR")
    @@ All({"mtval2", "mtinst", "htimedelta", "htval", "htinst", "hgatp"}, "BasicCSR")
ArchHypervisor_wire ==
  From(44, <<"mtval2", "mtinst", "hstatus">>)
    @@ From(49, <<"hideleg", "hedeleg", "hcounteren", "htimedelta", "htval", "htinst", "hgatp",
                  "sstatus">>)

ArchDebug ==
  [dcsr |-> One("DCSR"), pmpaddr |-> Many("PmpCSR")]
    @@ All({"dpc", "dscratch0", "dscratch1", "tselect", "mseccfg"}, "BasicCSR")
    @@ All({"scontext", "hcontext"}, "MaskedCSR")
ArchDebug_wire ==
  From(57, <<"dpc", "dscratch0", "dscratch1", "dcsr", "tselect">>)
    @@ From(66, <<"scontext", "hcontext">>) @@ From(69, <<"mseccfg", "pmpaddr">>)

ArchEnables ==
  [henvcfg |-> One("HenvcfgCSR"), mstateen |-> Many("MaskedCSR"),
   sstateen |-> Many("HstateenCSR"), hstateen |-> Many("HstateenCSR")]
    @@ All({"fflags", "frm", "senvcfg"}, "MaskedCSR")
ArchEnables_wire ==
  From(72, <<"fflags", "frm">>)
    @@ From(82, <<"senvcfg", "henvcfg", "mstateen", "sstateen", "hstateen">>)

ArchLast ==
  [siselect |-> One("VirtBasicCSR"), srmcfg |-> One("MaskedCSR")]
    @@ All({"mnscratch", "mnepc", "mnstatus", "jvt", "miselect"}, "BasicCSR")
    @@ All({"stimecmp", "vstimecmp"}, "StimecmpCSR")
ArchLast_wire ==
  From(87, <<"mnscratch", "mnepc">>)
    @@ From(90, <<"mnstatus", "stimecmp", "vstimecmp", "jvt", "miselect">>)
    @@ From(101, <<"siselect">>) @@ From(116, <<"srmcfg">>)

ArchFlags ==
  [single_step |-> One("uint32"), last_inst_priv |-> One("uint64")]
    @@ All({"debug_mode", "serialized"}, "bool")
    @@ All({"last_inst_xlen", "last_inst_flen"}, "int32")
ArchFlags_wire ==
  From(117, <<"debug_mode", "serialized", "single_step", "last_inst_priv", "last_inst_xlen",
              "last_inst_flen">>)

ArchState ==
  ArchRegisters @@ ArchMachine @@ ArchDelegation @@ ArchVirtual @@ ArchHypervisor @@ ArchDebug
    @@ ArchEnables @@ ArchLast @@ ArchFlags
ArchState_wire ==
  ArchRegisters_wire @@ ArchMachine_wire @@ ArchDelegation_wire @@ ArchVirtual_wire
    @@ ArchHypervisor_wire @@ ArchDebug_wire @@ ArchEnables_wire @@ ArchLast_wire
    @@ ArchFlags_wire

-----------------------------------------------------------------------------
\* The devices, the memory and the whole.

Page == [ppn |-> One("uint64"), bytes |-> One("bytes")]
Page_wire == <<"ppn", "bytes">>

UInt64Map == [k |-> One("uint64"), v |-> One("uint64")]
UInt64Map_wire == <<"k", "v">>

CLINT == [mtime |-> One("uint64"), mtimecmp |-> Many("UInt64Map")]
CLINT_wire == <<"mtime", "mtimecmp">>

PLICContext ==
  [priority_threshold |-> One("uint32"), enable |-> Many("uint32"), pending |-> Many("uint32"),
   pending_priority |-> Many("uint32"), claimed |-> Many("uint32")]
PLICContext_wire ==
  <<"priority_threshold", "enable", "pending", "pending_priority", "claimed">>

PLIC == [contexts |-> Many("PLICContext"), priority |-> Many("uint32"), level |-> Many("uint32")]
PLIC_wire == <<"contexts", "priority", "level">>

SimState ==
  [arch_state |-> Many("ArchState"), clint |-> One("CLINT"), plic |-> One("PLIC"),
   sparse_mm |-> Many("Page")]
SimState_wire == <<"arch_state", "clint", "plic", "sparse_mm">>

Fields ==
  [BasicCSR |-> BasicCSR, MisaCSR |-> MisaCSR, VirtBasicCSR |-> VirtBasicCSR,
   BaseStatusCSR |-> BaseStatusCSR, MstatusCSR |-> MstatusCSR,
   SstatusProxyCSR |-> SstatusProxyCSR, VsstatusCSR |-> VsstatusCSR, SstatusCSR |-> SstatusCSR,
   MaskedCSR |-> MaskedCSR, OptionalUInt64 |-> OptionalUInt64, SmcntrpmfCSR |-> SmcntrpmfCSR,
   WideCntrCSR |-> WideCntrCSR, MedelegCSR |-> MedelegCSR, HstateenCSR |-> HstateenCSR,
   DCSR |-> DCSR, PmpCSR |-> PmpCSR, StimecmpCSR |-> StimecmpCSR, HidelegCSR |-> HidelegCSR,
   HenvcfgCSR |-> HenvcfgCSR, Float128 |-> Float128, ArchState |-> ArchState, Page |-> Page,
   UInt64Map |-> UInt64Map, CLINT |-> CLINT, PLICContext |-> PLICContext, PLIC |-> PLIC,
   SimState |-> SimState]

Wire ==
  [BasicCSR |-> BasicCSR_wire, MisaCSR |-> MisaCSR_wire, VirtBasicCSR |-> VirtBasicCSR_wire,
   BaseStatusCSR |-> BaseStatusCSR_wire, MstatusCSR |-> MstatusCSR_wire,
   SstatusProxyCSR |-> SstatusProxyCSR_wire, VsstatusCSR |-> VsstatusCSR_wire,
   SstatusCSR |-> SstatusCSR_wire, MaskedCSR |-> MaskedCSR_wire,
   OptionalUInt64 |-> OptionalUInt64_wire, SmcntrpmfCSR |-> SmcntrpmfCSR_wire,
   WideCntrCSR |-> WideCntrCSR_wire, MedelegCSR |-> MedelegCSR_wire,
   HstateenCSR |-> HstateenCSR_wire, DCSR |-> DCSR_wire, PmpCSR |-> PmpCSR_wire,
   StimecmpCSR |-> StimecmpCSR_wire, HidelegCSR |-> HidelegCSR_wire,
   HenvcfgCSR |-> HenvcfgCSR_wire, Float128 |-> Float128_wire, ArchState |-> ArchState_wire,
   Page |-> Page_wire, UInt64Map |-> UInt64Map_wire, CLINT |-> CLINT_wire,
   PLICContext |-> PLICContext_wire, PLIC |-> PLIC_wire, SimState |-> SimState_wire]

-----------------------------------------------------------------------------
\* Accessors.

IsScalar(kind) == kind.type \in Scalars /\ ~ kind.many

\* A new message: the constructors and Clear.
New(class) == [f \in DOMAIN Fields[class] |-> IF IsScalar(Fields[class][f]) THEN Reset ELSE <<>>]

\* has_: a message field is set or not; a scalar one cannot tell.
HasField(class, m, f) == IsScalar(Fields[class][f]) \/ m[f] # <<>>

\* A getter of a message field that is not set gives the class's default
\* instance, a new message.
Sub(class, m, f) == IF m[f] = <<>> THEN New(Fields[class][f].type) ELSE m[f][1]

RECURSIVE Get(_, _, _)
Get(class, m, path) ==
  IF Len(path) = 1 THEN m[path[1]]
  ELSE Get(Fields[class][path[1]].type, Sub(class, m, path[1]), Tail(path))

\* The scalar at the end of a path is set; messages on the way are made.
RECURSIVE Set(_, _, _, _)
Set(class, m, path, v) ==
  LET f == path[1]
      type == Fields[class][f].type
  IN  [m EXCEPT ![f] = IF Len(path) = 1 THEN v
                       ELSE <<Set(type, Sub(class, m, f), Tail(path), v)>>]

-----------------------------------------------------------------------------
\* SerializeToString and ParseFromString.

\* A scalar that is zero is not written; a repeated one is packed.
RECURSIVE InternalSerialize(_, _)
Payloads(class, m, f) ==
  LET kind == Fields[class][f]
  IN  IF kind.type \notin Scalars
        THEN [i \in 1 .. Len(m[f]) |-> InternalSerialize(kind.type, m[f][i])]
      ELSE IF m[f] = (IF kind.many THEN <<>> ELSE Reset) THEN <<>> ELSE <<m[f]>>
InternalSerialize(class, m) ==
  LET written == {t \in DOMAIN Wire[class] : Payloads(class, m, Wire[class][t]) # <<>>}
  IN  [t \in written |-> Payloads(class, m, Wire[class][t])]

\* A tag no case knows is skipped.
RECURSIVE InternalParse(_, _)
Value(kind, payloads) ==
  IF kind.type \in Scalars THEN payloads[Len(payloads)]
  ELSE [i \in 1 .. Len(payloads) |-> InternalParse(kind.type, payloads[i])]
InternalParse(class, bytes) ==
  LET read == {t \in DOMAIN bytes : t \in DOMAIN Wire[class]}
      tag(f) == CHOOSE t \in read : Wire[class][t] = f
  IN  [f \in DOMAIN Fields[class] |->
         IF \E t \in read : Wire[class][t] = f THEN Value(Fields[class][f], bytes[tag(f)])
         ELSE New(class)[f]]
=============================================================================
