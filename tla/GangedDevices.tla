--------------------------- MODULE GangedDevices ---------------------------
(***************************************************************************)
(* The PLIC and the CLINT of the lockstep mode (spike-top/ganged_devices). *)
(* They do not interrupt the hart by themselves: the PLIC remembers which  *)
(* devices have asked, and the trace says when the hart is to know.        *)
(*                                                                         *)
(* devs is [interrupt_vector, working]: the PLIC's bits, as the set of the *)
(* ids of those that are set, and the devices with work to do.             *)
(***************************************************************************)
EXTENDS Naturals

CONSTANT Devices  \* interrupt ids of the devices

ASSUME DeviceAssumption == Devices \subseteq 1 .. 63

\* (uint64_t) (1 << id) of a 32-bit int: bit 31 is the sign and is extended,
\* and x86 shifts by the id modulo 32.
ShiftedInt(id) == IF id % 32 = 31 THEN 31 .. 63 ELSE {id % 32}

\* Called by each of the devices.
submit_external_interrupt(devs, ids) == [devs EXCEPT !.interrupt_vector = @ \union ids]

\* lower_external_interrupt returns false, and does nothing, if the bit is clear.
lower_external_interrupt_All(devs, id) == [devs EXCEPT !.interrupt_vector = {}]
lower_external_interrupt(devs, id) ==
  IF devs.interrupt_vector \intersect ShiftedInt(id) = {} THEN devs
  ELSE [devs EXCEPT !.interrupt_vector = @ \ {id}]

\* Whether alert_core_external_interrupt raises SEIP.
alert_core_external_interrupt(devs) == devs.interrupt_vector # {}

\* A device's tick finishes its work (external): it submits its interrupt.
Ticked(devs) == [submit_external_interrupt(devs, devs.working) EXCEPT !.working = {}]

\* plic_ganged_t::store: whatever is stored, the hart's SEIP goes down.
PlicStored(mip) == mip \ {"seip"}

\* clint_ganged_t::store of msip: the new value is computed and not used.
ClintStored(mip, msip) == mip
=============================================================================
