------------------------------ MODULE ProgText ------------------------------
(***************************************************************************)
(* ObjdumpedBinary: the table of a binary's subroutines, from its DWARF    *)
(* entries and after them its symbols, and the array of labels filled from *)
(* it, one for each address of the image.  What libelf and libdwarf give   *)
(* is the initial dies and symtab.  The array goes by addresses, not by    *)
(* offsets from baseaddr.                                                  *)
(*                                                                         *)
(* The operators with a suffix (Taken_Same) are faulty variants.           *)
(***************************************************************************)
EXTENDS Integers, SequencesExt

CONSTANTS
  lowpc, highpc,    \* the executable sections: the first address, the one after the last
  FunctionNames,    \* the names in the binary
  null              \* no name, no label

\* What libdwarf and libelf may give.  The high pc of DWARF 4 is an offset.
\* A subprogram that ends at 0, which reads as one without an end, is left out.
EndOf(die) == IF die.constant THEN die.low + die.high ELSE die.high
Dies ==
  {die \in [name : FunctionNames \union {null}, low : Nat, high : Nat, constant : BOOLEAN,
            callsites : Seq(Nat)] : EndOf(die) # 0}
Symbols == [name : FunctionNames \union {null}, value : Nat, func : BOOLEAN, text : BOOLEAN]

Subroutines == [name : FunctionNames, pc_end : Nat, function : BOOLEAN, callsites : Seq(Nat)]
Instr == [function_name : FunctionNames, is_fn_entry : BOOLEAN, is_callsite : BOOLEAN,
          in_asm_sequence : BOOLEAN]

ASSUME TextAssumption ==
  /\ lowpc \in Nat /\ highpc \in Nat
  /\ null \notin FunctionNames /\ null \notin Subroutines /\ null \notin Instr

VARIABLES
  dies, symtab,     \* DWARF entries and symbols that are still to come
  table,            \* subroutine_map: address -> subroutine
  stage,            \* "table", "fill", "run": where the constructor is
  left,             \* the table's addresses that are still to be filled in
  progtext, offset, prev

textVars == <<dies, symtab, table, stage, left, progtext, offset, prev>>

TextInit ==
  /\ table = <<>>
  /\ stage = "table"
  /\ left = {}
  /\ progtext = <<>>
  /\ offset = 0
  /\ prev = null

Inputs == dies \in Seq(Dies) /\ symtab \in Seq(Symbols)

-----------------------------------------------------------------------------
\* The table.

\* pc_end 0: the end is not known.
subroutine(name, pc_end, function, callsites) ==
  [name |-> name, pc_end |-> pc_end, function |-> function, callsites |-> callsites]

\* A key keeps its first subroutine, with that one's call sites.
emplace(pc, sub) ==
  [k \in DOMAIN table \union {pc} |-> IF k \in DOMAIN table THEN table[k] ELSE sub]

die_subprogram ==
  /\ stage = "table" /\ dies # <<>>
  /\ LET die == Head(dies)
     IN  table' = IF die.name = null THEN table
                  ELSE emplace(die.low, subroutine(die.name, EndOf(die), TRUE, die.callsites))
  /\ dies' = Tail(dies)
  /\ UNCHANGED <<symtab, stage, left, progtext, offset, prev>>

\* The address has a subroutine, or falls within the one before it.
Taken_Same(pc) == pc \in DOMAIN table
Taken(pc) ==
  \E k \in DOMAIN table :
    /\ k <= pc
    /\ \A other \in DOMAIN table : other <= pc => other <= k
    /\ pc = k \/ pc < table[k].pc_end

Symbol ==
  /\ stage = "table" /\ dies = <<>> /\ symtab # <<>>
  /\ LET sym == Head(symtab)
     IN  table' = IF ~ sym.text \/ Taken(sym.value) \/ sym.name = null THEN table
                  ELSE emplace(sym.value, subroutine(sym.name, 0, sym.func, <<>>))
  /\ symtab' = Tail(symtab)
  /\ UNCHANGED <<dies, stage, left, progtext, offset, prev>>

-----------------------------------------------------------------------------
\* The array.

Resized(text, addrs) == [a \in DOMAIN text \union addrs |-> IF a \in DOMAIN text THEN text[a] ELSE null]

baseaddr == Min(DOMAIN table \union {lowpc})

Allocate ==
  /\ stage = "table" /\ dies = <<>> /\ symtab = <<>>
  /\ progtext' = Resized(<<>>, baseaddr .. highpc - 1)
  /\ left' = DOMAIN table
  /\ stage' = "fill"
  /\ UNCHANGED <<dies, symtab, table, offset, prev>>

Entry(sub) ==
  [function_name |-> sub.name, is_fn_entry |-> TRUE, is_callsite |-> FALSE,
   in_asm_sequence |-> ~ sub.function]
Body(entry) == [entry EXCEPT !.is_fn_entry = FALSE]
Callsite(entry) == [Body(entry) EXCEPT !.is_callsite = TRUE]

\* Those of the addresses that have no label yet get one.
Filled(text, addrs, label) ==
  [a \in DOMAIN text |-> IF a \in addrs /\ text[a] = null THEN label ELSE text[a]]

\* The label of a subroutine without an end is carried on to the next.
CarriedOn(text, limit) ==
  IF prev = null THEN text ELSE Filled(text, offset .. limit - 1, Body(prev))

\* The next subroutine, in the order of addresses.
Populate ==
  /\ stage = "fill" /\ left # {}
  /\ LET start == Min(left)
         sub == table[start]
         end == Max({sub.pc_end, start})
         text == CarriedOn(Resized(progtext, baseaddr .. end - 1), start)
         entry == Entry(sub)
         sites == {pc \in ToSet(sub.callsites) : start <= pc /\ pc < end}
         reached == IF prev = null THEN offset ELSE Max({offset, start})
     IN  \/ /\ start \notin DOMAIN text
            /\ progtext' = text
            /\ left' = {}
            /\ offset' = reached
            /\ UNCHANGED prev
         \/ /\ start \in DOMAIN text /\ text[start] # null
            /\ progtext' = text
            /\ left' = left \ {start}
            /\ offset' = reached
            /\ UNCHANGED prev
         \/ /\ start \in DOMAIN text /\ text[start] = null
            /\ progtext' = Filled(Filled([text EXCEPT ![start] = entry], sites, Callsite(entry)),
                                  start + 1 .. end - 1, Body(entry))
            /\ left' = left \ {start}
            /\ offset' = Max({start + 1, end})
            /\ prev' = IF sub.pc_end = 0 THEN entry ELSE null
  /\ UNCHANGED <<dies, symtab, table, stage>>

\* The last label is carried on to the end of the image.
FillEnd ==
  /\ stage = "fill" /\ left = {}
  /\ progtext' = CarriedOn(progtext, Max(DOMAIN progtext) + 1)
  /\ stage' = "run"
  /\ UNCHANGED <<dies, symtab, table, left, offset, prev>>

getInstrFromAddr(pc) == IF pc \in DOMAIN progtext THEN progtext[pc] ELSE null

TextNext == die_subprogram \/ Symbol \/ Allocate \/ Populate \/ FillEnd

TextSpec == TextInit /\ Inputs /\ [][TextNext]_textVars

-----------------------------------------------------------------------------

\* The code's look-up in the table itself: its last key that is not after pc.
subroutine_find(pc) ==
  LET keys == {k \in DOMAIN table : k <= pc}
  IN  IF keys = {} THEN null
      ELSE LET sub == table[Max(keys)]
           IN  IF sub.pc_end = 0 \/ pc < sub.pc_end THEN sub ELSE null

\* No subprogram is empty or begins within another.
Disjoint ==
  \A k \in DOMAIN table : table[k].pc_end # 0 =>
    /\ k < table[k].pc_end
    /\ \A before \in DOMAIN table : before < k => table[before].pc_end <= k

(* The array gives what subroutine_find gives, when the DWARF entries are  *)
(* disjoint: the name and the kind of the label at every address of the *)
(* image, entries at the table's addresses, and no label in a gap behind a *)
(* subroutine that has an end, whatever came before it.                    *)
TextIsTable ==
  stage = "run" /\ Disjoint =>
    \A pc \in DOMAIN progtext :
      LET label == getInstrFromAddr(pc)
          sub == subroutine_find(pc)
      IN  IF sub = null THEN label = null
          ELSE /\ label # null
               /\ label.function_name = sub.name
               /\ label.in_asm_sequence = ~ sub.function
               /\ label.is_fn_entry = (pc \in DOMAIN table)
               /\ label.is_callsite = (pc \notin DOMAIN table /\ pc \in ToSet(sub.callsites))
=============================================================================
