--------------------------- MODULE MCOfflineTools ---------------------------
(***************************************************************************)
(* The parts that run before the target does, and after: three programs    *)
(* that share nothing.  A behaviour is one of them.                        *)
(***************************************************************************)
EXTENDS StackUnwinder, ObjdumpParser, MemLayout

VARIABLE tool    \* the part that runs

mcVars == <<textVars, unwinderVars, parserVars, layoutVars, tool>>

Die(func, low, high, constant, callsites) ==
  [name |-> func, low |-> low, high |-> high, constant |-> constant, callsites |-> callsites]
Sym(func, value, isFunc, text) ==
  [name |-> func, value |-> value, func |-> isFunc, text |-> text]

\* Sequences of at most n members of a set, none of them twice.
OnceEach(set, n) ==
  UNION {{s \in [1 .. k -> set] : IsInjective(s)} : k \in 0 .. n}

\* For the table: gaps, labels within functions, two entries at an address,
\* one that begins within another, an empty one, a call site outside, the image's
\* end, data.
TableDies ==
  {Die("main", 0, 2, FALSE, <<1>>), Die("f", 3, 2, TRUE, <<3, 4, 6>>),
   Die("alias", 3, 1, TRUE, <<>>), Die("long", 1, 4, FALSE, <<>>), Die("empty", 4, 0, TRUE, <<>>),
   Die(null, 5, 6, FALSE, <<>>)}
TableSymbols ==
  {Sym("main", 0, TRUE, TRUE), Sym("loop", 1, FALSE, TRUE), Sym("asm", 2, FALSE, TRUE),
   Sym("g", 5, TRUE, TRUE), Sym("end", highpc, FALSE, TRUE), Sym("data", 4, FALSE, FALSE),
   Sym(null, 2, FALSE, TRUE)}

\* For the stack: three functions, an assembly routine and the trap handler.
StackDies == <<Die("main", 0, 2, FALSE, <<1>>), Die("f", 2, 2, TRUE, <<3>>)>>
StackSymbols ==
  <<Sym("asm", 4, FALSE, TRUE), Sym("handler", Handler, FALSE, TRUE), Sym("g", 8, TRUE, TRUE)>>

ASSUME MCAssumption ==
  /\ TableDies \union ToSet(StackDies) \subseteq Dies
  /\ TableSymbols \union ToSet(StackSymbols) \subseteq Symbols

MCInit ==
  /\ tool \in {"table", "stack", "objdump", "layout"}
  /\ IF tool = "table" THEN dies \in OnceEach(TableDies, 2) /\ symtab \in OnceEach(TableSymbols, 3)
     ELSE dies = StackDies /\ symtab = StackSymbols
  /\ UnwinderInit
  /\ ParserInit
  /\ LayoutInit

TextStep ==
  /\ tool \in {"table", "stack"} /\ TextNext
  /\ UNCHANGED <<unwinderVars, parserVars, layoutVars, tool>>
UnwinderStep == tool = "stack" /\ (Start \/ Run) /\ UNCHANGED <<parserVars, layoutVars, tool>>
ParserStep == tool = "objdump" /\ ReadLine /\ UNCHANGED <<textVars, unwinderVars, layoutVars, tool>>
LayoutStep == tool = "layout" /\ LayoutNext /\ UNCHANGED <<textVars, unwinderVars, parserVars, tool>>

MCNext == TextStep \/ UnwinderStep \/ ParserStep \/ LayoutStep

MCSpec == MCInit /\ [][MCNext]_mcVars
=============================================================================
