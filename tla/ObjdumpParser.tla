--------------------------- MODULE ObjdumpParser ---------------------------
(***************************************************************************)
(* objdump_parser_t: the functions of a listing, and the addresses and     *)
(* registers the profiler's hooks are told.  The listing is objdump's; a   *)
(* line is a sequence of words, as split makes them, and a word a record   *)
(* that says what it is.                                                   *)
(*                                                                         *)
(* The operators with a suffix (Read_Keeps) are faulty variants.          *)
(***************************************************************************)
EXTENDS Integers, SequencesExt

CONSTANTS
  Names,      \* of functions
  Nowhere,    \* an assertion or pexit stops the profiler
  MaxLines    \* bound: lines of the listing

VARIABLES
  listing,                                   \* the lines so far
  in_func, name,                             \* locals of the constructor
  func_bodies, func_start_va, func_end_va    \* maps from names, to lines and addresses

parserVars == <<listing, in_func, name, func_bodies, func_start_va, func_end_va>>

ParserInit ==
  /\ listing = <<>>
  /\ in_func = FALSE
  /\ name = Nowhere
  /\ func_bodies = <<>>
  /\ func_start_va = <<>>
  /\ func_end_va = <<>>

-----------------------------------------------------------------------------
\* The listing: the title of a function, its instructions, and lines of one
\* word, empty between two functions, dots where zeros are left out.

Title(va, func) == <<[va |-> va], [title |-> func]>>
Insns ==
  {<<[op |-> "ret"]>>, <<[op |-> "nop"]>>, <<[op |-> "csrw"], [args |-> <<"satp", "a5">>]>>,
   <<[op |-> "mv"], [args |-> <<"a0", "s1">>]>>, <<[op |-> "mv"], [args |-> <<"s1", "a0">>]>>}
Insn(va, words) == <<[va |-> va], [bytes |-> 0]>> \o words
OneWord == <<[text |-> ""]>>

IsTitle(line) == Len(line) = 2
IsInsn(line) == Len(line) > 2

\* The next lines there can be; an address is the number of its line.
Lines ==
  LET va == Len(listing) + 1
  IN  IF listing = <<>> \/ Last(listing) = OneWord THEN {Title(va, f) : f \in Names} \union {Insn(va, w) : w \in Insns}
      ELSE {Insn(va, w) : w \in Insns} \union {OneWord}

-----------------------------------------------------------------------------
\* The constructor.

\* A key that is there keeps its value.
insert(map, key, value) ==
  [k \in DOMAIN map \union {key} |-> IF k \in DOMAIN map THEN map[k] ELSE value]

EndFunction(words) ==
  /\ in_func /\ Len(words) = 1
  /\ in_func' = FALSE
  /\ func_end_va' = insert(func_end_va, name, Last(func_bodies[name])[1].va)
  /\ UNCHANGED <<name, func_bodies, func_start_va>>

BodyLine(words) ==
  /\ in_func /\ Len(words) # 1
  /\ func_bodies' = [func_bodies EXCEPT ![name] = Append(@, words)]
  /\ UNCHANGED <<in_func, name, func_start_va, func_end_va>>

BeginFunction(words) ==
  /\ ~ in_func /\ IsTitle(words)
  /\ in_func' = TRUE
  /\ name' = words[2].title
  /\ func_bodies' = insert(func_bodies, words[2].title, <<words>>)
  /\ func_start_va' = insert(func_start_va, words[2].title, words[1].va)
  /\ UNCHANGED func_end_va

OtherLine(words) ==
  /\ ~ in_func /\ ~ IsTitle(words)
  /\ UNCHANGED <<in_func, name, func_bodies, func_start_va, func_end_va>>

ReadLine ==
  /\ Len(listing) < MaxLines
  /\ \E words \in Lines :
       /\ listing' = Append(listing, words)
       /\ EndFunction(words) \/ BodyLine(words) \/ BeginFunction(words) \/ OtherLine(words)

ParserSpec == ParserInit /\ [][ReadLine]_parserVars

-----------------------------------------------------------------------------
\* The look-ups.

get_func_start_va(f) == IF f \in DOMAIN func_start_va THEN func_start_va[f] ELSE Nowhere
get_func_end_va(f) == IF f \in DOMAIN func_end_va THEN func_end_va[f] ELSE Nowhere

\* The addresses of the lines that match.  split appends to the words there
\* are, and a line with less words than are needed is skipped before they
\* are cleared.
Read_Keeps(words, line, needed) == words \o line
Read(words, line, needed) == IF Len(words) < needed THEN words \o line ELSE line

\* The instruction looked for: its name, and CSRs among its operands.
Wanted(words, op, csrs) == words[3] = [op |-> op] /\ \A csr \in csrs : csr \in ToSet(words[4].args)

Found(f, needed, op, csrs) ==
  LET body == func_bodies[f]
      read[n \in 0 .. Len(body)] ==
        IF n = 0 THEN [words |-> <<>>, vas |-> <<>>]
        ELSE LET words == Read(read[n - 1].words, body[n], needed)
                 vas == read[n - 1].vas
             IN  [words |-> words,
                  vas |-> IF Len(words) >= needed /\ Wanted(words, op, csrs)
                            THEN Append(vas, words[1].va) ELSE vas]
  IN  read[Len(body)].vas

get_func_exits_va(f) == Found(f, 3, "ret", {})

get_func_csrw_va(f, csr) ==
  LET vas == Found(f, 4, "csrw", {csr})
  IN  IF Len(vas) = 1 THEN vas[1] ELSE Nowhere

\* A register that is moved to the argument's or from it: the argument's.
func_args_reg(f, r) ==
  LET uses == {i \in DOMAIN func_bodies[f] :
                 LET words == func_bodies[f][i] IN Len(words) >= 4 /\ r \in ToSet(words[4].args)}
      first == func_bodies[f][Min(uses)]
  IN  IF uses = {} \/ first[3] # [op |-> "mv"] \/ first[4].args[1] = r THEN r ELSE first[4].args[2]

\* The last move to a0 is looked for, and there must be one.
func_ret_reg(f) ==
  IF \E i \in DOMAIN func_bodies[f] :
       LET words == func_bodies[f][i]
       IN  Len(words) >= 4 /\ words[3] = [op |-> "mv"] /\ words[4].args[1] = "a0"
    THEN "a0" ELSE Nowhere

-----------------------------------------------------------------------------

\* The listings of a function, from its titles up to the next line of one
\* word, and its instructions in all of them.
Titles(f) == {t \in DOMAIN listing : IsTitle(listing[t]) /\ listing[t][2].title = f}
Within(t, i) == t < i /\ \A j \in t + 1 .. i : listing[j] # OneWord
InsnsOf(f) == {i \in DOMAIN listing : \E t \in Titles(f) : Within(t, i)}
Doing(f, op) == {i \in InsnsOf(f) : listing[i][3] = [op |-> op]}

\* The ones right behind a line long enough for what is looked for.
Sure(f, op, needed) == {i \in Doing(f, op) : Len(listing[i - 1]) >= needed}

(* The profiler is told the right addresses: a function starts where its   *)
(* first listing does and ends with that listing's last instruction; what  *)
(* it is told of exits and of the write of a CSR are such instructions of  *)
(* the function, in any of its listings, and it is told of every one that  *)
(* comes right behind a line long enough.  A CSR is written at the one     *)
(* place found, if it is one.                                              *)
FunctionsFound ==
  \A f \in DOMAIN func_bodies :
    LET first == Min(Titles(f))
        over == {i \in first + 1 .. Len(listing) : listing[i] = OneWord}
        exits == ToSet(get_func_exits_va(f))
    IN  /\ get_func_start_va(f) = first
        /\ get_func_end_va(f) = IF over = {} THEN Nowhere ELSE Min(over) - 1
        /\ Sure(f, "ret", 3) \subseteq exits /\ exits \subseteq Doing(f, "ret")
        /\ \E writes \in SUBSET Doing(f, "csrw") :
             /\ Sure(f, "csrw", 4) \subseteq writes
             /\ get_func_csrw_va(f, "satp") = IF Cardinality(writes) = 1 THEN Max(writes) ELSE Nowhere
        /\ func_args_reg(f, "a0") = "a0"
        /\ func_ret_reg(f) # Nowhere => \E i \in Doing(f, "mv") : listing[i][4].args[1] = "a0"
=============================================================================
