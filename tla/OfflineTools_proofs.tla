-------------------------- MODULE OfflineTools_proofs --------------------------
(***************************************************************************)
(* The tools that run before the target does, and after.                   *)
(*                                                                         *)
(*   ProgText       the array of labels agrees with the table of           *)
(*                  subroutines, for any binary whose DWARF entries are    *)
(*                  disjoint                                               *)
(*   MemLayout      the merged regions are the pages the tuples touch, for *)
(*                  any number of tuples                                   *)
(*   ObjdumpParser  a search by opcode and registers finds the             *)
(*                  instructions of the listing, for a listing of any      *)
(*                  length                                                 *)
(*   StackUnwinder  the labels are those of the stack's frames, as far as  *)
(*                  an address can tell, for any program                   *)
(***************************************************************************)
EXTENDS StackUnwinder, MemLayout, ObjdumpParser, FiniteSetTheorems, WellFoundedInduction,
        SequenceTheorems, TLAPS

-----------------------------------------------------------------------------
\* Natural numbers: the least and the greatest of a set, induction, stated for a
\* set, and functions that are defined by a first value and a step.

(* A set of natural numbers has a least one.                               *)
LEMMA LeastOf ==
  ASSUME NEW S \in SUBSET Nat, S # {}
  PROVE  Min(S) \in S /\ \A x \in S : Min(S) <= x
<1> DEFINE T == {1 .. n : n \in S}
<1>1. T # {}
  OBVIOUS
<1>2. T \subseteq FiniteSubsetsOf(Nat)
  <2> SUFFICES ASSUME NEW n \in Nat PROVE 1 .. n \in FiniteSubsetsOf(Nat)
    OBVIOUS
  <2>1. IsFiniteSet(1 .. n)
    BY FS_Interval
  <2>2. 1 .. n \in SUBSET Nat
    OBVIOUS
  <2> QED BY <2>1, <2>2 DEF FiniteSubsetsOf
<1>3. IsWellFoundedOn(StrictSubsetOrdering(Nat), FiniteSubsetsOf(Nat))
  BY FS_StrictSubsetOrderingWellFounded
<1>4. PICK x \in T : \A y \in T : ~ (<<y, x>> \in StrictSubsetOrdering(Nat))
  BY <1>1, <1>2, <1>3, WFMin
<1>5. PICK n \in S : x = 1 .. n
  BY <1>4
<1>6. ASSUME NEW k \in S, ~ (n <= k) PROVE FALSE
  <2>1. n \in Nat /\ k \in Nat /\ k < n
    BY <1>6
  <2>2. 1 .. k \subseteq 1 .. n /\ n \in 1 .. n /\ n \notin 1 .. k
    BY <2>1
  <2>3. <<1 .. k, 1 .. n>> \in StrictSubsetOrdering(Nat)
    BY <2>1, <2>2 DEF StrictSubsetOrdering
  <2> QED BY <1>4, <1>5, <2>3
<1>7. \E least \in S : \A y \in S : least <= y
  BY <1>6
<1> QED BY <1>7 DEF Min

(* A set of natural numbers that are not after b has a greatest one.       *)
LEMMA GreatestOf ==
  ASSUME NEW S \in SUBSET Nat, S # {}, NEW b \in Nat, \A x \in S : x <= b
  PROVE  Max(S) \in S /\ \A x \in S : x <= Max(S)
<1> DEFINE T == {b - x : x \in S}
<1>1. T \in SUBSET Nat /\ T # {}
  <2>1. PICK x \in S : TRUE
    OBVIOUS
  <2>2. b - x \in T
    BY <2>1
  <2>3. \A y \in S : b - y \in Nat
    OBVIOUS
  <2> QED BY <2>2, <2>3
<1>2. PICK x \in S : Min(T) = b - x
  <2> HIDE DEF T
  <2>1. Min(T) \in T
    BY <1>1, LeastOf
  <2> QED BY <2>1 DEF T
<1>3. \A y \in S : Min(T) <= b - y
  <2>1. \A y \in S : b - y \in T
    OBVIOUS
  <2> HIDE DEF T
  <2>2. \A y \in T : Min(T) <= y
    BY <1>1, LeastOf
  <2> QED BY <2>1, <2>2
<1> HIDE DEF T
<1>4. \A y \in S : x >= y
  BY <1>2, <1>3
<1>5. Max(S) \in S /\ \A y \in S : Max(S) >= y
  BY <1>4 DEF Max
<1> QED BY <1>5

(* A set with 0 that is closed under successor has every natural number.   *)
LEMMA SetInduction ==
  ASSUME NEW S \in SUBSET Nat, 0 \in S, \A n \in S : n + 1 \in S
  PROVE  S = Nat
<1> DEFINE T == Nat \ S
           n == Min(T)
<1> SUFFICES ASSUME T # {} PROVE FALSE
  OBVIOUS
<1>1. n \in T /\ \A x \in T : n <= x
  <2> HIDE DEF T
  <2>1. T \in SUBSET Nat
    BY DEF T
  <2> QED BY <2>1, LeastOf
<1> HIDE DEF n
<1>2. n - 1 \in Nat /\ (n - 1) + 1 = n /\ ~ (n <= n - 1)
  BY <1>1
<1>3. n - 1 \notin T
  BY <1>1, <1>2
<1> QED BY <1>1, <1>2, <1>3

(* f starts with v, and goes on from n - 1 to n as step says.              *)
Iterates(f, v, N, step) == f[0] = v /\ \A n \in 1 .. N : f[n] = step[n][f[n - 1]]

(* A function on 0 .. N that is defined by its first value and a step      *)
(* exists,                                                                 *)
LEMMA RecursionExists ==
  ASSUME NEW S, NEW v \in S, NEW N \in Nat, NEW step,
         \A n \in 1 .. N : \A x \in S : step[n][x] \in S
  PROVE  \E f \in [0 .. N -> S] : Iterates(f, v, N, step)
<1> DEFINE Def(f, k) == /\ f \in [0 .. k -> S] /\ f[0] = v
                        /\ \A n \in 1 .. k : f[n] = step[n][f[n - 1]]
           Good == {k \in Nat : k <= N => \E f : Def(f, k)}
<1>1. 0 \in Good
  <2>1. Def([n \in 0 .. 0 |-> v], 0)
    OBVIOUS
  <2> QED BY <2>1
<1>2. ASSUME NEW k \in Good PROVE k + 1 \in Good
  <2> HIDE DEF Def
  <2>0. k \in Nat /\ k + 1 \in Nat
    BY <1>2
  <2> SUFFICES ASSUME k + 1 <= N PROVE \E f : Def(f, k + 1)
    BY <2>0
  <2> USE DEF Def
  <2>1. PICK g : Def(g, k)
    BY <1>2
  <2> DEFINE f == [n \in 0 .. k + 1 |-> IF n = k + 1 THEN step[n][g[k]] ELSE g[n]]
  <2>2. k \in Nat /\ k + 1 \in 1 .. N /\ g[k] \in S
    BY <1>2, <2>1
  <2>3. step[k + 1][g[k]] \in S
    BY <2>2
  <2>4. f \in [0 .. k + 1 -> S] /\ f[0] = v
    BY <2>1, <2>2, <2>3
  <2>5. ASSUME NEW n \in 1 .. k + 1 PROVE f[n] = step[n][f[n - 1]]
    <3>1. n - 1 \in 0 .. k /\ f[n - 1] = g[n - 1]
      BY <2>2
    <3> QED BY <2>1, <2>2, <3>1
  <2> QED BY <2>4, <2>5
<1> HIDE DEF Good
<1>3. Good = Nat
  <2>1. Good \in SUBSET Nat
    BY DEF Good
  <2> QED BY <1>1, <1>2, <2>1, SetInduction
<1>4. PICK f : Def(f, N)
  <2>1. N \in Good
    BY <1>3
  <2>2. N <= N => \E f : Def(f, N)
    BY <2>1 DEF Good
  <2>3. N <= N
    OBVIOUS
  <2> QED BY <2>2, <2>3
<1> QED BY <1>4 DEF Iterates

\* f and g start alike and go on alike.
GoOnAlike(f, g, N) == f[0] = g[0] /\ \A n \in 1 .. N : f[n - 1] = g[n - 1] => f[n] = g[n]
Alike(f, g, N) == \A n \in 0 .. N : f[n] = g[n]

(* and two that start alike and go on alike are equal.                     *)
LEMMA RecursionAgrees ==
  ASSUME NEW N \in Nat, NEW f, NEW g, GoOnAlike(f, g, N)
  PROVE  Alike(f, g, N)
<1> USE DEF GoOnAlike, Alike
<1> DEFINE Good == {n \in Nat : n <= N => f[n] = g[n]}
<1>1. 0 \in Good
  OBVIOUS
<1>2. ASSUME NEW n \in Good PROVE n + 1 \in Good
  <2> SUFFICES ASSUME n + 1 <= N PROVE f[n + 1] = g[n + 1]
    OBVIOUS
  <2>1. n \in Nat /\ n + 1 \in 1 .. N /\ (n + 1) - 1 = n /\ f[n] = g[n]
    OBVIOUS
  <2> QED BY <2>1
<1>3. Good \in SUBSET Nat
  OBVIOUS
<1> HIDE DEF Good
<1>4. Good = Nat
  BY <1>1, <1>2, <1>3, SetInduction
<1> QED BY <1>4 DEF Good

-----------------------------------------------------------------------------
\* ProgText: the invariant.

\* While the table is built: symbols come after all DWARF entries, and are left
\* out where they fall within one.
Apart == \A k, next \in DOMAIN table : k < next => table[k].pc_end <= next
TableInv ==
  /\ Inputs /\ stage \in {"table", "fill", "run"} /\ left \subseteq DOMAIN table
  /\ DOMAIN table \subseteq Nat /\ \A k \in DOMAIN table : table[k] \in Subroutines
  /\ \A k \in DOMAIN table : table[k].pc_end = 0 => table[k].callsites = <<>>
  /\ dies # <<>> => \A k \in DOMAIN table : table[k].pc_end # 0
  /\ Disjoint => Apart

\* While the array is filled: done are the keys that have been.  The greatest
\* that is not after an address rules it, unless it is at its end or it has no
\* end and nothing is done after it.
Done == DOMAIN table \ left
Below(done, m, a) == m \in done /\ m <= a /\ \A k \in done : k <= a => k <= m
Covers(tab, done, m, a) ==
  a = m \/ a < tab[m].pc_end \/ (tab[m].pc_end = 0 /\ \E k \in done : a < k)
Rules(tab, done, m, a) == Below(done, m, a) /\ Covers(tab, done, m, a)

LabelAt(sub, m, a) ==
  IF a = m THEN Entry(sub)
  ELSE IF a \in ToSet(sub.callsites) THEN Callsite(Entry(sub)) ELSE Body(Entry(sub))
Labels(tab, done, text) ==
  /\ \A m \in done, a \in DOMAIN text : Rules(tab, done, m, a) => text[a] = LabelAt(tab[m], m, a)
  /\ \A a \in DOMAIN text : text[a] # null => \E m \in done : Rules(tab, done, m, a)

\* The array goes from baseaddr to the end of what has been filled in, and
\* beyond it only if a symbol there has broken the loop off.
IsImage(addrs) == \E n \in Nat : addrs = baseaddr .. n - 1
ImageInv ==
  /\ IsImage(DOMAIN progtext)
  /\ \A k \in Done, next \in left : k < next
  /\ left # {} => Done \subseteq DOMAIN progtext
  /\ \A m \in Done : m \in DOMAIN progtext => \A a \in Nat : m <= a /\ a < table[m].pc_end => a \in DOMAIN progtext

\* prev is the last label if it has no end.
Broken == left = {} /\ \E k \in Done : k \notin DOMAIN progtext /\ k <= offset
IsLast(m) == m \in Done /\ m \in DOMAIN progtext /\ \A k \in Done : k <= m
PrevInv ==
  /\ offset \in Nat
  /\ IF prev = null THEN \A m : IsLast(m) => table[m].pc_end # 0
     ELSE Broken \/ \E m : /\ IsLast(m) /\ table[m].pc_end = 0
                           /\ prev = Entry(table[m]) /\ offset = m + 1

FillInv == ImageInv /\ PrevInv /\ Labels(table, Done, progtext)

TextInv ==
  /\ TableInv
  /\ stage = "fill" /\ Disjoint => FillInv
  /\ stage = "table" => prev = null /\ offset = 0
  /\ TextIsTable

-----------------------------------------------------------------------------
\* The operators of the array.

(* A label is not the null pointer.                                        *)
LEMMA LabelFact ==
  ASSUME NEW sub \in Subroutines, NEW m, NEW a
  PROVE  /\ Entry(sub) \in Instr /\ Entry(sub) # null
         /\ LabelAt(sub, m, a) \in Instr /\ LabelAt(sub, m, a) # null
<1>1. /\ Entry(sub) \in Instr /\ Body(Entry(sub)) \in Instr /\ Callsite(Entry(sub)) \in Instr
  BY DEF Entry, Body, Callsite, Instr, Subroutines
<1> QED BY <1>1, TextAssumption DEF LabelAt

(* Resizing adds addresses without a label.                                *)
LEMMA ResizedFact ==
  ASSUME NEW text, NEW addrs
  PROVE  /\ DOMAIN Resized(text, addrs) = DOMAIN text \union addrs
         /\ \A a \in DOMAIN text : Resized(text, addrs)[a] = text[a]
         /\ \A a \in addrs \ DOMAIN text : Resized(text, addrs)[a] = null
  BY DEF Resized

(* The label before is carried on from offset.                             *)
LEMMA CarriedFact ==
  ASSUME NEW text, NEW limit \in Int, offset \in Nat, DOMAIN text \subseteq Nat
  PROVE  /\ DOMAIN CarriedOn(text, limit) = DOMAIN text
         /\ \A a \in DOMAIN text :
              IF prev # null /\ offset <= a /\ a < limit /\ text[a] = null
              THEN CarriedOn(text, limit)[a] = Body(prev)
              ELSE CarriedOn(text, limit)[a] = text[a]
<1>1. CASE prev = null
  BY <1>1 DEF CarriedOn
<1>2. CASE prev # null
  <2>1. CarriedOn(text, limit) = Filled(text, offset .. limit - 1, Body(prev))
    BY <1>2 DEF CarriedOn
  <2>2. \A a \in DOMAIN text : a \in offset .. limit - 1 <=> offset <= a /\ a < limit
    OBVIOUS
  <2> QED BY <1>2, <2>1, <2>2 DEF Filled
<1> QED BY <1>1, <1>2

-----------------------------------------------------------------------------
\* The table.

(* The image begins no later than its subroutines.                         *)
LEMMA BaseFact ==
  ASSUME TableInv
  PROVE  baseaddr \in Nat /\ \A k \in DOMAIN table : baseaddr <= k
<1>1. DOMAIN table \union {lowpc} \in SUBSET Nat
  BY TextAssumption DEF TableInv
<1>2. DOMAIN table \union {lowpc} # {}
  OBVIOUS
<1>3. /\ baseaddr \in DOMAIN table \union {lowpc}
      /\ \A x \in DOMAIN table \union {lowpc} : baseaddr <= x
  BY <1>1, <1>2, LeastOf DEF baseaddr
<1> QED BY <1>1, <1>3

(* A subroutine is added where there is none.                              *)
LEMMA TableAdds ==
  ASSUME NEW k, NEW sub
  PROVE  /\ DOMAIN emplace(k, sub) = DOMAIN table \union {k}
         /\ \A j \in DOMAIN table : emplace(k, sub)[j] = table[j]
         /\ k \notin DOMAIN table => emplace(k, sub)[k] = sub
  BY DEF emplace

(* The table of a longer list: no key is lost, and the new one is added.   *)
LEMMA TableStep ==
  ASSUME TableInv, die_subprogram \/ Symbol
  PROVE  TableInv'
<1>1. CASE die_subprogram
  <2> DEFINE die == Head(dies)
             sub == subroutine(die.name, EndOf(die), TRUE, die.callsites)
  <2>1. /\ die \in Dies /\ Tail(dies) \in Seq(Dies) /\ dies # <<>> /\ dies' = Tail(dies)
        /\ UNCHANGED <<symtab, stage, left>>
    BY <1>1, HeadTailProperties DEF die_subprogram, TableInv, Inputs
  <2>2. die.low \in Nat /\ EndOf(die) \in Nat /\ EndOf(die) # 0
    BY <2>1 DEF Dies, EndOf
  <2>3. die.name # null => sub \in Subroutines /\ sub.pc_end # 0
    BY <2>1, <2>2 DEF Dies, subroutine, Subroutines
  <2>4. table' = table \/ (die.name # null /\ table' = emplace(die.low, sub))
    BY <1>1 DEF die_subprogram
  <2> HIDE DEF sub, die
  <2>5. /\ DOMAIN table \subseteq DOMAIN table' /\ DOMAIN table' \subseteq Nat
        /\ \A k \in DOMAIN table' : table'[k] \in Subroutines /\ table'[k].pc_end # 0
    <3>1. /\ DOMAIN table \subseteq Nat
          /\ \A k \in DOMAIN table : table[k] \in Subroutines /\ table[k].pc_end # 0
      BY <2>1 DEF TableInv
    <3>2. CASE table' = table
      BY <3>1, <3>2
    <3>3. CASE die.name # null /\ table' = emplace(die.low, sub)
      <4> DEFINE new == emplace(die.low, sub)
      <4>1. /\ DOMAIN new = DOMAIN table \union {die.low}
            /\ \A j \in DOMAIN table : new[j] = table[j]
            /\ die.low \notin DOMAIN table => new[die.low] = sub
        BY TableAdds
      <4> HIDE DEF new
      <4>2. \A k \in DOMAIN new : new[k] \in Subroutines /\ new[k].pc_end # 0
        BY <2>3, <3>1, <3>3, <4>1
      <4>3. table' = new
        BY <3>3 DEF new
      <4> QED BY <2>2, <3>1, <4>1, <4>2, <4>3
    <3> QED BY <2>4, <3>2, <3>3
  <2>6. Disjoint' => Apart'
    BY <2>5 DEF Disjoint, Apart
  <2>7. /\ left \subseteq DOMAIN table /\ symtab \in Seq(Symbols) /\ stage \in {"table", "fill", "run"}
    BY DEF TableInv, Inputs
  <2> QED BY <2>1, <2>5, <2>6, <2>7 DEF TableInv, Inputs
<1>2. CASE Symbol
  <2> DEFINE sym == Head(symtab)
             sub == subroutine(sym.name, 0, sym.func, <<>>)
  <2>1. /\ sym \in Symbols /\ Tail(symtab) \in Seq(Symbols) /\ symtab' = Tail(symtab)
        /\ dies = <<>> /\ UNCHANGED <<dies, stage, left>>
    BY <1>2, HeadTailProperties DEF Symbol, TableInv, Inputs
  <2>2. table' = table \/ (sym.name # null /\ ~ Taken(sym.value) /\ table' = emplace(sym.value, sub))
    BY <1>2 DEF Symbol
  <2>3. sym.value \in Nat
    BY <2>1 DEF Symbols
  <2>4. sym.name # null => sub \in Subroutines /\ sub.pc_end = 0 /\ sub.callsites = <<>>
    <3>1. <<>> \in Seq(Nat)
      OBVIOUS
    <3> QED BY <2>1, <3>1 DEF Symbols, subroutine, Subroutines
  <2>5. CASE table' = table
    BY <2>1, <2>5 DEF TableInv, Inputs, Disjoint, Apart
  <2>6. CASE sym.name # null /\ ~ Taken(sym.value) /\ table' = emplace(sym.value, sub)
    <3> DEFINE pc == sym.value
    <3> HIDE DEF sub, sym
    <3>1. /\ DOMAIN table \subseteq Nat /\ \A k \in DOMAIN table : table[k] \in Subroutines
          /\ \A k \in DOMAIN table : table[k].pc_end = 0 => table[k].callsites = <<>>
      BY DEF TableInv
    <3>2. pc \notin DOMAIN table
      <4> SUFFICES ASSUME pc \in DOMAIN table PROVE FALSE
        OBVIOUS
      <4>1. pc \in DOMAIN table /\ pc <= pc /\ \A other \in DOMAIN table : other <= pc => other <= pc
        BY <2>3, <3>1
      <4> QED BY <2>6, <4>1 DEF Taken
    <3>3. /\ DOMAIN table' = DOMAIN table \union {pc} /\ table'[pc] = sub
          /\ \A k \in DOMAIN table : table'[k] = table[k]
      <4> DEFINE new == emplace(pc, sub)
      <4>1. /\ DOMAIN new = DOMAIN table \union {pc}
            /\ \A j \in DOMAIN table : new[j] = table[j]
            /\ pc \notin DOMAIN table => new[pc] = sub
        BY TableAdds
      <4>2. table' = new
        BY <2>6
      <4> HIDE DEF new
      <4> QED BY <3>2, <4>1, <4>2
    <3>4. /\ DOMAIN table \subseteq DOMAIN table' /\ DOMAIN table' \subseteq Nat
          /\ \A k \in DOMAIN table' : table'[k] \in Subroutines
          /\ \A k \in DOMAIN table' : table'[k].pc_end = 0 => table'[k].callsites = <<>>
      BY <2>3, <2>4, <2>6, <3>1, <3>3
    <3>5. ASSUME Disjoint' PROVE Apart'
      <4>1. Apart
        <5>1. Disjoint
          BY <3>3, <3>5 DEF Disjoint
        <5> QED BY <5>1 DEF TableInv
      <4>2. ASSUME NEW k \in DOMAIN table, k < pc PROVE table[k].pc_end <= pc
        <5> DEFINE S == {j \in DOMAIN table : j <= pc}
        <5>1. S \in SUBSET Nat /\ S # {} /\ \A x \in S : x <= pc
          BY <2>3, <3>1, <4>2
        <5>2. Max(S) \in S /\ \A x \in S : x <= Max(S)
          <6> HIDE DEF S
          <6> QED BY <2>3, <5>1, GreatestOf
        <5>3. PICK g \in DOMAIN table : g <= pc /\ \A other \in DOMAIN table : other <= pc => other <= g
          BY <5>2
        <5>4. ~ (pc = g \/ pc < table[g].pc_end)
          BY <2>6, <5>3 DEF Taken
        <5>5. table[g].pc_end \in Nat /\ table[k].pc_end \in Nat /\ k \in Nat /\ g \in Nat /\ k <= g
          BY <2>3, <3>1, <4>2, <5>3 DEF Subroutines
        <5>6. k < g => table[k].pc_end <= g
          BY <4>1 DEF Apart
        <5> QED BY <2>3, <5>3, <5>4, <5>5, <5>6
      <4>3. ASSUME NEW k \in DOMAIN table', NEW next \in DOMAIN table', k < next
            PROVE  table'[k].pc_end <= next
        <5>1. CASE k \in DOMAIN table /\ next \in DOMAIN table
          BY <3>3, <4>1, <4>3, <5>1 DEF Apart
        <5>2. CASE next = pc
          <6>1. k \in DOMAIN table
            BY <2>3, <3>3, <4>3, <5>2
          <6> QED BY <3>3, <4>2, <4>3, <5>2, <6>1
        <5>3. CASE k = pc
          BY <2>4, <2>6, <3>3, <3>4, <5>3
        <5> QED BY <3>3, <5>1, <5>2, <5>3
      <4> QED BY <4>3 DEF Apart
    <3>6. /\ left \subseteq DOMAIN table /\ Inputs /\ stage \in {"table", "fill", "run"}
      BY DEF TableInv
    <3>7. Inputs' /\ left' \subseteq DOMAIN table' /\ stage' \in {"table", "fill", "run"} /\ dies' = <<>>
      BY <2>1, <3>4, <3>6 DEF Inputs
    <3> QED BY <3>4, <3>5, <3>7 DEF TableInv
  <2> QED BY <2>2, <2>5, <2>6
<1> QED BY <1>1, <1>2

-----------------------------------------------------------------------------
\* The array.

\* The subroutine of an address if nothing is to come: the greatest key that is
\* not after it, unless the address is at its end.
Ruled(done, m, a) ==
  Below(done, m, a) /\ (a = m \/ a < table[m].pc_end \/ table[m].pc_end = 0)
RightAt(done, text, a) ==
  /\ \A m \in done : Ruled(done, m, a) => text[a] = LabelAt(table[m], m, a)
  /\ text[a] # null => \E m \in done : Ruled(done, m, a)

(* Two keys do not rule one address.                                       *)
LEMMA OneRules ==
  ASSUME NEW done \in SUBSET Nat, NEW a \in Nat, NEW m, NEW n, Below(done, m, a), Below(done, n, a)
  PROVE  m = n
<1>1. m \in Nat /\ n \in Nat /\ m <= n /\ n <= m
  BY DEF Below
<1> QED BY <1>1

(* Once the next key is done nothing is to come before it.                 *)
LEMMA RulesBelow ==
  ASSUME NEW done \in SUBSET Nat, NEW more \in SUBSET Nat, NEW start \in more, done \subseteq more,
         \A k \in done : k < start, \A k \in more : k \in done \/ start <= k,
         NEW a \in Nat, a < start, NEW m
  PROVE  Rules(table, more, m, a) <=> Ruled(done, m, a)
<1>1. Below(more, m, a) <=> Below(done, m, a)
  <2>1. \A k \in more : k <= a => k \in done
    OBVIOUS
  <2> QED BY <2>1 DEF Below
<1>2. \E k \in more : a < k
  OBVIOUS
<1> QED BY <1>1, <1>2 DEF Rules, Ruled, Covers

(* What is done so far with the last label carried on up to a limit.       *)
LEMMA CarriedLabels ==
  ASSUME TableInv, FillInv, NEW text, DOMAIN text \subseteq Nat, DOMAIN progtext \subseteq DOMAIN text,
         \A a \in DOMAIN progtext : text[a] = progtext[a],
         \A a \in DOMAIN text \ DOMAIN progtext : text[a] = null,
         Done \subseteq DOMAIN progtext \/ text = progtext,
         \A a \in DOMAIN text : baseaddr <= a,
         NEW limit \in Int, NEW a \in DOMAIN text, a < limit
  PROVE  RightAt(Done, CarriedOn(text, limit), a)
<1> DEFINE new == CarriedOn(text, limit)
<1>1. /\ Done \in SUBSET Nat /\ Done \subseteq DOMAIN table /\ offset \in Nat /\ a \in Nat
      /\ \A k \in Done : table[k] \in Subroutines /\ table[k].pc_end \in Nat
      /\ \A k \in Done : table[k].pc_end = 0 => table[k].callsites = <<>>
      /\ baseaddr \in Nat /\ \A k \in Done : baseaddr <= k
  BY BaseFact DEF TableInv, Done, FillInv, PrevInv, Subroutines
<1>2. IF prev # null /\ offset <= a /\ text[a] = null THEN new[a] = Body(prev) ELSE new[a] = text[a]
  BY <1>1, CarriedFact
<1>3. ASSUME NEW k \in Nat, NEW j \in DOMAIN progtext, baseaddr <= k, k <= j PROVE k \in DOMAIN progtext
  <2>1. PICK n \in Nat : DOMAIN progtext = baseaddr .. n - 1
    BY DEF FillInv, ImageInv, IsImage
  <2> QED BY <1>1, <1>3, <2>1
<1>4. ASSUME NEW m \in Done, IsLast(m) PROVE ~ Broken
  <2> SUFFICES ASSUME NEW k \in Done, k \notin DOMAIN progtext PROVE FALSE
    BY DEF Broken
  <2>1. k <= m /\ m \in DOMAIN progtext
    BY <1>4 DEF IsLast
  <2> QED BY <1>1, <1>3, <2>1
<1>5. Labels(table, Done, progtext)
  BY DEF FillInv
<1>6. a \notin DOMAIN progtext => Done \subseteq DOMAIN progtext
  OBVIOUS
<1> HIDE DEF new
<1>7. ASSUME NEW m \in Done, Ruled(Done, m, a) PROVE new[a] = LabelAt(table[m], m, a)
  <2>1. m <= a /\ Below(Done, m, a)
    BY <1>7 DEF Ruled, Below
  <2>2. LabelAt(table[m], m, a) # null
    BY <1>1, LabelFact
  <2>3. CASE Rules(table, Done, m, a)
    <3>1. a \in DOMAIN progtext
      <4> SUFFICES ASSUME a \notin DOMAIN progtext PROVE FALSE
        OBVIOUS
      <4>1. m \in DOMAIN progtext
        BY <1>6
      <4>2. a # m /\ ~ (a < table[m].pc_end)
        BY <1>1, <2>1, <4>1 DEF FillInv, ImageInv
      <4>3. PICK k \in Done : a < k
        BY <2>3, <4>2 DEF Rules, Covers
      <4>4. k \in DOMAIN progtext /\ baseaddr <= a /\ a <= k
        BY <1>1, <1>6, <4>3
      <4> QED BY <1>1, <1>3, <4>4
    <3>2. text[a] = LabelAt(table[m], m, a)
      BY <1>5, <2>3, <3>1 DEF Labels
    <3> QED BY <1>2, <2>2, <3>2
  <2>4. CASE ~ Rules(table, Done, m, a)
    <3>1. a # m /\ table[m].pc_end = 0 /\ \A k \in Done : ~ (a < k)
      BY <1>7, <2>4 DEF Rules, Ruled, Covers
    <3>2. \A k \in Done : k <= m
      BY <1>1, <2>1, <3>1 DEF Below
    <3>3. m \in DOMAIN progtext
      BY <1>1, <1>3, <1>6, <2>1
    <3>4. IsLast(m)
      BY <3>2, <3>3 DEF IsLast
    <3>5. text[a] = null
      <4> SUFFICES ASSUME a \in DOMAIN progtext, progtext[a] # null PROVE FALSE
        OBVIOUS
      <4>1. PICK n \in Done : Rules(table, Done, n, a)
        BY <1>5 DEF Labels
      <4>2. Below(Done, n, a)
        BY <4>1 DEF Rules
      <4>3. n = m
        BY <1>1, <2>1, <4>2, OneRules
      <4> QED BY <2>4, <4>1, <4>3
    <3>6. prev # null
      BY <3>1, <3>4 DEF FillInv, PrevInv
    <3>7. PICK n : IsLast(n) /\ prev = Entry(table[n]) /\ offset = n + 1
      BY <1>4, <3>4, <3>6 DEF FillInv, PrevInv
    <3>8. n = m
      <4>1. n \in Nat /\ m \in Nat /\ n <= m /\ m <= n
        BY <1>1, <3>4, <3>7 DEF IsLast
      <4> QED BY <4>1
    <3>9. new[a] = Body(Entry(table[m]))
      BY <1>1, <1>2, <2>1, <3>1, <3>5, <3>6, <3>7, <3>8
    <3>10. a \notin ToSet(table[m].callsites)
      BY <1>1, <3>1 DEF ToSet
    <3> QED BY <3>1, <3>9, <3>10 DEF LabelAt
  <2> QED BY <2>3, <2>4
<1>8. ASSUME new[a] # null PROVE \E m \in Done : Ruled(Done, m, a)
  <2>1. CASE text[a] # null
    <3>1. a \in DOMAIN progtext /\ progtext[a] # null
      BY <2>1
    <3>2. PICK m \in Done : Rules(table, Done, m, a)
      BY <1>5, <3>1 DEF Labels
    <3> QED BY <3>2 DEF Rules, Ruled, Covers
  <2>2. CASE text[a] = null
    <3>1. prev # null /\ offset <= a
      BY <1>2, <1>8, <2>2
    <3>2. ~ Broken
      <4> SUFFICES ASSUME NEW k \in Done, k \notin DOMAIN progtext, k <= offset PROVE FALSE
        BY DEF Broken
      <4>1. a \in DOMAIN progtext
        BY <1>6
      <4>2. k <= a
        BY <1>1, <3>1
      <4> QED BY <1>1, <1>3, <4>1, <4>2
    <3>3. PICK m : IsLast(m) /\ table[m].pc_end = 0 /\ offset = m + 1
      BY <3>1, <3>2 DEF FillInv, PrevInv
    <3>4. m \in Done /\ m <= a /\ \A k \in Done : k <= m
      BY <1>1, <3>1, <3>3 DEF IsLast
    <3> QED BY <3>3, <3>4 DEF Ruled, Below
  <2> QED BY <2>1, <2>2
<1> QED BY <1>7, <1>8 DEF RightAt, new

(* What Populate has before it comes to the subroutine at start.           *)
Reached(start, end, text) ==
  /\ start \in left /\ \A k \in left : start <= k
  /\ end \in Nat /\ start <= end /\ (end = start \/ end = table[start].pc_end)
  /\ table[start].pc_end <= end
  /\ text = CarriedOn(Resized(progtext, baseaddr .. end - 1), start)

(* Before it all labels are right, and from it on there are none.          *)
LEMMA BeforeStart ==
  ASSUME TableInv, Apart, FillInv, NEW start, NEW end, NEW text, Reached(start, end, text)
  PROVE  /\ start \in Nat /\ start \in DOMAIN table /\ start \notin Done /\ \A k \in Done : k < start
         /\ DOMAIN progtext \subseteq DOMAIN text /\ IsImage(DOMAIN text)
         /\ \A a \in Nat : start <= a /\ a < end => a \in DOMAIN text
         /\ \A a \in DOMAIN text : a < start => RightAt(Done, text, a)
         /\ \A a \in DOMAIN text : start <= a => text[a] = null
<1> DEFINE addrs == baseaddr .. end - 1
           base == Resized(progtext, addrs)
<1>1. /\ start \in Nat /\ start \in DOMAIN table /\ start \notin Done /\ left # {}
      /\ baseaddr \in Nat /\ baseaddr <= start /\ end \in Nat /\ offset \in Nat
  BY BaseFact DEF TableInv, Reached, Done, FillInv, PrevInv
<1>2. Done \subseteq DOMAIN progtext /\ \A k \in Done : k < start
  BY <1>1 DEF FillInv, ImageInv, Reached
<1>3. PICK n \in Nat : DOMAIN progtext = baseaddr .. n - 1
  BY DEF FillInv, ImageInv, IsImage
<1>4. /\ DOMAIN base = DOMAIN progtext \union (baseaddr .. end - 1)
      /\ \A a \in DOMAIN progtext : base[a] = progtext[a]
      /\ \A a \in DOMAIN base \ DOMAIN progtext : base[a] = null
  <2> HIDE DEF addrs
  <2>1. DOMAIN base = DOMAIN progtext \union addrs
    BY DEF Resized
  <2>2. ASSUME NEW a \in DOMAIN progtext PROVE base[a] = progtext[a]
    BY <2>2 DEF Resized
  <2>3. ASSUME NEW a \in DOMAIN base, a \notin DOMAIN progtext PROVE base[a] = null
    BY <2>1, <2>3 DEF Resized
  <2> HIDE DEF base
  <2> QED BY <2>1, <2>2, <2>3 DEF addrs
<1> HIDE DEF base
<1>5. DOMAIN base \subseteq Nat /\ \A a \in DOMAIN base : baseaddr <= a
  BY <1>1, <1>3, <1>4
<1>6. text = CarriedOn(base, start)
  BY DEF Reached, base
<1>7. /\ DOMAIN text = DOMAIN base
      /\ \A a \in DOMAIN base : start <= a => text[a] = base[a]
  <2>1. /\ DOMAIN text = DOMAIN base
        /\ \A a \in DOMAIN base :
             IF prev # null /\ offset <= a /\ a < start /\ base[a] = null
             THEN text[a] = Body(prev) ELSE text[a] = base[a]
    BY <1>1, <1>5, <1>6, CarriedFact
  <2>2. \A a \in DOMAIN base : start <= a => ~ (a < start)
    BY <1>1, <1>5
  <2> QED BY <2>1, <2>2
<1>8. IsImage(DOMAIN text)
  <2>1. DOMAIN text = baseaddr .. (IF n <= end THEN end ELSE n) - 1
    BY <1>1, <1>3, <1>4, <1>7
  <2>2. (IF n <= end THEN end ELSE n) \in Nat
    BY <1>1
  <2> QED BY <2>1, <2>2 DEF IsImage
<1>9. ASSUME NEW a \in DOMAIN text, a < start PROVE RightAt(Done, text, a)
  <2>1. start \in Int /\ a \in DOMAIN base
    BY <1>1, <1>7
  <2> QED BY <1>2, <1>4, <1>5, <1>6, <1>9, <2>1, CarriedLabels
<1>10. ASSUME NEW a \in DOMAIN text, start <= a PROVE text[a] = null
  <2> SUFFICES ASSUME base[a] # null PROVE FALSE
    BY <1>7, <1>10
  <2>1. a \in DOMAIN progtext /\ progtext[a] # null
    BY <1>4, <1>7
  <2>2. PICK m \in Done : Rules(table, Done, m, a)
    BY <2>1 DEF FillInv, Labels
  <2>3. m \in Nat /\ m < start /\ a \in Nat /\ m \in DOMAIN table /\ table[m].pc_end \in Nat
    BY <1>2, <1>5, <1>7 DEF TableInv, Done, Subroutines
  <2>4. table[m].pc_end <= start
    BY <1>1, <2>3 DEF Apart
  <2>5. \A k \in Done : k \in Nat /\ k < start
    BY <1>2 DEF TableInv, Done
  <2>6. a # m /\ ~ (a < table[m].pc_end) /\ ~ \E k \in Done : a < k
    BY <1>1, <1>10, <2>3, <2>4, <2>5
  <2> QED BY <2>2, <2>6 DEF Rules, Covers
<1>11. \A a \in Nat : start <= a /\ a < end => a \in DOMAIN text
  BY <1>1, <1>4, <1>7
<1> QED BY <1>1, <1>2, <1>4, <1>7, <1>8, <1>9, <1>10, <1>11

(* The labels of one more subroutine: its entry, call sites and body.      *)
Placed(start, end, text) ==
  LET entry == Entry(table[start])
      sites == {pc \in ToSet(table[start].callsites) : start <= pc /\ pc < end}
  IN  Filled(Filled([text EXCEPT ![start] = entry], sites, Callsite(entry)),
             start + 1 .. end - 1, Body(entry))

(* The next subroutine is labelled where nothing is, and nowhere else.     *)
LEMMA PlacedFact ==
  ASSUME NEW start \in Nat, NEW end \in Nat, NEW text, start \in DOMAIN text, DOMAIN text \subseteq Nat,
         start \in DOMAIN table, table[start] \in Subroutines,
         \A a \in DOMAIN text : start <= a => text[a] = null
  PROVE  /\ DOMAIN Placed(start, end, text) = DOMAIN text
         /\ \A a \in DOMAIN text : a < start => Placed(start, end, text)[a] = text[a]
         /\ \A a \in DOMAIN text : start <= a =>
              Placed(start, end, text)[a] =
                IF a = start \/ a < end THEN LabelAt(table[start], start, a) ELSE null
<1> DEFINE entry == Entry(table[start])
           sites == {pc \in ToSet(table[start].callsites) : start <= pc /\ pc < end}
           one == [text EXCEPT ![start] = entry]
           two == Filled(one, sites, Callsite(entry))
           body == start + 1 .. end - 1
           new == Filled(two, body, Body(entry))
<1>1. entry # null /\ Callsite(entry) # null
  <2>1. entry \in Instr /\ Callsite(entry) \in Instr
    BY DEF Entry, Body, Callsite, Instr, Subroutines
  <2> QED BY <2>1, TextAssumption
<1>2. \A a \in Nat : /\ a \in sites <=> a \in ToSet(table[start].callsites) /\ start <= a /\ a < end
                     /\ a \in body <=> start < a /\ a < end
  OBVIOUS
<1>3. Placed(start, end, text) = new
  BY DEF Placed
<1>4. DOMAIN one = DOMAIN text /\ \A a \in DOMAIN text : one[a] = IF a = start THEN entry ELSE text[a]
  OBVIOUS
<1> HIDE DEF one, sites, body, entry
<1>5. /\ DOMAIN two = DOMAIN text
      /\ \A a \in DOMAIN text : two[a] = IF a \in sites /\ one[a] = null THEN Callsite(entry) ELSE one[a]
  BY <1>4 DEF Filled
<1> HIDE DEF two
<1>6. /\ DOMAIN new = DOMAIN text
      /\ \A a \in DOMAIN text : new[a] = IF a \in body /\ two[a] = null THEN Body(entry) ELSE two[a]
  BY <1>5 DEF Filled
<1> HIDE DEF new
<1>7. ASSUME NEW a \in DOMAIN text, a < start PROVE new[a] = text[a]
  <2>1. a # start /\ a \notin sites /\ a \notin body
    BY <1>2, <1>7
  <2> QED BY <1>4, <1>5, <1>6, <2>1
<1>8. ASSUME NEW a \in DOMAIN text, start <= a
      PROVE  new[a] = IF a = start \/ a < end THEN LabelAt(table[start], start, a) ELSE null
  <2>1. text[a] = null /\ a \in Nat
    BY <1>8
  <2>2. CASE a = start
    <3>1. a \notin body /\ one[a] = entry
      BY <1>2, <1>4, <2>2
    <3> QED BY <1>1, <1>5, <1>6, <2>2, <3>1 DEF LabelAt, entry
  <2>3. CASE a # start /\ a < end /\ a \in ToSet(table[start].callsites)
    <3>1. a \in sites /\ one[a] = null
      BY <1>2, <1>4, <1>8, <2>1, <2>3
    <3> QED BY <1>1, <1>5, <1>6, <2>3, <3>1 DEF LabelAt, entry
  <2>4. CASE a # start /\ a < end /\ a \notin ToSet(table[start].callsites)
    <3>1. a \notin sites /\ a \in body /\ one[a] = null
      BY <1>2, <1>4, <1>8, <2>1, <2>4
    <3> QED BY <1>5, <1>6, <2>4, <3>1 DEF LabelAt, entry
  <2>5. CASE a # start /\ ~ (a < end)
    <3>1. a \notin sites /\ a \notin body /\ one[a] = null
      BY <1>2, <1>4, <2>1, <2>5
    <3> QED BY <1>5, <1>6, <2>5, <3>1
  <2> QED BY <2>2, <2>3, <2>4, <2>5
<1> QED BY <1>3, <1>6, <1>7, <1>8

(* The label after is that of a subroutine without an end.                 *)
LEMMA PlacedKeeps ==
  ASSUME TableInv, Apart, FillInv, NEW start, NEW end, NEW text, Reached(start, end, text),
         start \in DOMAIN text, UNCHANGED table, progtext' = Placed(start, end, text),
         left' = left \ {start}, offset' = IF start < end THEN end ELSE start + 1,
         prev' = IF table[start].pc_end = 0 THEN Entry(table[start]) ELSE null
  PROVE  FillInv'
<1>1. /\ start \in Nat /\ start \in DOMAIN table /\ start \notin Done /\ \A k \in Done : k < start
      /\ DOMAIN progtext \subseteq DOMAIN text /\ IsImage(DOMAIN text)
      /\ \A a \in Nat : start <= a /\ a < end => a \in DOMAIN text
      /\ \A a \in DOMAIN text : a < start => RightAt(Done, text, a)
      /\ \A a \in DOMAIN text : start <= a => text[a] = null
  BY BeforeStart
<1>2. /\ DOMAIN table \subseteq Nat /\ table[start] \in Subroutines /\ table[start].pc_end \in Nat
      /\ baseaddr \in Nat /\ left \subseteq DOMAIN table
      /\ start \in left /\ \A k \in left : start <= k
      /\ end \in Nat /\ start <= end /\ (end = start \/ end = table[start].pc_end)
      /\ table[start].pc_end <= end
  BY <1>1, BaseFact DEF TableInv, Reached, Subroutines
<1>3. DOMAIN text \subseteq Nat
  BY <1>1, <1>2 DEF IsImage
<1>4. /\ DOMAIN progtext' = DOMAIN text
      /\ \A a \in DOMAIN text : a < start => progtext'[a] = text[a]
      /\ \A a \in DOMAIN text : start <= a =>
           progtext'[a] = IF a = start \/ a < end THEN LabelAt(table[start], start, a) ELSE null
  <2> DEFINE new == Placed(start, end, text)
  <2>1. /\ DOMAIN new = DOMAIN text
        /\ \A a \in DOMAIN text : a < start => new[a] = text[a]
        /\ \A a \in DOMAIN text : start <= a =>
             new[a] = IF a = start \/ a < end THEN LabelAt(table[start], start, a) ELSE null
    BY <1>1, <1>2, <1>3, PlacedFact
  <2>2. progtext' = new
    OBVIOUS
  <2> HIDE DEF new
  <2> QED BY <2>1, <2>2
<1>5. Done' = Done \union {start} /\ Done \subseteq Nat /\ baseaddr' = baseaddr
  BY <1>2 DEF Done, baseaddr
<1>6. \A k \in Done' : k <= start /\ k \in Nat
  <2>1. \A k \in Done : k \in Nat /\ k <= start
    <3> SUFFICES ASSUME NEW k \in Done PROVE k \in Nat /\ k <= start
      OBVIOUS
    <3>1. k \in Nat /\ k < start
      BY <1>1, <1>5
    <3> QED BY <1>1, <3>1
  <2> QED BY <1>1, <1>5, <2>1
<1>7. ImageInv'
  <2>1. IsImage(DOMAIN progtext)'
    BY <1>1, <1>4, <1>5 DEF IsImage
  <2>2. \A k \in Done', next \in left' : k < next
    <3>1. \A next \in left' : start < next /\ next \in Nat
      <4> SUFFICES ASSUME NEW next \in left' PROVE start < next /\ next \in Nat
        OBVIOUS
      <4>1. next \in left /\ next # start
        OBVIOUS
      <4>2. next \in Nat /\ start <= next
        BY <1>2, <4>1
      <4> QED BY <1>1, <4>1, <4>2
    <3> QED BY <1>1, <1>6, <3>1
  <2>3. Done' \subseteq DOMAIN progtext'
    <3>1. Done \subseteq DOMAIN progtext
      BY <1>2 DEF FillInv, ImageInv
    <3> QED BY <1>1, <1>4, <1>5, <3>1
  <2>4. ASSUME NEW m \in Done', NEW a \in Nat, m <= a, a < table[m].pc_end PROVE a \in DOMAIN progtext'
    <3>1. CASE m \in Done
      <4>1. m \in DOMAIN progtext
        BY <1>2, <3>1 DEF FillInv, ImageInv
      <4>2. a \in DOMAIN progtext
        BY <2>4, <3>1, <4>1 DEF FillInv, ImageInv
      <4> QED BY <1>1, <1>4, <4>2
    <3>2. CASE m = start
      BY <1>1, <1>2, <1>4, <2>4, <3>2
    <3> QED BY <1>5, <3>1, <3>2
  <2> QED BY <2>1, <2>2, <2>3, <2>4 DEF ImageInv
<1>8. PrevInv'
  <2>1. offset' \in Nat /\ (table[start].pc_end = 0 => offset' = start + 1)
    BY <1>1, <1>2
  <2>2. IsLast(start)'
    BY <1>1, <1>4, <1>5, <1>6 DEF IsLast
  <2>3. CASE table[start].pc_end = 0
    <3>1. prev' = Entry(table[start]) /\ prev' # null
      BY <1>2, <2>3, LabelFact
    <3> QED BY <2>1, <2>2, <2>3, <3>1 DEF PrevInv
  <2>4. CASE table[start].pc_end # 0
    <3>1. prev' = null
      BY <2>4
    <3>2. ASSUME NEW m, IsLast(m)' PROVE m = start
      <4>1. m \in Done' /\ start \in Done' /\ start <= m
        BY <1>5, <3>2 DEF IsLast
      <4> QED BY <1>1, <1>6, <4>1
    <3> QED BY <2>1, <2>4, <3>1, <3>2 DEF PrevInv
  <2> QED BY <2>3, <2>4
<1>9. Labels(table, Done', progtext')
  <2>1. ASSUME NEW a \in DOMAIN text, a < start
        PROVE  /\ \A m \in Done' : Rules(table, Done', m, a) => progtext'[a] = LabelAt(table[m], m, a)
               /\ progtext'[a] # null => \E m \in Done' : Rules(table, Done', m, a)
    <3>1. \A m : Rules(table, Done', m, a) <=> Ruled(Done, m, a)
      <4>1. /\ Done \in SUBSET Nat /\ Done' \in SUBSET Nat /\ start \in Done' /\ Done \subseteq Done'
            /\ a \in Nat
        BY <1>1, <1>3, <1>5
      <4>2. \A j \in Done' : j \in Done \/ start <= j
        BY <1>1, <1>5
      <4> DEFINE more == Done'
      <4>3. more \in SUBSET Nat /\ start \in more /\ Done \subseteq more /\ \A j \in more : j \in Done \/ start <= j
        BY <4>1, <4>2
      <4> HIDE DEF more
      <4>4. \A m : Rules(table, more, m, a) <=> Ruled(Done, m, a)
        BY <1>1, <2>1, <4>1, <4>3, RulesBelow
      <4> QED BY <4>4 DEF more
    <3>2. RightAt(Done, text, a) /\ progtext'[a] = text[a]
      BY <1>1, <1>4, <2>1
    <3>3. \A m : Ruled(Done, m, a) => m \in Done
      BY DEF Ruled, Below
    <3> QED BY <1>5, <3>1, <3>2, <3>3 DEF RightAt
  <2>2. ASSUME NEW a \in DOMAIN text, start <= a
        PROVE  /\ \A m \in Done' : Rules(table, Done', m, a) => progtext'[a] = LabelAt(table[m], m, a)
               /\ progtext'[a] # null => \E m \in Done' : Rules(table, Done', m, a)
    <3>1. a \in Nat /\ start \in Done' /\ ~ \E k \in Done' : a < k
      BY <1>1, <1>3, <1>5, <1>6, <2>2
    <3>2. \A m : Below(Done', m, a) <=> m = start
      <4>1. \A m \in Done' : m <= start /\ m \in Nat /\ m <= a
        BY <1>1, <1>6, <2>2, <3>1
      <4>2. \A m \in Done' : start <= m => m = start
        BY <1>1, <4>1
      <4> QED BY <2>2, <3>1, <4>1, <4>2 DEF Below
    <3>3. \A m : Rules(table, Done', m, a) <=> m = start /\ (a = start \/ a < table[start].pc_end)
      BY <3>1, <3>2 DEF Rules, Covers
    <3>4. a = start \/ a < end <=> a = start \/ a < table[start].pc_end
      BY <1>2, <2>2, <3>1
    <3> QED BY <1>4, <2>2, <3>1, <3>3, <3>4
  <2>3. \A a \in DOMAIN text : a < start \/ start <= a
    BY <1>1, <1>3
  <2> QED BY <1>4, <2>1, <2>2, <2>3 DEF Labels
<1> QED BY <1>7, <1>8, <1>9 DEF FillInv

(* A symbol beyond the image: the others, which come after it, are left    *)
(* out, and the label before has been carried on to the image's end.       *)
LEMMA BreakKeeps ==
  ASSUME TableInv, Apart, FillInv, NEW start, NEW end, NEW text, Reached(start, end, text),
         start \notin DOMAIN text, UNCHANGED <<table, prev>>, progtext' = text, left' = {},
         offset' = IF prev = null \/ start <= offset THEN offset ELSE start
  PROVE  FillInv'
<1>1. /\ start \in Nat /\ start \in DOMAIN table /\ start \notin Done /\ \A k \in Done : k < start
      /\ DOMAIN progtext \subseteq DOMAIN text /\ IsImage(DOMAIN text)
      /\ \A a \in DOMAIN text : a < start => RightAt(Done, text, a)
  BY BeforeStart
<1>2. /\ DOMAIN table \subseteq Nat /\ left \subseteq DOMAIN table /\ start \in left
      /\ \A k \in left : start <= k /\ offset \in Nat
  BY DEF TableInv, Reached, FillInv, PrevInv
<1>3. DOMAIN text \subseteq Nat /\ \A a \in DOMAIN text : a < start
  <2>1. PICK n \in Nat : DOMAIN text = baseaddr .. n - 1
    BY <1>1 DEF IsImage
  <2>2. baseaddr \in Nat /\ baseaddr <= start
    BY <1>1, BaseFact
  <2> QED BY <1>1, <2>1, <2>2
<1>4. /\ Done' = DOMAIN table /\ Done \subseteq DOMAIN table /\ baseaddr' = baseaddr
      /\ \A k \in DOMAIN table : k \in Done \/ start <= k
  BY <1>2 DEF Done, baseaddr
<1>5. ASSUME NEW m \in DOMAIN table, m \in DOMAIN text PROVE m \in Done /\ m \in DOMAIN progtext
  <2>1. m \in Done
    BY <1>1, <1>2, <1>3, <1>4, <1>5
  <2>2. Done \subseteq DOMAIN progtext
    BY <1>2 DEF FillInv, ImageInv
  <2> QED BY <2>1, <2>2
<1>6. ImageInv'
  <2>1. IsImage(DOMAIN progtext)'
    BY <1>1, <1>4 DEF IsImage
  <2>2. ASSUME NEW m \in Done', m \in DOMAIN progtext', NEW a \in Nat, m <= a, a < table[m].pc_end
        PROVE  a \in DOMAIN progtext'
    <3>1. m \in Done /\ m \in DOMAIN progtext
      BY <1>4, <1>5, <2>2
    <3>2. a \in DOMAIN progtext
      BY <2>2, <3>1 DEF FillInv, ImageInv
    <3> QED BY <1>1, <3>2
  <2> QED BY <2>1, <2>2 DEF ImageInv
<1>7. PrevInv'
  <2>1. offset' \in Nat /\ (prev # null => start <= offset')
    BY <1>1, <1>2
  <2>2. ASSUME NEW m, IsLast(m)' PROVE FALSE
    <3>1. m \in DOMAIN table /\ m \in DOMAIN text /\ start <= m
      BY <1>1, <1>4, <2>2 DEF IsLast
    <3> QED BY <1>1, <1>3, <3>1
  <2>3. prev # null => Broken'
    BY <1>1, <1>4, <2>1 DEF Broken
  <2> QED BY <2>1, <2>2, <2>3 DEF PrevInv
<1>8. Labels(table, DOMAIN table, text)
  <2>1. ASSUME NEW a \in DOMAIN text
        PROVE  /\ \A m \in DOMAIN table : Rules(table, DOMAIN table, m, a) => text[a] = LabelAt(table[m], m, a)
               /\ text[a] # null => \E m \in DOMAIN table : Rules(table, DOMAIN table, m, a)
    <3> DEFINE more == DOMAIN table
    <3>1. /\ Done \in SUBSET Nat /\ more \in SUBSET Nat /\ start \in more /\ Done \subseteq more
          /\ \A k \in Done : k < start
          /\ a \in Nat /\ a < start
      BY <1>1, <1>2, <1>3, <1>4
    <3>2. \A k \in more : k \in Done \/ start <= k
      BY <1>4
    <3> HIDE DEF more
    <3>3. \A m : Rules(table, more, m, a) <=> Ruled(Done, m, a)
      BY <1>1, <3>1, <3>2, RulesBelow
    <3>4. RightAt(Done, text, a)
      BY <1>1, <3>1
    <3>5. \A m : Ruled(Done, m, a) => m \in Done
      BY DEF Ruled, Below
    <3> QED BY <3>1, <3>3, <3>4, <3>5 DEF RightAt, more
  <2> QED BY <2>1 DEF Labels
<1> QED BY <1>4, <1>6, <1>7, <1>8 DEF FillInv

(* The larger of two addresses.                                            *)
LEMMA LargerOf ==
  ASSUME NEW x \in Nat, NEW y \in Nat
  PROVE  Max({x, y}) = IF x <= y THEN y ELSE x
<1> DEFINE S == {x, y}
<1>1. S \in SUBSET Nat /\ S # {} /\ x + y \in Nat /\ \A z \in S : z <= x + y
  OBVIOUS
<1>2. x \in S /\ y \in S /\ \A z \in S : z = x \/ z = y
  OBVIOUS
<1> HIDE DEF S
<1>3. Max(S) \in S /\ \A z \in S : z <= Max(S)
  BY <1>1, GreatestOf
<1>4. Max(S) = IF x <= y THEN y ELSE x
  <2>1. (Max(S) = x \/ Max(S) = y) /\ x <= Max(S) /\ y <= Max(S)
    BY <1>2, <1>3
  <2> HIDE DEF S
  <2> QED BY <2>1
<1> QED BY <1>4 DEF S

(* One more subroutine is filled in, or the loop is broken off.  No entry  *)
(* is found to have a label already.                                       *)
LEMMA PopulateKeeps ==
  ASSUME TableInv, Apart, FillInv, Populate
  PROVE  FillInv'
<1> DEFINE start == Min(left)
           sub == table[start]
           end == Max({sub.pc_end, start})
           text == CarriedOn(Resized(progtext, baseaddr .. end - 1), start)
<1>1. /\ start \in left /\ \A k \in left : start <= k
      /\ start \in Nat /\ start \in DOMAIN table /\ sub \in Subroutines /\ sub.pc_end \in Nat /\ offset \in Nat
  <2>1. left \in SUBSET Nat /\ left # {} /\ left \subseteq DOMAIN table
    BY DEF TableInv, Populate
  <2>2. start \in left /\ \A k \in left : start <= k
    BY <2>1, LeastOf
  <2>3. start \in DOMAIN table /\ start \in Nat
    BY <2>1, <2>2
  <2>4. sub \in Subroutines
    BY <2>3 DEF TableInv
  <2>5. offset \in Nat
    BY DEF FillInv, PrevInv
  <2> QED BY <2>2, <2>3, <2>4, <2>5 DEF Subroutines
<1>2. end = IF sub.pc_end <= start THEN start ELSE sub.pc_end
  BY <1>1, LargerOf
<1>3. Reached(start, end, text)
  <2> HIDE DEF end, start
  <2>1. end \in Nat /\ start <= end /\ (end = start \/ end = sub.pc_end) /\ sub.pc_end <= end
    BY <1>1, <1>2
  <2> QED BY <1>1, <2>1 DEF Reached
<1> DEFINE reached == IF prev = null THEN offset ELSE Max({offset, start})
<1>4. reached = IF prev = null \/ start <= offset THEN offset ELSE start
  <2>1. Max({offset, start}) = IF offset <= start THEN start ELSE offset
    BY <1>1, LargerOf
  <2> HIDE DEF start
  <2>2. Max({offset, start}) = IF start <= offset THEN offset ELSE start
    BY <1>1, <2>1
  <2> QED BY <2>2
<1>5. Max({start + 1, end}) = IF start < end THEN end ELSE start + 1
  <2>1. start + 1 \in Nat /\ end \in Nat
    BY <1>1, <1>2
  <2>2. Max({start + 1, end}) = IF start + 1 <= end THEN end ELSE start + 1
    BY <2>1, LargerOf
  <2> HIDE DEF start, end
  <2> QED BY <1>1, <2>1, <2>2
<1>6. UNCHANGED table
  BY DEF Populate
<1>7. CASE start \notin DOMAIN text
  <2>1. progtext' = text /\ left' = {} /\ offset' = reached /\ prev' = prev
    BY <1>7 DEF Populate
  <2> HIDE DEF start, end, text, reached
  <2> QED BY <1>3, <1>4, <1>6, <1>7, <2>1, BreakKeeps
<1>8. CASE start \in DOMAIN text
  <2>1. text[start] = null
    <3> HIDE DEF start, end, text
    <3>1. \A a \in DOMAIN text : start <= a => text[a] = null
      BY <1>3, BeforeStart
    <3>2. start <= start
      BY <1>1
    <3> QED BY <1>8, <3>1, <3>2
  <2>2. /\ progtext' = Placed(start, end, text) /\ left' = left \ {start}
        /\ offset' = Max({start + 1, end})
        /\ prev' = IF sub.pc_end = 0 THEN Entry(sub) ELSE null
    BY <1>8, <2>1 DEF Populate, Placed
  <2> HIDE DEF start, end, text
  <2> QED BY <1>3, <1>5, <1>6, <1>8, <2>2, PlacedKeeps
<1> QED BY <1>7, <1>8

(* An image without labels, and nothing done.                              *)
LEMMA AllocateStarts ==
  ASSUME TableInv, prev = null, offset = 0, Allocate
  PROVE  FillInv'
<1>1. /\ Done' = {} /\ baseaddr' = baseaddr /\ baseaddr \in Nat
      /\ prev' = null /\ offset' = 0
      /\ progtext' = Resized(<<>>, baseaddr .. highpc - 1)
  BY BaseFact DEF Allocate, Done, baseaddr
<1>2. DOMAIN progtext' = baseaddr .. highpc - 1 /\ \A a \in DOMAIN progtext' : progtext'[a] = null
  BY <1>1 DEF Resized
<1>3. IsImage(DOMAIN progtext)'
  BY <1>1, <1>2, TextAssumption DEF IsImage
<1>4. ImageInv' /\ PrevInv'
  BY <1>1, <1>3 DEF ImageInv, PrevInv, IsLast
<1>5. Labels(table', Done', progtext')
  BY <1>1, <1>2 DEF Labels
<1> QED BY <1>4, <1>5 DEF FillInv

-----------------------------------------------------------------------------
\* The finished array.

(* What the look-up in the table finds.                                    *)
LEMMA FindFact ==
  ASSUME TableInv, NEW pc \in Nat
  PROVE  /\ (\A m : ~ Below(DOMAIN table, m, pc)) => subroutine_find(pc) = null
         /\ \A m : Below(DOMAIN table, m, pc) =>
              subroutine_find(pc) =
                IF table[m].pc_end = 0 \/ pc < table[m].pc_end THEN table[m] ELSE null
<1> DEFINE keys == {k \in DOMAIN table : k <= pc}
<1>1. keys \in SUBSET Nat /\ \A k \in keys : k <= pc
  BY DEF TableInv
<1>2. keys # {} => Below(DOMAIN table, Max(keys), pc)
  <2> SUFFICES ASSUME keys # {} PROVE Below(DOMAIN table, Max(keys), pc)
    OBVIOUS
  <2>1. Max(keys) \in keys /\ \A k \in keys : k <= Max(keys)
    <3> HIDE DEF keys
    <3> QED BY <1>1, GreatestOf
  <2> QED BY <2>1 DEF Below
<1>3. ASSUME NEW m, Below(DOMAIN table, m, pc) PROVE keys # {} /\ Max(keys) = m
  <2>1. keys # {}
    BY <1>3 DEF Below
  <2>2. DOMAIN table \in SUBSET Nat
    BY DEF TableInv
  <2> QED BY <1>2, <1>3, <2>1, <2>2, OneRules
<1>4. keys = {} => subroutine_find(pc) = null
  BY DEF subroutine_find
<1>5. keys # {} => subroutine_find(pc) =
        IF table[Max(keys)].pc_end = 0 \/ pc < table[Max(keys)].pc_end THEN table[Max(keys)] ELSE null
  BY DEF subroutine_find
<1> HIDE DEF keys
<1> QED BY <1>2, <1>3, <1>4, <1>5

\* A label, next to what the look-up in the table gives.
Agrees(label, pc) ==
  LET sub == subroutine_find(pc)
  IN  IF sub = null THEN label = null
      ELSE /\ label # null
           /\ label.function_name = sub.name
           /\ label.in_asm_sequence = ~ sub.function
           /\ label.is_fn_entry = (pc \in DOMAIN table)
           /\ label.is_callsite = (pc \notin DOMAIN table /\ pc \in ToSet(sub.callsites))

(* A right label agrees with the table.                                    *)
LEMMA RightAgrees ==
  ASSUME TableInv, Disjoint, NEW pc \in Nat, NEW text, RightAt(DOMAIN table, text, pc)
  PROVE  Agrees(text[pc], pc)
<1>1. CASE \A m : ~ Below(DOMAIN table, m, pc)
  <2>1. subroutine_find(pc) = null
    BY <1>1, FindFact
  <2>2. text[pc] = null
    BY <1>1 DEF RightAt, Ruled
  <2> QED BY <2>1, <2>2 DEF Agrees
<1>2. ASSUME NEW m, Below(DOMAIN table, m, pc) PROVE Agrees(text[pc], pc)
  <2> DEFINE sub == table[m]
  <2>1. m \in DOMAIN table /\ m \in Nat /\ sub \in Subroutines /\ sub.pc_end \in Nat
    BY <1>2 DEF Below, TableInv, Subroutines
  <2>2. subroutine_find(pc) = IF sub.pc_end = 0 \/ pc < sub.pc_end THEN sub ELSE null
    BY <1>2, FindFact
  <2>3. sub.pc_end # 0 => m < sub.pc_end
    BY <2>1 DEF Disjoint
  <2>4. pc \in DOMAIN table <=> pc = m
    <3>1. pc \in DOMAIN table => pc <= m /\ m <= pc
      BY <1>2 DEF Below
    <3> QED BY <2>1, <3>1
  <2> HIDE DEF sub
  <2>5. CASE sub.pc_end = 0 \/ pc < sub.pc_end
    <3>1. subroutine_find(pc) = sub /\ sub # null
      BY <2>1, <2>2, <2>5, TextAssumption
    <3>2. text[pc] = LabelAt(sub, m, pc)
      BY <1>2, <2>1, <2>5 DEF RightAt, Ruled, sub
    <3>3. text[pc] # null
      BY <2>1, <3>2, LabelFact
    <3>4. /\ text[pc].function_name = sub.name /\ text[pc].in_asm_sequence = ~ sub.function
          /\ text[pc].is_fn_entry = (pc = m)
          /\ text[pc].is_callsite = (pc # m /\ pc \in ToSet(sub.callsites))
      <4>1. CASE pc = m
        <5>1. text[pc] = Entry(sub)
          BY <3>2, <4>1 DEF LabelAt
        <5>2. /\ Entry(sub).function_name = sub.name /\ Entry(sub).in_asm_sequence = ~ sub.function
              /\ Entry(sub).is_fn_entry = TRUE /\ Entry(sub).is_callsite = FALSE
          BY DEF Entry
        <5>3. (pc = m) = TRUE /\ (pc # m /\ pc \in ToSet(sub.callsites)) = FALSE
          BY <4>1
        <5> QED BY <5>1, <5>2, <5>3
      <4>2. CASE pc # m /\ pc \in ToSet(sub.callsites)
        <5>1. text[pc] = Callsite(Entry(sub))
          BY <3>2, <4>2 DEF LabelAt
        <5>2. /\ Callsite(Entry(sub)).function_name = sub.name
              /\ Callsite(Entry(sub)).in_asm_sequence = ~ sub.function
              /\ Callsite(Entry(sub)).is_fn_entry = FALSE /\ Callsite(Entry(sub)).is_callsite = TRUE
          BY DEF Entry, Body, Callsite
        <5>3. (pc = m) = FALSE /\ (pc # m /\ pc \in ToSet(sub.callsites)) = TRUE
          BY <4>2
        <5> QED BY <5>1, <5>2, <5>3
      <4>3. CASE pc # m /\ pc \notin ToSet(sub.callsites)
        <5>1. text[pc] = Body(Entry(sub))
          BY <3>2, <4>3 DEF LabelAt
        <5>2. /\ Body(Entry(sub)).function_name = sub.name /\ Body(Entry(sub)).in_asm_sequence = ~ sub.function
              /\ Body(Entry(sub)).is_fn_entry = FALSE /\ Body(Entry(sub)).is_callsite = FALSE
          BY DEF Entry, Body
        <5>3. (pc = m) = FALSE /\ (pc # m /\ pc \in ToSet(sub.callsites)) = FALSE
          BY <4>3
        <5> QED BY <5>1, <5>2, <5>3
      <4> QED BY <4>1, <4>2, <4>3
    <3> QED BY <2>4, <3>1, <3>3, <3>4 DEF Agrees
  <2>6. CASE ~ (sub.pc_end = 0 \/ pc < sub.pc_end)
    <3>1. subroutine_find(pc) = null
      BY <2>2, <2>6
    <3>2. ~ \E n \in DOMAIN table : Ruled(DOMAIN table, n, pc)
      <4> SUFFICES ASSUME NEW n \in DOMAIN table, Ruled(DOMAIN table, n, pc) PROVE FALSE
        OBVIOUS
      <4>1. DOMAIN table \in SUBSET Nat
        BY DEF TableInv
      <4>2. n = m
        BY <1>2, <4>1, OneRules DEF Ruled
      <4> QED BY <2>1, <2>3, <2>6, <4>2 DEF Ruled, sub
    <3>3. text[pc] = null
      BY <3>2 DEF RightAt
    <3> QED BY <3>1, <3>3 DEF Agrees
  <2> QED BY <2>5, <2>6
<1> QED BY <1>1, <1>2

(* The last label is carried on to the end of the image.                   *)
LEMMA FillEndAgrees ==
  ASSUME TableInv, Disjoint, FillInv, FillEnd
  PROVE  \A pc \in DOMAIN progtext' : Agrees(progtext'[pc], pc)
<1> DEFINE limit == Max(DOMAIN progtext) + 1
           new == CarriedOn(progtext, limit)
<1>1. progtext' = new /\ Done = DOMAIN table
  BY DEF FillEnd, Done
<1>2. PICK n \in Nat : DOMAIN progtext = baseaddr .. n - 1
  BY DEF FillInv, ImageInv, IsImage
<1>3. /\ baseaddr \in Nat /\ offset \in Nat /\ DOMAIN progtext \in SUBSET Nat
      /\ \A a \in DOMAIN progtext : baseaddr <= a /\ a <= n
  BY <1>2, BaseFact DEF FillInv, PrevInv
<1>4. ASSUME NEW pc \in DOMAIN progtext PROVE limit \in Int /\ pc < limit
  <2>1. DOMAIN progtext # {}
    BY <1>4
  <2>2. Max(DOMAIN progtext) \in DOMAIN progtext /\ pc <= Max(DOMAIN progtext)
    BY <1>3, <1>4, <2>1, GreatestOf
  <2>3. Max(DOMAIN progtext) \in Nat /\ pc \in Nat
    BY <1>3, <1>4, <2>2
  <2> QED BY <2>2, <2>3
<1> HIDE DEF limit
<1>5. DOMAIN new = DOMAIN progtext
  BY DEF CarriedOn, Filled
<1>6. ASSUME NEW pc \in DOMAIN progtext PROVE Agrees(new[pc], pc)
  <2>1. limit \in Int /\ pc < limit
    BY <1>4
  <2>2. RightAt(Done, new, pc)
    BY <1>3, <2>1, CarriedLabels
  <2> HIDE DEF new
  <2>3. RightAt(DOMAIN table, new, pc) /\ pc \in Nat
    BY <1>1, <1>3, <2>2
  <2> QED BY <2>3, RightAgrees
<1> HIDE DEF new
<1> QED BY <1>1, <1>5, <1>6

(* It holds of the empty table,                                            *)
LEMMA TextStarts == TextInit /\ Inputs => TextInv
<1> SUFFICES ASSUME TextInit, Inputs PROVE TextInv
  OBVIOUS
<1>1. table = <<>> /\ stage = "table" /\ left = {} /\ prev = null /\ offset = 0
  BY DEF TextInit
<1>2. DOMAIN table = {}
  BY <1>1
<1>3. TableInv
  BY <1>1, <1>2 DEF TableInv, Apart
<1> QED BY <1>1, <1>3 DEF TextInv, TextIsTable

(* and every step keeps it.                                                *)
LEMMA TextKeeps == TextInv /\ [TextNext]_textVars => TextInv'
<1> SUFFICES ASSUME TextInv, [TextNext]_textVars PROVE TextInv'
  OBVIOUS
<1>1. /\ TableInv /\ (Disjoint => Apart) /\ (stage = "fill" /\ Disjoint => FillInv)
      /\ (stage = "table" => prev = null /\ offset = 0)
  BY DEF TextInv, TableInv
<1>2. CASE die_subprogram \/ Symbol
  <2>1. TableInv'
    BY <1>1, <1>2, TableStep
  <2>2. stage' = "table" /\ UNCHANGED <<prev, offset>> /\ stage = "table"
    BY <1>2 DEF die_subprogram, Symbol
  <2> QED BY <1>1, <2>1, <2>2 DEF TextInv, TextIsTable
<1>3. CASE Allocate \/ Populate \/ FillEnd \/ UNCHANGED textVars
  <2>1. UNCHANGED <<dies, symtab, table>>
    BY <1>3 DEF Allocate, Populate, FillEnd, textVars
  <2>2. Disjoint' <=> Disjoint
    BY <2>1 DEF Disjoint
  <2>3. left' \subseteq DOMAIN table /\ stage' \in {"table", "fill", "run"}
    BY <1>1, <1>3 DEF Allocate, Populate, FillEnd, textVars, TableInv
  <2>4. TableInv'
    BY <1>1, <2>1, <2>2, <2>3 DEF TableInv, Inputs, Apart
  <2>5. CASE Allocate
    <3>1. stage = "table" /\ stage' = "fill"
      BY <2>5 DEF Allocate
    <3>2. FillInv'
      BY <1>1, <2>5, <3>1, AllocateStarts
    <3> QED BY <2>4, <3>1, <3>2 DEF TextInv, TextIsTable
  <2>6. CASE Populate
    <3>1. stage = "fill" /\ stage' = "fill"
      BY <2>6 DEF Populate
    <3>2. Disjoint' => FillInv'
      BY <1>1, <2>2, <2>6, <3>1, PopulateKeeps
    <3> QED BY <2>4, <3>1, <3>2 DEF TextInv, TextIsTable
  <2>7. CASE FillEnd
    <3>1. stage = "fill" /\ stage' = "run"
      BY <2>7 DEF FillEnd
    <3>2. TextIsTable'
      <4> SUFFICES ASSUME Disjoint
                   PROVE  \A pc \in DOMAIN progtext' : Agrees(progtext'[pc], pc)
        BY <2>1, <2>2 DEF TextIsTable, Agrees, getInstrFromAddr, subroutine_find
      <4> QED BY <1>1, <2>7, <3>1, FillEndAgrees
    <3> QED BY <2>4, <3>1, <3>2 DEF TextInv
  <2>8. CASE UNCHANGED textVars
    <3>1. UNCHANGED <<dies, symtab, table, stage, left, progtext, offset, prev>>
      BY <2>8 DEF textVars
    <3>2. FillInv' <=> FillInv
      BY <3>1 DEF FillInv, ImageInv, PrevInv, IsImage, Done, Broken, IsLast, baseaddr
    <3>3. TextIsTable' <=> TextIsTable
      <4>1. /\ stage' = stage /\ DOMAIN progtext' = DOMAIN progtext /\ DOMAIN table' = DOMAIN table
            /\ \A pc : getInstrFromAddr(pc)' = getInstrFromAddr(pc)
        BY <3>1 DEF getInstrFromAddr
      <4>2. \A pc : subroutine_find(pc)' = subroutine_find(pc)
        BY <3>1 DEF subroutine_find
      <4>3. TextIsTable' <=> (stage = "run" /\ Disjoint => \A pc \in DOMAIN progtext : Agrees(getInstrFromAddr(pc), pc))
        BY <2>2, <4>1, <4>2 DEF TextIsTable, Agrees
      <4>4. TextIsTable <=> (stage = "run" /\ Disjoint => \A pc \in DOMAIN progtext : Agrees(getInstrFromAddr(pc), pc))
        BY DEF TextIsTable, Agrees
      <4> QED BY <4>3, <4>4
    <3>4. TextIsTable
      BY DEF TextInv
    <3> QED BY <1>1, <2>2, <2>4, <3>1, <3>2, <3>3, <3>4 DEF TextInv
  <2> QED BY <1>3, <2>5, <2>6, <2>7, <2>8
<1> QED BY <1>2, <1>3 DEF TextNext

-----------------------------------------------------------------------------
(* Wherever the DWARF entries are disjoint, the array and the table are    *)
(* the same map: labels, entries, call sites and gaps of the finished      *)
(* array are those that the look-up in the table gives, whatever binary    *)
(* and however many entries and symbols.                                   *)
THEOREM LabelsFollowTable == TextSpec => []TextIsTable
<1>1. TextInit /\ Inputs => TextInv
  BY TextStarts
<1>2. TextInv /\ [TextNext]_textVars => TextInv'
  BY TextKeeps
<1>3. TextInv => TextIsTable
  BY DEF TextInv
<1> QED BY <1>1, <1>2, <1>3, PTL DEF TextSpec

-----------------------------------------------------------------------------
\* MemLayout: pages.

PageBase(k) == PGSIZE * k

(* A product of natural numbers is one.                                   *)
LEMMA Mul == ASSUME NEW a \in Nat, NEW b \in Nat PROVE a * b \in Nat
  OBVIOUS

(* The address of a page is a natural number,                              *)
LEMMA PageBaseType == ASSUME NEW k \in Nat PROVE PageBase(k) \in Nat
  BY LayoutAssumption, Mul DEF PageBase

(* and a page ends where the next begins, or before.                       *)
LEMMA PageBaseLess ==
  ASSUME NEW j \in Nat, NEW k \in Nat, j < k
  PROVE  PageBase(j) + PGSIZE <= PageBase(k)
<1> DEFINE d == k - j - 1
<1>1. d \in Nat /\ k = j + 1 + d
  OBVIOUS
<1> HIDE DEF d
<1>2. PGSIZE \in Nat /\ PGSIZE * d \in Nat /\ PGSIZE * j \in Nat
  BY <1>1, LayoutAssumption, Mul
<1>3. PGSIZE * (j + 1 + d) = PGSIZE * j + PGSIZE + PGSIZE * d
  BY <1>1, <1>2
<1> QED BY <1>1, <1>2, <1>3 DEF PageBase

(* An address is that of its page and an offset in it,                     *)
LEMMA DivPage ==
  ASSUME NEW a \in Nat
  PROVE  /\ a \div PGSIZE \in Nat
         /\ a % PGSIZE \in 0 .. PGSIZE - 1
         /\ a = PageBase(a \div PGSIZE) + (a % PGSIZE)
  BY LayoutAssumption DEF PageBase

\* Regions, those that are made of whole pages, and the pages they have and
\* touch.
Regions == [base : Nat, size : Nat]
Multiple(n) == \E k \in Nat : n = PageBase(k)
Paged(r) ==
  /\ r \in Regions /\ Multiple(r.base) /\ Multiple(r.base + r.size)
  /\ r.size > 0 /\ r.base + r.size <= WORD
Has(r, k) == r.base <= PageBase(k) /\ PageBase(k) < r.base + r.size
Touches(r, k) == r.base < PageBase(k) + PGSIZE /\ PageBase(k) < r.base + r.size

(* and its page is the one it is in.                                       *)
LEMMA PageOf ==
  ASSUME NEW a \in Nat, NEW k \in Nat
  PROVE  a \div PGSIZE = k <=> PageBase(k) <= a /\ a < PageBase(k) + PGSIZE
<1> DEFINE q == a \div PGSIZE
           m == a % PGSIZE
<1>1. q \in Nat /\ m \in 0 .. PGSIZE - 1 /\ a = PageBase(q) + m
  BY DivPage
<1> HIDE DEF q, m
<1>2. PageBase(q) \in Nat /\ PageBase(k) \in Nat /\ PGSIZE \in Nat
  BY <1>1, PageBaseType, LayoutAssumption
<1>3. q < k => PageBase(q) + PGSIZE <= PageBase(k)
  BY <1>1, PageBaseLess
<1>4. k < q => PageBase(k) + PGSIZE <= PageBase(q)
  BY <1>1, PageBaseLess
<1>5. q = k <=> PageBase(k) <= a /\ a < PageBase(k) + PGSIZE
  <2>1. CASE q = k
    BY <1>1, <1>2, <2>1
  <2>2. CASE q < k
    BY <1>1, <1>2, <1>3, <2>2
  <2>3. CASE k < q
    BY <1>1, <1>2, <1>4, <2>3
  <2> QED BY <1>1, <2>1, <2>2, <2>3
<1> QED BY <1>5 DEF q

(* The pages of a region are those it touches,                             *)
LEMMA PagesTouched ==
  ASSUME NEW r \in Regions, r.size > 0
  PROVE  PagesOf(r) = {k \in Nat : Touches(r, k)}
<1>1. r.base \in Nat /\ r.size \in Nat /\ PGSIZE \in Nat \ {0}
  BY LayoutAssumption DEF Regions
<1>2. ASSUME NEW a \in r.base .. r.base + r.size - 1
      PROVE  a \div PGSIZE \in {k \in Nat : Touches(r, k)}
  <2> DEFINE k == a \div PGSIZE
  <2>1. a \in Nat /\ k \in Nat
    BY <1>1, DivPage
  <2>2. PageBase(k) <= a /\ a < PageBase(k) + PGSIZE /\ PageBase(k) \in Nat
    BY <2>1, PageOf, PageBaseType
  <2> HIDE DEF k
  <2>3. Touches(r, k)
    BY <1>1, <2>1, <2>2 DEF Touches
  <2> QED BY <2>1, <2>3 DEF k
<1>3. ASSUME NEW k \in Nat, Touches(r, k)
      PROVE  \E a \in r.base .. r.base + r.size - 1 : a \div PGSIZE = k
  <2> DEFINE a == IF r.base <= PageBase(k) THEN PageBase(k) ELSE r.base
  <2>1. PageBase(k) \in Nat
    BY PageBaseType
  <2>2. a \in r.base .. r.base + r.size - 1 /\ a \in Nat /\ PageBase(k) <= a /\ a < PageBase(k) + PGSIZE
    BY <1>1, <1>3, <2>1 DEF Touches
  <2> HIDE DEF a
  <2>3. a \div PGSIZE = k
    BY <2>2, PageOf
  <2> QED BY <2>2, <2>3
<1>4. PagesOf(r) \subseteq {k \in Nat : Touches(r, k)}
  BY <1>2 DEF PagesOf
<1>5. ASSUME NEW k \in Nat, Touches(r, k) PROVE k \in PagesOf(r)
  <2>1. PICK a \in r.base .. r.base + r.size - 1 : a \div PGSIZE = k
    BY <1>3, <1>5
  <2> QED BY <2>1 DEF PagesOf
<1> QED BY <1>4, <1>5

(* and a region of whole pages has each that it touches.                   *)
LEMMA GoodTouched ==
  ASSUME NEW r, Paged(r), NEW k \in Nat
  PROVE  Touches(r, k) <=> Has(r, k)
<1>1. PICK b \in Nat : r.base = PageBase(b)
  BY DEF Paged, Multiple
<1>2. PageBase(b) \in Nat /\ PageBase(k) \in Nat /\ PGSIZE \in Nat \ {0}
  BY PageBaseType, LayoutAssumption
<1>3. k < b => PageBase(k) + PGSIZE <= PageBase(b)
  BY PageBaseLess
<1>4. b < k => PageBase(b) + PGSIZE <= PageBase(k)
  BY PageBaseLess
<1>5. r.base < PageBase(k) + PGSIZE <=> r.base <= PageBase(k)
  <2>1. CASE k < b
    BY <1>1, <1>2, <1>3, <2>1
  <2>2. CASE b < k
    BY <1>1, <1>2, <1>4, <2>2
  <2>3. CASE b = k
    BY <1>1, <1>2, <2>3
  <2> QED BY <2>1, <2>2, <2>3
<1> QED BY <1>5 DEF Touches, Has

(* What a page divides is a multiple of pages.                             *)
LEMMA ModZero ==
  ASSUME NEW n \in Nat, n % PGSIZE = 0
  PROVE  Multiple(n)
<1>1. n \div PGSIZE \in Nat /\ n = PageBase(n \div PGSIZE) + (n % PGSIZE)
  BY DivPage
<1>2. PageBase(n \div PGSIZE) \in Nat
  BY <1>1, PageBaseType
<1>3. n = PageBase(n \div PGSIZE)
  BY <1>1, <1>2
<1> QED BY <1>1, <1>3 DEF Multiple

(* What is less than the word does not wrap around.                        *)
LEMMA WordFits ==
  ASSUME NEW a \in Nat, a < WORD
  PROVE  a % WORD = a
  BY LayoutAssumption

(* The word does.                                                          *)
LEMMA WordWraps ==
  WORD % WORD = 0
  BY LayoutAssumption

(* The sum of multiples is one.                                            *)
LEMMA MultipleSum ==
  ASSUME NEW a \in Nat, NEW b \in Nat, Multiple(a), Multiple(b)
  PROVE  Multiple(a + b)
<1>1. PICK i \in Nat : a = PageBase(i)
  BY DEF Multiple
<1>2. PICK j \in Nat : b = PageBase(j)
  BY DEF Multiple
<1>3. PGSIZE * i + PGSIZE * j = PGSIZE * (i + j)
  BY LayoutAssumption
<1> QED BY <1>1, <1>2, <1>3 DEF Multiple, PageBase

-----------------------------------------------------------------------------
\* The tuples.

(* A tuple that is accepted is made of whole pages, and unless it wraps    *)
(* around they are the pages it touches.                                   *)
LEMMA AlignedPages ==
  ASSUME NEW base \in 0 .. WORD - 1, NEW size \in 0 .. WORD - 1, check_if_supported(Aligned(base, size))
  PROVE  /\ Paged(Aligned(base, size))
         /\ Sensible(Region(base, size)) =>
              \A k \in Nat : Has(Aligned(base, size), k) <=> Touches(Region(base, size), k)
<1> DEFINE r == Aligned(base, size)
           m == base % PGSIZE
           b == base \div PGSIZE
           wide == (size + m) % WORD
<1>1. /\ PGSIZE \in Nat \ {0} /\ WORD \in Nat /\ base \in Nat /\ size \in Nat /\ base < WORD /\ PGSIZE < WORD
      /\ WORD % PGSIZE = 0
  BY LayoutAssumption
<1>2. b \in Nat /\ m \in 0 .. PGSIZE - 1 /\ base = PageBase(b) + m
  BY <1>1, DivPage
<1>3. /\ r.base = base - m
      /\ r.size = IF wide % PGSIZE = 0 THEN wide ELSE (wide + PGSIZE - (wide % PGSIZE)) % WORD
      /\ r = [base |-> r.base, size |-> r.size]
  BY DEF Aligned, Region
<1>4. r.size % PGSIZE = 0 /\ r.base % PGSIZE = 0 /\ r.size > 0 /\ r.base + r.size <= WORD
  BY DEF check_if_supported
<1> HIDE DEF r, m, b
<1>5. wide \in 0 .. WORD - 1
  BY <1>1, <1>2
<1> HIDE DEF wide
<1> DEFINE e == wide % PGSIZE
           c == wide \div PGSIZE
<1>6. c \in Nat /\ e \in 0 .. PGSIZE - 1 /\ wide = PageBase(c) + e
  BY <1>5, DivPage
<1>7. r.size = IF e = 0 THEN wide ELSE (wide + PGSIZE - e) % WORD
  BY <1>3
<1> HIDE DEF e, c
<1>8. PageBase(b) \in Nat /\ PageBase(c) \in Nat
  BY <1>2, <1>6, PageBaseType
<1>9. r.base = PageBase(b) /\ r.base \in Nat
  BY <1>2, <1>3, <1>8
<1>10. r.size \in Nat
  <2>1. wide + PGSIZE - e \in Nat
    BY <1>1, <1>5, <1>6
  <2> QED BY <1>1, <1>5, <1>7, <2>1
<1>11. Multiple(r.base) /\ Multiple(r.base + r.size)
  <2>1. Multiple(r.base) /\ Multiple(r.size)
    BY <1>4, <1>9, <1>10, ModZero
  <2> QED BY <1>9, <1>10, <2>1, MultipleSum
<1>12. Paged(r)
  <2>1. r \in Regions
    BY <1>3, <1>9, <1>10 DEF Regions
  <2> QED BY <1>4, <1>11, <2>1 DEF Paged
<1>13. ASSUME Sensible(Region(base, size)), NEW k \in Nat
       PROVE  Has(r, k) <=> Touches(Region(base, size), k)
  <2>1. size > 0 /\ base + size <= WORD
    BY <1>13 DEF Sensible, Region
  <2>2. PageBase(k) \in Nat
    BY PageBaseType
  <2>3. r.base <= PageBase(k) <=> base < PageBase(k) + PGSIZE
    <3>1. k < b => PageBase(k) + PGSIZE <= PageBase(b)
      BY <1>2, PageBaseLess
    <3>2. b < k => PageBase(b) + PGSIZE <= PageBase(k)
      BY <1>2, PageBaseLess
    <3>3. CASE k < b
      BY <1>1, <1>2, <1>8, <1>9, <2>2, <3>1, <3>3
    <3>4. CASE b < k
      BY <1>1, <1>2, <1>8, <1>9, <2>2, <3>2, <3>4
    <3>5. CASE b = k
      BY <1>1, <1>2, <1>8, <1>9, <2>2, <3>5
    <3> QED BY <1>2, <3>3, <3>4, <3>5
  <2>4. wide = size + m
    <3>1. size + m \in Nat /\ PageBase(b) + (size + m) <= WORD
      BY <1>1, <1>2, <1>8, <2>1
    <3>2. CASE size + m < WORD
      BY <3>1, <3>2, WordFits DEF wide
    <3>3. CASE size + m = WORD
      <4>1. wide = 0
        BY <3>3, WordWraps DEF wide
      <4>2. e = 0
        BY <1>1, <4>1 DEF e
      <4> QED BY <1>4, <1>7, <4>1, <4>2
    <3>4. size + m < WORD \/ size + m = WORD
      BY <1>1, <1>8, <3>1
    <3> QED BY <3>2, <3>3, <3>4
  <2>5. PageBase(b) + wide = base + size
    BY <1>1, <1>2, <1>8, <2>4
  <2>6. PageBase(k) < r.base + r.size <=> PageBase(k) < base + size
    <3>1. CASE e = 0
      BY <1>7, <1>9, <2>5, <3>1
    <3>2. CASE e # 0
      <4>1. PICK w \in Nat : WORD = PageBase(w)
        BY <1>1, ModZero DEF Multiple
      <4>2. c < w
        <5>1. w < c => PageBase(w) + PGSIZE <= PageBase(c)
          BY <1>6, PageBaseLess
        <5>2. ~ (w = c) /\ ~ (w < c)
          BY <1>1, <1>5, <1>6, <1>8, <4>1, <5>1
        <5> QED BY <1>6, <5>2
      <4>3. PageBase(c) + PGSIZE <= WORD
        BY <1>6, <4>1, <4>2, PageBaseLess
      <4>4. wide + PGSIZE - e = PageBase(c) + PGSIZE /\ PageBase(c) + PGSIZE \in Nat
        BY <1>1, <1>6, <1>8
      <4>5. r.size = (PageBase(c) + PGSIZE) % WORD
        BY <1>7, <3>2, <4>4
      <4>6. r.size = PageBase(c) + PGSIZE
        <5>1. CASE PageBase(c) + PGSIZE = WORD
          BY <1>4, <4>5, <5>1, WordWraps
        <5>2. CASE PageBase(c) + PGSIZE < WORD
          BY <4>4, <4>5, <5>2, WordFits
        <5> QED BY <1>1, <4>3, <4>4, <5>1, <5>2
      <4> DEFINE d == b + c
      <4>7. d \in Nat /\ PageBase(d) = PageBase(b) + PageBase(c)
        BY <1>1, <1>2, <1>6 DEF PageBase
      <4> HIDE DEF d
      <4>8. PageBase(d) \in Nat
        BY <4>7, PageBaseType
      <4>9. r.base + r.size = PageBase(d) + PGSIZE /\ base + size = PageBase(d) + e /\ 0 < e /\ e < PGSIZE
        <5>1. r.base + r.size = PageBase(b) + (PageBase(c) + PGSIZE)
          BY <1>9, <4>6
        <5>2. base + size = PageBase(b) + (PageBase(c) + e)
          BY <1>6, <2>5
        <5>3. 0 < e /\ e < PGSIZE
          BY <1>1, <1>6, <3>2
        <5> QED BY <1>1, <1>6, <1>8, <4>7, <5>1, <5>2, <5>3
      <4>10. d < k => PageBase(d) + PGSIZE <= PageBase(k)
        BY <4>7, PageBaseLess
      <4>11. k < d => PageBase(k) + PGSIZE <= PageBase(d)
        BY <4>7, PageBaseLess
      <4>12. CASE d < k
        BY <1>1, <1>6, <2>2, <4>8, <4>9, <4>10, <4>12
      <4>13. CASE k < d
        BY <1>1, <1>6, <2>2, <4>8, <4>9, <4>11, <4>13
      <4>14. CASE k = d
        BY <1>1, <1>6, <2>2, <4>8, <4>9, <4>14
      <4> QED BY <4>7, <4>12, <4>13, <4>14
    <3> QED BY <3>1, <3>2
  <2> QED BY <2>3, <2>6 DEF Has, Touches, Region
<1> QED BY <1>12, <1>13 DEF r

-----------------------------------------------------------------------------
\* Two regions.

Ordered(a, b) == Max({a, b}) = b /\ Min({a, b}) = a

(* Max and Min of two numbers.                                             *)
LEMMA OfTwo ==
  ASSUME NEW a \in Int, NEW b \in Int, a <= b
  PROVE  Ordered(a, b)
<1>1. \A x \in {a, b} : (\A y \in {a, b} : x >= y) <=> x = b
  OBVIOUS
<1>2. \A x \in {a, b} : (\A y \in {a, b} : x =< y) <=> x = a
  OBVIOUS
<1>3. Max({a, b}) = CHOOSE x \in {a, b} : x = b
  BY <1>1 DEF Max
<1>4. Min({a, b}) = CHOOSE x \in {a, b} : x = a
  BY <1>2 DEF Min
<1> QED BY <1>3, <1>4 DEF Ordered

(* The last byte of a region does not wrap around.                         *)
LEMMA EndFact ==
  ASSUME NEW r, Paged(r)
  PROVE  /\ r.base \in Nat /\ r.size \in Nat /\ r.size > 0 /\ r.base + r.size <= WORD
         /\ inclusive_end(r) = r.base + r.size - 1 /\ inclusive_end(r) \in Nat
<1>1. r.base \in Nat /\ r.size \in Nat /\ r.size > 0 /\ r.base + r.size <= WORD /\ WORD \in Nat
  BY LayoutAssumption DEF Paged, Regions
<1> DEFINE e == r.base + r.size - 1
<1>2. e \in Nat /\ e < WORD
  BY <1>1
<1>3. inclusive_end(r) = e % WORD
  BY DEF inclusive_end
<1> HIDE DEF e
<1>4. inclusive_end(r) = e
  BY <1>2, <1>3, WordFits
<1> QED BY <1>1, <1>2, <1>4 DEF e

Merge(l, r) == check_mem_overlap(l, r) /\ ~ check_if_merge_covers_64bit_space(l, r)

(* What is merged is the region before and the next one.                   *)
LEMMA Merging ==
  ASSUME NEW l, NEW r, Paged(l), Paged(r), l.base <= r.base
  PROVE  /\ check_mem_overlap(l, r) <=> r.base < l.base + l.size
         /\ check_if_merge_covers_64bit_space(l, r) =>
              /\ l.base = 0 /\ check_mem_overlap(l, r)
              /\ \A k \in Nat : PageBase(k) < WORD => Has(l, k) \/ Has(r, k)
         /\ Merge(l, r) =>
              /\ Paged(merge_mem_regions(l, r)) /\ merge_mem_regions(l, r).base = l.base
              /\ \A k \in Nat : Has(merge_mem_regions(l, r), k) <=> Has(l, k) \/ Has(r, k)
<1> DEFINE le == inclusive_end(l)
           re == inclusive_end(r)
           top == Max({le, re})
<1>1. /\ l.base \in Nat /\ l.size \in Nat /\ l.size > 0 /\ l.base + l.size <= WORD
      /\ le = l.base + l.size - 1 /\ le \in Nat
  BY EndFact
<1>2. /\ r.base \in Nat /\ r.size \in Nat /\ r.size > 0 /\ r.base + r.size <= WORD
      /\ re = r.base + r.size - 1 /\ re \in Nat
  BY EndFact
<1> HIDE DEF le, re
<1>3. Max({l.base, r.base}) = r.base /\ Min({l.base, r.base}) = l.base
  <2>1. Ordered(l.base, r.base)
    BY <1>1, <1>2, OfTwo
  <2> QED BY <2>1 DEF Ordered
<1>4. /\ top = IF le <= re THEN re ELSE le
      /\ Min({le, re}) = IF le <= re THEN le ELSE re
  <2>1. CASE le <= re
    <3>1. Ordered(le, re)
      BY <1>1, <1>2, <2>1, OfTwo
    <3> QED BY <2>1, <3>1 DEF Ordered
  <2>2. CASE ~ (le <= re)
    <3>1. Ordered(re, le)
      BY <1>1, <1>2, <2>2, OfTwo
    <3>2. {le, re} = {re, le}
      OBVIOUS
    <3> QED BY <2>2, <3>1, <3>2 DEF Ordered
  <2> QED BY <2>1, <2>2
<1> HIDE DEF top
<1>6. check_mem_overlap(l, r) <=> r.base < l.base + l.size
  <2>1. check_mem_overlap(l, r) <=> r.base <= (IF le <= re THEN le ELSE re)
    BY <1>3, <1>4 DEF check_mem_overlap, le, re
  <2> QED BY <1>1, <1>2, <2>1
<1>7. check_if_merge_covers_64bit_space(l, r) <=> check_mem_overlap(l, r) /\ l.base = 0 /\ top = WORD - 1
  BY <1>3 DEF check_if_merge_covers_64bit_space, top, le, re
<1>8. WORD \in Nat /\ top \in Nat /\ top + 1 <= WORD /\ r.base <= top /\ l.base <= top
  BY <1>1, <1>2, <1>4, LayoutAssumption
<1>9. top + 1 = (IF le <= re THEN r.base + r.size ELSE l.base + l.size)
  BY <1>1, <1>2, <1>4
<1>10. ASSUME check_mem_overlap(l, r), NEW k \in Nat
       PROVE  l.base <= PageBase(k) /\ PageBase(k) < top + 1 <=> Has(l, k) \/ Has(r, k)
  <2>1. PageBase(k) \in Nat /\ r.base < l.base + l.size
    BY <1>6, <1>10, PageBaseType
  <2>2. CASE le <= re
    <3>1. top + 1 = r.base + r.size /\ l.base + l.size <= r.base + r.size
      BY <1>1, <1>2, <1>9, <2>2
    <3> QED BY <1>1, <1>2, <2>1, <3>1 DEF Has
  <2>3. CASE ~ (le <= re)
    <3>1. top + 1 = l.base + l.size /\ r.base + r.size <= l.base + l.size
      BY <1>1, <1>2, <1>9, <2>3
    <3> QED BY <1>1, <1>2, <2>1, <3>1 DEF Has
  <2> QED BY <2>2, <2>3
<1>11. ASSUME check_if_merge_covers_64bit_space(l, r)
       PROVE  /\ l.base = 0 /\ check_mem_overlap(l, r)
              /\ \A k \in Nat : PageBase(k) < WORD => Has(l, k) \/ Has(r, k)
  <2>1. l.base = 0 /\ check_mem_overlap(l, r) /\ top + 1 = WORD
    BY <1>7, <1>8, <1>11
  <2>2. \A k \in Nat : PageBase(k) \in Nat
    BY PageBaseType
  <2> QED BY <1>10, <2>1, <2>2
<1>12. ASSUME Merge(l, r)
       PROVE  /\ Paged(merge_mem_regions(l, r)) /\ merge_mem_regions(l, r).base = l.base
              /\ \A k \in Nat : Has(merge_mem_regions(l, r), k) <=> Has(l, k) \/ Has(r, k)
  <2> DEFINE m == merge_mem_regions(l, r)
             size == top - l.base + 1
  <2>1. check_mem_overlap(l, r) /\ (l.base # 0 \/ top # WORD - 1)
    BY <1>7, <1>12 DEF Merge
  <2>2. size \in Nat /\ size < WORD /\ size > 0 /\ l.base + size = top + 1
    BY <1>1, <1>8, <2>1
  <2>3. m = [base |-> l.base, size |-> size % WORD]
    BY <1>3 DEF merge_mem_regions, Region, top, le, re
  <2> HIDE DEF m, size
  <2>4. m.base = l.base /\ m.size = size /\ m \in Regions
    <3>1. size % WORD = size
      BY <2>2, WordFits
    <3> QED BY <1>1, <2>2, <2>3, <3>1 DEF Regions
  <2>5. Multiple(l.base) /\ Multiple(r.base + r.size) /\ Multiple(l.base + l.size)
    BY DEF Paged
  <2>6. Multiple(m.base) /\ Multiple(m.base + m.size)
    BY <1>9, <2>2, <2>4, <2>5
  <2>7. Paged(m)
    BY <1>8, <2>2, <2>4, <2>6 DEF Paged
  <2>8. ASSUME NEW k \in Nat PROVE Has(m, k) <=> Has(l, k) \/ Has(r, k)
    <3>1. Has(m, k) <=> l.base <= PageBase(k) /\ PageBase(k) < top + 1
      BY <2>2, <2>4 DEF Has
    <3> QED BY <1>10, <2>1, <3>1
  <2> QED BY <2>4, <2>7, <2>8 DEF m
<1> QED BY <1>6, <1>11, <1>12

-----------------------------------------------------------------------------
\* Sequences of regions.

InSome(s, k) == \E i \in DOMAIN s : Has(s[i], k)
AllPaged(s) == s \in Seq(Regions) /\ \A i \in DOMAIN s : Paged(s[i])
InOrder(s) == \A i, j \in DOMAIN s : i < j => s[i].base + s[i].size <= s[j].base
Ascending(s) == \A i, j \in DOMAIN s : i < j => s[i].base <= s[j].base

(* One more at the end.                                                    *)
LEMMA AppendRegion ==
  ASSUME NEW s, AllPaged(s), NEW r, Paged(r)
  PROVE  /\ AllPaged(Append(s, r)) /\ Append(s, r) # <<>> /\ Last(Append(s, r)) = r
         /\ \A k : InSome(Append(s, r), k) <=> InSome(s, k) \/ Has(r, k)
         /\ InOrder(s) /\ (s # <<>> => Last(s).base + Last(s).size <= r.base) => InOrder(Append(s, r))
<1> DEFINE t == Append(s, r)
<1>1. s \in Seq(Regions) /\ r \in Regions /\ Len(s) \in Nat /\ DOMAIN s = 1 .. Len(s)
  BY LenProperties DEF AllPaged, Paged
<1>2. /\ t \in Seq(Regions) /\ Len(t) = Len(s) + 1 /\ t[Len(s) + 1] = r
      /\ \A i \in 1 .. Len(s) : t[i] = s[i]
  BY <1>1, AppendProperties
<1>3. DOMAIN t = 1 .. Len(s) + 1
  BY <1>1, <1>2, LenProperties
<1> HIDE DEF t
<1>4. \A i \in DOMAIN t : i \in DOMAIN s \/ i = Len(s) + 1
  BY <1>1, <1>3
<1>5. /\ \A i \in DOMAIN s : i \in DOMAIN t /\ t[i] = s[i] /\ i <= Len(s) /\ i < Len(s) + 1 /\ i \in Nat
      /\ Len(s) + 1 \in DOMAIN t
  BY <1>1, <1>2, <1>3
<1>6. AllPaged(t)
  BY <1>2, <1>4, <1>5 DEF AllPaged
<1>7. t # <<>> /\ Last(t) = r
  <2>1. t # <<>>
    BY <1>5
  <2> QED BY <1>2, <2>1 DEF Last
<1>8. ASSUME NEW k PROVE InSome(t, k) <=> InSome(s, k) \/ Has(r, k)
  BY <1>2, <1>4, <1>5 DEF InSome
<1>9. ASSUME InOrder(s), s # <<>> => Last(s).base + Last(s).size <= r.base PROVE InOrder(t)
  <2> SUFFICES ASSUME NEW i \in DOMAIN t, NEW j \in DOMAIN t, i < j
               PROVE  t[i].base + t[i].size <= t[j].base
    BY DEF InOrder
  <2>1. i \in DOMAIN s
    BY <1>1, <1>3
  <2>2. CASE j \in DOMAIN s
    BY <1>5, <1>9, <2>1, <2>2 DEF InOrder
  <2>3. CASE j = Len(s) + 1
    <3>1. s # <<>> /\ Len(s) \in DOMAIN s
      BY <1>1, <2>1
    <3>2. Last(s).base + Last(s).size <= r.base
      BY <1>9, <3>1
    <3>3. t[i] = s[i] /\ t[j] = r
      BY <1>2, <1>5, <2>1, <2>3
    <3>4. CASE i = Len(s)
      BY <3>2, <3>3, <3>4 DEF Last
    <3>5. CASE i # Len(s)
      <4>1. i < Len(s)
        BY <1>1, <2>1, <3>5
      <4>2. s[i].base + s[i].size <= s[Len(s)].base
        BY <1>9, <2>1, <3>1, <4>1 DEF InOrder
      <4>3. /\ s[i].base \in Nat /\ s[i].size \in Nat /\ s[Len(s)].base \in Nat /\ s[Len(s)].size \in Nat
            /\ r.base \in Nat
        BY <2>1, <3>1, EndFact DEF AllPaged
      <4>4. s[Len(s)].base + s[Len(s)].size <= r.base
        BY <3>2 DEF Last
      <4> QED BY <3>3, <4>2, <4>3, <4>4
    <3> QED BY <3>4, <3>5
  <2> QED BY <1>4, <2>2, <2>3
<1> QED BY <1>6, <1>7, <1>8, <1>9 DEF t

(* The first one taken off.                                                *)
LEMMA HeadRegion ==
  ASSUME NEW s, AllPaged(s), s # <<>>
  PROVE  /\ Paged(Head(s)) /\ AllPaged(Tail(s))
         /\ \A k : InSome(s, k) <=> Has(Head(s), k) \/ InSome(Tail(s), k)
         /\ Ascending(s) => /\ Ascending(Tail(s))
                            /\ \A i \in DOMAIN Tail(s) : Head(s).base <= Tail(s)[i].base
         /\ \A n : (\A i \in DOMAIN s : n <= s[i].base) =>
              n <= Head(s).base /\ \A i \in DOMAIN Tail(s) : n <= Tail(s)[i].base
<1> DEFINE t == Tail(s)
<1>1. s \in Seq(Regions) /\ Len(s) \in Nat /\ DOMAIN s = 1 .. Len(s)
  BY LenProperties DEF AllPaged
<1>2. t \in Seq(Regions) /\ Len(t) = Len(s) - 1 /\ \A i \in 1 .. Len(t) : t[i] = s[i + 1]
  BY <1>1, HeadTailProperties
<1>3. DOMAIN t = 1 .. Len(t) /\ Len(t) \in Nat
  BY <1>2, LenProperties
<1>4. Head(s) = s[1] /\ 1 \in DOMAIN s
  <2>1. Len(s) > 0
    BY <1>1, EmptySeq
  <2> QED BY <1>1, <2>1
<1> HIDE DEF t
<1>5. \A i \in DOMAIN t : i + 1 \in DOMAIN s /\ t[i] = s[i + 1] /\ i \in Nat /\ 1 < i + 1
  BY <1>1, <1>2, <1>3
<1>6. \A i \in DOMAIN s : i = 1 \/ (i - 1 \in DOMAIN t /\ t[i - 1] = s[i])
  <2> SUFFICES ASSUME NEW i \in DOMAIN s, i # 1 PROVE i - 1 \in DOMAIN t /\ t[i - 1] = s[i]
    OBVIOUS
  <2>1. i - 1 \in 1 .. Len(t) /\ (i - 1) + 1 = i
    BY <1>1, <1>2, <1>3
  <2> QED BY <1>2, <1>3, <2>1
<1>7. Paged(Head(s)) /\ AllPaged(t)
  BY <1>2, <1>4, <1>5 DEF AllPaged
<1>8. ASSUME NEW k PROVE InSome(s, k) <=> Has(Head(s), k) \/ InSome(t, k)
  <2>1. InSome(s, k) => Has(Head(s), k) \/ InSome(t, k)
    BY <1>4, <1>6 DEF InSome
  <2>2. InSome(t, k) => InSome(s, k)
    BY <1>5 DEF InSome
  <2>3. Has(Head(s), k) => InSome(s, k)
    BY <1>4 DEF InSome
  <2> QED BY <2>1, <2>2, <2>3
<1>9. ASSUME Ascending(s)
      PROVE  Ascending(t) /\ \A i \in DOMAIN t : Head(s).base <= t[i].base
  <2>1. ASSUME NEW i \in DOMAIN t, NEW j \in DOMAIN t, i < j PROVE t[i].base <= t[j].base
    <3>1. i + 1 < j + 1
      BY <1>5, <2>1
    <3> QED BY <1>5, <1>9, <3>1 DEF Ascending
  <2>2. ASSUME NEW i \in DOMAIN t PROVE Head(s).base <= t[i].base
    BY <1>4, <1>5, <1>9 DEF Ascending
  <2> QED BY <2>1, <2>2 DEF Ascending
<1>10. ASSUME NEW n, \A i \in DOMAIN s : n <= s[i].base
       PROVE  n <= Head(s).base /\ \A i \in DOMAIN t : n <= t[i].base
  BY <1>4, <1>5, <1>10
<1> QED BY <1>7, <1>8, <1>9, <1>10 DEF t

\* What is left of s, and what came last.
LastOff(s) ==
  /\ Paged(Last(s)) /\ AllPaged(Front(s))
  /\ \A k : InSome(s, k) <=> InSome(Front(s), k) \/ Has(Last(s), k)
  /\ InOrder(s) => /\ InOrder(Front(s))
                   /\ Front(s) # <<>> => Last(Front(s)).base + Last(Front(s)).size <= Last(s).base

(* The last one taken off.                                                 *)
LEMMA LastRegion ==
  ASSUME NEW s, AllPaged(s), s # <<>>
  PROVE  LastOff(s)
<1> DEFINE t == Front(s)
<1>1. s \in Seq(Regions) /\ Len(s) \in Nat /\ DOMAIN s = 1 .. Len(s)
  BY LenProperties DEF AllPaged
<1>2. Len(s) > 0 /\ Len(s) \in DOMAIN s
  <2>1. Len(s) > 0
    BY <1>1, EmptySeq
  <2> QED BY <1>1, <2>1
<1>3. t \in Seq(Regions) /\ Len(t) = Len(s) - 1 /\ \A i \in 1 .. Len(s) - 1 : t[i] = s[i]
  <2> DEFINE n == Len(s) - 1
  <2>1. n \in Nat /\ n = Len(s) - 1 /\ n - 1 + 1 = n
    BY <1>1, <1>2
  <2>2. t = SubSeq(s, 1, n)
    BY DEF Front
  <2>3. \A i \in 1 .. n : s[i] \in Regions
    BY <1>1, <1>2, ElementOfSeq
  <2> HIDE DEF n, t
  <2>4. /\ SubSeq(s, 1, n) \in Seq(Regions) /\ Len(SubSeq(s, 1, n)) = IF 1 <= n THEN n - 1 + 1 ELSE 0
        /\ \A i \in 1 .. n - 1 + 1 : SubSeq(s, 1, n)[i] = s[1 + i - 1]
    BY <2>1, <2>3, SubSeqProperties
  <2>5. Len(t) = n
    BY <2>1, <2>2, <2>4
  <2>6. \A i \in 1 .. n : t[i] = s[i]
    <3> SUFFICES ASSUME NEW i \in 1 .. n PROVE t[i] = s[i]
      OBVIOUS
    <3>1. i \in 1 .. n - 1 + 1 /\ 1 + i - 1 = i
      BY <2>1
    <3> QED BY <2>2, <2>4, <3>1
  <2> QED BY <2>2, <2>4, <2>5, <2>6 DEF n
<1>4. DOMAIN t = 1 .. Len(s) - 1
  BY <1>3, LenProperties
<1> HIDE DEF t
<1>5. \A i \in DOMAIN t : i \in DOMAIN s /\ t[i] = s[i] /\ i < Len(s)
  BY <1>1, <1>3, <1>4
<1>6. \A i \in DOMAIN s : i = Len(s) \/ i \in DOMAIN t
  BY <1>1, <1>4
<1>7. Paged(Last(s)) /\ AllPaged(t)
  BY <1>2, <1>3, <1>5 DEF AllPaged, Last
<1>8. ASSUME NEW k PROVE InSome(s, k) <=> InSome(t, k) \/ Has(Last(s), k)
  BY <1>2, <1>5, <1>6 DEF InSome, Last
<1>9. ASSUME InOrder(s)
      PROVE  InOrder(t) /\ (t # <<>> => Last(t).base + Last(t).size <= Last(s).base)
  <2>1. InOrder(t)
    BY <1>5, <1>9 DEF InOrder
  <2>2. ASSUME t # <<>> PROVE Last(t).base + Last(t).size <= Last(s).base
    <3>1. Len(t) \in DOMAIN t
      <4>1. Len(t) > 0
        BY <1>3, <2>2, EmptySeq
      <4> QED BY <1>1, <1>3, <1>4, <4>1
    <3>2. Len(t) \in DOMAIN s /\ t[Len(t)] = s[Len(t)] /\ Len(t) < Len(s)
      BY <1>5, <3>1
    <3> QED BY <1>2, <1>9, <3>2 DEF InOrder, Last
  <2> QED BY <2>1, <2>2
<1> QED BY <1>7, <1>8, <1>9 DEF t, LastOff

-----------------------------------------------------------------------------
\* The inductive invariant.

LayoutTypeInv ==
  /\ layout \in {"parse", "merge", "done", "exit"}
  /\ asked \in Seq(Regions)
  /\ AllPaged(res) /\ AllPaged(merged)

(* What is merged is in order and apart, and what is still to come does    *)
(* not begin before the last of it.                                        *)
OrderInv ==
  /\ InOrder(merged)
  /\ layout \in {"parse", "exit"} => merged = <<>>
  /\ layout = "merge" =>
       /\ merged # <<>> /\ Ascending(res)
       /\ \A i \in DOMAIN res : Last(merged).base <= res[i].base
  /\ layout = "done" => res = <<>>

AllSensible == \A i \in DOMAIN asked : Sensible(asked[i])
TouchesSome(k) == \E i \in DOMAIN asked : Touches(asked[i], k)

(* No page gets lost on the way, and none comes in.                        *)
PagesInv ==
  AllSensible => \A k \in Nat : InSome(res, k) \/ InSome(merged, k) <=> TouchesSome(k)

LayoutInv == LayoutTypeInv /\ OrderInv /\ PagesInv

(* There are no regions to begin with.                                     *)
LEMMA InitLayout == ASSUME LayoutInit PROVE LayoutInv
<1>1. asked = <<>> /\ res = <<>> /\ merged = <<>> /\ layout = "parse"
  BY DEF LayoutInit
<1>2. <<>> \in Seq(Regions) /\ DOMAIN <<>> = {}
  OBVIOUS
<1>3. LayoutTypeInv
  BY <1>1, <1>2 DEF LayoutTypeInv, AllPaged
<1>4. OrderInv
  BY <1>1, <1>2 DEF OrderInv, InOrder
<1>5. PagesInv
  BY <1>1, <1>2 DEF PagesInv, InSome, TouchesSome
<1> QED BY <1>3, <1>4, <1>5 DEF LayoutInv

(* A tuple adds the pages it touches,                                      *)
LEMMA TupleKeeps ==
  ASSUME LayoutInv, NEW base \in Bases, NEW size \in Sizes, Tuple(base, size)
  PROVE  LayoutInv'
<1> DEFINE r == Aligned(base, size)
           a == Region(base, size)
<1>1. base \in 0 .. WORD - 1 /\ size \in 0 .. WORD - 1
  BY LayoutAssumption
<1>2. /\ layout = "parse" /\ merged' = merged
      /\ \/ /\ check_if_supported(r) /\ res' = Append(res, r) /\ asked' = Append(asked, a)
            /\ layout' = layout
         \/ layout' = "exit" /\ res' = res /\ asked' = asked
  BY DEF Tuple
<1>3. /\ asked \in Seq(Regions) /\ AllPaged(res) /\ AllPaged(merged) /\ merged = <<>>
      /\ PagesInv
  BY <1>2 DEF LayoutInv, LayoutTypeInv, OrderInv
<1> HIDE DEF r
<1>4. CASE layout' = "exit" /\ res' = res /\ asked' = asked
  <2>1. LayoutTypeInv'
    BY <1>2, <1>3, <1>4 DEF LayoutTypeInv, AllPaged, Paged
  <2>2. OrderInv'
    BY <1>2, <1>3, <1>4 DEF OrderInv, InOrder
  <2>3. PagesInv'
    BY <1>2, <1>3, <1>4 DEF PagesInv, AllSensible, InSome, TouchesSome
  <2> QED BY <2>1, <2>2, <2>3 DEF LayoutInv
<1>5. CASE check_if_supported(r) /\ res' = Append(res, r) /\ asked' = Append(asked, a) /\ layout' = layout
  <2>1. Paged(r) /\ (Sensible(a) => \A k \in Nat : Has(r, k) <=> Touches(a, k))
    BY <1>1, <1>5, AlignedPages DEF r
  <2>2. a \in Regions
    BY <1>1 DEF Region, Regions
  <2> HIDE DEF a
  <2>3. /\ AllPaged(Append(res, r))
        /\ \A k : InSome(Append(res, r), k) <=> InSome(res, k) \/ Has(r, k)
    BY <1>3, <2>1, AppendRegion
  <2>4. asked' \in Seq(Regions)
    BY <1>3, <1>5, <2>2, AppendProperties
  <2>5. LayoutTypeInv'
    BY <1>2, <1>3, <1>5, <2>3, <2>4 DEF LayoutTypeInv
  <2>6. OrderInv'
    BY <1>2, <1>3, <1>5 DEF OrderInv, InOrder
  <2>7. PagesInv'
    <3>1. Len(asked) \in Nat /\ DOMAIN asked = 1 .. Len(asked)
      BY <1>3, LenProperties
    <3>2. /\ Len(asked') = Len(asked) + 1 /\ asked'[Len(asked) + 1] = a
          /\ \A i \in 1 .. Len(asked) : asked'[i] = asked[i]
      BY <1>3, <1>5, <2>2, AppendProperties
    <3>3. DOMAIN asked' = 1 .. Len(asked) + 1
      BY <2>4, <3>2, LenProperties
    <3>4. /\ \A i \in DOMAIN asked : i \in DOMAIN asked' /\ asked'[i] = asked[i]
          /\ Len(asked) + 1 \in DOMAIN asked'
          /\ \A i \in DOMAIN asked' : i \in DOMAIN asked \/ i = Len(asked) + 1
      BY <3>1, <3>2, <3>3
    <3> SUFFICES ASSUME AllSensible', NEW k \in Nat
                 PROVE  InSome(res', k) \/ InSome(merged', k) <=> TouchesSome(k)'
      BY DEF PagesInv, InSome
    <3>5. AllSensible /\ Sensible(a)
      BY <3>2, <3>4 DEF AllSensible
    <3>6. TouchesSome(k)' <=> TouchesSome(k) \/ Touches(a, k)
      BY <3>2, <3>4 DEF TouchesSome
    <3>7. InSome(res, k) \/ InSome(merged, k) <=> TouchesSome(k)
      BY <1>3, <3>5 DEF PagesInv
    <3>8. InSome(res', k) <=> InSome(res, k) \/ Touches(a, k)
      BY <1>5, <2>1, <2>3, <3>5
    <3> QED BY <1>2, <3>6, <3>7, <3>8
  <2> QED BY <2>5, <2>6, <2>7 DEF LayoutInv
<1> QED BY <1>2, <1>4, <1>5

(* putting them in order changes none,                                     *)
LEMMA BeginMergeKeeps == ASSUME LayoutInv, BeginMerge PROVE LayoutInv'
<1>1. AllPaged(res) /\ merged = <<>> /\ layout = "parse" /\ res # <<>> /\ PagesInv /\ asked \in Seq(Regions)
  BY DEF LayoutInv, LayoutTypeInv, OrderInv, BeginMerge
<1>2. PICK order \in Bijection(DOMAIN res, DOMAIN res) :
        LET sorted == [i \in DOMAIN res |-> res[order[i]]]
        IN  /\ \A i, j \in DOMAIN res : i < j => ~ sort_mem_region(sorted[j], sorted[i])
            /\ res' = Tail(sorted) /\ merged' = <<Head(sorted)>>
  BY DEF BeginMerge
<1> DEFINE sorted == [i \in DOMAIN res |-> res[order[i]]]
<1>3. /\ \A i, j \in DOMAIN res : i < j => ~ sort_mem_region(sorted[j], sorted[i])
      /\ res' = Tail(sorted) /\ merged' = <<Head(sorted)>> /\ asked' = asked /\ layout' = "merge"
  BY <1>2 DEF BeginMerge
<1>4. /\ order \in [DOMAIN res -> DOMAIN res]
      /\ \A j \in DOMAIN res : \E i \in DOMAIN res : order[i] = j
  BY DEF Bijection, Injection, Surjection
<1>5. res \in Seq(Regions) /\ DOMAIN res = 1 .. Len(res) /\ Len(res) \in Nat /\ \A i \in DOMAIN res : Paged(res[i])
  BY <1>1, LenProperties DEF AllPaged
<1>6. /\ sorted \in Seq(Regions) /\ DOMAIN sorted = DOMAIN res
      /\ \A i \in DOMAIN res : sorted[i] = res[order[i]] /\ Paged(sorted[i])
  <2>1. \A i \in DOMAIN res : res[order[i]] \in Regions
    BY <1>4, <1>5 DEF Paged
  <2> QED BY <1>4, <1>5, <2>1
<1> HIDE DEF sorted
<1>7. AllPaged(sorted) /\ sorted # <<>>
  <2>1. DOMAIN res # {}
    BY <1>1, <1>5, EmptySeq
  <2> QED BY <1>6, <2>1 DEF AllPaged
<1>8. Ascending(sorted)
  <2> SUFFICES ASSUME NEW i \in DOMAIN res, NEW j \in DOMAIN res, i < j
               PROVE  sorted[i].base <= sorted[j].base
    BY <1>6 DEF Ascending
  <2>1. ~ sort_mem_region(sorted[j], sorted[i])
    BY <1>3
  <2>2. sorted[i].base \in Nat /\ sorted[j].base \in Nat
    BY <1>6, EndFact
  <2> QED BY <2>1, <2>2 DEF sort_mem_region
<1>9. \A k : InSome(sorted, k) <=> InSome(res, k)
  <2> SUFFICES ASSUME NEW k PROVE InSome(sorted, k) <=> InSome(res, k)
    OBVIOUS
  <2>1. ASSUME NEW i \in DOMAIN sorted, Has(sorted[i], k) PROVE InSome(res, k)
    <3>1. order[i] \in DOMAIN res /\ Has(res[order[i]], k)
      BY <1>4, <1>6, <2>1
    <3> QED BY <3>1 DEF InSome
  <2>2. ASSUME NEW j \in DOMAIN res, Has(res[j], k) PROVE InSome(sorted, k)
    <3>1. PICK i \in DOMAIN res : order[i] = j
      BY <1>4
    <3>2. i \in DOMAIN sorted /\ Has(sorted[i], k)
      BY <1>6, <2>2, <3>1
    <3> QED BY <3>2 DEF InSome
  <2> QED BY <2>1, <2>2 DEF InSome
<1> DEFINE h == Head(sorted)
           t == Tail(sorted)
<1>10. /\ Paged(h) /\ AllPaged(t) /\ Ascending(t)
       /\ \A k : InSome(sorted, k) <=> Has(h, k) \/ InSome(t, k)
       /\ \A i \in DOMAIN t : h.base <= t[i].base
  BY <1>7, <1>8, HeadRegion
<1> HIDE DEF h, t
<1>11. AllPaged(<<h>>) /\ Last(<<h>>) = h /\ InOrder(<<h>>) /\ <<h>> # <<>>
  <2>1. <<h>> \in Seq(Regions) /\ DOMAIN <<h>> = {1} /\ <<h>>[1] = h /\ Len(<<h>>) = 1
    BY <1>10 DEF Paged
  <2> QED BY <1>10, <2>1 DEF AllPaged, Last, InOrder
<1>12. \A k : InSome(<<h>>, k) <=> Has(h, k)
  <2>1. DOMAIN <<h>> = {1} /\ <<h>>[1] = h
    OBVIOUS
  <2> QED BY <2>1 DEF InSome
<1>13. res' = t /\ merged' = <<h>>
  BY <1>3 DEF h, t
<1>14. LayoutTypeInv'
  BY <1>1, <1>3, <1>10, <1>11, <1>13 DEF LayoutTypeInv
<1>15. OrderInv'
  BY <1>3, <1>10, <1>11, <1>13 DEF OrderInv
<1>16. PagesInv'
  <2> SUFFICES ASSUME AllSensible', NEW k \in Nat
               PROVE  InSome(res', k) \/ InSome(merged', k) <=> TouchesSome(k)'
    BY DEF PagesInv, InSome
  <2>1. AllSensible /\ (TouchesSome(k)' <=> TouchesSome(k))
    BY <1>3 DEF AllSensible, TouchesSome
  <2>2. ~ InSome(merged, k)
    BY <1>1 DEF InSome
  <2>3. InSome(res, k) <=> TouchesSome(k)
    BY <1>1, <2>1, <2>2 DEF PagesInv
  <2> QED BY <1>9, <1>10, <1>12, <1>13, <2>1, <2>3
<1> QED BY <1>14, <1>15, <1>16 DEF LayoutInv

\* A page of the machine.
InWord(k) == PageBase(k) < WORD

(* A region has pages of the machine only,                                 *)
LEMMA HasInWord ==
  ASSUME NEW r, Paged(r), NEW k \in Nat, Has(r, k)
  PROVE  InWord(k)
<1>1. PageBase(k) \in Nat /\ r.base + r.size \in Nat /\ r.base + r.size <= WORD /\ WORD \in Nat
  BY PageBaseType, EndFact, LayoutAssumption
<1> QED BY <1>1 DEF Has, InWord

(* and the two that stand for the whole of it have all.                    *)
LEMMA WholeFact ==
  /\ AllPaged(WholeSpace) /\ InOrder(WholeSpace) /\ WholeSpace # <<>>
  /\ \A k \in Nat : InWord(k) => InSome(WholeSpace, k)
<1> DEFINE a == Region(0, WORD - PGSIZE)
           b == Region(WORD - PGSIZE, PGSIZE)
<1>1. PGSIZE \in Nat \ {0} /\ WORD \in Nat /\ WORD % PGSIZE = 0 /\ PGSIZE < WORD
  BY LayoutAssumption
<1>2. PageBase(0) = 0 /\ PageBase(1) = PGSIZE
  BY <1>1 DEF PageBase
<1>3. PICK w \in Nat : WORD = PageBase(w)
  BY <1>1, ModZero DEF Multiple
<1>4. w # 0 /\ w - 1 \in Nat
  BY <1>1, <1>2, <1>3
<1>5. WORD - PGSIZE = PageBase(w - 1)
  BY <1>1, <1>3, <1>4 DEF PageBase
<1>6. /\ a.base = 0 /\ a.size = WORD - PGSIZE /\ a.base + a.size = WORD - PGSIZE
      /\ b.base = WORD - PGSIZE /\ b.size = PGSIZE /\ b.base + b.size = WORD
      /\ a \in Regions /\ b \in Regions
  BY <1>1 DEF Region, Regions
<1> HIDE DEF a, b
<1>7. Paged(a) /\ Paged(b)
  <2>1. Multiple(0) /\ Multiple(WORD - PGSIZE) /\ Multiple(WORD)
    BY <1>2, <1>3, <1>4, <1>5 DEF Multiple
  <2>2. WORD - PGSIZE > 0 /\ WORD - PGSIZE <= WORD /\ PGSIZE > 0 /\ WORD <= WORD
    BY <1>1
  <2>3. Multiple(a.base) /\ Multiple(a.base + a.size) /\ a.size > 0 /\ a.base + a.size <= WORD
    BY <1>6, <2>1, <2>2
  <2>4. Multiple(b.base) /\ Multiple(b.base + b.size) /\ b.size > 0 /\ b.base + b.size <= WORD
    BY <1>6, <2>1, <2>2
  <2> QED BY <1>6, <2>3, <2>4 DEF Paged
<1>8. WholeSpace = <<a, b>>
  BY DEF WholeSpace, a, b
<1>9. DOMAIN <<a, b>> = {1, 2} /\ <<a, b>>[1] = a /\ <<a, b>>[2] = b /\ <<a, b>> \in Seq(Regions) /\ <<a, b>> # <<>>
  BY <1>6
<1>10. AllPaged(<<a, b>>)
  BY <1>7, <1>9 DEF AllPaged
<1>11. InOrder(<<a, b>>)
  <2>1. a.base + a.size <= b.base
    BY <1>1, <1>6
  <2> QED BY <1>9, <2>1 DEF InOrder
<1>12. ASSUME NEW k \in Nat, InWord(k) PROVE InSome(<<a, b>>, k)
  <2>1. PageBase(k) \in Nat /\ PageBase(k) < WORD
    BY <1>12, PageBaseType DEF InWord
  <2>2. Has(a, k) \/ Has(b, k)
    BY <1>1, <1>6, <2>1 DEF Has
  <2> QED BY <1>9, <2>2 DEF InSome
<1> QED BY <1>8, <1>9, <1>10, <1>11, <1>12

(* merging changes none,                                                   *)
LEMMA MergeNextKeeps == ASSUME LayoutInv, MergeNext PROVE LayoutInv'
<1> DEFINE l == Last(merged)
           r == Head(res)
           whole == check_if_merge_covers_64bit_space(l, r)
           overlap == check_mem_overlap(l, r)
           both == merge_mem_regions(l, r)
           front == Front(merged)
<1>1. /\ layout = "merge" /\ res # <<>> /\ asked' = asked /\ layout' = layout
      /\ merged' = IF ~ overlap THEN Append(merged, r) ELSE IF whole THEN WholeSpace ELSE Append(front, both)
      /\ res' = IF whole THEN <<>> ELSE Tail(res)
  BY DEF MergeNext
<1>2. /\ asked \in Seq(Regions) /\ AllPaged(res) /\ AllPaged(merged) /\ InOrder(merged) /\ PagesInv
      /\ merged # <<>> /\ Ascending(res) /\ \A i \in DOMAIN res : l.base <= res[i].base
  BY <1>1 DEF LayoutInv, LayoutTypeInv, OrderInv
<1>3. /\ Paged(l) /\ AllPaged(front)
      /\ \A k : InSome(merged, k) <=> InSome(front, k) \/ Has(l, k)
      /\ InOrder(front) /\ (front # <<>> => Last(front).base + Last(front).size <= l.base)
  <2>1. LastOff(merged)
    BY <1>2, LastRegion
  <2> QED BY <1>2, <2>1 DEF LastOff
<1>4. /\ Paged(r) /\ AllPaged(Tail(res)) /\ Ascending(Tail(res))
      /\ \A k : InSome(res, k) <=> Has(r, k) \/ InSome(Tail(res), k)
      /\ \A i \in DOMAIN Tail(res) : r.base <= Tail(res)[i].base
      /\ l.base <= r.base /\ \A i \in DOMAIN Tail(res) : l.base <= Tail(res)[i].base
  BY <1>1, <1>2, HeadRegion
<1> HIDE DEF l, r, front
<1>5. /\ overlap <=> r.base < l.base + l.size
      /\ whole => l.base = 0 /\ overlap /\ \A k \in Nat : InWord(k) => Has(l, k) \/ Has(r, k)
      /\ Merge(l, r) => /\ Paged(both) /\ both.base = l.base
                        /\ \A k \in Nat : Has(both, k) <=> Has(l, k) \/ Has(r, k)
  BY <1>3, <1>4, Merging DEF InWord
<1>6. Merge(l, r) <=> overlap /\ ~ whole
  BY DEF Merge
<1>7. l.base \in Nat /\ l.size \in Nat /\ r.base \in Nat /\ l.base + l.size \in Nat
  BY <1>3, <1>4, EndFact
<1> HIDE DEF whole, overlap, both
<1>8. \A k : InSome(res, k) \/ InSome(merged, k) <=>
               InSome(front, k) \/ Has(l, k) \/ Has(r, k) \/ InSome(Tail(res), k)
  BY <1>3, <1>4
\* The same pages, in order and apart, are enough.
<1> DEFINE Same == \A k \in Nat : InSome(res', k) \/ InSome(merged', k) <=> InSome(res, k) \/ InSome(merged, k)
           Next == /\ merged' # <<>> /\ Ascending(res')
                   /\ \A i \in DOMAIN res' : Last(merged').base <= res'[i].base
<1>9. ASSUME Same, Next, AllPaged(res'), AllPaged(merged'), InOrder(merged') PROVE LayoutInv'
  <2>1. LayoutTypeInv'
    BY <1>1, <1>2, <1>9 DEF LayoutTypeInv
  <2>2. OrderInv'
    BY <1>1, <1>9 DEF OrderInv
  <2>3. PagesInv'
    <3> SUFFICES ASSUME AllSensible', NEW k \in Nat
                 PROVE  InSome(res', k) \/ InSome(merged', k) <=> TouchesSome(k)'
      BY DEF PagesInv, InSome
    <3>1. AllSensible /\ (TouchesSome(k)' <=> TouchesSome(k))
      BY <1>1 DEF AllSensible, TouchesSome
    <3> QED BY <1>2, <1>9, <3>1 DEF PagesInv
  <2> QED BY <2>1, <2>2, <2>3 DEF LayoutInv
<1>10. CASE ~ overlap
  <2>1. ~ whole /\ merged' = Append(merged, r) /\ res' = Tail(res)
    BY <1>1, <1>5, <1>10
  <2>2. l.base + l.size <= r.base
    BY <1>5, <1>7, <1>10
  <2>3. /\ AllPaged(merged') /\ merged' # <<>> /\ Last(merged') = r /\ InOrder(merged')
        /\ \A k : InSome(merged', k) <=> InSome(merged, k) \/ Has(r, k)
    BY <1>2, <1>4, <2>1, <2>2, AppendRegion DEF l
  <2>4. Same
    BY <1>4, <2>1, <2>3
  <2>5. Next
    BY <1>4, <2>1, <2>3
  <2> QED BY <1>4, <1>9, <2>1, <2>3, <2>4, <2>5
<1>11. CASE overlap /\ ~ whole
  <2>1. merged' = Append(front, both) /\ res' = Tail(res)
    BY <1>1, <1>11
  <2>2. Paged(both) /\ both.base = l.base /\ \A k \in Nat : Has(both, k) <=> Has(l, k) \/ Has(r, k)
    BY <1>5, <1>6, <1>11
  <2>3. /\ AllPaged(merged') /\ merged' # <<>> /\ Last(merged') = both /\ InOrder(merged')
        /\ \A k : InSome(merged', k) <=> InSome(front, k) \/ Has(both, k)
    BY <1>3, <2>1, <2>2, AppendRegion
  <2>4. Same
    BY <1>8, <2>1, <2>2, <2>3
  <2>5. Next
    BY <1>4, <2>1, <2>2, <2>3
  <2> QED BY <1>4, <1>9, <2>1, <2>3, <2>4, <2>5
<1>12. CASE whole
  <2>1. merged' = WholeSpace /\ res' = <<>> /\ DOMAIN <<>> = {} /\ <<>> \in Seq(Regions)
    BY <1>1, <1>5, <1>12
  <2>2. AllPaged(res') /\ AllPaged(merged') /\ InOrder(merged') /\ merged' # <<>>
    BY <2>1, WholeFact DEF AllPaged
  <2>3. Same
    <3> SUFFICES ASSUME NEW k \in Nat
                 PROVE  InSome(res', k) \/ InSome(merged', k) <=> InSome(res, k) \/ InSome(merged, k)
      OBVIOUS
    <3>1. InWord(k) => InSome(merged', k) /\ (InSome(res, k) \/ InSome(merged, k))
      BY <1>5, <1>8, <1>12, <2>1, WholeFact
    <3>2. \A s : AllPaged(s) /\ InSome(s, k) => InWord(k)
      BY HasInWord DEF AllPaged, InSome
    <3> QED BY <1>2, <2>2, <3>1, <3>2
  <2>4. Next
    BY <2>1, <2>2 DEF Ascending
  <2> QED BY <1>9, <2>2, <2>3, <2>4
<1> QED BY <1>5, <1>10, <1>11, <1>12

(* and in the end all are merged.                                          *)
LEMMA EndMergeKeeps == ASSUME LayoutInv, EndMerge PROVE LayoutInv'
<1>1. /\ layout = "merge" /\ res = <<>> /\ layout' = "done"
      /\ asked' = asked /\ res' = res /\ merged' = merged
  BY DEF EndMerge
<1>2. LayoutTypeInv' /\ OrderInv'
  BY <1>1 DEF LayoutInv, LayoutTypeInv, OrderInv
<1>3. PagesInv'
  BY <1>1 DEF LayoutInv, PagesInv, AllSensible, TouchesSome, InSome
<1> QED BY <1>2, <1>3 DEF LayoutInv

(* The invariant gives the property.                                       *)
LEMMA LayoutInvAsked == ASSUME LayoutInv PROVE LayoutIsAsked
<1> SUFFICES ASSUME layout = "done"
             PROVE  /\ \A i, j \in DOMAIN merged : i < j => inclusive_end(merged[i]) < merged[j].base
                    /\ AllSensible =>
                         UNION {PagesOf(merged[i]) : i \in DOMAIN merged}
                           = UNION {PagesOf(asked[i]) : i \in DOMAIN asked}
  BY DEF LayoutIsAsked, AllSensible
<1>1. /\ AllPaged(merged) /\ InOrder(merged) /\ res = <<>> /\ PagesInv /\ asked \in Seq(Regions)
  BY DEF LayoutInv, LayoutTypeInv, OrderInv
<1>2. \A i \in DOMAIN merged : Paged(merged[i])
  BY <1>1 DEF AllPaged
<1>3. ASSUME NEW i \in DOMAIN merged, NEW j \in DOMAIN merged, i < j
      PROVE  inclusive_end(merged[i]) < merged[j].base
  <2>1. merged[i].base + merged[i].size <= merged[j].base
    BY <1>1, <1>3 DEF InOrder
  <2>2. /\ merged[i].base \in Nat /\ merged[i].size \in Nat /\ merged[j].base \in Nat
        /\ inclusive_end(merged[i]) = merged[i].base + merged[i].size - 1
    BY <1>2, EndFact
  <2> QED BY <2>1, <2>2
<1>4. ASSUME AllSensible
      PROVE  UNION {PagesOf(merged[i]) : i \in DOMAIN merged} = UNION {PagesOf(asked[i]) : i \in DOMAIN asked}
  <2>1. \A k \in Nat : InSome(merged, k) <=> TouchesSome(k)
    <3>1. \A k : ~ InSome(<<>>, k)
      BY DEF InSome
    <3> QED BY <1>1, <1>4, <3>1 DEF PagesInv
  <2>2. ASSUME NEW i \in DOMAIN merged PROVE PagesOf(merged[i]) = {k \in Nat : Has(merged[i], k)}
    <3>1. Paged(merged[i]) /\ merged[i] \in Regions /\ merged[i].size > 0
      BY <1>2 DEF Paged
    <3>2. PagesOf(merged[i]) = {k \in Nat : Touches(merged[i], k)}
      BY <3>1, PagesTouched
    <3>3. \A k \in Nat : Touches(merged[i], k) <=> Has(merged[i], k)
      BY <3>1, GoodTouched
    <3> QED BY <3>2, <3>3
  <2>3. ASSUME NEW i \in DOMAIN asked PROVE PagesOf(asked[i]) = {k \in Nat : Touches(asked[i], k)}
    <3>1. asked[i] \in Regions
      BY <1>1, LenProperties, ElementOfSeq
    <3>2. asked[i].size > 0
      BY <1>4 DEF AllSensible, Sensible
    <3> QED BY <3>1, <3>2, PagesTouched
  <2>4. \A k \in Nat : (\E i \in DOMAIN merged : Has(merged[i], k)) <=> (\E i \in DOMAIN asked : Touches(asked[i], k))
    BY <2>1 DEF InSome, TouchesSome
  <2>5. ASSUME NEW i \in DOMAIN merged, NEW k \in PagesOf(merged[i])
        PROVE  \E j \in DOMAIN asked : k \in PagesOf(asked[j])
    <3>1. k \in Nat /\ Has(merged[i], k)
      BY <2>2, <2>5
    <3>2. PICK j \in DOMAIN asked : Touches(asked[j], k)
      BY <2>4, <3>1
    <3>3. k \in PagesOf(asked[j])
      BY <2>3, <3>1, <3>2
    <3> QED BY <3>3
  <2>6. ASSUME NEW i \in DOMAIN asked, NEW k \in PagesOf(asked[i])
        PROVE  \E j \in DOMAIN merged : k \in PagesOf(merged[j])
    <3>1. k \in Nat /\ Touches(asked[i], k)
      BY <2>3, <2>6
    <3>2. PICK j \in DOMAIN merged : Has(merged[j], k)
      BY <2>4, <3>1
    <3>3. k \in PagesOf(merged[j])
      BY <2>2, <3>1, <3>2
    <3> QED BY <3>3
  <2> QED BY <2>5, <2>6
<1> QED BY <1>3, <1>4

(* The regions of the machine are the pages that were asked for, each once *)
(* and in order, for every size of a page and of a word, every bound on    *)
(* the addresses, and all tuples that do not wrap around.                  *)
THEOREM LayoutCorrect == LayoutSpec => []LayoutIsAsked
<1>1. LayoutInit => LayoutInv
  BY InitLayout
<1>2. LayoutInv /\ [LayoutNext]_layoutVars => LayoutInv'
  <2> SUFFICES ASSUME LayoutInv, [LayoutNext]_layoutVars PROVE LayoutInv'
    OBVIOUS
  <2>1. CASE \E base \in Bases, size \in Sizes : Tuple(base, size)
    BY <2>1, TupleKeeps
  <2>2. CASE BeginMerge
    BY <2>2, BeginMergeKeeps
  <2>3. CASE MergeNext
    BY <2>3, MergeNextKeeps
  <2>4. CASE EndMerge
    BY <2>4, EndMergeKeeps
  <2>5. CASE UNCHANGED layoutVars
    BY <2>5 DEF layoutVars, LayoutInv, LayoutTypeInv, OrderInv, PagesInv, AllSensible, TouchesSome
  <2> QED BY <2>1, <2>2, <2>3, <2>4, <2>5 DEF LayoutNext
<1>3. LayoutInv => LayoutIsAsked
  BY LayoutInvAsked
<1> QED BY <1>1, <1>2, <1>3, PTL DEF LayoutSpec

-----------------------------------------------------------------------------
\* ObjdumpParser: the lines of a listing.

Ops == {"ret", "nop", "csrw", "mv"}
Regs == {"satp", "a5", "a0", "s1"}

\* A word of a listing, and the line a listing can have at n.
Words == [va : Nat] \union [title : Names] \union [bytes : {0}] \union [op : Ops]
           \union [args : Seq(Regs)] \union [text : {""}]
IsLine(n, line) ==
  \/ line = OneWord
  \/ \E f \in Names : line = Title(n, f)
  \/ \E w \in Insns : line = Insn(n, w)

\* What the proofs use of an instruction, and of a line.
BareWords(w) == w[1] = [op |-> "ret"] \/ w[1] = [op |-> "nop"]
OperandWords(w) ==
  \/ w[1] = [op |-> "csrw"] /\ w[2] = [args |-> <<"satp", "a5">>]
  \/ w[1] = [op |-> "mv"] /\ w[2] = [args |-> <<"a0", "s1">>]
  \/ w[1] = [op |-> "mv"] /\ w[2] = [args |-> <<"s1", "a0">>]
Operands(line) ==
  \/ line[3] = [op |-> "csrw"] /\ line[4] = [args |-> <<"satp", "a5">>]
  \/ line[3] = [op |-> "mv"] /\ line[4] = [args |-> <<"a0", "s1">>]
  \/ line[3] = [op |-> "mv"] /\ line[4] = [args |-> <<"s1", "a0">>]
Bare(line) == line[3] = [op |-> "ret"] \/ line[3] = [op |-> "nop"]
LineShape(n, line) ==
  /\ line \in Seq(Words) /\ Len(line) \in 1 .. 4
  /\ Len(line) = 1 <=> line = OneWord
  /\ Len(line) # 1 => line[1] = [va |-> n]
  /\ Len(line) = 2 => \E f \in Names : line[2] = [title |-> f]
  /\ Len(line) = 3 => Bare(line)
  /\ Len(line) = 4 => Operands(line)

(* A sequence of one element,                                              *)
LEMMA OneWordSeq ==
  ASSUME NEW S, NEW a \in S
  PROVE  <<a>> \in Seq(S) /\ Len(<<a>>) = 1 /\ <<a>>[1] = a
  OBVIOUS

(* and of two.                                                             *)
LEMMA TwoWordSeq ==
  ASSUME NEW S, NEW a \in S, NEW b \in S
  PROVE  <<a, b>> \in Seq(S) /\ Len(<<a, b>>) = 2 /\ <<a, b>>[1] = a /\ <<a, b>>[2] = b
  OBVIOUS

(* The kinds of words differ.                                              *)
LEMMA WordKinds ==
  ASSUME NEW n \in Nat
  PROVE  /\ \A s : [va |-> n] # [op |-> s]
         /\ [op |-> "ret"] # [op |-> "csrw"] /\ [op |-> "nop"] # [op |-> "csrw"]
         /\ [op |-> "mv"] # [op |-> "csrw"] /\ [op |-> "mv"] # [op |-> "ret"]
         /\ [op |-> "nop"] # [op |-> "ret"]
<1>1. \A s : [va |-> n] # [op |-> s]
  <2> SUFFICES ASSUME NEW s PROVE DOMAIN [va |-> n] # DOMAIN [op |-> s]
    OBVIOUS
  <2> QED OBVIOUS
<1>2. \A s, t : s # t => [op |-> s] # [op |-> t]
  <2> SUFFICES ASSUME NEW s, NEW t, s # t PROVE [op |-> s].op # [op |-> t].op
    OBVIOUS
  <2> QED OBVIOUS
<1> QED BY <1>1, <1>2

(* An instruction has a name, and operands or none.                        *)
LEMMA InsnWords ==
  ASSUME NEW w \in Insns
  PROVE  /\ w \in Seq(Words)
         /\ (Len(w) = 1 /\ BareWords(w)) \/ (Len(w) = 2 /\ OperandWords(w))
<1>1. \A s \in Ops : [op |-> s] \in Words
  BY DEF Words
<1>2. ASSUME NEW s \in Regs, NEW t \in Regs PROVE [args |-> <<s, t>>] \in Words
  <2>1. <<s, t>> \in Seq(Regs)
    BY TwoWordSeq
  <2> QED BY <2>1 DEF Words
<1>3. ASSUME NEW s \in Ops, w = <<[op |-> s]>>
      PROVE  w \in Seq(Words) /\ Len(w) = 1 /\ w[1] = [op |-> s]
  <2>1. [op |-> s] \in Words
    BY <1>1
  <2> QED BY <1>3, <2>1, OneWordSeq
<1>4. ASSUME NEW s \in Ops, NEW args, [args |-> args] \in Words, w = <<[op |-> s], [args |-> args]>>
      PROVE  w \in Seq(Words) /\ Len(w) = 2 /\ w[1] = [op |-> s] /\ w[2] = [args |-> args]
  <2>1. [op |-> s] \in Words
    BY <1>1
  <2> QED BY <1>4, <2>1, TwoWordSeq
<1>5. CASE w = <<[op |-> "ret"]>>
  <2>1. w \in Seq(Words) /\ Len(w) = 1 /\ w[1] = [op |-> "ret"]
    <3>1. "ret" \in Ops
      BY DEF Ops
    <3> QED BY <1>3, <1>5, <3>1, Zenon
  <2> QED BY <2>1 DEF BareWords
<1>6. CASE w = <<[op |-> "nop"]>>
  <2>1. w \in Seq(Words) /\ Len(w) = 1 /\ w[1] = [op |-> "nop"]
    <3>1. "nop" \in Ops
      BY DEF Ops
    <3> QED BY <1>3, <1>6, <3>1, Zenon
  <2> QED BY <2>1 DEF BareWords
<1>7. CASE w = <<[op |-> "csrw"], [args |-> <<"satp", "a5">>]>>
  <2>1. w \in Seq(Words) /\ Len(w) = 2 /\ w[1] = [op |-> "csrw"] /\ w[2] = [args |-> <<"satp", "a5">>]
    <3>1. "csrw" \in Ops /\ "satp" \in Regs /\ "a5" \in Regs
      BY DEF Ops, Regs
    <3>2. [args |-> <<"satp", "a5">>] \in Words
      BY <1>2, <3>1, Zenon
    <3> QED BY <1>4, <1>7, <3>1, <3>2, Zenon
  <2> QED BY <2>1 DEF OperandWords
<1>8. CASE w = <<[op |-> "mv"], [args |-> <<"a0", "s1">>]>>
  <2>1. w \in Seq(Words) /\ Len(w) = 2 /\ w[1] = [op |-> "mv"] /\ w[2] = [args |-> <<"a0", "s1">>]
    <3>1. "mv" \in Ops /\ "a0" \in Regs /\ "s1" \in Regs
      BY DEF Ops, Regs
    <3>2. [args |-> <<"a0", "s1">>] \in Words
      BY <1>2, <3>1, Zenon
    <3> QED BY <1>4, <1>8, <3>1, <3>2, Zenon
  <2> QED BY <2>1 DEF OperandWords
<1>9. CASE w = <<[op |-> "mv"], [args |-> <<"s1", "a0">>]>>
  <2>1. w \in Seq(Words) /\ Len(w) = 2 /\ w[1] = [op |-> "mv"] /\ w[2] = [args |-> <<"s1", "a0">>]
    <3>1. "mv" \in Ops /\ "s1" \in Regs /\ "a0" \in Regs
      BY DEF Ops, Regs
    <3>2. [args |-> <<"s1", "a0">>] \in Words
      BY <1>2, <3>1, Zenon
    <3> QED BY <1>4, <1>9, <3>1, <3>2, Zenon
  <2> QED BY <2>1 DEF OperandWords
<1> QED BY <1>5, <1>6, <1>7, <1>8, <1>9 DEF Insns

(* Every line has a shape.                                                 *)
LEMMA LineFact ==
  ASSUME NEW n \in Nat, NEW line, IsLine(n, line)
  PROVE  LineShape(n, line)
<1>1. CASE line = OneWord
  <2>1. line = <<[text |-> ""]>> /\ [text |-> ""] \in Words
    <3>1. [text |-> ""] \in [text : {""}]
      OBVIOUS
    <3> QED BY <1>1, <3>1 DEF OneWord, Words
  <2>2. line \in Seq(Words) /\ Len(line) = 1
    BY <2>1, OneWordSeq
  <2> QED BY <1>1, <2>2 DEF LineShape
<1>2. CASE \E f \in Names : line = Title(n, f)
  <2>1. PICK f \in Names : line = <<[va |-> n], [title |-> f]>>
    BY <1>2 DEF Title
  <2>2. [va |-> n] \in Words /\ [title |-> f] \in Words
    BY DEF Words
  <2>3. line \in Seq(Words) /\ Len(line) = 2 /\ line[1] = [va |-> n] /\ line[2] = [title |-> f]
    BY <2>1, <2>2, TwoWordSeq
  <2>4. Len(OneWord) = 1
    BY DEF OneWord
  <2> DEFINE l == Len(line)
  <2>5. l = 2 /\ line # OneWord
    BY <2>3, <2>4
  <2> HIDE DEF l
  <2>6. l \in 1 .. 4 /\ (l = 1 <=> line = OneWord) /\ l # 3 /\ l # 4
    BY <2>5
  <2>7. \E g \in Names : line[2] = [title |-> g]
    BY <2>3
  <2> QED BY <2>3, <2>6, <2>7 DEF LineShape, l
<1>3. CASE \E w \in Insns : line = Insn(n, w)
  <2>1. PICK w \in Insns : line = <<[va |-> n], [bytes |-> 0]>> \o w
    BY <1>3 DEF Insn
  <2>2. [va |-> n] \in Words /\ [bytes |-> 0] \in Words
    BY DEF Words
  <2>3. <<[va |-> n], [bytes |-> 0]>> \in Seq(Words) /\ Len(<<[va |-> n], [bytes |-> 0]>>) = 2
    BY <2>2
  <2>4. /\ w \in Seq(Words)
        /\ (Len(w) = 1 /\ BareWords(w)) \/ (Len(w) = 2 /\ OperandWords(w))
    BY InsnWords
  <2> DEFINE head == <<[va |-> n], [bytes |-> 0]>>
  <2>5. head \in Seq(Words) /\ Len(head) = 2 /\ head[1] = [va |-> n]
    BY <2>3
  <2>6. line = head \o w
    BY <2>1
  <2> HIDE DEF head
  <2>7. /\ line \in Seq(Words) /\ Len(line) = 2 + Len(w) /\ line[1] = [va |-> n] /\ line[3] = w[1]
        /\ Len(w) = 2 => line[4] = w[2]
    <3>1. head \o w \in Seq(Words) /\ Len(head \o w) = Len(head) + Len(w)
      BY <2>4, <2>5, ConcatProperties
    <3>2. \A i \in 1 .. Len(head) + Len(w) : (head \o w)[i] = IF i <= Len(head) THEN head[i] ELSE w[i - Len(head)]
      BY <2>4, <2>5, ConcatProperties
    <3> QED BY <2>4, <2>5, <2>6, <3>1, <3>2
  <2>8. Len(OneWord) = 1
    BY DEF OneWord
  <2>9. /\ Len(line) \in 3 .. 4 /\ line # OneWord
        /\ (Len(line) = 3 => BareWords(w)) /\ (Len(line) = 4 => Len(w) = 2 /\ OperandWords(w))
    <3> DEFINE k == Len(w)
               l == Len(line)
    <3>1. ((k = 1 /\ BareWords(w)) \/ (k = 2 /\ OperandWords(w))) /\ l = 2 + k
      BY <2>4, <2>7
    <3> HIDE DEF k, l
    <3>2. /\ l \in 3 .. 4 /\ l # 1
          /\ (l = 3 => BareWords(w)) /\ (l = 4 => k = 2 /\ OperandWords(w))
      BY <3>1
    <3> QED BY <2>8, <3>2 DEF k, l
  <2>10. Len(line) = 3 => Bare(line)
    BY <2>7, <2>9 DEF Bare, BareWords
  <2>11. Len(line) = 4 => Operands(line)
    BY <2>7, <2>9 DEF Operands, OperandWords
  <2> QED BY <2>7, <2>9, <2>10, <2>11 DEF LineShape
<1> QED BY <1>1, <1>2, <1>3 DEF IsLine

-----------------------------------------------------------------------------
\* The listing.

\* A title after which no line has had one word.
Open(t) == t \in DOMAIN listing /\ IsTitle(listing[t]) /\ \A j \in t + 1 .. Len(listing) : listing[j] # OneWord

ListInv ==
  /\ listing \in Seq(Seq(Words))
  /\ \A i \in DOMAIN listing : LineShape(i, listing[i])

\* What the next line, words, adds.
NextLine == Len(listing) + 1
Grown(words) ==
  /\ Len(listing') = NextLine /\ DOMAIN listing' = DOMAIN listing \union {NextLine} /\ NextLine \notin DOMAIN listing
  /\ listing'[NextLine] = words /\ \A i \in DOMAIN listing : listing'[i] = listing[i]
  /\ \A f : Titles(f)' = Titles(f) \union {t \in {NextLine} : IsTitle(words) /\ words[2].title = f}
  /\ \A f : InsnsOf(f)' = InsnsOf(f) \union {i \in {NextLine} : words # OneWord /\ \E t \in Titles(f) : Open(t)}
  /\ \A t : Open(t)' <=> (t = NextLine /\ IsTitle(words)) \/ (Open(t) /\ words # OneWord)

(* The number of lines is a natural number.                                *)
LEMMA ListFact ==
  ASSUME ListInv
  PROVE  Len(listing) \in Nat /\ DOMAIN listing = 1 .. Len(listing) /\ NextLine \in Nat
  BY LenProperties DEF ListInv, NextLine

(* One more line is appended.                                              *)
LEMMA ListGrows ==
  ASSUME ListInv, NEW words, LineShape(NextLine, words), listing' = Append(listing, words)
  PROVE  ListInv' /\ Grown(words)
<1> DEFINE N == Len(listing)
<1>0. PICK M \in Nat : M = NextLine
  BY ListFact
<1>1. N \in Nat /\ DOMAIN listing = 1 .. N /\ M = N + 1
  BY <1>0, ListFact DEF NextLine
<1>2. words \in Seq(Words)
  BY DEF LineShape
<1>3. /\ listing' \in Seq(Seq(Words)) /\ Len(listing') = M /\ DOMAIN listing' = 1 .. M
      /\ listing'[M] = words /\ \A i \in 1 .. N : listing'[i] = listing[i]
  <2>1. /\ Append(listing, words) \in Seq(Seq(Words)) /\ Len(Append(listing, words)) = N + 1
        /\ \A i \in 1 .. N : Append(listing, words)[i] = listing[i]
        /\ Append(listing, words)[N + 1] = words
    BY <1>1, <1>2, AppendProperties DEF ListInv
  <2>2. DOMAIN listing' = 1 .. Len(listing')
    BY <2>1, LenProperties
  <2> QED BY <1>1, <2>1, <2>2
<1> HIDE DEF N
<1>4. \A i \in DOMAIN listing' : i = M \/ (i \in DOMAIN listing /\ i # M)
  BY <1>1, <1>3
<1>5. DOMAIN listing' = DOMAIN listing \union {M} /\ M \notin DOMAIN listing /\ M \in Nat
  BY <1>1, <1>3
<1>6. ListInv'
  <2>1. ASSUME NEW i \in DOMAIN listing' PROVE LineShape(i, listing'[i])
    <3>1. CASE i = M
      BY <1>0, <1>3, <3>1
    <3>2. CASE i \in DOMAIN listing
      BY <1>1, <1>3, <3>2 DEF ListInv
    <3> QED BY <1>4, <3>1, <3>2
  <2> QED BY <1>3, <2>1 DEF ListInv
<1>7. ASSUME NEW f
      PROVE  Titles(f)' = Titles(f) \union {t \in {M} : IsTitle(words) /\ words[2].title = f}
  BY <1>1, <1>3, <1>5 DEF Titles, IsTitle
<1>8. ASSUME NEW t, NEW i \in DOMAIN listing, t \in Nat PROVE Within(t, i)' <=> Within(t, i)
  <2>1. ASSUME NEW j \in t + 1 .. i PROVE listing'[j] = listing[j]
    BY <1>1, <1>3, <1>8, <2>1
  <2> QED BY <2>1 DEF Within
<1>9. ASSUME NEW t \in DOMAIN listing, IsTitle(listing[t])
      PROVE  Within(t, M)' <=> Open(t) /\ words # OneWord
  <2>1. t + 1 .. M = (t + 1 .. N) \union {M} /\ t < M /\ t \in Nat
    BY <1>1, <1>9
  <2>2. \A j \in t + 1 .. N : listing'[j] = listing[j]
    BY <1>1, <1>3, <2>1
  <2>3. Within(t, M)' <=> \A j \in t + 1 .. M : listing'[j] # OneWord
    BY <2>1 DEF Within
  <2>4. (\A j \in t + 1 .. M : listing'[j] # OneWord) <=>
          words # OneWord /\ \A j \in t + 1 .. N : listing[j] # OneWord
    BY <1>3, <2>1, <2>2
  <2> QED BY <1>9, <2>3, <2>4 DEF Open, N
<1>10. ~ Within(M, M)' /\ \A i \in DOMAIN listing : ~ Within(M, i)'
  BY <1>1 DEF Within
<1>11. \A f : \A t \in Titles(f) : t \in DOMAIN listing /\ IsTitle(listing[t]) /\ t \in Nat
  BY <1>1 DEF Titles
<1>12. ASSUME NEW f
       PROVE  InsnsOf(f)' = InsnsOf(f) \union {i \in {M} : words # OneWord /\ \E t \in Titles(f) : Open(t)}
  <2>1. InsnsOf(f)' = {i \in DOMAIN listing' : \E t \in Titles(f)' : Within(t, i)'}
    BY DEF InsnsOf
  <2>2. ASSUME NEW i \in DOMAIN listing'
        PROVE  (\E t \in Titles(f)' : Within(t, i)') <=> \E t \in Titles(f) : Within(t, i)'
    <3>1. ~ Within(M, i)'
      BY <1>4, <1>10
    <3> QED BY <1>7, <3>1
  <2>3. ASSUME NEW i \in DOMAIN listing
        PROVE  (\E t \in Titles(f) : Within(t, i)') <=> i \in InsnsOf(f)
    BY <1>8, <1>11 DEF InsnsOf
  <2>4. (\E t \in Titles(f) : Within(t, M)') <=> words # OneWord /\ \E t \in Titles(f) : Open(t)
    BY <1>9, <1>11
  <2>5. InsnsOf(f) \subseteq DOMAIN listing
    BY DEF InsnsOf
  <2> QED BY <1>5, <2>1, <2>2, <2>3, <2>4, <2>5
<1>13. ASSUME NEW t PROVE Open(t)' <=> (t = M /\ IsTitle(words)) \/ (Open(t) /\ words # OneWord)
  <2>1. CASE t = M
    <3>1. t + 1 .. M = {}
      BY <1>1, <2>1
    <3>2. ~ Open(t)
      BY <1>5, <2>1 DEF Open
    <3> QED BY <1>3, <1>5, <2>1, <3>1, <3>2 DEF Open, IsTitle
  <2>2. CASE t \in DOMAIN listing /\ t # M
    <3>1. listing'[t] = listing[t] /\ t \in DOMAIN listing'
      BY <1>1, <1>3, <2>2
    <3>2. CASE IsTitle(listing[t])
      <4>1. t < M
        BY <1>1, <2>2
      <4>2. Within(t, M)' <=> \A j \in t + 1 .. M : listing'[j] # OneWord
        BY <4>1 DEF Within
      <4>3. Open(t)' <=> \A j \in t + 1 .. M : listing'[j] # OneWord
        BY <1>3, <3>1, <3>2 DEF Open, IsTitle
      <4> QED BY <1>9, <2>2, <3>2, <4>2, <4>3
    <3>3. CASE ~ IsTitle(listing[t])
      BY <2>2, <3>1, <3>3 DEF Open, IsTitle
    <3> QED BY <3>2, <3>3
  <2>3. CASE t # M /\ t \notin DOMAIN listing
    BY <1>5, <2>3 DEF Open
  <2> QED BY <2>1, <2>2, <2>3
<1> QED BY <1>0, <1>1, <1>3, <1>5, <1>6, <1>7, <1>12, <1>13 DEF Grown

-----------------------------------------------------------------------------
\* The constructor.

OpenInv ==
  IF in_func THEN \E t \in Titles(name) : Open(t) /\ \A u : Open(u) => u = t
  ELSE \A t : ~ Open(t)

\* A function starts with its first title, and ends before the first line of
\* one word that comes after it.
StartInv(f) == func_start_va[f] \in Titles(f) /\ \A t \in Titles(f) : func_start_va[f] <= t
Over(f) == {i \in DOMAIN listing : func_start_va[f] < i /\ listing[i] = OneWord}
EndInv(f) ==
  IF f \in DOMAIN func_end_va
    THEN /\ func_end_va[f] \in Nat /\ func_end_va[f] + 1 \in Over(f)
         /\ \A i \in Over(f) : func_end_va[f] < i
    ELSE Over(f) = {}

\* Its body has its first title and its instructions, in the order of the
\* listing; at are the numbers of their lines.
LinesOf(f) == InsnsOf(f) \union {func_start_va[f]}
Increasing(at) == \A i, j \in DOMAIN at : i < j => at[i] < at[j]
LinesAt(at, f) ==
  /\ Len(at) = Len(func_bodies[f]) /\ Increasing(at)
  /\ ToSet(at) = LinesOf(f)
  /\ \A j \in DOMAIN at : func_bodies[f][j] = listing[at[j]]
BodyInv(f) == func_bodies[f] \in Seq(Seq(Words)) /\ \E at \in Seq(Nat) : LinesAt(at, f)

InsnsLong == \A f : \A i \in InsnsOf(f) : Len(listing[i]) >= 3
KeysInv ==
  /\ DOMAIN func_start_va = DOMAIN func_bodies /\ DOMAIN func_end_va \subseteq DOMAIN func_bodies
  /\ \A f : f \in DOMAIN func_bodies <=> Titles(f) # {}

ParserInv ==
  /\ ListInv /\ OpenInv /\ InsnsLong /\ KeysInv
  /\ \A f \in DOMAIN func_bodies : StartInv(f) /\ EndInv(f) /\ BodyInv(f)

\* One more, at the end.
Longer(t, s, x) ==
  /\ t \in Seq(Nat) /\ Len(t) = Len(s) + 1 /\ Increasing(t) /\ ToSet(t) = ToSet(s) \union {x}
  /\ \A i \in DOMAIN t : (i \in DOMAIN s /\ t[i] = s[i]) \/ (i = Len(s) + 1 /\ t[i] = x)

(* A greater number is appended to increasing ones.                        *)
LEMMA IncreasingAppend ==
  ASSUME NEW s \in Seq(Nat), Increasing(s), NEW x \in Nat, \A y \in ToSet(s) : y < x
  PROVE  Longer(Append(s, x), s, x)
<1> DEFINE N == Len(s)
           t == Append(s, x)
<1>1. N \in Nat /\ DOMAIN s = 1 .. N /\ \A i \in 1 .. N : s[i] \in Nat
  BY LenProperties, ElementOfSeq
<1>2. t \in Seq(Nat) /\ Len(t) = N + 1 /\ (\A i \in 1 .. N : t[i] = s[i]) /\ t[N + 1] = x
  BY <1>1, AppendProperties
<1>3. DOMAIN t = 1 .. N + 1
  BY <1>1, <1>2, LenProperties
<1>4. \A i \in DOMAIN s : s[i] < x
  BY DEF ToSet
<1> HIDE DEF N, t
<1>5. \A i \in DOMAIN t : (i \in DOMAIN s /\ t[i] = s[i]) \/ (i = N + 1 /\ t[i] = x)
  BY <1>1, <1>2, <1>3
<1>6. Increasing(t)
  <2> SUFFICES ASSUME NEW i \in DOMAIN t, NEW j \in DOMAIN t, i < j PROVE t[i] < t[j]
    BY DEF Increasing
  <2>1. i \in 1 .. N
    BY <1>1, <1>3
  <2>2. CASE j = N + 1
    BY <1>1, <1>2, <1>4, <2>1, <2>2
  <2>3. CASE j # N + 1
    <3>1. j \in 1 .. N
      BY <1>1, <1>3, <2>3
    <3>2. s[i] < s[j]
      BY <1>1, <2>1, <3>1 DEF Increasing
    <3> QED BY <1>2, <2>1, <3>1, <3>2
  <2> QED BY <2>2, <2>3
<1>7. ToSet(t) = ToSet(s) \union {x}
  <2>1. \A i \in DOMAIN s : i \in DOMAIN t /\ t[i] = s[i]
    BY <1>1, <1>2, <1>3
  <2>2. N + 1 \in DOMAIN t
    BY <1>1, <1>3
  <2> QED BY <1>2, <1>5, <2>1, <2>2 DEF ToSet
<1> QED BY <1>2, <1>5, <1>6, <1>7 DEF Longer, N, t

(* A function's lines are some of the listing's, from its first title on.  *)
LEMMA LinesFact ==
  ASSUME ParserInv, NEW f \in DOMAIN func_bodies
  PROVE  /\ func_start_va[f] \in DOMAIN listing /\ IsTitle(listing[func_start_va[f]])
         /\ func_start_va[f] \in Nat /\ LinesOf(f) \subseteq DOMAIN listing
         /\ \A i \in InsnsOf(f) : func_start_va[f] < i
<1>1. DOMAIN listing = 1 .. Len(listing) /\ Len(listing) \in Nat
  BY ListFact DEF ParserInv
<1>2. func_start_va[f] \in Titles(f) /\ \A t \in Titles(f) : func_start_va[f] <= t
  BY DEF ParserInv, StartInv
<1>3. func_start_va[f] \in DOMAIN listing /\ IsTitle(listing[func_start_va[f]])
  BY <1>2 DEF Titles
<1>4. ASSUME NEW i \in InsnsOf(f) PROVE i \in DOMAIN listing /\ func_start_va[f] < i
  <2>1. PICK t \in Titles(f) : Within(t, i)
    BY <1>4 DEF InsnsOf
  <2>2. i \in DOMAIN listing /\ t \in DOMAIN listing
    BY <1>4, <2>1 DEF InsnsOf, Titles
  <2>3. t < i /\ func_start_va[f] <= t
    BY <1>2, <2>1 DEF Within
  <2> QED BY <1>1, <1>3, <2>2, <2>3
<1> QED BY <1>1, <1>3, <1>4 DEF LinesOf

(* A function that is not over is open.                                    *)
LEMMA NotOver ==
  ASSUME ParserInv, NEW f \in DOMAIN func_bodies, Over(f) = {}
  PROVE  Open(func_start_va[f]) /\ func_start_va[f] \in Titles(f)
<1>1. DOMAIN listing = 1 .. Len(listing) /\ Len(listing) \in Nat
  BY ListFact DEF ParserInv
<1>2. func_start_va[f] \in DOMAIN listing /\ IsTitle(listing[func_start_va[f]]) /\ func_start_va[f] \in Nat
  BY LinesFact
<1>3. ASSUME NEW j \in func_start_va[f] + 1 .. Len(listing) PROVE listing[j] # OneWord
  <2>1. j \in DOMAIN listing /\ func_start_va[f] < j
    BY <1>1, <1>2
  <2> QED BY <2>1 DEF Over
<1> QED BY <1>2, <1>3 DEF Open, ParserInv, StartInv

(* Its last line is the listing's.                                         *)
LEMMA LastLine ==
  ASSUME ParserInv, NEW f \in DOMAIN func_bodies, Over(f) = {}
  PROVE  Last(func_bodies[f])[1].va = Len(listing)
<1> DEFINE N == Len(listing)
           s == func_start_va[f]
           body == func_bodies[f]
<1>1. DOMAIN listing = 1 .. N /\ N \in Nat
  BY ListFact DEF ParserInv
<1>2. s \in DOMAIN listing /\ IsTitle(listing[s]) /\ s \in Nat /\ LinesOf(f) \subseteq DOMAIN listing
  BY LinesFact
<1>3. Open(s) /\ s \in Titles(f)
  BY NotOver
<1>4. N \in LinesOf(f)
  <2>1. CASE N = s
    BY <2>1 DEF LinesOf
  <2>2. CASE N # s
    <3>1. s < N /\ N \in DOMAIN listing
      BY <1>1, <1>2, <2>2
    <3>2. Within(s, N)
      BY <1>3, <3>1 DEF Open, Within
    <3> QED BY <1>3, <3>1, <3>2 DEF InsnsOf, LinesOf
  <2> QED BY <2>1, <2>2
<1>5. PICK at \in Seq(Nat) : LinesAt(at, f)
  BY DEF ParserInv, BodyInv
<1>6. PICK k \in DOMAIN at : at[k] = N
  BY <1>4, <1>5 DEF LinesAt, ToSet
<1>7. DOMAIN at = 1 .. Len(at) /\ Len(at) \in Nat /\ \A i \in DOMAIN at : at[i] \in Nat /\ at[i] <= N
  <2>1. DOMAIN at = 1 .. Len(at) /\ Len(at) \in Nat
    BY LenProperties
  <2>2. \A i \in DOMAIN at : at[i] \in LinesOf(f)
    BY <1>5 DEF LinesAt, ToSet
  <2> QED BY <1>1, <1>2, <2>1, <2>2
<1>8. k = Len(at)
  <2>1. ~ (k < Len(at))
    <3> SUFFICES ASSUME k < Len(at) PROVE FALSE
      OBVIOUS
    <3>1. Len(at) \in DOMAIN at
      BY <1>7
    <3>2. at[k] < at[Len(at)]
      BY <1>5, <3>1 DEF LinesAt, Increasing
    <3> QED BY <1>1, <1>6, <1>7, <3>1, <3>2
  <2> QED BY <1>7, <2>1
<1>9. Last(body) = listing[N]
  BY <1>5, <1>6, <1>8 DEF LinesAt, Last
<1> HIDE DEF N
<1>10. Len(listing[N]) # 1
  <2> DEFINE l == Len(listing[N])
  <2>1. N \in DOMAIN listing
    BY <1>2, <1>4
  <2>2. l \in 1 .. 4
    BY <2>1 DEF ParserInv, ListInv, LineShape
  <2>3. l = 2 \/ l >= 3
    BY <1>2, <1>4 DEF IsTitle, LinesOf, ParserInv, InsnsLong
  <2> HIDE DEF l
  <2>4. l # 1
    BY <2>2, <2>3
  <2> QED BY <2>4 DEF l
<1>11. listing[N][1] = [va |-> N]
  <2>1. N \in DOMAIN listing
    BY <1>2, <1>4
  <2>2. LineShape(N, listing[N])
    BY <2>1 DEF ParserInv, ListInv
  <2> QED BY <1>10, <2>2 DEF LineShape
<1> QED BY <1>9, <1>11 DEF N

\* Nothing of f changes but the lines of the listing, and at most one of one
\* word is added.
KeepsFunc(f) ==
  /\ func_bodies'[f] = func_bodies[f] /\ func_start_va'[f] = func_start_va[f]
  /\ InsnsOf(f)' = InsnsOf(f)

(* A function that nothing is added to keeps its start and its body.       *)
LEMMA FuncKeeps ==
  ASSUME ParserInv, NEW words, Grown(words), NEW f \in DOMAIN func_bodies, KeepsFunc(f)
  PROVE  StartInv(f)' /\ BodyInv(f)' /\ Over(f)' = Over(f) \union {i \in {NextLine} : words = OneWord}
<1>1. /\ func_start_va[f] \in DOMAIN listing /\ func_start_va[f] \in Nat /\ LinesOf(f) \subseteq DOMAIN listing
      /\ DOMAIN listing = 1 .. Len(listing) /\ Len(listing) \in Nat /\ NextLine = Len(listing) + 1
  BY LinesFact, ListFact DEF ParserInv, NextLine
<1>2. func_start_va[f] < NextLine
  BY <1>1
<1>3. StartInv(f)'
  <2>1. func_start_va[f] \in Titles(f) /\ \A t \in Titles(f) : func_start_va[f] <= t
    BY DEF ParserInv, StartInv
  <2>2. \A t \in Titles(f)' : t \in Titles(f) \/ t = NextLine
    BY DEF Grown
  <2>3. Titles(f) \subseteq Titles(f)' /\ func_start_va'[f] = func_start_va[f]
    BY DEF Grown, KeepsFunc
  <2>4. \A t \in Titles(f)' : func_start_va[f] <= t
    BY <1>1, <1>2, <2>1, <2>2
  <2> QED BY <2>1, <2>3, <2>4 DEF StartInv
<1>4. BodyInv(f)'
  <2>1. PICK at \in Seq(Nat) : LinesAt(at, f)
    BY DEF ParserInv, BodyInv
  <2>2. \A j \in DOMAIN at : at[j] \in DOMAIN listing
    BY <1>1, <2>1 DEF LinesAt, ToSet
  <2>3. \A j \in DOMAIN at : listing'[at[j]] = listing[at[j]]
    BY <2>2 DEF Grown
  <2>4. LinesOf(f)' = LinesOf(f) /\ func_bodies'[f] = func_bodies[f]
    BY DEF LinesOf, KeepsFunc
  <2>5. LinesAt(at, f)'
    BY <2>1, <2>3, <2>4 DEF LinesAt
  <2>6. func_bodies'[f] \in Seq(Seq(Words))
    BY <2>4 DEF ParserInv, BodyInv
  <2> QED BY <2>5, <2>6 DEF BodyInv
<1>5. Over(f)' = Over(f) \union {i \in {NextLine} : words = OneWord}
  <2>1. Over(f)' = {i \in DOMAIN listing \union {NextLine} : func_start_va[f] < i /\ listing'[i] = OneWord}
    BY DEF Over, Grown, KeepsFunc
  <2>2. listing'[NextLine] = words /\ \A i \in DOMAIN listing : listing'[i] = listing[i]
    BY DEF Grown
  <2> QED BY <1>2, <2>1, <2>2 DEF Over
<1> QED BY <1>3, <1>4, <1>5

(* It keeps its end if it has one, or if it is not over.                   *)
LEMMA EndKeeps ==
  ASSUME ParserInv, NEW words, NEW f \in DOMAIN func_bodies,
         Over(f)' = Over(f) \union {i \in {NextLine} : words = OneWord},
         f \in DOMAIN func_end_va' <=> f \in DOMAIN func_end_va,
         f \in DOMAIN func_end_va => func_end_va'[f] = func_end_va[f],
         words = OneWord => f \in DOMAIN func_end_va
  PROVE  EndInv(f)'
<1>1. DOMAIN listing = 1 .. Len(listing) /\ Len(listing) \in Nat /\ NextLine = Len(listing) + 1
  BY ListFact DEF ParserInv, NextLine
<1>2. CASE f \in DOMAIN func_end_va
  <2> DEFINE e == func_end_va[f]
  <2>1. e \in Nat /\ e + 1 \in Over(f) /\ \A i \in Over(f) : e < i
    BY <1>2 DEF ParserInv, EndInv
  <2>2. e < NextLine
    <3>1. e + 1 \in DOMAIN listing
      BY <2>1 DEF Over
    <3> QED BY <1>1, <2>1, <3>1
  <2>3. \A i \in Over(f)' : e < i
    BY <2>1, <2>2
  <2>4. f \in DOMAIN func_end_va' /\ func_end_va'[f] = e
    BY <1>2
  <2> QED BY <2>1, <2>3, <2>4 DEF EndInv
<1>3. CASE f \notin DOMAIN func_end_va
  BY <1>3 DEF ParserInv, EndInv
<1> QED BY <1>2, <1>3

(* What a line adds to a function that is not the open one.                *)
LEMMA OthersInsns ==
  ASSUME ParserInv, NEW words, Grown(words), NEW f, in_func => f # name
  PROVE  InsnsOf(f)' = InsnsOf(f)
<1>1. \A t \in Titles(f) : ~ Open(t)
  <2> SUFFICES ASSUME NEW t \in Titles(f), Open(t) PROVE FALSE
    OBVIOUS
  <2>1. in_func
    BY DEF ParserInv, OpenInv
  <2>2. t \in Titles(name)
    BY <2>1 DEF ParserInv, OpenInv
  <2> QED BY <2>1, <2>2 DEF Titles
<1>2. InsnsOf(f)' = InsnsOf(f) \union {i \in {NextLine} : words # OneWord /\ \E t \in Titles(f) : Open(t)}
  BY DEF Grown
<1> QED BY <1>1, <1>2

(* One of them is over.                                                    *)
LEMMA OthersOver ==
  ASSUME ParserInv, NEW f \in DOMAIN func_bodies, in_func => f # name
  PROVE  f \in DOMAIN func_end_va
<1> SUFFICES ASSUME f \notin DOMAIN func_end_va PROVE FALSE
  OBVIOUS
<1>1. Over(f) = {}
  BY DEF ParserInv, EndInv
<1>2. Open(func_start_va[f]) /\ func_start_va[f] \in Titles(f)
  BY <1>1, NotOver
<1>3. in_func /\ func_start_va[f] \in Titles(name)
  BY <1>2 DEF ParserInv, OpenInv
<1> QED BY <1>2, <1>3 DEF Titles

(* No instruction is too short, unless a title comes in a function.        *)
LEMMA InsnsLongKeeps ==
  ASSUME ParserInv, NEW words, Grown(words), in_func /\ words # OneWord => Len(words) >= 3
  PROVE  InsnsLong'
<1> SUFFICES ASSUME NEW f, NEW i \in InsnsOf(f)' PROVE Len(listing'[i]) >= 3
  BY DEF InsnsLong
<1>1. InsnsOf(f)' = InsnsOf(f) \union {j \in {NextLine} : words # OneWord /\ \E t \in Titles(f) : Open(t)}
  BY DEF Grown
<1>2. CASE i \in InsnsOf(f)
  <2>1. i \in DOMAIN listing
    BY <1>2 DEF InsnsOf
  <2>2. listing'[i] = listing[i]
    BY <2>1 DEF Grown
  <2> QED BY <1>2, <2>2 DEF ParserInv, InsnsLong
<1>3. CASE i = NextLine /\ words # OneWord /\ \E t \in Titles(f) : Open(t)
  <2>1. in_func
    BY <1>3 DEF ParserInv, OpenInv
  <2> QED BY <1>3, <2>1 DEF Grown
<1> QED BY <1>1, <1>2, <1>3

(* A line of one word is no title,                                         *)
LEMMA OneWordFact == ~ IsTitle(OneWord)
<1>1. LineShape(0, OneWord)
  BY LineFact DEF IsLine
<1> DEFINE l == Len(OneWord)
<1>2. l \in 1 .. 4 /\ l = 1
  BY <1>1 DEF LineShape
<1> HIDE DEF l
<1>3. l # 2
  BY <1>2
<1> QED BY <1>3 DEF IsTitle, l

(* nor is an instruction.                                                  *)
LEMMA InsnFact == ASSUME NEW n \in Nat, NEW w \in Insns PROVE ~ IsTitle(Insn(n, w))
<1> DEFINE head == <<[va |-> n], [bytes |-> 0]>>
           k == Len(w)
           l == Len(Insn(n, w))
<1>1. [va |-> n] \in Words /\ [bytes |-> 0] \in Words
  BY DEF Words
<1>2. head \in Seq(Words) /\ Len(head) = 2
  BY <1>1, TwoWordSeq
<1>3. w \in Seq(Words) /\ (k = 1 \/ k = 2)
  BY InsnWords
<1>4. l = Len(head) + k
  <2>1. Insn(n, w) = head \o w
    BY DEF Insn
  <2> HIDE DEF head
  <2>2. Len(head \o w) = Len(head) + Len(w)
    BY <1>2, <1>3, ConcatProperties
  <2> QED BY <2>1, <2>2
<1>5. l = 2 + k
  BY <1>2, <1>4
<1> HIDE DEF k, l
<1>6. l # 2
  BY <1>3, <1>5
<1> QED BY <1>6 DEF IsTitle, l

(* The next line has a shape, and is no title while a function is open.    *)
LEMMA NextShape ==
  ASSUME ParserInv, NEW words \in Lines
  PROVE  LineShape(NextLine, words) /\ (in_func => ~ IsTitle(words))
<1>0. /\ DOMAIN listing = 1 .. Len(listing) /\ Len(listing) \in Nat /\ NextLine \in Nat
      /\ listing \in Seq(Seq(Words))
  BY ListFact DEF ParserInv, ListInv
<1>1. IsLine(NextLine, words)
  BY DEF Lines, IsLine, NextLine
<1>2. LineShape(NextLine, words)
  BY <1>0, <1>1, LineFact
<1>3. ASSUME in_func, IsTitle(words) PROVE FALSE
  <2> DEFINE N == Len(listing)
  <2>1. PICK t : Open(t)
    BY <1>3 DEF ParserInv, OpenInv
  <2>2. t \in 1 .. N /\ IsTitle(listing[t]) /\ \A j \in t + 1 .. N : listing[j] # OneWord
    BY <1>0, <2>1 DEF Open
  <2>3. N \in Nat
    BY <1>0
  <2>4. listing # <<>> /\ Last(listing) = listing[N]
    BY <1>0, <2>2 DEF Last
  <2> HIDE DEF N
  <2>5. listing[N] # OneWord
    <3>1. CASE t = N
      BY <2>2, <3>1, OneWordFact
    <3>2. CASE t # N
      <4>1. N \in t + 1 .. N
        BY <2>2, <2>3, <3>2
      <4> QED BY <2>2, <4>1
    <3> QED BY <3>1, <3>2
  <2>6. words \in {Insn(NextLine, w) : w \in Insns} \union {OneWord}
    BY <2>4, <2>5 DEF Lines, NextLine
  <2>7. words # OneWord
    BY <1>3, OneWordFact
  <2>8. PICK w \in Insns : words = Insn(NextLine, w)
    BY <2>6, <2>7
  <2> QED BY <1>0, <1>3, <2>8, InsnFact
<1> QED BY <1>2, <1>3

(* The end of a function,                                                  *)
LEMMA EndKeepsInv ==
  ASSUME ParserInv, NEW words, ListInv', Grown(words), EndFunction(words), words = OneWord
  PROVE  ParserInv'
<1>1. /\ in_func /\ ~ in_func' /\ UNCHANGED <<name, func_bodies, func_start_va>>
      /\ func_end_va' = insert(func_end_va, name, Last(func_bodies[name])[1].va)
  BY DEF EndFunction
<1>2. PICK g : g = name
  OBVIOUS
<1>3. PICK t \in Titles(g) : Open(t)
  BY <1>1, <1>2 DEF ParserInv, OpenInv
<1>4. ~ IsTitle(words)
  BY OneWordFact
<1>5. /\ \A f : Titles(f)' = Titles(f)
      /\ \A f : InsnsOf(f)' = InsnsOf(f)
      /\ \A u : ~ Open(u)'
  BY <1>4 DEF Grown
<1>6. OpenInv'
  BY <1>1, <1>5 DEF OpenInv
<1>7. InsnsLong'
  BY InsnsLongKeeps
<1>8. g \in DOMAIN func_bodies
  BY <1>3 DEF ParserInv, KeysInv
<1>9. /\ DOMAIN func_end_va' = DOMAIN func_end_va \union {g}
      /\ \A f \in DOMAIN func_end_va : func_end_va'[f] = func_end_va[f]
      /\ g \notin DOMAIN func_end_va => func_end_va'[g] = Last(func_bodies[g])[1].va
  BY <1>1, <1>2 DEF insert
<1>10. KeysInv'
  BY <1>1, <1>5, <1>8, <1>9 DEF ParserInv, KeysInv
<1>11. ASSUME NEW f \in DOMAIN func_bodies
       PROVE  StartInv(f)' /\ EndInv(f)' /\ BodyInv(f)'
  <2>1. KeepsFunc(f)
    BY <1>1, <1>5 DEF KeepsFunc
  <2>2. StartInv(f)' /\ BodyInv(f)' /\ Over(f)' = Over(f) \union {i \in {NextLine} : words = OneWord}
    BY <2>1, FuncKeeps
  <2>3. CASE f # g
    <3>1. f \in DOMAIN func_end_va
      BY <1>2, <2>3, OthersOver
    <3>2. EndInv(f)'
      BY <1>9, <2>2, <3>1, EndKeeps
    <3> QED BY <2>2, <3>2
  <2>4. CASE f \in DOMAIN func_end_va
    <3>1. EndInv(f)'
      BY <1>9, <2>2, <2>4, EndKeeps
    <3> QED BY <2>2, <3>1
  <2>5. CASE f = g /\ f \notin DOMAIN func_end_va
    <3>1. Over(f) = {}
      BY <2>5 DEF ParserInv, EndInv
    <3>2. Last(func_bodies[f])[1].va = Len(listing)
      BY <3>1, LastLine
    <3>3. func_end_va'[f] = Len(listing) /\ f \in DOMAIN func_end_va'
      BY <1>9, <2>5, <3>2
    <3>4. Over(f)' = {NextLine}
      BY <2>2, <3>1
    <3>5. Len(listing) \in Nat /\ NextLine = Len(listing) + 1
      BY ListFact DEF ParserInv, NextLine
    <3>6. EndInv(f)'
      BY <3>3, <3>4, <3>5 DEF EndInv
    <3> QED BY <2>2, <3>6
  <2> QED BY <2>3, <2>4, <2>5
<1> QED BY <1>1, <1>6, <1>7, <1>10, <1>11 DEF ParserInv

(* a line of its body,                                                     *)
LEMMA BodyKeepsInv ==
  ASSUME ParserInv, NEW words, ListInv', Grown(words), LineShape(NextLine, words),
         BodyLine(words), Len(words) >= 3
  PROVE  ParserInv'
<1>1. /\ in_func /\ UNCHANGED <<in_func, name, func_start_va, func_end_va>>
      /\ func_bodies' = [func_bodies EXCEPT ![name] = Append(@, words)] /\ Len(words) # 1
  BY DEF BodyLine
<1>2. PICK g : g = name
  OBVIOUS
<1>3. PICK t \in Titles(g) : Open(t) /\ \A u : Open(u) => u = t
  BY <1>1, <1>2 DEF ParserInv, OpenInv
<1>4. words # OneWord /\ ~ IsTitle(words)
  <2> DEFINE l == Len(words)
  <2>1. l \in 1 .. 4 /\ l >= 3 /\ (words = OneWord <=> l = 1)
    BY DEF LineShape
  <2>2. IsTitle(words) <=> l = 2
    BY DEF IsTitle
  <2> HIDE DEF l
  <2> QED BY <2>1, <2>2
<1>5. /\ \A f : Titles(f)' = Titles(f)
      /\ InsnsOf(g)' = InsnsOf(g) \union {NextLine}
      /\ \A u : Open(u)' <=> Open(u)
  BY <1>3, <1>4 DEF Grown
<1>6. OpenInv'
  <2>1. t \in Titles(name)' /\ Open(t)' /\ \A u : Open(u)' => u = t
    BY <1>1, <1>2, <1>3, <1>5
  <2> QED BY <1>1, <2>1 DEF OpenInv
<1>7. InsnsLong'
  BY InsnsLongKeeps
<1>8. g \in DOMAIN func_bodies
  BY <1>3 DEF ParserInv, KeysInv
<1>9. /\ DOMAIN func_bodies' = DOMAIN func_bodies
      /\ func_bodies'[g] = Append(func_bodies[g], words)
      /\ \A f \in DOMAIN func_bodies : f # g => func_bodies'[f] = func_bodies[f]
  BY <1>1, <1>2, <1>8
<1>10. KeysInv'
  BY <1>1, <1>5, <1>9 DEF ParserInv, KeysInv
<1>11. ASSUME NEW f \in DOMAIN func_bodies, f # g
       PROVE  StartInv(f)' /\ EndInv(f)' /\ BodyInv(f)'
  <2>1. KeepsFunc(f)
    <3>1. InsnsOf(f)' = InsnsOf(f)
      BY <1>2, <1>11, OthersInsns
    <3> QED BY <1>1, <1>9, <1>11, <3>1 DEF KeepsFunc
  <2>2. StartInv(f)' /\ BodyInv(f)' /\ Over(f)' = Over(f) \union {i \in {NextLine} : words = OneWord}
    BY <2>1, FuncKeeps
  <2>3. /\ f \in DOMAIN func_end_va' <=> f \in DOMAIN func_end_va
        /\ f \in DOMAIN func_end_va => func_end_va'[f] = func_end_va[f]
        /\ words # OneWord
    BY <1>1, <1>4
  <2>4. words = OneWord => f \in DOMAIN func_end_va
    BY <2>3
  <2>5. Over(f)' = Over(f) \union {i \in {NextLine} : words = OneWord}
    BY <2>2
  <2>6. EndInv(f)'
    BY <2>3, <2>4, <2>5, EndKeeps
  <2> QED BY <2>2, <2>6
<1>12. StartInv(g)'
  BY <1>1, <1>5, <1>8 DEF ParserInv, StartInv
<1>13. EndInv(g)'
  <2>1. func_start_va[g] \in Nat /\ func_start_va[g] \in DOMAIN listing
    BY <1>8, LinesFact
  <2>2. Over(g)' = Over(g) \union {i \in {NextLine} : words = OneWord}
    <3>1. DOMAIN listing' = DOMAIN listing \union {NextLine} /\ listing'[NextLine] = words
      BY DEF Grown
    <3>2. \A i \in DOMAIN listing : listing'[i] = listing[i]
      BY DEF Grown
    <3>3. Over(g)' = {i \in DOMAIN listing \union {NextLine} : func_start_va[g] < i /\ listing'[i] = OneWord}
      BY <1>1, <3>1 DEF Over
    <3> QED BY <1>4, <3>1, <3>2, <3>3 DEF Over
  <2>3. UNCHANGED func_end_va /\ words # OneWord
    BY <1>1, <1>4
  <2>4. /\ g \in DOMAIN func_end_va' <=> g \in DOMAIN func_end_va
        /\ g \in DOMAIN func_end_va => func_end_va'[g] = func_end_va[g]
        /\ words = OneWord => g \in DOMAIN func_end_va
    BY <2>3
  <2> QED BY <1>8, <2>2, <2>4, EndKeeps
<1>14. BodyInv(g)'
  <2>1. PICK at \in Seq(Nat) : LinesAt(at, g)
    BY <1>8 DEF ParserInv, BodyInv
  <2> DEFINE N == Len(at)
             more == Append(at, NextLine)
             body == func_bodies[g]
  <2>2. PICK M \in Nat : M = NextLine
    BY ListFact DEF ParserInv
  <2>3. \A j \in DOMAIN at : at[j] \in DOMAIN listing /\ at[j] \in Nat /\ at[j] < M
    <3>1. \A j \in DOMAIN at : at[j] \in DOMAIN listing
      BY <1>8, <2>1, LinesFact DEF LinesAt, ToSet
    <3> QED BY <2>2, <3>1, ListFact DEF ParserInv, NextLine
  <2>4. Longer(more, at, M)
    <3>1. \A y \in ToSet(at) : y < M
      BY <2>3 DEF ToSet
    <3>2. Increasing(at)
      BY <2>1 DEF LinesAt
    <3> QED BY <2>2, <3>1, <3>2, IncreasingAppend
  <2>5. N \in Nat /\ DOMAIN at = 1 .. N
    BY LenProperties
  <2>6. body \in Seq(Seq(Words)) /\ Len(body) = N
    BY <1>8, <2>1 DEF ParserInv, BodyInv, LinesAt
  <2>7. words \in Seq(Words)
    BY DEF LineShape
  <2>8. /\ func_bodies'[g] \in Seq(Seq(Words)) /\ Len(func_bodies'[g]) = N + 1
        /\ (\A i \in 1 .. N : func_bodies'[g][i] = body[i]) /\ func_bodies'[g][N + 1] = words
    BY <1>9, <2>6, <2>7, AppendProperties
  <2> HIDE DEF more, body
  <2>9. /\ more \in Seq(Nat) /\ Len(more) = N + 1 /\ Increasing(more) /\ ToSet(more) = ToSet(at) \union {M}
        /\ \A i \in DOMAIN more : (i \in DOMAIN at /\ more[i] = at[i]) \/ (i = N + 1 /\ more[i] = M)
    BY <2>4 DEF Longer
  <2> HIDE DEF N
  <2>10. LinesOf(g)' = LinesOf(g) \union {M}
    BY <1>1, <1>5, <2>2 DEF LinesOf
  <2>11. \A j \in DOMAIN more : func_bodies'[g][j] = listing'[more[j]]
    <3> SUFFICES ASSUME NEW j \in DOMAIN more PROVE func_bodies'[g][j] = listing'[more[j]]
      OBVIOUS
    <3>1. CASE j \in DOMAIN at /\ more[j] = at[j]
      <4>1. listing'[at[j]] = listing[at[j]] /\ body[j] = listing[at[j]]
        BY <2>1, <2>3, <3>1 DEF Grown, LinesAt, body
      <4> QED BY <2>5, <2>8, <3>1, <4>1
    <3>2. CASE j = N + 1 /\ more[j] = M
      BY <2>2, <2>8, <3>2 DEF Grown
    <3> QED BY <2>9, <3>1, <3>2
  <2>12. ToSet(at) = LinesOf(g)
    BY <2>1 DEF LinesAt
  <2>13. PICK new \in Seq(Nat) : new = more
    BY <2>9
  <2>14. LinesAt(new, g)'
    BY <2>8, <2>9, <2>10, <2>11, <2>12, <2>13 DEF LinesAt
  <2> QED BY <2>8, <2>14 DEF BodyInv
<1> QED BY <1>6, <1>7, <1>9, <1>10, <1>11, <1>12, <1>13, <1>14 DEF ParserInv

(* the title of one,                                                       *)
LEMMA TitleKeepsInv ==
  ASSUME ParserInv, NEW words, ListInv', Grown(words), LineShape(NextLine, words), BeginFunction(words)
  PROVE  ParserInv'
<1>1. /\ ~ in_func /\ IsTitle(words) /\ in_func' /\ name' = words[2].title
      /\ func_bodies' = insert(func_bodies, words[2].title, <<words>>)
      /\ func_start_va' = insert(func_start_va, words[2].title, words[1].va)
      /\ UNCHANGED func_end_va
  BY DEF BeginFunction
<1>2. PICK g : g = words[2].title
  OBVIOUS
<1>3. PICK n \in Nat : n = NextLine
  BY ListFact DEF ParserInv
<1>4. words # OneWord /\ words[1].va = n /\ words \in Seq(Words)
  <2>1. words # OneWord
    BY <1>1, OneWordFact
  <2> DEFINE l == Len(words)
  <2>2. l = 1 <=> words = OneWord
    BY DEF LineShape
  <2> HIDE DEF l
  <2>3. l # 1
    BY <2>1, <2>2
  <2>4. words[1] = [va |-> NextLine]
    BY <2>3 DEF LineShape, l
  <2> QED BY <1>3, <2>1, <2>4 DEF LineShape
<1>5. \A u : ~ Open(u)
  BY <1>1 DEF ParserInv, OpenInv
<1>6. /\ Titles(g)' = Titles(g) \union {n}
      /\ \A f : f # g => Titles(f)' = Titles(f)
      /\ \A u : Open(u)' <=> u = n
      /\ n \notin DOMAIN listing /\ listing'[n] = words
  BY <1>1, <1>2, <1>3, <1>5 DEF Grown
<1>7. \A f : InsnsOf(f)' = InsnsOf(f)
  BY <1>1, OthersInsns
<1>8. OpenInv'
  <2>1. g = name' /\ n \in Titles(g)' /\ Open(n)' /\ \A u : Open(u)' => u = n
    BY <1>1, <1>2, <1>6
  <2>2. Titles(g)' = Titles(name)'
    BY <2>1 DEF Titles
  <2> QED BY <1>1, <2>1, <2>2 DEF OpenInv
<1>9. InsnsLong'
  BY <1>1, InsnsLongKeeps
<1>10. /\ DOMAIN func_bodies' = DOMAIN func_bodies \union {g}
       /\ DOMAIN func_start_va' = DOMAIN func_start_va \union {g}
       /\ \A f \in DOMAIN func_bodies : func_bodies'[f] = func_bodies[f]
       /\ \A f \in DOMAIN func_start_va : func_start_va'[f] = func_start_va[f]
       /\ g \notin DOMAIN func_bodies => func_bodies'[g] = <<words>>
       /\ g \notin DOMAIN func_start_va => func_start_va'[g] = n
  BY <1>1, <1>2, <1>4 DEF insert
<1>11. /\ DOMAIN func_start_va = DOMAIN func_bodies /\ DOMAIN func_end_va \subseteq DOMAIN func_bodies
       /\ \A f : f \in DOMAIN func_bodies <=> Titles(f) # {}
  BY DEF ParserInv, KeysInv
<1>12. KeysInv'
  <2>1. \A f : f \in DOMAIN func_bodies' <=> Titles(f)' # {}
    BY <1>6, <1>10, <1>11
  <2> QED BY <1>1, <1>10, <1>11, <2>1 DEF KeysInv
<1>13. ASSUME NEW f \in DOMAIN func_bodies
       PROVE  StartInv(f)' /\ EndInv(f)' /\ BodyInv(f)'
  <2>1. KeepsFunc(f)
    BY <1>7, <1>10, <1>11 DEF KeepsFunc
  <2>2. StartInv(f)' /\ BodyInv(f)' /\ Over(f)' = Over(f) \union {i \in {NextLine} : words = OneWord}
    BY <2>1, FuncKeeps
  <2>3. /\ f \in DOMAIN func_end_va' <=> f \in DOMAIN func_end_va
        /\ f \in DOMAIN func_end_va => func_end_va'[f] = func_end_va[f]
        /\ words = OneWord => f \in DOMAIN func_end_va
    BY <1>1, <1>4
  <2>4. EndInv(f)'
    BY <2>2, <2>3, EndKeeps
  <2> QED BY <2>2, <2>4
<1>14. ASSUME g \notin DOMAIN func_bodies
       PROVE  StartInv(g)' /\ EndInv(g)' /\ BodyInv(g)'
  <2>1. Titles(g) = {} /\ g \notin DOMAIN func_end_va' /\ func_start_va'[g] = n /\ func_bodies'[g] = <<words>>
    BY <1>1, <1>10, <1>11, <1>14
  <2>2. Titles(g)' = {n}
    BY <1>6, <2>1
  <2>3. StartInv(g)'
    BY <1>3, <2>1, <2>2 DEF StartInv
  <2>4. Over(g)' = {}
    <3>1. DOMAIN listing' = DOMAIN listing \union {n} /\ DOMAIN listing = 1 .. Len(listing)
      BY <1>3, ListFact DEF Grown, ParserInv
    <3>2. \A i \in DOMAIN listing' : ~ (n < i)
      BY <1>3, <3>1, ListFact DEF ParserInv, NextLine
    <3>3. Over(g)' = {i \in DOMAIN listing' : n < i /\ listing'[i] = OneWord}
      BY <2>1 DEF Over
    <3> QED BY <3>2, <3>3
  <2>5. EndInv(g)'
    BY <2>1, <2>4 DEF EndInv
  <2>6. LinesOf(g)' = {n}
    <3>1. InsnsOf(g)' = {}
      BY <1>7, <2>1 DEF InsnsOf
    <3> QED BY <2>1, <3>1 DEF LinesOf
  <2> DEFINE at == <<n>>
  <2>7. at \in Seq(Nat) /\ Len(at) = 1 /\ at[1] = n /\ DOMAIN at = {1}
    OBVIOUS
  <2>8. /\ func_bodies'[g] \in Seq(Seq(Words)) /\ Len(func_bodies'[g]) = 1
        /\ func_bodies'[g][1] = words
    BY <1>4, <2>1, OneWordSeq
  <2> HIDE DEF at
  <2>9. PICK new \in Seq(Nat) : new = at
    BY <2>7
  <2>10. LinesAt(new, g)'
    <3>1. Increasing(new)
      BY <2>7, <2>9 DEF Increasing
    <3>2. ToSet(new) = {n}
      BY <2>7, <2>9 DEF ToSet
    <3>3. \A j \in DOMAIN new : func_bodies'[g][j] = listing'[new[j]]
      BY <1>6, <2>7, <2>8, <2>9
    <3>4. Len(new) = Len(func_bodies'[g])
      BY <2>7, <2>8, <2>9
    <3> QED BY <2>6, <3>1, <3>2, <3>3, <3>4 DEF LinesAt
  <2> QED BY <2>3, <2>5, <2>8, <2>10 DEF BodyInv
<1> QED BY <1>8, <1>9, <1>10, <1>12, <1>13, <1>14 DEF ParserInv

(* and any other line keep the invariant.                                  *)
LEMMA OtherKeepsInv ==
  ASSUME ParserInv, NEW words, ListInv', Grown(words), OtherLine(words)
  PROVE  ParserInv'
<1>1. ~ in_func /\ ~ IsTitle(words) /\ UNCHANGED <<in_func, name, func_bodies, func_start_va, func_end_va>>
  BY DEF OtherLine
<1>2. \A u : ~ Open(u)
  BY <1>1 DEF ParserInv, OpenInv
<1>3. /\ \A f : Titles(f)' = Titles(f)
      /\ \A u : ~ Open(u)'
  BY <1>1, <1>2 DEF Grown
<1>4. \A f : InsnsOf(f)' = InsnsOf(f)
  BY <1>1, OthersInsns
<1>5. OpenInv'
  BY <1>1, <1>3 DEF OpenInv
<1>6. InsnsLong'
  BY <1>1, InsnsLongKeeps
<1>7. KeysInv'
  BY <1>1, <1>3 DEF ParserInv, KeysInv
<1>8. ASSUME NEW f \in DOMAIN func_bodies
      PROVE  StartInv(f)' /\ EndInv(f)' /\ BodyInv(f)'
  <2>1. KeepsFunc(f)
    BY <1>1, <1>4 DEF KeepsFunc
  <2>2. StartInv(f)' /\ BodyInv(f)' /\ Over(f)' = Over(f) \union {i \in {NextLine} : words = OneWord}
    BY <2>1, FuncKeeps
  <2>3. f \in DOMAIN func_end_va
    BY <1>1, OthersOver
  <2>4. /\ f \in DOMAIN func_end_va' <=> f \in DOMAIN func_end_va
        /\ f \in DOMAIN func_end_va => func_end_va'[f] = func_end_va[f]
        /\ words = OneWord => f \in DOMAIN func_end_va
    BY <1>1, <2>3
  <2>5. EndInv(f)'
    BY <2>2, <2>4, EndKeeps
  <2> QED BY <2>2, <2>5
<1> QED BY <1>1, <1>5, <1>6, <1>7, <1>8 DEF ParserInv

(* Nothing has been read to begin with.                                    *)
LEMMA ParserInitInv == ASSUME ParserInit PROVE ParserInv
<1>1. /\ listing = <<>> /\ ~ in_func /\ func_bodies = <<>> /\ func_start_va = <<>> /\ func_end_va = <<>>
  BY DEF ParserInit
<1>2. listing \in Seq(Seq(Words)) /\ DOMAIN listing = {}
  BY <1>1
<1>3. DOMAIN func_bodies = {} /\ DOMAIN func_start_va = {} /\ DOMAIN func_end_va = {}
  BY <1>1
<1>4. \A f : Titles(f) = {} /\ InsnsOf(f) = {}
  BY <1>2 DEF Titles, InsnsOf
<1>5. \A t : ~ Open(t)
  BY <1>2 DEF Open
<1> QED BY <1>1, <1>2, <1>3, <1>4, <1>5 DEF ParserInv, ListInv, OpenInv, InsnsLong, KeysInv

(* The invariant is inductive.                                             *)
LEMMA ParserStep == ParserInv /\ [ReadLine]_parserVars => ParserInv'
<1> SUFFICES ASSUME ParserInv, [ReadLine]_parserVars PROVE ParserInv'
  OBVIOUS
<1>1. CASE ReadLine
  <2>1. PICK words \in Lines :
          /\ listing' = Append(listing, words)
          /\ EndFunction(words) \/ BodyLine(words) \/ BeginFunction(words) \/ OtherLine(words)
    BY <1>1 DEF ReadLine
  <2>2. LineShape(NextLine, words) /\ (in_func => ~ IsTitle(words))
    BY NextShape
  <2>3. ListInv' /\ Grown(words)
    BY <2>1, <2>2, ListGrows DEF ParserInv
  <2>4. CASE EndFunction(words)
    <3>1. words = OneWord
      BY <2>2, <2>4 DEF EndFunction, LineShape
    <3> QED BY <2>3, <2>4, <3>1, EndKeepsInv
  <2>5. CASE BodyLine(words)
    <3> DEFINE l == Len(words)
    <3>1. l \in 1 .. 4 /\ l # 1 /\ l # 2
      BY <2>2, <2>5 DEF BodyLine, LineShape, IsTitle
    <3> HIDE DEF l
    <3>2. l >= 3
      BY <3>1
    <3> QED BY <2>2, <2>3, <2>5, <3>2, BodyKeepsInv DEF l
  <2>6. CASE BeginFunction(words)
    BY <2>2, <2>3, <2>6, TitleKeepsInv
  <2>7. CASE OtherLine(words)
    BY <2>3, <2>7, OtherKeepsInv
  <2> QED BY <2>1, <2>4, <2>5, <2>6, <2>7
<1>2. CASE UNCHANGED parserVars
  <2>1. UNCHANGED <<listing, in_func, name, func_bodies, func_start_va, func_end_va>>
    BY <1>2 DEF parserVars
  <2>2. \A f : Titles(f)' = Titles(f) /\ InsnsOf(f)' = InsnsOf(f)
    BY <2>1 DEF Titles, InsnsOf, Within
  <2>3. \A u : Open(u)' <=> Open(u)
    BY <2>1 DEF Open
  <2>4. ListInv' /\ OpenInv' /\ InsnsLong' /\ KeysInv'
    <3>1. ListInv'
      BY <2>1 DEF ParserInv, ListInv
    <3>2. OpenInv'
      <4>1. Titles(name)' = Titles(name)
        BY <2>1 DEF Titles
      <4> QED BY <2>1, <2>3, <4>1 DEF ParserInv, OpenInv
    <3>3. InsnsLong'
      BY <2>1, <2>2 DEF ParserInv, InsnsLong
    <3>4. KeysInv'
      BY <2>1, <2>2 DEF ParserInv, KeysInv
    <3> QED BY <3>1, <3>2, <3>3, <3>4
  <2>5. ASSUME NEW f \in DOMAIN func_bodies PROVE StartInv(f)' /\ EndInv(f)' /\ BodyInv(f)'
    <3>1. StartInv(f)'
      BY <2>1, <2>2 DEF ParserInv, StartInv
    <3>2. EndInv(f)'
      BY <2>1 DEF ParserInv, EndInv, Over
    <3>3. BodyInv(f)'
      <4>1. PICK at \in Seq(Nat) : LinesAt(at, f)
        BY DEF ParserInv, BodyInv
      <4>2. LinesAt(at, f)'
        BY <2>1, <2>2, <4>1 DEF LinesAt, LinesOf
      <4> QED BY <2>1, <4>2 DEF ParserInv, BodyInv
    <3> QED BY <3>1, <3>2, <3>3
  <2> QED BY <2>1, <2>4, <2>5 DEF ParserInv
<1> QED BY <1>1, <1>2

-----------------------------------------------------------------------------
\* The lines that are too short.

(* The least of a set, when it is known.                                   *)
LEMMA MinIs ==
  ASSUME NEW S \in SUBSET Nat, NEW x \in S, \A y \in S : x <= y
  PROVE  Min(S) = x
<1>1. Min(S) \in S /\ \A y \in S : Min(S) <= y
  BY LeastOf
<1>2. Min(S) \in Nat /\ x \in Nat /\ Min(S) <= x /\ x <= Min(S)
  BY <1>1
<1> QED BY <1>2

(* One number is the greatest of itself.                                   *)
LEMMA MaxOfOne == ASSUME NEW x \in Nat PROVE Max({x}) = x
<1>1. Max({x}) \in {x}
  <2>1. \E y \in {x} : \A z \in {x} : y >= z
    OBVIOUS
  <2> QED BY <2>1 DEF Max
<1> QED BY <1>1

\* Those of the numbers that come before i, and after all of some that do.
Since(numbers, some, i) == {j \in numbers : j < i /\ \A k \in some : k < i => k < j}
Odd(set) == Cardinality(set) % 2 = 1

(* There are finitely many.                                                *)
LEMMA SinceFinite ==
  ASSUME NEW numbers \in SUBSET Nat, NEW some, NEW i \in Nat
  PROVE  IsFiniteSet(Since(numbers, some, i)) /\ Cardinality(Since(numbers, some, i)) \in Nat
<1>1. Since(numbers, some, i) \subseteq 0 .. i
  <2> SUFFICES ASSUME NEW j \in Since(numbers, some, i) PROVE j \in 0 .. i
    OBVIOUS
  <2>1. j \in numbers /\ j < i
    BY DEF Since
  <2>2. j \in Nat
    BY <2>1
  <2> QED BY <2>1, <2>2
<1>2. IsFiniteSet(0 .. i)
  BY FS_Interval
<1>3. IsFiniteSet(Since(numbers, some, i))
  BY <1>1, <1>2, FS_Subset
<1> QED BY <1>3, FS_CardinalityType

(* One more before the next number, or none if this one is one of some:    *)
LEMMA SinceNext ==
  ASSUME NEW at \in Seq(Nat), Increasing(at), NEW some \in SUBSET ToSet(at),
         NEW n \in Nat, n \in DOMAIN at, n + 1 \in DOMAIN at
  PROVE  Since(ToSet(at), some, at[n + 1]) =
           IF at[n] \in some THEN {} ELSE Since(ToSet(at), some, at[n]) \union {at[n]}
<1>1. DOMAIN at = 1 .. Len(at) /\ \A m \in DOMAIN at : at[m] \in Nat
  BY LenProperties, ElementOfSeq
<1>2. at[n] < at[n + 1] /\ at[n] \in ToSet(at)
  BY DEF Increasing, ToSet
<1>3. ASSUME NEW j \in ToSet(at) PROVE j \in Nat /\ (j < at[n + 1] <=> j < at[n] \/ j = at[n])
  <2>1. PICK m \in DOMAIN at : j = at[m]
    BY DEF ToSet
  <2>2. CASE m = n
    BY <1>1, <1>2, <2>1, <2>2
  <2>3. CASE m < n
    <3>1. at[m] < at[n]
      BY <2>3 DEF Increasing
    <3> QED BY <1>1, <1>2, <2>1, <3>1
  <2>4. CASE m = n + 1
    BY <1>1, <1>2, <2>1, <2>4
  <2>5. CASE n + 1 < m
    <3>1. at[n + 1] < at[m]
      BY <2>5 DEF Increasing
    <3> QED BY <1>1, <1>2, <2>1, <3>1
  <2>6. m \in Nat /\ (m = n \/ m < n \/ m = n + 1 \/ n + 1 < m)
    BY <1>1
  <2> QED BY <2>2, <2>3, <2>4, <2>5, <2>6
<1> DEFINE a == at[n]
           b == at[n + 1]
           all == ToSet(at)
<1>4. /\ a \in Nat /\ b \in Nat /\ a < b /\ a \in all
      /\ \A j \in all : j \in Nat /\ (j < b <=> j < a \/ j = a)
  BY <1>1, <1>2, <1>3
<1> HIDE DEF a, b, all
<1>5. CASE a \in some
  <2>1. \A j \in Since(all, some, b) : FALSE
    BY <1>4, <1>5 DEF Since
  <2> QED BY <1>5, <2>1 DEF a, b, all
<1>6. CASE a \notin some
  <2>1. \A k \in some : k \in all /\ k # a
    BY <1>6 DEF all
  <2>2. \A k \in some : k < b <=> k < a
    BY <1>4, <2>1
  <2>3. \A j \in all : j \in Since(all, some, b) <=> j \in Since(all, some, a) \/ j = a
    BY <1>4, <2>1, <2>2 DEF Since
  <2>4. Since(all, some, b) \subseteq all /\ Since(all, some, a) \subseteq all
    BY DEF Since
  <2>5. Since(all, some, b) = Since(all, some, a) \union {a}
    BY <1>4, <2>3, <2>4
  <2> QED BY <1>6, <2>5 DEF a, b, all
<1> QED BY <1>5, <1>6 DEF a

(* so their number changes from even to odd and back.                      *)
LEMMA OddNext ==
  ASSUME NEW at \in Seq(Nat), Increasing(at), NEW some \in SUBSET ToSet(at),
         NEW n \in Nat, n \in DOMAIN at, n + 1 \in DOMAIN at
  PROVE  Odd(Since(ToSet(at), some, at[n + 1])) <=> at[n] \notin some /\ ~ Odd(Since(ToSet(at), some, at[n]))
<1> DEFINE next == Since(ToSet(at), some, at[n + 1])
           this == Since(ToSet(at), some, at[n])
<1>1. ToSet(at) \in SUBSET Nat /\ at[n] \in Nat
  BY LenProperties, ElementOfSeq DEF ToSet
<1>2. next = IF at[n] \in some THEN {} ELSE this \union {at[n]}
  BY SinceNext
<1>3. IsFiniteSet(this) /\ Cardinality(this) \in Nat
  BY <1>1, SinceFinite
<1>4. at[n] \notin this
  BY <1>1 DEF Since
<1> HIDE DEF next, this
<1>5. CASE at[n] \in some
  <2>1. Cardinality(next) = 0
    BY <1>2, <1>5, FS_EmptySet
  <2>2. ~ Odd(next)
    BY <2>1 DEF Odd
  <2> QED BY <1>5, <2>2 DEF next
<1>6. CASE at[n] \notin some
  <2>1. Cardinality(next) = Cardinality(this) + 1
    BY <1>2, <1>3, <1>4, <1>6, FS_AddElement
  <2> DEFINE c == Cardinality(this)
             d == Cardinality(next)
  <2>2. c \in Nat /\ d = c + 1
    BY <1>3, <2>1
  <2> HIDE DEF c, d
  <2>3. d % 2 = 1 <=> ~ (c % 2 = 1)
    BY <2>2
  <2>4. Odd(next) <=> ~ Odd(this)
    BY <2>3 DEF Odd, c, d
  <2> QED BY <1>6, <2>4 DEF next, this
<1> QED BY <1>5, <1>6

(* Nothing comes before the first.                                         *)
LEMMA OddFirst ==
  ASSUME NEW at \in Seq(Nat), Increasing(at), NEW some, 1 \in DOMAIN at
  PROVE  ~ Odd(Since(ToSet(at), some, at[1]))
<1>1. DOMAIN at = 1 .. Len(at) /\ Len(at) \in Nat /\ \A m \in DOMAIN at : at[m] \in Nat
  BY LenProperties, ElementOfSeq
<1>2. ASSUME NEW j \in ToSet(at) PROVE ~ (j < at[1])
  <2>1. PICK m \in DOMAIN at : j = at[m]
    BY DEF ToSet
  <2>2. m = 1 \/ 1 < m
    BY <1>1
  <2>3. 1 < m => at[1] < at[m]
    BY DEF Increasing
  <2> QED BY <1>1, <2>1, <2>2, <2>3
<1>3. Since(ToSet(at), some, at[1]) = {}
  BY <1>2 DEF Since
<1>4. Cardinality({}) = 0
  BY FS_EmptySet
<1> QED BY <1>3, <1>4 DEF Odd

-----------------------------------------------------------------------------
\* The look-ups.

\* What is looked for: the rets, and the writes of satp.
Asks(needed, op, csrs) ==
  \/ needed = 3 /\ op = "ret" /\ csrs = {}
  \/ needed = 4 /\ op = "csrw" /\ csrs = {"satp"}

\* The reading of one line.
ReadStep(x, line, needed, op, csrs) ==
  LET words == Read(x.words, line, needed)
  IN  [words |-> words,
       vas |-> IF Len(words) >= needed /\ Wanted(words, op, csrs) THEN Append(x.vas, words[1].va) ELSE x.vas]
Reads(r, body, needed, op, csrs) ==
  /\ r[0] = [words |-> <<>>, vas |-> <<>>]
  /\ \A n \in 1 .. Len(body) : r[n] = ReadStep(r[n - 1], body[n], needed, op, csrs)

(* A body can be read, and what is found is what the last line leaves.     *)
LEMMA FoundReads ==
  ASSUME NEW f, func_bodies[f] \in Seq(Seq(Words)), NEW needed, NEW op, NEW csrs, Asks(needed, op, csrs)
  PROVE  \E r : /\ Reads(r, func_bodies[f], needed, op, csrs)
                /\ Found(f, needed, op, csrs) = r[Len(func_bodies[f])].vas
<1> DEFINE body == func_bodies[f]
           N == Len(body)
           S == [words : Seq(Words), vas : Seq({w.va : w \in Words})]
           start == [words |-> <<>>, vas |-> <<>>]
           step == [n \in 1 .. N |-> [x \in S |-> ReadStep(x, body[n], needed, op, csrs)]]
<1>1. N \in Nat /\ \A n \in 1 .. N : body[n] \in Seq(Words)
  BY LenProperties, ElementOfSeq
<1>2. start \in S
  OBVIOUS
<1>3. ASSUME NEW line \in Seq(Words), NEW x \in S
      PROVE  ReadStep(x, line, needed, op, csrs) \in S
  <2> DEFINE words == Read(x.words, line, needed)
  <2>1. words \in Seq(Words)
    <3>1. x.words \in Seq(Words)
      OBVIOUS
    <3>2. x.words \o line \in Seq(Words)
      BY <3>1, ConcatProperties
    <3> QED BY <3>2 DEF Read
  <2> HIDE DEF words
  <2>2. Len(words) >= needed => words[1].va \in {w.va : w \in Words}
    <3> DEFINE l == Len(words)
    <3> SUFFICES ASSUME l >= needed PROVE words[1] \in Words
      OBVIOUS
    <3>1. l \in Nat
      BY <2>1, LenProperties
    <3>2. needed = 3 \/ needed = 4
      BY DEF Asks
    <3>3. 1 \in 1 .. l
      <4> HIDE DEF l
      <4> QED BY <3>1, <3>2
    <3> QED BY <2>1, <3>3, ElementOfSeq
  <2>3. x.vas \in Seq({w.va : w \in Words})
    OBVIOUS
  <2>4. Len(words) >= needed => Append(x.vas, words[1].va) \in Seq({w.va : w \in Words})
    BY <2>2, <2>3, AppendProperties
  <2> QED BY <2>1, <2>3, <2>4 DEF ReadStep, words
<1>4. \A n \in 1 .. N : \A x \in S : step[n][x] = ReadStep(x, body[n], needed, op, csrs)
  OBVIOUS
<1>5. \A n \in 1 .. N : \A x \in S : step[n][x] \in S
  BY <1>1, <1>3, <1>4
<1> HIDE DEF step, S, start
<1>6. PICK g \in [0 .. N -> S] : Iterates(g, start, N, step)
  BY <1>1, <1>2, <1>5, RecursionExists
<1> DEFINE Is(h) == h = [n \in 0 .. N |-> IF n = 0 THEN start ELSE ReadStep(h[n - 1], body[n], needed, op, csrs)]
           r == CHOOSE h : Is(h)
<1>7. Is(g)
  <2>1. ASSUME NEW n \in 0 .. N, n # 0 PROVE n \in 1 .. N /\ g[n - 1] \in S
    <3> HIDE DEF N
    <3>1. n \in 1 .. N /\ n - 1 \in 0 .. N
      BY <1>1, <2>1
    <3>2. g[n - 1] \in S
      BY <1>6, <3>1
    <3> QED BY <3>1, <3>2
  <2> QED BY <1>4, <1>6, <2>1 DEF Iterates
<1>8. Is(r)
  BY <1>7, Zenon
<1>9. Found(f, needed, op, csrs) = r[N].vas
  BY DEF Found, ReadStep, start
<1> HIDE DEF r
<1>10. Reads(r, body, needed, op, csrs)
  <2>1. 0 \in 0 .. N /\ \A n \in 1 .. N : n \in 0 .. N /\ n # 0
    BY <1>1
  <2>2. r[0] = start /\ \A n \in 1 .. N : r[n] = ReadStep(r[n - 1], body[n], needed, op, csrs)
    BY <1>8, <2>1
  <2> QED BY <2>2 DEF Reads, start
<1> QED BY <1>9, <1>10

(* What is looked for is there where the name is,                          *)
LEMMA WantedLine ==
  ASSUME NEW n \in Nat, NEW line, LineShape(n, line), NEW needed, NEW op, NEW csrs, Asks(needed, op, csrs),
         Len(line) >= 3
  PROVE  /\ Len(line) >= needed => (Wanted(line, op, csrs) <=> line[3] = [op |-> op])
         /\ line[3] = [op |-> op] => Len(line) >= needed
<1> DEFINE l == Len(line)
<1>1. l = 3 \/ l = 4
  <2>1. l \in 1 .. 4 /\ l >= 3
    BY DEF LineShape
  <2> HIDE DEF l
  <2> QED BY <2>1
<1>2. (l = 3 => Bare(line)) /\ (l = 4 => Operands(line))
  BY DEF LineShape
<1>3. CASE needed = 3 /\ op = "ret" /\ csrs = {}
  <2>1. Wanted(line, op, csrs) <=> line[3] = [op |-> op]
    BY <1>3 DEF Wanted
  <2> HIDE DEF l
  <2>2. l >= needed
    BY <1>1, <1>3
  <2> QED BY <2>1, <2>2 DEF l
<1>4. CASE needed = 4 /\ op = "csrw" /\ csrs = {"satp"}
  <2>1. l = 3 => line[3] # [op |-> op]
    BY <1>2, <1>4, WordKinds DEF Bare
  <2>2. ASSUME l = 4, line[3] = [op |-> op] PROVE "satp" \in ToSet(line[4].args)
    <3>1. line[4] = [args |-> <<"satp", "a5">>]
      BY <1>2, <1>4, <2>2, WordKinds DEF Operands
    <3>2. line[4].args = <<"satp", "a5">>
      BY <3>1
    <3>3. 1 \in DOMAIN <<"satp", "a5">> /\ <<"satp", "a5">>[1] = "satp"
      OBVIOUS
    <3> QED BY <3>2, <3>3 DEF ToSet
  <2>3. l = 4 => (Wanted(line, op, csrs) <=> line[3] = [op |-> op])
    BY <1>4, <2>2 DEF Wanted
  <2> HIDE DEF l
  <2>4. (l >= needed => l = 4) /\ (l = 4 => l >= needed)
    BY <1>1, <1>4
  <2> QED BY <1>1, <2>1, <2>3, <2>4 DEF l
<1> QED BY <1>3, <1>4 DEF Asks

(* and never in a line that is appended to one that was too short.         *)
LEMMA WantedJoined ==
  ASSUME NEW n \in Nat, NEW m \in Nat, NEW a, NEW b, LineShape(n, a), LineShape(m, b),
         NEW needed, NEW op, NEW csrs, Asks(needed, op, csrs),
         Len(a) >= 2, Len(b) >= 3, ~ (Len(a) >= needed)
  PROVE  Len(a \o b) >= needed /\ ~ Wanted(a \o b, op, csrs)
<1> DEFINE k == Len(a)
           l == Len(b)
           ab == a \o b
<1>1. k \in 1 .. 4 /\ l \in 1 .. 4 /\ k >= 2 /\ l >= 3 /\ ~ (k >= needed) /\ (needed = 3 \/ needed = 4)
  BY DEF LineShape, Asks
<1>2. /\ Len(ab) = k + l
      /\ \A i \in 1 .. k + l : ab[i] = IF i <= k THEN a[i] ELSE b[i - k]
  BY ConcatProperties DEF LineShape
<1> HIDE DEF k, l, ab
<1>3. k + l >= needed /\ (k = 2 \/ (k = 3 /\ needed = 4)) /\ 3 \in 1 .. k + l
  BY <1>1
<1>4. ab[3] # [op |-> op]
  <2>1. CASE k = 2
    <3>1. ab[3] = b[1]
      BY <1>2, <1>3, <2>1
    <3>2. l # 1
      BY <1>1
    <3>3. b[1] = [va |-> m]
      BY <3>2 DEF LineShape, l
    <3> QED BY <3>1, <3>3, WordKinds
  <2>2. CASE k = 3 /\ needed = 4
    <3>1. ab[3] = a[3]
      BY <1>2, <1>3, <2>2
    <3>2. Bare(a) /\ op = "csrw"
      BY <2>2 DEF LineShape, Asks, k
    <3> QED BY <3>1, <3>2, WordKinds DEF Bare
  <2> QED BY <1>3, <2>1, <2>2
<1> QED BY <1>2, <1>3, <1>4 DEF Wanted, ab

\* What is found is a set of addresses, in the order of the listing.
Finds(vas, set) == vas \in Seq(Nat) /\ Increasing(vas) /\ ToSet(vas) = set

(* A line of a body, and one after the first is an instruction.            *)
LEMMA BodyLines ==
  ASSUME ParserInv, NEW f \in DOMAIN func_bodies, NEW at \in Seq(Nat), LinesAt(at, f), NEW j \in DOMAIN at
  PROVE  /\ at[j] \in Nat /\ at[j] \in ToSet(at) /\ func_bodies[f][j] = listing[at[j]]
         /\ LineShape(at[j], listing[at[j]]) /\ Len(listing[at[j]]) >= 2
         /\ j # 1 => Len(listing[at[j]]) >= 3
<1>1. at[j] \in ToSet(at) /\ ToSet(at) = LinesOf(f) /\ func_bodies[f][j] = listing[at[j]]
  BY DEF LinesAt, ToSet
<1>2. /\ func_start_va[f] \in Nat /\ IsTitle(listing[func_start_va[f]])
      /\ LinesOf(f) \subseteq DOMAIN listing /\ \A i \in InsnsOf(f) : func_start_va[f] < i
  BY LinesFact
<1>3. LineShape(at[j], listing[at[j]])
  BY <1>1, <1>2 DEF ParserInv, ListInv
<1> DEFINE l == Len(listing[at[j]])
<1>4. DOMAIN at = 1 .. Len(at) /\ Len(at) \in Nat /\ \A i \in DOMAIN at : at[i] \in Nat
  BY LenProperties, ElementOfSeq
<1>5. at[j] \in InsnsOf(f) => l >= 3
  BY DEF ParserInv, InsnsLong
<1>6. at[j] = func_start_va[f] => l = 2
  BY <1>2 DEF IsTitle
<1>7. ASSUME j # 1 PROVE at[j] # func_start_va[f]
  <2>1. 1 \in DOMAIN at /\ 1 < j
    BY <1>4, <1>7
  <2>2. at[1] < at[j]
    BY <2>1 DEF LinesAt, Increasing
  <2>3. at[1] \in LinesOf(f)
    BY <1>1, <2>1 DEF ToSet
  <2>4. func_start_va[f] <= at[1]
    BY <1>2, <1>4, <2>1, <2>3 DEF LinesOf
  <2> QED BY <1>2, <1>4, <2>1, <2>2, <2>4
<1>8. at[j] \in InsnsOf(f) \/ at[j] = func_start_va[f]
  BY <1>1 DEF LinesOf
<1>9. l \in 1 .. 4
  BY <1>3 DEF LineShape
<1> HIDE DEF l
<1>10. l >= 2 /\ (j # 1 => l >= 3)
  BY <1>5, <1>6, <1>7, <1>8, <1>9
<1> QED BY <1>1, <1>3, <1>4, <1>10 DEF l

\* The lines that are long enough, those that are hit, and what has been
\* found after n lines.
Long(at, needed) == {i \in ToSet(at) : Len(listing[i]) >= needed}
OddAt(at, needed, i) == Odd(Since(ToSet(at), Long(at, needed), i))
Hit(at, needed, op, i) == ~ OddAt(at, needed, i) /\ i \in Long(at, needed) /\ listing[i][3] = [op |-> op]
HitUpTo(at, needed, op, n) == {at[j] : j \in {k \in 1 .. n : Hit(at, needed, op, at[k])}}
Reading(x, at, body, needed, op, n) ==
  /\ Finds(x.vas, HitUpTo(at, needed, op, n))
  /\ Len(x.words) \in Nat
  /\ n < Len(at) =>
       IF OddAt(at, needed, at[n + 1]) THEN n # 0 /\ x.words = body[n] /\ at[n] \notin Long(at, needed)
       ELSE x.words = <<>> \/ Len(x.words) >= needed

(* One more line that is hit is found, and no other.                       *)
LEMMA HitNext ==
  ASSUME NEW at, NEW needed, NEW op, NEW n \in Nat
  PROVE  HitUpTo(at, needed, op, n + 1) =
           HitUpTo(at, needed, op, n) \union {i \in {at[n + 1]} : Hit(at, needed, op, i)}
<1>1. \A k : k \in 1 .. n + 1 <=> k \in 1 .. n \/ k = n + 1
  OBVIOUS
<1> QED BY <1>1 DEF HitUpTo

(* One more line is read.                                                  *)
LEMMA ReadingNext ==
  ASSUME ParserInv, NEW f \in DOMAIN func_bodies, NEW at \in Seq(Nat), LinesAt(at, f),
         NEW needed, NEW op, NEW csrs, Asks(needed, op, csrs),
         NEW n \in Nat, n < Len(at), NEW x, Reading(x, at, func_bodies[f], needed, op, n)
  PROVE  Reading(ReadStep(x, func_bodies[f][n + 1], needed, op, csrs), at, func_bodies[f], needed, op, n + 1)
<1> DEFINE N == Len(at)
           body == func_bodies[f]
           line == body[n + 1]
           i == at[n + 1]
           words == Read(x.words, line, needed)
           y == ReadStep(x, line, needed, op, csrs)
           l == Len(line)
           w == Len(words)
<1>1. N \in Nat /\ DOMAIN at = 1 .. N /\ n + 1 \in DOMAIN at
  BY LenProperties
<1>2. /\ i \in Nat /\ i \in ToSet(at) /\ line = listing[i] /\ LineShape(i, line) /\ l >= 2
      /\ n + 1 # 1 => l >= 3
  BY <1>1, BodyLines
<1>3. l \in 1 .. 4 /\ (needed = 3 \/ needed = 4) /\ line \in Seq(Words)
  BY <1>2 DEF LineShape, Asks
<1>4. i \in Long(at, needed) <=> l >= needed
  BY <1>2 DEF Long
<1>5. /\ Finds(x.vas, HitUpTo(at, needed, op, n)) /\ Len(x.words) \in Nat
      /\ IF OddAt(at, needed, i) THEN n # 0 /\ x.words = body[n] /\ at[n] \notin Long(at, needed)
         ELSE x.words = <<>> \/ Len(x.words) >= needed
  BY DEF Reading
<1>6. y = [words |-> words, vas |-> IF w >= needed /\ Wanted(words, op, csrs) THEN Append(x.vas, words[1].va) ELSE x.vas]
  BY DEF ReadStep
<1>7. y.words = words /\ y.vas = IF w >= needed /\ Wanted(words, op, csrs) THEN Append(x.vas, words[1].va) ELSE x.vas
  BY <1>6
<1>8. ASSUME n + 1 < N
      PROVE  OddAt(at, needed, at[(n + 1) + 1]) <=> i \notin Long(at, needed) /\ ~ OddAt(at, needed, i)
  <2>1. n + 1 \in Nat /\ (n + 1) + 1 \in DOMAIN at
    BY <1>1, <1>8
  <2>2. Long(at, needed) \in SUBSET ToSet(at) /\ Increasing(at)
    BY DEF Long, LinesAt
  <2> QED BY <1>1, <2>1, <2>2, OddNext DEF OddAt
<1>9. Hit(at, needed, op, i) <=> ~ OddAt(at, needed, i) /\ l >= needed /\ line[3] = [op |-> op]
  BY <1>2, <1>4 DEF Hit
<1>10. HitUpTo(at, needed, op, n + 1) = HitUpTo(at, needed, op, n) \union {k \in {i} : Hit(at, needed, op, k)}
  BY HitNext
<1> DEFINE Ready == n + 1 < N => IF OddAt(at, needed, at[(n + 1) + 1]) THEN words = line /\ i \notin Long(at, needed)
                                 ELSE words = <<>> \/ w >= needed
           Found1 == Finds(y.vas, HitUpTo(at, needed, op, n + 1))
           Goal == Reading(y, at, body, needed, op, n + 1)
<1>11. Found1 /\ w \in Nat /\ Ready => Goal
  <2>1. n + 1 # 0
    OBVIOUS
  <2> QED BY <1>7, <2>1 DEF Reading
<1> HIDE DEF y, i, Ready, Found1, Goal
<1>12. ASSUME OddAt(at, needed, i) PROVE Goal
  <2> DEFINE a == body[n]
  <2>1. n \in DOMAIN at /\ n # 0 /\ n + 1 # 1 /\ x.words = a /\ at[n] \notin Long(at, needed)
    BY <1>1, <1>5, <1>12
  <2>2. at[n] \in Nat /\ at[n] \in ToSet(at) /\ a = listing[at[n]] /\ LineShape(at[n], a) /\ Len(a) >= 2
    BY <2>1, BodyLines
  <2>3. ~ (Len(a) >= needed)
    BY <2>1, <2>2 DEF Long
  <2>4. words = a \o line
    <3> DEFINE k == Len(a)
    <3>1. k \in 1 .. 4
      BY <2>2 DEF LineShape
    <3>2. k < needed
      <4>1. ~ (k >= needed)
        BY <2>3
      <4> HIDE DEF k
      <4> QED BY <1>3, <3>1, <4>1
    <3> QED BY <2>1, <3>2 DEF Read
  <2> HIDE DEF a, words
  <2>5. Len(a \o line) >= needed /\ ~ Wanted(a \o line, op, csrs)
    BY <1>2, <2>1, <2>2, <2>3, WantedJoined
  <2>6. w >= needed /\ ~ Wanted(words, op, csrs)
    BY <2>4, <2>5
  <2>7. words \in Seq(Words)
    BY <1>3, <2>2, <2>4, ConcatProperties DEF LineShape
  <2>8. w \in Nat
    BY <2>7, LenProperties
  <2>9. y.vas = x.vas /\ HitUpTo(at, needed, op, n + 1) = HitUpTo(at, needed, op, n)
    BY <1>7, <1>9, <1>10, <1>12, <2>6
  <2>10. n + 1 < N => ~ OddAt(at, needed, at[(n + 1) + 1])
    BY <1>8, <1>12
  <2>11. Found1
    BY <1>5, <2>9 DEF Found1
  <2>12. Ready
    BY <2>6, <2>10 DEF Ready
  <2> QED BY <1>11, <2>8, <2>11, <2>12
<1>13. ASSUME ~ OddAt(at, needed, i) PROVE Goal
  <2>1. words = line
    <3>1. CASE x.words = <<>>
      <4>1. <<>> \o line = line
        BY <1>3, ConcatEmptySeq
      <4>2. Len(<<>>) < needed
        <5>1. Len(<<>>) = 0
          OBVIOUS
        <5> QED BY <1>3, <5>1
      <4> QED BY <3>1, <4>1, <4>2 DEF Read
    <3>2. CASE Len(x.words) >= needed
      <4> DEFINE k == Len(x.words)
      <4>1. k \in Nat /\ k >= needed
        BY <1>5, <3>2
      <4>2. ~ (k < needed)
        <5> HIDE DEF k
        <5> QED BY <1>3, <4>1
      <4> QED BY <4>2 DEF Read
    <3> QED BY <1>5, <1>13, <3>1, <3>2
  <2>2. w = l
    BY <2>1
  <2> HIDE DEF words
  <2>3. CASE i \notin Long(at, needed)
    <3>1. ~ (w >= needed) /\ w \in Nat
      BY <1>3, <1>4, <2>2, <2>3
    <3>2. y.vas = x.vas /\ HitUpTo(at, needed, op, n + 1) = HitUpTo(at, needed, op, n)
      BY <1>4, <1>7, <1>9, <1>10, <2>3, <3>1
    <3>3. n + 1 < N => OddAt(at, needed, at[(n + 1) + 1])
      BY <1>8, <1>13, <2>3
    <3>4. Found1
      BY <1>5, <3>2 DEF Found1
    <3>5. Ready
      BY <2>1, <2>3, <3>3 DEF Ready
    <3> QED BY <1>11, <3>1, <3>4, <3>5
  <2>4. CASE i \in Long(at, needed)
    <3>1. w >= needed /\ l >= needed /\ w \in Nat
      BY <1>3, <1>4, <2>2, <2>4
    <3>2. l >= 3
      <4>1. l >= needed
        BY <3>1
      <4> HIDE DEF l
      <4> QED BY <1>3, <4>1
    <3>3. Wanted(words, op, csrs) <=> line[3] = [op |-> op]
      BY <1>2, <2>1, <3>1, <3>2, WantedLine
    <3>4. Finds(y.vas, HitUpTo(at, needed, op, n + 1))
      <4>1. CASE line[3] = [op |-> op]
        <5>1. y.vas = Append(x.vas, i)
          <6>1. l # 1
            <7> HIDE DEF l
            <7> QED BY <1>3, <3>2
          <6>2. words[1] = [va |-> i]
            BY <1>2, <2>1, <6>1 DEF LineShape
          <6> QED BY <1>7, <3>1, <3>3, <4>1, <6>2
        <5>2. HitUpTo(at, needed, op, n + 1) = HitUpTo(at, needed, op, n) \union {i}
          BY <1>9, <1>10, <1>13, <3>1, <4>1
        <5>3. \A v \in ToSet(x.vas) : v < i
          <6> SUFFICES ASSUME NEW v \in HitUpTo(at, needed, op, n) PROVE v < i
            BY <1>5 DEF Finds
          <6>1. PICK j \in 1 .. n : v = at[j]
            BY DEF HitUpTo
          <6>2. j \in DOMAIN at /\ j < n + 1
            BY <1>1, <6>1
          <6> QED BY <1>1, <6>1, <6>2 DEF LinesAt, Increasing, i
        <5>4. Longer(Append(x.vas, i), x.vas, i)
          BY <1>2, <1>5, <5>3, IncreasingAppend DEF Finds
        <5> QED BY <1>5, <5>1, <5>2, <5>4 DEF Finds, Longer
      <4>2. CASE line[3] # [op |-> op]
        <5>1. y.vas = x.vas /\ HitUpTo(at, needed, op, n + 1) = HitUpTo(at, needed, op, n)
          BY <1>7, <1>9, <1>10, <3>3, <4>2
        <5> QED BY <1>5, <5>1
      <4> QED BY <4>1, <4>2
    <3>5. n + 1 < N => ~ OddAt(at, needed, at[(n + 1) + 1])
      BY <1>8, <2>4
    <3>6. Found1
      BY <3>4 DEF Found1
    <3>7. Ready
      BY <3>1, <3>5 DEF Ready
    <3> QED BY <1>11, <3>1, <3>6, <3>7
  <2> QED BY <2>3, <2>4
<1>14. Goal
  BY <1>12, <1>13
<1> QED BY <1>14 DEF Goal, y

(* The first title is the least.                                           *)
LEMMA FirstTitle ==
  ASSUME ParserInv, NEW f \in DOMAIN func_bodies
  PROVE  Min(Titles(f)) = func_start_va[f] /\ Titles(f) # {}
<1>1. Titles(f) \in SUBSET Nat
  BY ListFact DEF ParserInv, Titles
<1>2. func_start_va[f] \in Titles(f) /\ \A t \in Titles(f) : func_start_va[f] <= t
  BY DEF ParserInv, StartInv
<1> QED BY <1>1, <1>2, MinIs

\* How many lines that are too short come right before an instruction, down
\* to the first title.
ShortBefore(f, i, needed) ==
  LET lines == InsnsOf(f) \union {Min(Titles(f))}
      long == {j \in lines : j < i /\ Len(listing[j]) >= needed}
  IN  Cardinality({j \in lines : j < i /\ \A k \in long : j > k})
Seen(f, op, needed) == {i \in Doing(f, op) : ShortBefore(f, i, needed) % 2 = 0}

(* The short lines before an instruction are those since the last long     *)
(* one.                                                                    *)
LEMMA ShortIsOdd ==
  ASSUME ParserInv, NEW f \in DOMAIN func_bodies, NEW at \in Seq(Nat), LinesAt(at, f), NEW needed, NEW i \in Nat
  PROVE  ShortBefore(f, i, needed) % 2 = 0 <=> ~ OddAt(at, needed, i)
<1> DEFINE lines == ToSet(at)
           before == Since(lines, Long(at, needed), i)
           c == Cardinality(before)
<1>1. InsnsOf(f) \union {Min(Titles(f))} = lines
  BY FirstTitle DEF LinesAt, LinesOf
<1>2. ShortBefore(f, i, needed) = Cardinality({j \in lines : j < i /\ \A k \in {k \in lines : k < i /\ Len(listing[k]) >= needed} : j > k})
  BY <1>1 DEF ShortBefore
<1>3. \A m \in DOMAIN at : at[m] \in Nat
  BY LenProperties, ElementOfSeq
<1>4. lines \in SUBSET Nat
  BY <1>3 DEF ToSet
<1> HIDE DEF lines
<1>5. {j \in lines : j < i /\ \A k \in {k \in lines : k < i /\ Len(listing[k]) >= needed} : j > k} = before
  <2>1. Long(at, needed) = {k \in lines : Len(listing[k]) >= needed}
    BY DEF Long, lines
  <2>2. ASSUME NEW j \in lines
        PROVE  (\A k \in {k \in lines : k < i /\ Len(listing[k]) >= needed} : j > k)
                 <=> \A k \in Long(at, needed) : k < i => k < j
    <3>1. \A k \in lines : j > k <=> k < j
      BY <1>4
    <3> QED BY <2>1, <3>1
  <2> QED BY <2>2 DEF Since
<1>6. ShortBefore(f, i, needed) = c
  BY <1>2, <1>5
<1>7. c \in Nat
  BY <1>4, SinceFinite
<1>8. OddAt(at, needed, i) <=> c % 2 = 1
  BY DEF OddAt, Odd, lines
<1> HIDE DEF c
<1>9. c % 2 = 0 <=> ~ (c % 2 = 1)
  BY <1>7
<1> QED BY <1>6, <1>8, <1>9

(* What is found is what is there, but for what comes after an odd number  *)
(* of lines that are too short: the vector of words is not cleared then.   *)
LEMMA FoundSeen ==
  ASSUME ParserInv, NEW f \in DOMAIN func_bodies, NEW needed, NEW op, NEW csrs, Asks(needed, op, csrs)
  PROVE  Finds(Found(f, needed, op, csrs), Seen(f, op, needed))
<1> DEFINE body == func_bodies[f]
           N == Len(body)
<1>1. body \in Seq(Seq(Words))
  BY DEF ParserInv, BodyInv
<1>2. PICK at \in Seq(Nat) : LinesAt(at, f)
  BY DEF ParserInv, BodyInv
<1>3. PICK r : Reads(r, body, needed, op, csrs) /\ Found(f, needed, op, csrs) = r[N].vas
  BY <1>1, FoundReads
<1>4. N \in Nat /\ N = Len(at) /\ DOMAIN at = 1 .. N
  BY <1>1, <1>2, LenProperties DEF LinesAt
<1> DEFINE Good == {n \in Nat : n <= N => Reading(r[n], at, body, needed, op, n)}
<1>5. 0 \in Good
  <2>1. r[0].words = <<>> /\ r[0].vas = <<>>
    BY <1>3 DEF Reads
  <2>2. HitUpTo(at, needed, op, 0) = {}
    BY DEF HitUpTo
  <2>3. Finds(<<>>, {})
    <3>1. <<>> \in Seq(Nat) /\ DOMAIN <<>> = {}
      OBVIOUS
    <3> QED BY <3>1 DEF Finds, Increasing, ToSet
  <2>4. Len(<<>>) \in Nat
    OBVIOUS
  <2>5. 0 < Len(at) => ~ OddAt(at, needed, at[0 + 1])
    <3> SUFFICES ASSUME 0 < N PROVE ~ OddAt(at, needed, at[1])
      BY <1>4
    <3>1. 1 \in DOMAIN at /\ Increasing(at)
      BY <1>2, <1>4 DEF LinesAt
    <3> QED BY <1>2, <3>1, OddFirst DEF OddAt
  <2>6. Reading(r[0], at, body, needed, op, 0)
    BY <2>1, <2>2, <2>3, <2>4, <2>5 DEF Reading
  <2> QED BY <2>6
<1>6. ASSUME NEW n \in Good PROVE n + 1 \in Good
  <2> SUFFICES ASSUME n + 1 <= N PROVE Reading(r[n + 1], at, body, needed, op, n + 1)
    OBVIOUS
  <2>1. n \in Nat /\ n < Len(at) /\ n + 1 \in 1 .. N /\ (n + 1) - 1 = n /\ Reading(r[n], at, body, needed, op, n)
    BY <1>4
  <2>2. r[n + 1] = ReadStep(r[n], body[n + 1], needed, op, csrs)
    BY <1>3, <2>1 DEF Reads
  <2>3. Reading(ReadStep(r[n], body[n + 1], needed, op, csrs), at, body, needed, op, n + 1)
    BY <1>2, <2>1, ReadingNext
  <2> QED BY <2>2, <2>3
<1>7. Finds(r[N].vas, HitUpTo(at, needed, op, N))
  <2>1. Good \in SUBSET Nat
    OBVIOUS
  <2> HIDE DEF Good
  <2>2. Good = Nat
    BY <1>5, <1>6, <2>1, SetInduction
  <2>3. Reading(r[N], at, body, needed, op, N)
    BY <1>4, <2>2 DEF Good
  <2> QED BY <2>3 DEF Reading
<1>8. HitUpTo(at, needed, op, N) = Seen(f, op, needed)
  <2>1. ASSUME NEW j \in 1 .. N, Hit(at, needed, op, at[j]) PROVE at[j] \in Seen(f, op, needed)
    <3>1. /\ at[j] \in Nat /\ at[j] \in LinesOf(f) /\ LineShape(at[j], listing[at[j]])
          /\ listing[at[j]][3] = [op |-> op] /\ ~ OddAt(at, needed, at[j]) /\ Len(listing[at[j]]) >= needed
      BY <1>2, <1>4, <2>1, BodyLines DEF Hit, Long, LinesAt
    <3>2. at[j] # func_start_va[f]
      <4> SUFFICES ASSUME at[j] = func_start_va[f] PROVE FALSE
        OBVIOUS
      <4> DEFINE l == Len(listing[at[j]])
      <4>1. l = 2
        BY LinesFact DEF IsTitle
      <4>2. l >= needed /\ (needed = 3 \/ needed = 4)
        BY <3>1 DEF Asks
      <4> HIDE DEF l
      <4> QED BY <4>1, <4>2
    <3>3. at[j] \in InsnsOf(f)
      BY <3>1, <3>2 DEF LinesOf
    <3>4. ShortBefore(f, at[j], needed) % 2 = 0
      BY <1>2, <3>1, ShortIsOdd
    <3> QED BY <3>1, <3>3, <3>4 DEF Seen, Doing
  <2>2. ASSUME NEW i \in Seen(f, op, needed) PROVE \E j \in 1 .. N : at[j] = i /\ Hit(at, needed, op, i)
    <3>1. i \in InsnsOf(f) /\ listing[i][3] = [op |-> op] /\ ShortBefore(f, i, needed) % 2 = 0
      BY DEF Seen, Doing
    <3>2. i \in ToSet(at)
      BY <1>2, <3>1 DEF LinesAt, LinesOf
    <3>3. PICK j \in 1 .. N : at[j] = i
      BY <1>4, <3>2 DEF ToSet
    <3>4. i \in Nat /\ LineShape(i, listing[i])
      BY <1>2, <1>4, <3>3, BodyLines
    <3>5. ~ OddAt(at, needed, i)
      BY <1>2, <3>1, <3>4, ShortIsOdd
    <3>6. Len(listing[i]) >= 3
      BY <3>1 DEF ParserInv, InsnsLong
    <3>7. Len(listing[i]) >= needed
      BY <3>1, <3>4, <3>6, WantedLine
    <3> QED BY <3>1, <3>2, <3>3, <3>5, <3>7 DEF Hit, Long
  <2>3. ASSUME NEW i \in HitUpTo(at, needed, op, N) PROVE i \in Seen(f, op, needed)
    BY <2>1, <2>3 DEF HitUpTo
  <2>4. ASSUME NEW i \in Seen(f, op, needed) PROVE i \in HitUpTo(at, needed, op, N)
    <3>1. PICK j \in 1 .. N : at[j] = i /\ Hit(at, needed, op, i)
      BY <2>2, <2>4
    <3> QED BY <3>1 DEF HitUpTo
  <2> QED BY <2>3, <2>4
<1> QED BY <1>3, <1>7, <1>8

(* An instruction right behind a line long enough is seen.                 *)
LEMMA SureSeen ==
  ASSUME ParserInv, NEW f \in DOMAIN func_bodies, NEW needed, NEW op, NEW csrs, Asks(needed, op, csrs)
  PROVE  Sure(f, op, needed) \subseteq Seen(f, op, needed) /\ Seen(f, op, needed) \subseteq Doing(f, op)
<1>1. ASSUME NEW i \in Sure(f, op, needed) PROVE i \in Seen(f, op, needed)
  <2>1. i \in Doing(f, op) /\ i \in InsnsOf(f) /\ Len(listing[i - 1]) >= needed /\ (needed = 3 \/ needed = 4)
    BY DEF Sure, Doing, Asks
  <2>2. PICK t \in Titles(f) : Within(t, i)
    BY <2>1 DEF InsnsOf
  <2>3. DOMAIN listing = 1 .. Len(listing) /\ Len(listing) \in Nat
    BY LenProperties DEF ParserInv
  <2>4. t \in 1 .. Len(listing) /\ i \in 1 .. Len(listing) /\ t < i /\ Len(listing[t]) = 2
    BY <2>1, <2>2, <2>3 DEF Titles, IsTitle, InsnsOf, Within
  <2>5. t # i - 1
    <3> SUFFICES ASSUME t = i - 1 PROVE FALSE
      OBVIOUS
    <3> QED BY <2>1, <2>4
  <2>6. t < i - 1 /\ i - 1 \in DOMAIN listing /\ i - 1 < i
    BY <2>3, <2>4, <2>5
  <2>7. Within(t, i - 1)
    BY <2>2, <2>3, <2>4, <2>6 DEF Within
  <2>8. i - 1 \in InsnsOf(f)
    BY <2>2, <2>6, <2>7 DEF InsnsOf
  <2> DEFINE lines == InsnsOf(f) \union {Min(Titles(f))}
             long == {j \in lines : j < i /\ Len(listing[j]) >= needed}
             short == {j \in lines : j < i /\ \A k \in long : j > k}
  <2>9. i - 1 \in long
    BY <2>1, <2>6, <2>8
  <2>10. lines \subseteq Nat
    <3>1. InsnsOf(f) \subseteq Nat
      BY <2>3 DEF InsnsOf
    <3>2. Titles(f) \subseteq Nat
      BY <2>3 DEF Titles
    <3>3. func_start_va[f] \in Titles(f)
      BY DEF ParserInv, StartInv
    <3>4. Min(Titles(f)) = func_start_va[f]
      BY FirstTitle
    <3>5. Min(Titles(f)) \in Nat
      BY <3>2, <3>3, <3>4
    <3> QED BY <3>1, <3>5
  <2> HIDE DEF lines, long
  <2>11. short = {}
    <3> SUFFICES ASSUME NEW j \in short PROVE FALSE
      OBVIOUS
    <3>1. j \in Nat /\ j < i /\ j > i - 1
      BY <2>9, <2>10
    <3> QED BY <2>4, <3>1
  <2>12. ShortBefore(f, i, needed) = Cardinality(short)
    BY DEF ShortBefore, lines, long
  <2>13. ShortBefore(f, i, needed) = 0
    BY <2>11, <2>12, FS_EmptySet
  <2> QED BY <2>1, <2>13 DEF Seen
<1> QED BY <1>1 DEF Seen

(* The one found is the only one there is.                                 *)
LEMMA OnlyOne ==
  ASSUME NEW vas, NEW set, Finds(vas, set)
  PROVE  /\ Len(vas) = 1 <=> Cardinality(set) = 1
         /\ Len(vas) = 1 => vas[1] = Max(set)
<1> DEFINE N == Len(vas)
<1>1. vas \in Seq(Nat) /\ Increasing(vas) /\ ToSet(vas) = set /\ N \in Nat /\ DOMAIN vas = 1 .. N
      /\ \A i \in 1 .. N : vas[i] \in Nat
  <2>1. vas \in Seq(Nat) /\ Increasing(vas) /\ ToSet(vas) = set
    BY DEF Finds
  <2> QED BY <2>1, LenProperties, ElementOfSeq
<1> HIDE DEF N
<1>2. ASSUME N = 1 PROVE set = {vas[1]} /\ vas[1] \in Nat
  BY <1>1, <1>2 DEF ToSet
<1>3. ASSUME N = 1 PROVE Cardinality(set) = 1 /\ vas[1] = Max(set)
  <2>1. set = {vas[1]} /\ vas[1] \in Nat
    BY <1>2, <1>3
  <2>2. Cardinality({vas[1]}) = 1
    BY FS_Singleton
  <2> QED BY <2>1, <2>2, MaxOfOne
<1>4. ASSUME Cardinality(set) = 1 PROVE N = 1
  <2>1. set = ToSet(vas) /\ IsFiniteSet(set)
    <3>1. vas \in [1 .. N -> set] /\ \A x \in set : \E i \in 1 .. N : vas[i] = x
      <4>1. \A i \in 1 .. N : vas[i] \in set
        BY <1>1 DEF ToSet
      <4>2. vas \in [1 .. N -> Nat]
        BY <1>1, LenProperties DEF N
      <4>3. \A x \in set : \E i \in 1 .. N : vas[i] = x
        BY <1>1 DEF ToSet
      <4> QED BY <4>1, <4>2, <4>3
    <3>2. vas \in Surjection(1 .. N, set)
      BY <3>1 DEF Surjection
    <3>3. IsFiniteSet(1 .. N)
      BY <1>1, FS_Interval
    <3> QED BY <1>1, <3>2, <3>3, FS_Surjection
  <2>2. PICK x : set = {x}
    BY <1>4, <2>1, FS_Singleton
  <2>3. N # 0
    <3> SUFFICES ASSUME N = 0 PROVE FALSE
      OBVIOUS
    <3>1. set = {}
      BY <1>1 DEF ToSet
    <3> QED BY <2>2, <3>1
  <2>4. ~ (N >= 2)
    <3> SUFFICES ASSUME N >= 2 PROVE FALSE
      OBVIOUS
    <3>1. 1 \in DOMAIN vas /\ 2 \in DOMAIN vas
      BY <1>1
    <3>2. vas[1] < vas[2]
      BY <1>1, <3>1 DEF Increasing
    <3>3. vas[1] \in set /\ vas[2] \in set
      BY <1>1, <3>1 DEF ToSet
    <3> QED BY <1>1, <2>2, <3>1, <3>2, <3>3
  <2> QED BY <1>1, <2>3, <2>4
<1> QED BY <1>3, <1>4 DEF N

(* The registers: the argument's and the result's.                         *)
LEMMA RegistersFact ==
  ASSUME ParserInv, NEW f \in DOMAIN func_bodies
  PROVE  /\ func_args_reg(f, "a0") = "a0"
         /\ func_ret_reg(f) # Nowhere => \E i \in Doing(f, "mv") : listing[i][4].args[1] = "a0"
<1> DEFINE body == func_bodies[f]
<1>1. PICK at \in Seq(Nat) : LinesAt(at, f)
  BY DEF ParserInv, BodyInv
<1>2. body \in Seq(Seq(Words)) /\ Len(body) = Len(at)
  BY <1>1 DEF ParserInv, BodyInv, LinesAt
<1>3. DOMAIN body = DOMAIN at /\ DOMAIN body \in SUBSET Nat
  BY <1>2, LenProperties
<1>4. ASSUME NEW i \in DOMAIN body
      PROVE  /\ body[i] = listing[at[i]] /\ LineShape(at[i], body[i]) /\ at[i] \in LinesOf(f)
             /\ Len(body[i]) >= 4 => Operands(body[i])
  <2>1. body[i] = listing[at[i]] /\ LineShape(at[i], body[i]) /\ at[i] \in LinesOf(f)
    <3>1. i \in DOMAIN at
      BY <1>3
    <3>2. /\ func_bodies[f][i] = listing[at[i]] /\ LineShape(at[i], listing[at[i]])
          /\ at[i] \in ToSet(at)
      BY <1>1, <3>1, BodyLines
    <3> QED BY <1>1, <3>2 DEF LinesAt
  <2> DEFINE l == Len(body[i])
  <2>2. l \in 1 .. 4 /\ (l = 4 => Operands(body[i]))
    BY <2>1 DEF LineShape
  <2> HIDE DEF l
  <2>3. l >= 4 => Operands(body[i])
    BY <2>2
  <2> QED BY <2>1, <2>3 DEF l
<1>5. func_args_reg(f, "a0") = "a0"
  <2> DEFINE uses == {i \in DOMAIN body : Len(body[i]) >= 4 /\ "a0" \in ToSet(body[i][4].args)}
             first == body[Min(uses)]
  <2>1. func_args_reg(f, "a0") =
          IF uses = {} \/ first[3] # [op |-> "mv"] \/ first[4].args[1] = "a0" THEN "a0" ELSE first[4].args[2]
    BY DEF func_args_reg
  <2> SUFFICES ASSUME uses # {}, first[3] = [op |-> "mv"], first[4].args[1] # "a0" PROVE first[4].args[2] = "a0"
    BY <2>1
  <2>2. Min(uses) \in uses
    <3>1. uses \in SUBSET Nat
      BY <1>3
    <3> HIDE DEF uses
    <3> QED BY <3>1, LeastOf
  <2>3. Operands(first)
    BY <1>4, <2>2
  <2> HIDE DEF first
  <2>4. first[4] = [args |-> <<"a0", "s1">>] \/ first[4] = [args |-> <<"s1", "a0">>]
    BY <2>3, WordKinds DEF Operands
  <2>5. first[4] # [args |-> <<"a0", "s1">>]
    OBVIOUS
  <2>6. first[4].args = <<"s1", "a0">>
    BY <2>4, <2>5
  <2> QED BY <2>6
<1>6. ASSUME func_ret_reg(f) # Nowhere PROVE \E i \in Doing(f, "mv") : listing[i][4].args[1] = "a0"
  <2>1. PICK j \in DOMAIN body : Len(body[j]) >= 4 /\ body[j][3] = [op |-> "mv"] /\ body[j][4].args[1] = "a0"
    BY <1>6 DEF func_ret_reg
  <2>2. body[j] = listing[at[j]] /\ at[j] \in LinesOf(f)
    BY <1>4
  <2>3. at[j] # func_start_va[f]
    <3> SUFFICES ASSUME at[j] = func_start_va[f] PROVE FALSE
      OBVIOUS
    <3> DEFINE l == Len(body[j])
    <3>1. l = 2 /\ l >= 4
      BY <2>1, <2>2, LinesFact DEF IsTitle
    <3> HIDE DEF l
    <3> QED BY <3>1
  <2>4. at[j] \in Doing(f, "mv")
    BY <2>1, <2>2, <2>3 DEF LinesOf, Doing
  <2> QED BY <2>1, <2>2, <2>4
<1> QED BY <1>5, <1>6

(* The invariant gives the property.                                       *)
LEMMA ParserFinds == ASSUME ParserInv PROVE FunctionsFound
<1> SUFFICES ASSUME NEW f \in DOMAIN func_bodies
             PROVE  LET first == Min(Titles(f))
                        over == {i \in first + 1 .. Len(listing) : listing[i] = OneWord}
                        exits == ToSet(get_func_exits_va(f))
                    IN  /\ get_func_start_va(f) = first
                        /\ get_func_end_va(f) = IF over = {} THEN Nowhere ELSE Min(over) - 1
                        /\ Sure(f, "ret", 3) \subseteq exits /\ exits \subseteq Doing(f, "ret")
                        /\ \E writes \in SUBSET Doing(f, "csrw") :
                             /\ Sure(f, "csrw", 4) \subseteq writes
                             /\ get_func_csrw_va(f, "satp") =
                                  IF Cardinality(writes) = 1 THEN Max(writes) ELSE Nowhere
                        /\ func_args_reg(f, "a0") = "a0"
                        /\ func_ret_reg(f) # Nowhere => \E i \in Doing(f, "mv") : listing[i][4].args[1] = "a0"
  BY DEF FunctionsFound
<1> DEFINE first == Min(Titles(f))
           over == {i \in first + 1 .. Len(listing) : listing[i] = OneWord}
           exits == ToSet(get_func_exits_va(f))
           writes == Seen(f, "csrw", 4)
<1>1. first = func_start_va[f]
  BY FirstTitle
<1>2. get_func_start_va(f) = first
  BY <1>1 DEF get_func_start_va, ParserInv, KeysInv
<1>3. over = Over(f)
  BY <1>1, LinesFact, ListFact DEF Over, ParserInv
<1>4. get_func_end_va(f) = IF over = {} THEN Nowhere ELSE Min(over) - 1
  <2>1. CASE f \in DOMAIN func_end_va
    <3> DEFINE e == func_end_va[f]
    <3>1. e \in Nat /\ e + 1 \in over /\ \A i \in over : e < i
      BY <1>3, <2>1 DEF ParserInv, EndInv
    <3>2. over \in SUBSET Nat
      BY <1>3, ListFact DEF Over, ParserInv
    <3> HIDE DEF over, e
    <3>3. \A i \in over : e + 1 <= i
      BY <3>1, <3>2
    <3>4. Min(over) = e + 1
      BY <3>1, <3>2, <3>3, MinIs
    <3>5. e = Min(over) - 1 /\ over # {}
      BY <3>1, <3>4
    <3> QED BY <2>1, <3>5 DEF get_func_end_va, e
  <2>2. CASE f \notin DOMAIN func_end_va
    <3>1. over = {}
      BY <1>3, <2>2 DEF ParserInv, EndInv
    <3> QED BY <2>2, <3>1 DEF get_func_end_va
  <2> QED BY <2>1, <2>2
<1>5. Sure(f, "ret", 3) \subseteq exits /\ exits \subseteq Doing(f, "ret")
  <2>1. Asks(3, "ret", {})
    BY DEF Asks
  <2>2. Finds(Found(f, 3, "ret", {}), Seen(f, "ret", 3))
    BY <2>1, FoundSeen
  <2>3. exits = Seen(f, "ret", 3)
    BY <2>2 DEF Finds, get_func_exits_va
  <2> QED BY <2>1, <2>3, SureSeen
<1>6. get_func_csrw_va(f, "satp") = IF Cardinality(writes) = 1 THEN Max(writes) ELSE Nowhere
  <2> DEFINE vas == Found(f, 4, "csrw", {"satp"})
  <2>1. Asks(4, "csrw", {"satp"})
    BY DEF Asks
  <2>2. Finds(vas, writes)
    BY <2>1, FoundSeen
  <2>3. get_func_csrw_va(f, "satp") = IF Len(vas) = 1 THEN vas[1] ELSE Nowhere
    BY DEF get_func_csrw_va
  <2> HIDE DEF vas, writes
  <2>4. /\ Len(vas) = 1 <=> Cardinality(writes) = 1
        /\ Len(vas) = 1 => vas[1] = Max(writes)
    BY <2>2, OnlyOne
  <2> QED BY <2>3, <2>4
<1>7. writes \in SUBSET Doing(f, "csrw") /\ Sure(f, "csrw", 4) \subseteq writes
  <2>1. Asks(4, "csrw", {"satp"})
    BY DEF Asks
  <2> QED BY <2>1, SureSeen
<1>8. /\ func_args_reg(f, "a0") = "a0"
      /\ func_ret_reg(f) # Nowhere => \E i \in Doing(f, "mv") : listing[i][4].args[1] = "a0"
  BY RegistersFact
<1> HIDE DEF writes
<1>9. \E seen \in SUBSET Doing(f, "csrw") :
        /\ Sure(f, "csrw", 4) \subseteq seen
        /\ get_func_csrw_va(f, "satp") = IF Cardinality(seen) = 1 THEN Max(seen) ELSE Nowhere
  BY <1>6, <1>7
<1> HIDE DEF first, over, exits
<1> QED BY <1>2, <1>4, <1>5, <1>8, <1>9 DEF first, over, exits

(* The profiler is told the right addresses, whatever the listing.         *)
THEOREM ParserCorrect == ParserSpec => []FunctionsFound
<1>1. ParserInit => ParserInv
  BY ParserInitInv
<1>2. ParserInv /\ [ReadLine]_parserVars => ParserInv'
  BY ParserStep
<1>3. ParserInv => FunctionsFound
  BY ParserFinds
<1> QED BY <1>1, <1>2, <1>3, PTL DEF ParserSpec

-----------------------------------------------------------------------------
\* Picking elements of a sequence.

Picks(f, s, set) ==
  /\ f[0] = <<>>
  /\ \A n \in 1 .. Len(s) : f[n] = IF n \in set THEN Append(f[n - 1], s[n]) ELSE f[n - 1]

AllIn(s, set, Y) == \A n \in DOMAIN s : n \in set => s[n] \in Y

(* Of a sequence all elements are in its set.                              *)
LEMMA AllInSeq == ASSUME NEW X, NEW s \in Seq(X), NEW set PROVE AllIn(s, set, X)
<1>1. DOMAIN s = 1 .. Len(s) /\ \A i \in 1 .. Len(s) : s[i] \in X
  BY LenProperties, ElementOfSeq
<1> QED BY <1>1 DEF AllIn

(* What is picked is a sequence, built up element by element.              *)
LEMMA PickedBuilt ==
  ASSUME NEW X, NEW s \in Seq(X), NEW Y, NEW set, AllIn(s, set, Y)
  PROVE  \E f \in [0 .. Len(s) -> Seq(Y)] : Picks(f, s, set) /\ Picked(s, set) = f[Len(s)]
<1> DEFINE N == Len(s)
           step == [n \in 1 .. N |-> [x \in Seq(Y) |-> IF n \in set THEN Append(x, s[n]) ELSE x]]
<1>1. N \in Nat /\ \A n \in 1 .. N : n \in set => s[n] \in Y
  BY LenProperties DEF AllIn
<1>2. \A n \in 1 .. N : \A x \in Seq(Y) : step[n][x] = IF n \in set THEN Append(x, s[n]) ELSE x
  OBVIOUS
<1>3. \A n \in 1 .. N : \A x \in Seq(Y) : step[n][x] \in Seq(Y)
  BY <1>1, <1>2, AppendProperties
<1>4. <<>> \in Seq(Y)
  OBVIOUS
<1> HIDE DEF step
<1>5. PICK g \in [0 .. N -> Seq(Y)] : Iterates(g, <<>>, N, step)
  BY <1>1, <1>3, <1>4, RecursionExists
<1> DEFINE Is(h) == h = [n \in 0 .. N |-> IF n = 0 THEN <<>> ELSE IF n \in set THEN Append(h[n - 1], s[n]) ELSE h[n - 1]]
           f == CHOOSE h : Is(h)
<1>6. \A n \in 1 .. N : g[n] = IF n \in set THEN Append(g[n - 1], s[n]) ELSE g[n - 1]
  <2> SUFFICES ASSUME NEW n \in 1 .. N PROVE g[n] = IF n \in set THEN Append(g[n - 1], s[n]) ELSE g[n - 1]
    OBVIOUS
  <2> HIDE DEF N
  <2>1. n - 1 \in 0 .. N
    BY <1>1
  <2>2. g[n - 1] \in Seq(Y)
    BY <1>5, <2>1
  <2> QED BY <1>2, <1>5, <2>2 DEF Iterates
<1>7. Is(g)
  <2>1. ASSUME NEW n \in 0 .. N, n # 0 PROVE n \in 1 .. N
    BY <1>1, <2>1
  <2> QED BY <1>5, <1>6, <2>1 DEF Iterates
<1>8. Is(f)
  BY <1>7, Zenon
<1>9. Picked(s, set) = f[N]
  BY DEF Picked
<1> HIDE DEF f
<1>10. Picks(f, s, set)
  <2>1. 0 \in 0 .. N /\ \A n \in 1 .. N : n \in 0 .. N /\ n # 0
    BY <1>1
  <2> QED BY <1>8, <2>1 DEF Picks
<1>11. f = g
  <2>1. GoOnAlike(f, g, N)
    BY <1>5, <1>6, <1>10 DEF GoOnAlike, Picks, Iterates
  <2>2. Alike(f, g, N)
    BY <1>1, <2>1, RecursionAgrees
  <2>3. f = [n \in 0 .. N |-> f[n]] /\ g = [n \in 0 .. N |-> g[n]]
    BY <1>5, <1>8
  <2>4. \A n \in 0 .. N : f[n] = g[n]
    BY <2>2 DEF Alike
  <2> QED BY <2>3, <2>4
<1> QED BY <1>5, <1>9, <1>10, <1>11

(* Nothing can be picked from nothing,                                     *)
LEMMA PickedNone == ASSUME NEW set PROVE Picked(<<>>, set) = <<>>
<1>1. <<>> \in Seq({}) /\ Len(<<>>) = 0
  OBVIOUS
<1>2. AllIn(<<>>, set, {})
  BY DEF AllIn
<1>3. \E f \in [0 .. Len(<<>>) -> Seq({})] : Picks(f, <<>>, set) /\ Picked(<<>>, set) = f[Len(<<>>)]
  BY <1>1, <1>2, PickedBuilt, Zenon
<1>4. PICK f : Picks(f, <<>>, set) /\ Picked(<<>>, set) = f[0]
  BY <1>1, <1>3
<1> QED BY <1>4 DEF Picks

SamePositions(s, set, other) == \A n \in DOMAIN s : n \in set <=> n \in other

(* one more element is picked if its position is, and only the positions   *)
(* there are matter.                                                       *)
LEMMA PickedAppend ==
  ASSUME NEW X, NEW s \in Seq(X), NEW x \in X, NEW set, NEW other, SamePositions(s, set, other),
         NEW Y, AllIn(Append(s, x), set, Y)
  PROVE  /\ Picked(s, other) \in Seq(Y)
         /\ Picked(Append(s, x), set) =
              IF Len(s) + 1 \in set THEN Append(Picked(s, other), x) ELSE Picked(s, other)
<1> DEFINE N == Len(s)
           t == Append(s, x)
<1>1. /\ N \in Nat /\ DOMAIN s = 1 .. N /\ t \in Seq(X) /\ Len(t) = N + 1 /\ t[N + 1] = x
      /\ \A n \in 1 .. N : t[n] = s[n]
  BY LenProperties, AppendProperties
<1>2. PICK f \in [0 .. N -> Seq(Y)] : Picks(f, s, other) /\ Picked(s, other) = f[N]
  <2>1. AllIn(s, other, Y)
    <3>1. ASSUME NEW n \in DOMAIN s, n \in other PROVE s[n] \in Y
      <4>1. n \in set /\ n \in 1 .. N + 1 /\ t[n] = s[n]
        BY <1>1, <3>1 DEF SamePositions
      <4>2. DOMAIN t = 1 .. N + 1
        BY <1>1, LenProperties
      <4> QED BY <4>1, <4>2 DEF AllIn
    <3> QED BY <3>1 DEF AllIn
  <2> QED BY <2>1, PickedBuilt
<1> HIDE DEF t
<1>3. PICK g \in [0 .. N + 1 -> Seq(Y)] : Picks(g, t, set) /\ Picked(t, set) = g[N + 1]
  <2>1. \E g \in [0 .. Len(t) -> Seq(Y)] : Picks(g, t, set) /\ Picked(t, set) = g[Len(t)]
    BY <1>1, PickedBuilt DEF t
  <2> QED BY <1>1, <2>1
<1>4. Alike(f, g, N)
  <2>1. \A n \in 1 .. N : n \in 1 .. N + 1 /\ t[n] = s[n] /\ (n \in set <=> n \in other)
    BY <1>1 DEF SamePositions
  <2>2. f[0] = g[0] /\ \A n \in 1 .. N : f[n - 1] = g[n - 1] => f[n] = g[n]
    BY <1>1, <1>2, <1>3, <2>1 DEF Picks
  <2> HIDE DEF N
  <2>3. GoOnAlike(f, g, N)
    BY <2>2 DEF GoOnAlike
  <2> QED BY <1>1, <2>3, RecursionAgrees
<1>5. f[N] = g[N]
  BY <1>1, <1>4 DEF Alike
<1>6. g[N + 1] = IF N + 1 \in set THEN Append(g[N], x) ELSE g[N]
  <2>1. N + 1 \in 1 .. Len(t) /\ (N + 1) - 1 = N
    BY <1>1
  <2> QED BY <1>1, <1>3, <2>1 DEF Picks
<1>7. f[N] \in Seq(Y)
  BY <1>1
<1> QED BY <1>2, <1>3, <1>5, <1>6, <1>7 DEF t

-----------------------------------------------------------------------------
\* Stacks of labels, and what they are when merged.

Marks == [label : FunctionNames \union {MISC}, asm_sequence : BOOLEAN]
Merges(a, b) == a.label = b.label \/ (a.asm_sequence /\ b.asm_sequence)

\* A label more, which may take the place of the last.
Pushed(s, a) == IF s # <<>> /\ Merges(Last(s), a) THEN Append(Front(s), a) ELSE Append(s, a)

(* A sequence that is not empty is its front and its last element.         *)
LEMMA FrontLast ==
  ASSUME NEW X, NEW s \in Seq(X), s # <<>>
  PROVE  /\ Front(s) \in Seq(X) /\ Last(s) \in X /\ s = Append(Front(s), Last(s))
         /\ Len(Front(s)) = Len(s) - 1 /\ Len(s) \in Nat \ {0}
         /\ \A i \in 1 .. Len(s) - 1 : Front(s)[i] = s[i]
<1>1. Len(s) \in Nat \ {0}
  BY EmptySeq, LenProperties
<1>2. /\ Front(s) \in Seq(X) /\ Len(Front(s)) = Len(s) - 1
      /\ \A i \in 1 .. Len(s) - 1 : Front(s)[i] = s[i]
  <2>1. \A i \in 1 .. Len(s) - 1 : s[i] \in X
    BY <1>1, ElementOfSeq
  <2>2. 1 \in Int /\ Len(s) - 1 \in Int
    BY <1>1
  <2>3. /\ Front(s) \in Seq(X)
        /\ Len(Front(s)) = IF 1 <= Len(s) - 1 THEN Len(s) - 1 - 1 + 1 ELSE 0
        /\ \A i \in 1 .. Len(s) - 1 - 1 + 1 : Front(s)[i] = s[1 + i - 1]
    BY <2>1, <2>2, SubSeqProperties DEF Front
  <2>4. PICK n \in Nat : n = Len(s) - 1
    BY <1>1
  <2>5. \A i \in 1 .. n : i \in 1 .. n - 1 + 1 /\ 1 + i - 1 = i
    BY <2>4
  <2>6. (IF 1 <= n THEN n - 1 + 1 ELSE 0) = n
    BY <2>4
  <2> QED BY <2>3, <2>4, <2>5, <2>6
<1>3. Last(s) \in X
  BY <1>1, ElementOfSeq DEF Last
<1>4. s = Append(Front(s), Last(s))
  <2> DEFINE t == Append(Front(s), Last(s))
  <2>1. /\ t \in Seq(X) /\ Len(t) = Len(s)
        /\ \A i \in 1 .. Len(s) - 1 : t[i] = s[i]
        /\ t[Len(s)] = s[Len(s)]
    <3>1. /\ t \in Seq(X) /\ Len(t) = Len(Front(s)) + 1
          /\ \A i \in 1 .. Len(Front(s)) : t[i] = Front(s)[i]
          /\ t[Len(Front(s)) + 1] = Last(s)
      BY <1>2, <1>3, AppendProperties
    <3> HIDE DEF t
    <3>2. Len(Front(s)) + 1 = Len(s)
      BY <1>1, <1>2
    <3> QED BY <1>1, <1>2, <3>1, <3>2 DEF Last
  <2> HIDE DEF t
  <2>2. \A i \in 1 .. Len(s) : t[i] = s[i]
    BY <1>1, <2>1
  <2>3. t = s
    BY <2>1, <2>2, SeqEqual
  <2> QED BY <2>3 DEF t
<1> QED BY <1>1, <1>2, <1>3, <1>4

(* An element that is appended is the last, and what was before the front. *)
LEMMA AppendFront ==
  ASSUME NEW X, NEW s \in Seq(X), NEW x \in X
  PROVE  /\ Append(s, x) \in Seq(X) /\ Append(s, x) # <<>>
         /\ Last(Append(s, x)) = x /\ Front(Append(s, x)) = s
<1> DEFINE t == Append(s, x)
<1>1. t \in Seq(X) /\ t # <<>> /\ Len(t) = Len(s) + 1 /\ t[Len(s) + 1] = x
  BY AppendProperties
<1> HIDE DEF t
<1>2. Last(t) = x
  BY <1>1 DEF Last
<1>3. Front(t) \in Seq(X) /\ t = Append(Front(t), Last(t))
  BY <1>1, FrontLast
<1>4. Front(t) = s
  BY <1>2, <1>3, AppendInjective DEF t
<1> QED BY <1>1, <1>2, <1>4 DEF t

(* Merging is done label by label: each takes the place of one it is like. *)
LEMMA MergedAppend ==
  ASSUME NEW D, NEW s \in Seq(D), NEW a \in D
  PROVE  Merged(s) \in Seq(D) /\ Merged(Append(s, a)) = Pushed(Merged(s), a)
<1> DEFINE Ends(q) == {i \in DOMAIN q : ~ More(q, i)}
           t == Append(s, a)
           N == Len(s)
<1>1. /\ N \in Nat /\ DOMAIN s = 1 .. N /\ t \in Seq(D) /\ Len(t) = N + 1 /\ DOMAIN t = 1 .. N + 1
      /\ t[N + 1] = a /\ \A n \in 1 .. N : t[n] = s[n]
  BY LenProperties, AppendProperties
<1> HIDE DEF t
<1>2. N + 1 \in Ends(t)
  <2>1. ~ (N + 1 < Len(t)) /\ N + 1 \in DOMAIN t
    BY <1>1
  <2> QED BY <2>1 DEF More
<1>3. ASSUME NEW i \in DOMAIN s, i # N PROVE i \in Ends(t) <=> i \in Ends(s)
  <2>1. i \in 1 .. N /\ i + 1 \in 1 .. N /\ i < N /\ i < N + 1
    BY <1>1, <1>3
  <2>2. More(t, i) <=> More(s, i)
    BY <1>1, <2>1 DEF More
  <2> QED BY <1>1, <2>1, <2>2
<1> HIDE DEF Ends
<1>4. Merged(s) = Picked(s, Ends(s)) /\ Merged(t) = Picked(t, Ends(t))
  BY DEF Merged, Ends
<1>5. Picked(s, Ends(t)) \in Seq(D) /\ Merged(t) = Append(Picked(s, Ends(t)), a)
  <2>1. SamePositions(s, Ends(t), Ends(t))
    BY DEF SamePositions
  <2>3. AllIn(Append(s, a), Ends(t), D)
    BY <1>1, AllInSeq DEF t
  <2>2. /\ Picked(s, Ends(t)) \in Seq(D)
        /\ Picked(Append(s, a), Ends(t)) =
             IF Len(s) + 1 \in Ends(t) THEN Append(Picked(s, Ends(t)), a) ELSE Picked(s, Ends(t))
    BY <2>1, <2>3, PickedAppend
  <2> QED BY <1>2, <1>4, <2>2 DEF t
<1>6. Picked(s, Ends(s)) \in Seq(D)
  <2>1. SamePositions(s, Ends(s), Ends(s))
    BY DEF SamePositions
  <2>2. AllIn(Append(s, a), Ends(s), D)
    BY <1>1, AllInSeq DEF t
  <2> QED BY <2>1, <2>2, PickedAppend
<1>7. CASE s = <<>>
  <2>1. Merged(s) = <<>> /\ Picked(s, Ends(t)) = <<>>
    BY <1>4, <1>7, PickedNone
  <2> QED BY <1>4, <1>5, <1>6, <2>1 DEF Pushed, t
<1>8. CASE s # <<>>
  <2> DEFINE u == Front(s)
             x == Last(s)
  <2>1. u \in Seq(D) /\ x \in D /\ s = Append(u, x) /\ Len(u) + 1 = N /\ N \in 1 .. N /\ x = s[N]
    <3>1. /\ u \in Seq(D) /\ x \in D /\ s = Append(u, x)
          /\ Len(u) = N - 1 /\ N \in Nat \ {0}
      BY <1>8, FrontLast
    <3> QED BY <3>1 DEF Last
  <2> HIDE DEF u, x
  <2>2. SamePositions(u, Ends(s), Ends(s)) /\ SamePositions(u, Ends(t), Ends(s))
    <3>1. ASSUME NEW i \in DOMAIN u PROVE i \in DOMAIN s /\ i # N
      <4>1. DOMAIN u = 1 .. Len(u) /\ Len(u) \in Nat
        BY <2>1, LenProperties
      <4> HIDE DEF N
      <4>2. i \in 1 .. Len(u) /\ Len(u) + 1 = N
        BY <2>1, <4>1
      <4>3. i \in 1 .. N /\ i # N
        BY <4>1, <4>2
      <4> QED BY <1>1, <4>3
    <3> QED BY <1>3, <3>1 DEF SamePositions
  <2>3. Picked(s, Ends(s)) = IF N \in Ends(s) THEN Append(Picked(u, Ends(s)), x) ELSE Picked(u, Ends(s))
    <3>1. Picked(Append(u, x), Ends(s)) =
            IF Len(u) + 1 \in Ends(s) THEN Append(Picked(u, Ends(s)), x) ELSE Picked(u, Ends(s))
      <4>1. u \in Seq(D) /\ x \in D /\ AllIn(Append(u, x), Ends(s), D)
        BY <2>1, AllInSeq
      <4> QED BY <2>2, <4>1, PickedAppend
    <3> QED BY <2>1, <3>1
  <2>4. Picked(s, Ends(t)) = IF N \in Ends(t) THEN Append(Picked(u, Ends(s)), x) ELSE Picked(u, Ends(s))
    <3>1. Picked(Append(u, x), Ends(t)) =
            IF Len(u) + 1 \in Ends(t) THEN Append(Picked(u, Ends(s)), x) ELSE Picked(u, Ends(s))
      <4>1. u \in Seq(D) /\ x \in D /\ AllIn(Append(u, x), Ends(t), D)
        BY <2>1, AllInSeq
      <4> QED BY <2>2, <4>1, PickedAppend
    <3> QED BY <2>1, <3>1
  <2>5. Picked(u, Ends(s)) \in Seq(D)
    <3>1. u \in Seq(D) /\ x \in D /\ AllIn(Append(u, x), Ends(s), D)
      BY <2>1, AllInSeq
    <3> QED BY <2>2, <3>1, PickedAppend
  <2>6. N \in Ends(s)
    <3>1. ~ (N < Len(s)) /\ N \in DOMAIN s
      BY <1>1, <2>1
    <3> QED BY <3>1 DEF Ends, More
  <2>7. N \in Ends(t) <=> ~ Merges(x, a)
    <3>1. N < Len(t) /\ N \in DOMAIN t /\ t[N] = x /\ t[N + 1] = a
      BY <1>1, <2>1
    <3> QED BY <3>1 DEF Ends, More, Merges
  <2>8. Merged(s) = Append(Picked(u, Ends(s)), x)
    BY <1>4, <2>3, <2>6
  <2>9. Merged(s) \in Seq(D) /\ Merged(s) # <<>> /\ Last(Merged(s)) = x /\ Front(Merged(s)) = Picked(u, Ends(s))
    <3> DEFINE p == Picked(u, Ends(s))
    <3>1. p \in Seq(D) /\ x \in D
      BY <2>1, <2>5
    <3> HIDE DEF p
    <3>2. Append(p, x) \in Seq(D) /\ Append(p, x) # <<>> /\ Last(Append(p, x)) = x /\ Front(Append(p, x)) = p
      BY <3>1, AppendFront
    <3> QED BY <2>8, <3>2 DEF p
  <2>10. Picked(s, Ends(t)) = IF Merges(Last(Merged(s)), a) THEN Front(Merged(s)) ELSE Merged(s)
    BY <2>4, <2>7, <2>8, <2>9
  <2> QED BY <1>5, <2>9, <2>10 DEF Pushed, t
<1> QED BY <1>7, <1>8

-----------------------------------------------------------------------------
\* Subsequences.

\* into says where in t the elements of s are.
Embeds(into, s, t) ==
  /\ into \in [DOMAIN s -> DOMAIN t]
  /\ \A i \in DOMAIN s : s[i] = t[into[i]]
  /\ \A i, j \in DOMAIN s : i < j => into[i] < into[j]

(* A sequence is one of itself,                                            *)
LEMMA SubRefl == ASSUME NEW s PROVE IsSubsequence(s, s)
<1>1. Embeds([i \in DOMAIN s |-> i], s, s)
  BY DEF Embeds
<1> QED BY <1>1 DEF Embeds, IsSubsequence

(* whose elements are all somewhere in the longer;                         *)
LEMMA SubHas ==
  ASSUME NEW s, NEW t, IsSubsequence(s, t), NEW n \in DOMAIN s
  PROVE  \E i \in DOMAIN t : t[i] = s[n]
<1>1. PICK into : Embeds(into, s, t)
  BY DEF IsSubsequence, Embeds
<1>2. into[n] \in DOMAIN t /\ t[into[n]] = s[n]
  BY <1>1 DEF Embeds
<1> QED BY <1>2

(* it remains one when both get an element more,                           *)
LEMMA SubBoth ==
  ASSUME NEW D, NEW s \in Seq(D), NEW t \in Seq(D), NEW a \in D, IsSubsequence(s, t)
  PROVE  IsSubsequence(Append(s, a), Append(t, a))
<1> DEFINE n == Len(s)
           m == Len(t)
           more == Append(s, a)
           long == Append(t, a)
<1>1. PICK into : Embeds(into, s, t)
  BY DEF IsSubsequence, Embeds
<1>2. /\ n \in Nat /\ DOMAIN s = 1 .. n /\ m \in Nat /\ DOMAIN t = 1 .. m
      /\ DOMAIN more = 1 .. n + 1 /\ DOMAIN long = 1 .. m + 1
      /\ more[n + 1] = a /\ long[m + 1] = a
      /\ \A i \in 1 .. n : more[i] = s[i]
      /\ \A i \in 1 .. m : long[i] = t[i]
  BY LenProperties, AppendProperties
<1> HIDE DEF n, m, more, long
<1> DEFINE wider == [i \in DOMAIN more |-> IF i = n + 1 THEN m + 1 ELSE into[i]]
<1>3. \A i \in 1 .. n : into[i] \in 1 .. m /\ s[i] = t[into[i]]
  BY <1>1, <1>2 DEF Embeds
<1>4. wider \in [DOMAIN more -> DOMAIN long]
  BY <1>2, <1>3
<1>5. ASSUME NEW i \in DOMAIN more PROVE more[i] = long[wider[i]]
  <2>1. CASE i = n + 1
    BY <1>2, <2>1
  <2>2. CASE i # n + 1
    <3>1. i \in 1 .. n
      BY <1>2, <2>2
    <3> QED BY <1>2, <1>3, <2>2, <3>1
  <2> QED BY <2>1, <2>2
<1>6. ASSUME NEW i \in DOMAIN more, NEW j \in DOMAIN more, i < j PROVE wider[i] < wider[j]
  <2>1. i \in 1 .. n /\ i # n + 1 /\ wider[i] = into[i] /\ into[i] \in 1 .. m
    BY <1>2, <1>3, <1>6
  <2>2. CASE j = n + 1
    BY <1>2, <2>1, <2>2
  <2>3. CASE j # n + 1
    <3>1. j \in 1 .. n /\ wider[j] = into[j]
      BY <1>2, <2>3
    <3> QED BY <1>1, <1>2, <1>6, <2>1, <3>1 DEF Embeds
  <2> QED BY <2>2, <2>3
<1> HIDE DEF wider
<1>7. Embeds(wider, more, long)
  BY <1>4, <1>5, <1>6 DEF Embeds
<1> QED BY <1>7 DEF Embeds, IsSubsequence, more, long

(* and when only the longer does;                                          *)
LEMMA SubLonger ==
  ASSUME NEW D, NEW s \in Seq(D), NEW t \in Seq(D), NEW a \in D, IsSubsequence(s, t)
  PROVE  IsSubsequence(s, Append(t, a))
<1> DEFINE m == Len(t)
           long == Append(t, a)
<1>1. PICK into : Embeds(into, s, t)
  BY DEF IsSubsequence, Embeds
<1>2. /\ m \in Nat /\ DOMAIN t = 1 .. m /\ DOMAIN long = 1 .. m + 1
      /\ \A i \in 1 .. m : long[i] = t[i]
  BY LenProperties, AppendProperties
<1> HIDE DEF m, long
<1>3. \A i \in DOMAIN t : i \in DOMAIN long /\ long[i] = t[i]
  BY <1>2
<1>4. Embeds(into, s, long)
  BY <1>1, <1>3 DEF Embeds
<1> QED BY <1>4 DEF Embeds, IsSubsequence, long

(* what is not its last element is one of the front;                       *)
LEMMA SubFront ==
  ASSUME NEW D, NEW s \in Seq(D), NEW t \in Seq(D), NEW a \in D, IsSubsequence(Append(s, a), t)
  PROVE  t # <<>> /\ IsSubsequence(s, Front(t))
<1> DEFINE n == Len(s)
           m == Len(t)
           more == Append(s, a)
<1>1. PICK into : Embeds(into, more, t)
  BY DEF IsSubsequence, Embeds
<1>2. /\ n \in Nat /\ DOMAIN s = 1 .. n /\ m \in Nat /\ DOMAIN t = 1 .. m
      /\ DOMAIN more = 1 .. n + 1 /\ \A i \in 1 .. n : more[i] = s[i]
  BY LenProperties, AppendProperties
<1> HIDE DEF m, n, more
<1>3. into[n + 1] \in 1 .. m
  BY <1>1, <1>2 DEF Embeds
<1>4. t # <<>>
  BY <1>2, <1>3
<1>5. /\ Front(t) \in Seq(D) /\ Len(Front(t)) = m - 1
      /\ \A i \in 1 .. m - 1 : Front(t)[i] = t[i]
  BY <1>4, FrontLast DEF m
<1>6. DOMAIN Front(t) = 1 .. m - 1
  BY <1>5, LenProperties
<1>7. \A i \in 1 .. n : into[i] \in 1 .. m - 1 /\ more[i] = t[into[i]]
  <2> SUFFICES ASSUME NEW i \in 1 .. n PROVE into[i] \in 1 .. m - 1 /\ more[i] = t[into[i]]
    OBVIOUS
  <2>1. i \in DOMAIN more /\ n + 1 \in DOMAIN more /\ i < n + 1
    BY <1>2
  <2>2. into[i] \in 1 .. m /\ into[i] < into[n + 1] /\ more[i] = t[into[i]]
    BY <1>1, <1>2, <2>1 DEF Embeds
  <2> QED BY <1>2, <1>3, <2>2
<1> DEFINE less == [i \in DOMAIN s |-> into[i]]
<1>8. Embeds(less, s, Front(t))
  <2>1. less \in [DOMAIN s -> DOMAIN Front(t)]
    BY <1>2, <1>6, <1>7
  <2>2. \A i \in DOMAIN s : s[i] = Front(t)[less[i]]
    BY <1>2, <1>5, <1>7
  <2>3. \A i, j \in DOMAIN s : i < j => less[i] < less[j]
    <3>1. \A i \in DOMAIN s : i \in DOMAIN more
      BY <1>2
    <3> QED BY <1>1, <3>1 DEF Embeds
  <2> HIDE DEF less
  <2> QED BY <2>1, <2>2, <2>3 DEF Embeds
<1> HIDE DEF less
<1> QED BY <1>4, <1>8 DEF Embeds, IsSubsequence

(* it is enough to go as far as where the last element can be.             *)
LEMMA SubPrefix ==
  ASSUME NEW D, NEW s \in Seq(D), NEW t \in Seq(D), NEW a \in D, IsSubsequence(Append(s, a), t),
         NEW n \in 0 .. Len(t), \A i \in DOMAIN t : t[i] = a => i <= n
  PROVE  IsSubsequence(Append(s, a), SubSeq(t, 1, n))
<1> DEFINE k == Len(s) + 1
           m == Len(t)
           more == Append(s, a)
           short == SubSeq(t, 1, n)
<1>1. PICK into : Embeds(into, more, t)
  BY DEF IsSubsequence, Embeds
<1>2. /\ k \in Nat \ {0} /\ DOMAIN more = 1 .. k /\ more[k] = a
      /\ m \in Nat /\ DOMAIN t = 1 .. m
  BY LenProperties, AppendProperties
<1>3. short \in Seq(D) /\ Len(short) = n /\ \A i \in 1 .. n : short[i] = t[i]
  <2>1. 1 \in Int /\ n \in Int /\ \A i \in 1 .. n : t[i] \in D
    BY <1>2, ElementOfSeq
  <2>2. /\ short \in Seq(D) /\ Len(short) = IF 1 <= n THEN n - 1 + 1 ELSE 0
        /\ \A i \in 1 .. n - 1 + 1 : short[i] = t[1 + i - 1]
    BY <2>1, SubSeqProperties
  <2> HIDE DEF short, m
  <2>3. n \in Nat /\ n - 1 + 1 = n /\ \A i \in 1 .. n : 1 + i - 1 = i
    BY <1>2
  <2> QED BY <2>2, <2>3
<1>4. DOMAIN short = 1 .. n
  BY <1>3, LenProperties
<1> HIDE DEF m, k, more, short
<1>5. k \in DOMAIN more /\ into[k] \in DOMAIN t /\ t[into[k]] = a
  BY <1>1, <1>2 DEF Embeds
<1>6. ASSUME NEW i \in DOMAIN more PROVE into[i] \in 1 .. n
  <2>1. into[i] \in 1 .. m /\ into[k] \in 1 .. m /\ into[k] <= n
    BY <1>1, <1>2, <1>5 DEF Embeds
  <2>2. i = k \/ into[i] < into[k]
    BY <1>1, <1>2, <1>5 DEF Embeds
  <2> QED BY <1>2, <2>1, <2>2
<1>7. Embeds(into, more, short)
  <2>1. into \in [DOMAIN more -> DOMAIN short]
    BY <1>1, <1>4, <1>6 DEF Embeds
  <2> QED BY <1>1, <1>3, <1>6, <2>1 DEF Embeds
<1> QED BY <1>7 DEF Embeds, IsSubsequence, more, short

-----------------------------------------------------------------------------
\* What a stack of labels tells of the labels of the frames.

Distinct(D) == D \subseteq Marks /\ \A a, b \in D : a.label = b.label => a = b

Tops(stack, a) == stack = <<>> \/ Last(stack) = a
Told(true, stack, same, kept) ==
  /\ same => stack = true
  /\ kept => IsSubsequence(true, stack) /\ Last(stack) = Last(true)
  /\ Tops(stack, Last(true))

\* The stack after an instruction with label a, where a subroutine begins or
\* elsewhere.
NextStack(stack, a, begins) ==
  IF stack = <<>> THEN <<a>>
  ELSE IF Last(stack).label = a.label THEN stack
  ELSE IF a.asm_sequence /\ Last(stack).asm_sequence THEN Append(Front(stack), a)
  ELSE IF ~ begins THEN Unwound(stack, a.label)
  ELSE Append(stack, a)

(* What is pushed is on top.                                               *)
LEMMA PushedFact ==
  ASSUME NEW D, NEW s \in Seq(D), NEW a \in D
  PROVE  Pushed(s, a) \in Seq(D) /\ Pushed(s, a) # <<>> /\ Last(Pushed(s, a)) = a
<1>1. CASE s # <<>> /\ Merges(Last(s), a)
  <2>1. Front(s) \in Seq(D)
    BY <1>1, FrontLast
  <2> QED BY <1>1, <2>1, AppendFront DEF Pushed
<1>2. CASE ~ (s # <<>> /\ Merges(Last(s), a))
  BY <1>2, AppendFront DEF Pushed
<1> QED BY <1>1, <1>2

(* Where a subroutine begins the label is pushed.                          *)
LEMMA Begins ==
  ASSUME NEW D, Distinct(D), NEW stack \in Seq(D), NEW a \in D
  PROVE  NextStack(stack, a, TRUE) = Pushed(stack, a)
<1>1. CASE stack = <<>>
  <2>1. Append(stack, a) = <<a>>
    BY <1>1
  <2> QED BY <1>1, <2>1 DEF NextStack, Pushed
<1>2. CASE stack # <<>>
  <2>1. Last(stack) \in D /\ stack = Append(Front(stack), Last(stack))
    BY <1>2, FrontLast
  <2>2. Last(stack).label = a.label => Append(Front(stack), a) = stack
    BY <2>1 DEF Distinct
  <2> QED BY <1>2, <2>2 DEF NextStack, Pushed, Merges
<1> QED BY <1>1, <1>2

(* A label is pushed on the labels of the frames and on the stack.         *)
LEMMA ToldCalled ==
  ASSUME NEW D, NEW s \in Seq(D), s # <<>>, NEW stack \in Seq(D), NEW b \in D,
         NEW same, NEW kept, Told(s, stack, same, kept)
  PROVE  Told(Pushed(s, b), Pushed(stack, b), same, kept)
<1>1. Last(Pushed(s, b)) = b /\ Last(Pushed(stack, b)) = b
  BY PushedFact
<1>2. same => Pushed(stack, b) = Pushed(s, b)
  BY DEF Told
<1>3. ASSUME kept PROVE IsSubsequence(Pushed(s, b), Pushed(stack, b))
  <2>1. IsSubsequence(s, stack) /\ Last(stack) = Last(s)
    BY <1>3 DEF Told
  <2>2. Front(s) \in Seq(D) /\ Last(s) \in D /\ s = Append(Front(s), Last(s))
    BY FrontLast
  <2>3. stack # <<>> /\ IsSubsequence(Front(s), Front(stack))
    BY <2>1, <2>2, SubFront
  <2>4. Front(stack) \in Seq(D)
    BY <2>3, FrontLast
  <2>5. CASE Merges(Last(s), b)
    <3>1. Pushed(s, b) = Append(Front(s), b) /\ Pushed(stack, b) = Append(Front(stack), b)
      BY <2>1, <2>3, <2>5 DEF Pushed
    <3> QED BY <2>2, <2>3, <2>4, <3>1, SubBoth
  <2>6. CASE ~ Merges(Last(s), b)
    <3>1. Pushed(s, b) = Append(s, b) /\ Pushed(stack, b) = Append(stack, b)
      BY <2>1, <2>3, <2>6 DEF Pushed
    <3> QED BY <2>1, <3>1, SubBoth
  <2> QED BY <2>5, <2>6
<1> QED BY <1>1, <1>2, <1>3 DEF Told, Tops

(* The last frame has label a.  A frame that takes its place, with label   *)
(* b, leaves a on the stack, unless both are of assembly.                  *)
LEMMA ToldReplaced ==
  ASSUME NEW D, Distinct(D), NEW below \in Seq(D), NEW stack \in Seq(D), NEW a \in D, NEW b \in D,
         ~ a.asm_sequence \/ below = <<>> \/ ~ Last(below).asm_sequence,
         NEW same, NEW kept, Told(Pushed(below, a), stack, same, kept)
  PROVE  Told(Pushed(below, b), Pushed(stack, b), FALSE, kept)
<1>1. Last(Pushed(below, b)) = b /\ Last(Pushed(stack, b)) = b
  BY PushedFact
<1>2. ASSUME kept PROVE IsSubsequence(Pushed(below, b), Pushed(stack, b))
  <2>1. CASE below # <<>> /\ Merges(Last(below), a)
    <3>1. Front(below) \in Seq(D) /\ Last(below) \in D /\ below = Append(Front(below), Last(below))
      BY <2>1, FrontLast
    <3>2. Last(below) = a
      BY <2>1, <3>1 DEF Merges, Distinct
    <3>3. Pushed(below, a) = below
      BY <2>1, <3>1, <3>2 DEF Pushed
    <3>4. Told(Pushed(below, b), Pushed(stack, b), same, kept)
      BY <2>1, <3>3, ToldCalled
    <3> QED BY <1>2, <3>4 DEF Told
  <2>2. CASE ~ (below # <<>> /\ Merges(Last(below), a))
    <3>1. Pushed(below, a) = Append(below, a)
      BY <2>2 DEF Pushed
    <3>2. IsSubsequence(Append(below, a), stack)
      BY <1>2, <3>1 DEF Told
    <3>3. stack # <<>> /\ IsSubsequence(below, Front(stack))
      BY <3>2, SubFront
    <3>4. Front(stack) \in Seq(D) /\ Last(stack) \in D /\ stack = Append(Front(stack), Last(stack))
      BY <3>3, FrontLast
    <3>5. PICK rest \in Seq(D) : Pushed(stack, b) = Append(rest, b) /\ IsSubsequence(below, rest)
      <4>1. IsSubsequence(below, stack)
        BY <3>3, <3>4, SubLonger
      <4>2. CASE Merges(Last(stack), b)
        BY <3>3, <3>4, <4>2 DEF Pushed
      <4>3. CASE ~ Merges(Last(stack), b)
        BY <4>1, <4>3 DEF Pushed
      <4> QED BY <4>2, <4>3
    <3>6. CASE below # <<>> /\ Merges(Last(below), b)
      <4>1. Front(below) \in Seq(D) /\ Last(below) \in D /\ below = Append(Front(below), Last(below))
        BY <3>6, FrontLast
      <4>2. rest # <<>> /\ IsSubsequence(Front(below), Front(rest))
        BY <3>5, <4>1, SubFront
      <4>3. Front(rest) \in Seq(D) /\ Last(rest) \in D /\ rest = Append(Front(rest), Last(rest))
        BY <4>2, FrontLast
      <4>4. IsSubsequence(Front(below), rest)
        BY <4>1, <4>2, <4>3, SubLonger
      <4>5. Pushed(below, b) = Append(Front(below), b)
        BY <3>6 DEF Pushed
      <4> QED BY <3>5, <4>1, <4>4, <4>5, SubBoth
    <3>7. CASE ~ (below # <<>> /\ Merges(Last(below), b))
      <4>1. Pushed(below, b) = Append(below, b)
        BY <3>7 DEF Pushed
      <4> QED BY <3>5, <4>1, SubBoth
    <3> QED BY <3>6, <3>7
  <2> QED BY <2>1, <2>2
<1> QED BY <1>1, <1>2 DEF Told, Tops

(* Looking for a label ends on top of the stack, or empties it.            *)
LEMMA UnwoundFact ==
  ASSUME NEW D, Distinct(D), NEW stack \in Seq(D), NEW a \in D
  PROVE  \/ Unwound(stack, a.label) = <<>> /\ \A i \in DOMAIN stack : stack[i] # a
         \/ \E n \in DOMAIN stack : /\ Unwound(stack, a.label) = SubSeq(stack, 1, n)
                                    /\ stack[n] = a
                                    /\ \A i \in DOMAIN stack : stack[i] = a => i <= n
<1> DEFINE found == {i \in DOMAIN stack : stack[i].label = a.label}
<1>1. Len(stack) \in Nat /\ DOMAIN stack = 1 .. Len(stack)
  BY LenProperties
<1>2. \A i \in DOMAIN stack : i \in found <=> stack[i] = a
  <2>1. \A i \in DOMAIN stack : stack[i] \in D
    BY <1>1, ElementOfSeq
  <2> QED BY <2>1 DEF Distinct
<1>3. Unwound(stack, a.label) = IF found = {} THEN <<>> ELSE SubSeq(stack, 1, Max(found))
  BY DEF Unwound
<1>4. found \in SUBSET Nat /\ \A i \in found : i \in DOMAIN stack /\ i <= Len(stack)
  BY <1>1
<1> HIDE DEF found
<1>5. CASE found = {}
  BY <1>2, <1>3, <1>5
<1>6. CASE found # {}
  <2>1. Max(found) \in found /\ \A i \in found : i <= Max(found)
    BY <1>1, <1>4, <1>6, GreatestOf
  <2>2. Max(found) \in DOMAIN stack /\ stack[Max(found)] = a /\ \A i \in DOMAIN stack : stack[i] = a => i <= Max(found)
    BY <1>2, <1>4, <2>1
  <2> QED BY <1>3, <1>6, <2>2
<1> QED BY <1>5, <1>6

(* A prefix of a stack is one, and ends with its last element.             *)
LEMMA PrefixFact ==
  ASSUME NEW D, NEW stack \in Seq(D), NEW n \in DOMAIN stack
  PROVE  /\ SubSeq(stack, 1, n) \in Seq(D) /\ SubSeq(stack, 1, n) # <<>>
         /\ Last(SubSeq(stack, 1, n)) = stack[n]
<1> DEFINE short == SubSeq(stack, 1, n)
           m == Len(stack)
<1>1. m \in Nat /\ DOMAIN stack = 1 .. m
  BY LenProperties
<1>2. 1 \in Int /\ n \in Int /\ \A i \in 1 .. n : stack[i] \in D
  <2>1. \A i \in 1 .. m : stack[i] \in D
    BY ElementOfSeq
  <2> HIDE DEF m
  <2> QED BY <1>1, <2>1
<1>3. /\ short \in Seq(D) /\ Len(short) = IF 1 <= n THEN n - 1 + 1 ELSE 0
      /\ \A i \in 1 .. n - 1 + 1 : short[i] = stack[1 + i - 1]
  BY <1>2, SubSeqProperties
<1> HIDE DEF m, short
<1>4. n \in 1 .. n - 1 + 1 /\ 1 + n - 1 = n /\ 1 <= n /\ n - 1 + 1 = n /\ n # 0
  BY <1>1
<1>5. Len(short) = n /\ short[n] = stack[n]
  BY <1>3, <1>4
<1>6. short # <<>>
  <2>1. Len(<<>>) = 0
    OBVIOUS
  <2> QED BY <1>4, <1>5, <2>1
<1> QED BY <1>3, <1>5, <1>6 DEF Last, short

(* Whatever the stack, the label is on top, or nothing is left.            *)
LEMMA ToldAnyhow ==
  ASSUME NEW D, Distinct(D), NEW stack \in Seq(D), NEW a \in D, NEW begins
  PROVE  NextStack(stack, a, begins) \in Seq(D) /\ Tops(NextStack(stack, a, begins), a)
<1>1. <<a>> \in Seq(D) /\ <<a>> = Append(<<>>, a) /\ <<>> \in Seq(D)
  OBVIOUS
<1>2. CASE stack = <<>>
  <2>1. NextStack(stack, a, begins) = <<a>>
    BY <1>2 DEF NextStack
  <2> QED BY <1>1, <2>1, AppendFront DEF Tops
<1>3. CASE stack # <<>>
  <2>1. Front(stack) \in Seq(D) /\ Last(stack) \in D
    BY <1>3, FrontLast
  <2>2. Last(stack).label = a.label => Last(stack) = a
    BY <2>1 DEF Distinct
  <2>3. /\ Append(Front(stack), a) \in Seq(D) /\ Last(Append(Front(stack), a)) = a
        /\ Append(stack, a) \in Seq(D) /\ Last(Append(stack, a)) = a
    BY <2>1, AppendFront
  <2>4. Unwound(stack, a.label) \in Seq(D) /\ Tops(Unwound(stack, a.label), a)
    <3> DEFINE new == Unwound(stack, a.label)
    <3>1. \/ new = <<>>
          \/ \E n \in DOMAIN stack : new = SubSeq(stack, 1, n) /\ stack[n] = a
      BY UnwoundFact
    <3> HIDE DEF new
    <3>2. ASSUME NEW n \in DOMAIN stack, new = SubSeq(stack, 1, n), stack[n] = a
          PROVE  new \in Seq(D) /\ Last(new) = a
      BY <3>2, PrefixFact
    <3>3. new \in Seq(D) /\ Tops(new, a)
      BY <1>1, <3>1, <3>2 DEF Tops
    <3> QED BY <3>3 DEF new
  <2> QED BY <1>3, <2>2, <2>3, <2>4 DEF NextStack, Tops
<1> QED BY <1>2, <1>3

(* Staying in a subroutine leaves the stack, or fills it if it was empty.  *)
LEMMA ToldStays ==
  ASSUME NEW D, NEW below \in Seq(D), NEW stack \in Seq(D), NEW a \in D, NEW begins,
         NEW same, NEW kept, Told(Pushed(below, a), stack, same, kept)
  PROVE  Told(Pushed(below, a), NextStack(stack, a, begins), same, kept)
<1> DEFINE true == Pushed(below, a)
<1>1. true \in Seq(D) /\ true # <<>> /\ Last(true) = a
  BY PushedFact
<1>2. Front(true) \in Seq(D) /\ true = Append(Front(true), a)
  BY <1>1, FrontLast
<1> HIDE DEF true
<1>3. CASE stack # <<>>
  <2>1. Last(stack) = a
    BY <1>1, <1>3 DEF Told, Tops, true
  <2>2. NextStack(stack, a, begins) = stack
    BY <1>3, <2>1 DEF NextStack
  <2> QED BY <2>2
<1>4. CASE stack = <<>>
  <2>1. ~ same /\ ~ kept
    <3>1. kept => stack # <<>>
      BY <1>2, SubFront DEF Told, true
    <3>2. same => stack # <<>>
      BY <1>1 DEF Told, true
    <3> QED BY <1>4, <3>1, <3>2
  <2>2. NextStack(stack, a, begins) = <<a>> /\ Last(<<a>>) = a
    BY <1>4 DEF NextStack, Last
  <2> QED BY <1>1, <2>1, <2>2 DEF Told, Tops, true
<1> QED BY <1>3, <1>4

(* A return to a frame that has begun goes back to its label, c.           *)
LEMMA ToldReturned ==
  ASSUME NEW D, Distinct(D), NEW below \in Seq(D), NEW stack \in Seq(D), NEW a \in D, NEW c \in D,
         NEW same, NEW kept, Told(Pushed(Pushed(below, c), a), stack, same, kept)
  PROVE  Told(Pushed(below, c), NextStack(stack, c, FALSE), same, kept)
<1> DEFINE s == Pushed(below, c)
           t == Pushed(s, a)
           new == NextStack(stack, c, FALSE)
<1>1. s \in Seq(D) /\ s # <<>> /\ Last(s) = c
  BY PushedFact
<1>2. Front(s) \in Seq(D) /\ s = Append(Front(s), c)
  BY <1>1, FrontLast
<1> HIDE DEF s
<1>3. t \in Seq(D) /\ t # <<>> /\ Last(t) = a
  BY <1>1, PushedFact
<1>4. Tops(new, c)
  BY ToldAnyhow
<1>5. Told(t, stack, same, kept)
  BY DEF s
<1>6. kept => stack # <<>> /\ IsSubsequence(Front(t), Front(stack))
  <2>1. Front(t) \in Seq(D) /\ t = Append(Front(t), a)
    BY <1>3, FrontLast
  <2> HIDE DEF t
  <2> QED BY <1>5, <2>1, SubFront DEF Told
<1>7. CASE stack = <<>>
  <2>1. ~ same /\ ~ kept
    BY <1>3, <1>5, <1>6, <1>7 DEF Told
  <2> QED BY <1>1, <1>4, <2>1 DEF Told, s
<1>8. CASE stack # <<>>
  <2>1. Last(stack) = a /\ Front(stack) \in Seq(D) /\ stack = Append(Front(stack), a)
    BY <1>3, <1>5, <1>8, FrontLast DEF Told, Tops
  <2>2. CASE a.label = c.label
    <3>1. a = c
      BY <2>2 DEF Distinct
    <3>2. t = s
      BY <1>1, <1>2, <3>1 DEF Pushed, Merges
    <3>3. new = stack
      BY <1>8, <2>1, <3>1 DEF NextStack
    <3> HIDE DEF t, new
    <3> QED BY <1>5, <3>2, <3>3 DEF s, new
  <2>3. CASE a.label # c.label /\ a.asm_sequence /\ c.asm_sequence
    <3>1. t = Append(Front(s), a)
      BY <1>1, <2>3 DEF Pushed, Merges
    <3>2. Front(t) = Front(s)
      BY <1>2, <3>1, AppendFront
    <3>3. new = Append(Front(stack), c)
      BY <1>8, <2>1, <2>3 DEF NextStack
    <3>4. same => new = s
      BY <1>2, <1>5, <3>2, <3>3 DEF Told
    <3>5. kept => IsSubsequence(s, new) /\ Last(new) = c
      <4>1. kept => IsSubsequence(Append(Front(s), c), Append(Front(stack), c))
        BY <1>2, <1>6, <2>1, <3>2, SubBoth
      <4>2. Last(Append(Front(stack), c)) = c
        BY <2>1, AppendFront
      <4> QED BY <1>2, <3>3, <4>1, <4>2
    <3> QED BY <1>1, <1>4, <3>4, <3>5 DEF Told, s
  <2>4. CASE a.label # c.label /\ ~ (a.asm_sequence /\ c.asm_sequence)
    <3>1. t = Append(s, a)
      BY <1>1, <2>4 DEF Pushed, Merges
    <3>2. Front(t) = s
      BY <1>1, <3>1, AppendFront
    <3>3. new = Unwound(stack, c.label)
      BY <1>8, <2>1, <2>4 DEF NextStack
    <3> HIDE DEF new
    <3>4. ASSUME same \/ kept PROVE IsSubsequence(s, Front(stack))
      BY <1>5, <1>6, <3>2, <3>4, SubRefl DEF Told
    <3>5. ASSUME same \/ kept
          PROVE  \E n \in DOMAIN stack : /\ new = SubSeq(stack, 1, n) /\ stack[n] = c
                                         /\ \A i \in DOMAIN stack : stack[i] = c => i <= n
      <4>1. \E i \in DOMAIN stack : stack[i] = c
        <5>1. IsSubsequence(s, stack)
          BY <1>1, <2>1, <3>4, <3>5, SubLonger
        <5>2. PICK n : n \in DOMAIN s /\ s[n] = c
          <6>1. Len(s) \in Nat \ {0} /\ DOMAIN s = 1 .. Len(s)
            BY <1>1, FrontLast, LenProperties
          <6> QED BY <1>1, <6>1 DEF Last
        <5>3. \E i \in DOMAIN stack : stack[i] = s[n]
          BY <5>1, <5>2, SubHas
        <5> QED BY <5>2, <5>3
      <4>2. \/ Unwound(stack, c.label) = <<>> /\ \A i \in DOMAIN stack : stack[i] # c
            \/ \E n \in DOMAIN stack : /\ Unwound(stack, c.label) = SubSeq(stack, 1, n)
                                       /\ stack[n] = c
                                       /\ \A i \in DOMAIN stack : stack[i] = c => i <= n
        BY UnwoundFact
      <4> QED BY <3>3, <4>1, <4>2
    <3>6. ASSUME kept PROVE IsSubsequence(s, new) /\ Last(new) = c
      <4>1. PICK n \in DOMAIN stack : /\ new = SubSeq(stack, 1, n) /\ stack[n] = c
                                      /\ \A i \in DOMAIN stack : stack[i] = c => i <= n
        BY <3>5, <3>6
      <4>2. n \in 0 .. Len(stack)
        BY LenProperties
      <4>3. IsSubsequence(s, stack)
        BY <1>1, <2>1, <3>4, <3>6, SubLonger
      <4>4. IsSubsequence(s, new)
        <5>1. PICK f \in Seq(D) : s = Append(f, c)
          BY <1>2
        <5>2. IsSubsequence(Append(f, c), stack)
          BY <4>3, <5>1
        <5>3. IsSubsequence(Append(f, c), SubSeq(stack, 1, n))
          BY <4>1, <4>2, <5>2, SubPrefix
        <5> QED BY <4>1, <5>1, <5>3
      <4>5. Last(new) = c
        BY <4>1, PrefixFact
      <4> QED BY <4>4, <4>5
    <3>7. ASSUME same PROVE new = s
      <4>1. PICK n \in DOMAIN stack : /\ new = SubSeq(stack, 1, n) /\ stack[n] = c
                                      /\ \A i \in DOMAIN stack : stack[i] = c => i <= n
        BY <3>5, <3>7
      <4>2. stack = Append(s, a)
        BY <1>5, <3>1, <3>7 DEF Told
      <4>3. n = Len(s)
        <5> DEFINE l == Len(s)
        <5>1. l \in Nat \ {0} /\ s[l] = c
          BY <1>1, FrontLast DEF Last
        <5>2. DOMAIN stack = 1 .. l + 1 /\ stack[l + 1] = a /\ \A i \in 1 .. l : stack[i] = s[i]
          BY <1>1, <4>2, LenProperties, AppendProperties
        <5> HIDE DEF l
        <5>3. l <= n /\ n # l + 1 /\ n \in 1 .. l + 1
          BY <2>4, <4>1, <5>1, <5>2
        <5> QED BY <5>1, <5>3 DEF l
      <4>4. new = Front(stack)
        <5>1. Len(stack) - 1 = Len(s)
          BY <1>1, <4>2, LenProperties, AppendProperties
        <5> QED BY <4>1, <4>3, <5>1 DEF Front
      <4> QED BY <1>1, <4>2, <4>4, AppendFront
    <3> QED BY <1>1, <1>4, <3>6, <3>7 DEF Told, s, new
  <2> QED BY <2>2, <2>3, <2>4
<1> QED BY <1>7, <1>8

-----------------------------------------------------------------------------
\* StackUnwinder: what is known of an address.

\* The image is all the unwinder looks into: it holds the subroutines, of which no
\* two have the same label, and nothing of the binary that is not known.
SameKind == \A k, l \in DOMAIN table : table[k].name = table[l].name => table[k].function = table[l].function
ImageFits ==
  stage = "run" =>
    /\ Disjoint /\ SameKind
    /\ DOMAIN table \subseteq DOMAIN progtext /\ Handler \in DOMAIN table
    /\ \A k \in DOMAIN table : table[k].name # MISC
    /\ \A pc \in Outside : pc \notin DOMAIN progtext

\* The label of the subroutine at k, and all there are.
Mark(k) == Label(table[k].name, ~ table[k].function)
TableMarks == {Mark(k) : k \in DOMAIN table}

\* The unwinder at work.
Ready == TextInv /\ DOMAIN progtext \subseteq Nat /\ ImageFits /\ stage = "run"

(* Labels that are alike are the same, and none is that of the binary that *)
(* is not known.                                                           *)
LEMMA MarksFact == ASSUME Ready PROVE Distinct(TableMarks) /\ Misc \notin TableMarks
<1>1. /\ SameKind /\ \A k \in DOMAIN table : table[k] \in Subroutines /\ table[k].name # MISC
  BY DEF Ready, ImageFits, TextInv, TableInv
<1>2. ASSUME NEW k \in DOMAIN table
      PROVE  /\ Mark(k) \in Marks /\ Mark(k) # Misc
             /\ Mark(k).label = table[k].name
  <2>1. table[k].name \in FunctionNames /\ table[k].name # MISC /\ (~ table[k].function) \in BOOLEAN
    BY <1>1 DEF Subroutines
  <2>2. Mark(k).label = table[k].name /\ Misc.label = MISC
    BY DEF Mark, Label, Misc
  <2>3. Mark(k) \in Marks
    BY <2>1 DEF Mark, Label, Marks
  <2>4. Mark(k) # Misc
    BY <2>1, <2>2
  <2> QED BY <2>2, <2>3, <2>4
<1>3. ASSUME NEW k \in DOMAIN table, NEW l \in DOMAIN table, Mark(k).label = Mark(l).label
      PROVE  Mark(k) = Mark(l)
  <2>1. table[k].name = table[l].name
    BY <1>2, <1>3
  <2>2. table[k].function = table[l].function
    BY <1>1, <2>1 DEF SameKind
  <2> QED BY <2>1, <2>2 DEF Mark
<1> QED BY <1>2, <1>3 DEF Distinct, TableMarks

(* A known address is in the subroutine that begins at EntryOf.            *)
LEMMA KnownFact ==
  ASSUME Ready, NEW pc, Known(pc)
  PROVE  /\ pc \in Nat /\ Below(DOMAIN table, EntryOf(pc), pc)
         /\ subroutine_find(pc) = table[EntryOf(pc)]
         /\ LabelOf(pc) = Mark(EntryOf(pc)) /\ LabelOf(pc) \in TableMarks
         /\ InAsm(pc) <=> LabelOf(pc).asm_sequence
<1>1. TableInv /\ pc \in Nat /\ subroutine_find(pc) # null
  BY DEF Ready, TextInv, Known
<1> DEFINE keys == {k \in DOMAIN table : k <= pc}
           m == EntryOf(pc)
<1>2. keys \in SUBSET Nat /\ \A k \in keys : k <= pc
  BY <1>1 DEF TableInv
<1>3. keys # {}
  BY <1>1 DEF subroutine_find
<1>4. m = Max(keys)
  BY DEF EntryOf
<1>5. Max(keys) \in keys /\ \A k \in keys : k <= Max(keys)
  <2> HIDE DEF keys
  <2> QED BY <1>1, <1>2, <1>3, GreatestOf
<1>6. Below(DOMAIN table, m, pc)
  BY <1>4, <1>5 DEF Below
<1> HIDE DEF m, keys
<1>7. subroutine_find(pc) = table[m]
  BY <1>1, <1>6, FindFact
<1>8. LabelOf(pc) = Mark(m) /\ m \in DOMAIN table
  BY <1>6, <1>7 DEF LabelOf, Mark, Below
<1>9. Mark(m).asm_sequence = ~ table[m].function
  BY DEF Mark, Label
<1>10. InAsm(pc) <=> ~ table[m].function
  BY <1>7 DEF InAsm
<1>11. InAsm(pc) <=> LabelOf(pc).asm_sequence
  BY <1>8, <1>9, <1>10
<1> QED BY <1>1, <1>6, <1>7, <1>8, <1>11 DEF m, TableMarks

(* Two addresses in one subroutine have the same label, and a subroutine   *)
(* begins at the first of them only.                                       *)
LEMMA SameFact ==
  ASSUME Ready, NEW pc, NEW other, SameSubroutine(pc, other)
  PROVE  /\ Known(pc) /\ Known(other) /\ LabelOf(other) = LabelOf(pc)
         /\ InAsm(other) <=> InAsm(pc)
         /\ pc < other => other \notin DOMAIN table
<1>1. Known(pc) /\ Known(other) /\ EntryOf(pc) = EntryOf(other)
  BY DEF SameSubroutine
<1>2. LabelOf(other) = LabelOf(pc)
  BY <1>1, KnownFact
<1>3. InAsm(other) <=> InAsm(pc)
  BY <1>1, <1>2, KnownFact
<1>4. ASSUME pc < other, other \in DOMAIN table PROVE FALSE
  <2> DEFINE m == EntryOf(pc)
  <2>1. pc \in Nat /\ other \in Nat /\ Below(DOMAIN table, m, pc) /\ Below(DOMAIN table, m, other)
    BY <1>1, KnownFact
  <2>2. DOMAIN table \subseteq Nat
    BY DEF Ready, TextInv, TableInv
  <2> HIDE DEF m
  <2>3. m \in Nat /\ m <= pc /\ other <= m
    BY <1>4, <2>1, <2>2 DEF Below
  <2> QED BY <1>4, <2>1, <2>3
<1> QED BY <1>1, <1>2, <1>3, <1>4

(* A subroutine begins at a known address.                                 *)
LEMMA EntryKnown == ASSUME Ready, NEW k \in DOMAIN table PROVE Known(k)
<1>1. /\ TableInv /\ Disjoint /\ k \in DOMAIN progtext /\ k \in Nat /\ DOMAIN table \subseteq Nat
      /\ table[k] \in Subroutines
  BY DEF Ready, TextInv, TableInv, ImageFits
<1>2. Below(DOMAIN table, k, k)
  BY <1>1 DEF Below
<1>3. table[k].pc_end = 0 \/ k < table[k].pc_end
  BY <1>1 DEF Disjoint
<1>4. subroutine_find(k) = table[k]
  BY <1>1, <1>2, <1>3, FindFact
<1> QED BY <1>1, <1>4, TextAssumption DEF Known

(* add_instruction treats a known address by its subroutine's label.       *)
LEMMA AddKnown ==
  ASSUME Ready, NEW pc, Known(pc), add_instruction(pc), NEW stack \in Seq(TableMarks),
         label_stack = stack \/ (label_stack = <<Misc>> /\ stack = <<>>)
  PROVE  label_stack' = NextStack(stack, LabelOf(pc), pc \in DOMAIN table)
<1> DEFINE instr == getInstrFromAddr(pc)
           sub == subroutine_find(pc)
<1>1. /\ instr # null /\ instr.function_name = sub.name /\ instr.in_asm_sequence = ~ sub.function
      /\ instr.is_fn_entry = (pc \in DOMAIN table)
      /\ instr.is_callsite = (pc \notin DOMAIN table /\ pc \in ToSet(sub.callsites))
  <2>1. TextIsTable /\ Disjoint /\ stage = "run" /\ pc \in DOMAIN progtext /\ sub # null
    BY DEF Ready, TextInv, ImageFits, Known
  <2> QED BY <2>1 DEF TextIsTable
<1>2. label_stack' = Labelled(MiscPopped(label_stack), instr)
  BY <1>1 DEF add_instruction
<1>3. LabelOf(pc) = Label(sub.name, ~ sub.function)
  BY DEF LabelOf
<1> HIDE DEF instr, sub
<1>4. Label(instr.function_name, instr.in_asm_sequence) = LabelOf(pc)
  BY <1>1, <1>3
<1>5. (instr.is_callsite \/ ~ instr.is_fn_entry) <=> ~ (pc \in DOMAIN table)
  BY <1>1
<1>6. LabelOf(pc).label = instr.function_name /\ (LabelOf(pc).asm_sequence <=> instr.in_asm_sequence)
  BY <1>4 DEF Label
<1>7. MiscPopped(label_stack) = stack
  <2>1. CASE label_stack = stack
    <3>1. stack # <<>> => Last(stack) # Misc
      BY FrontLast, MarksFact
    <3> QED BY <2>1, <3>1 DEF MiscPopped
  <2>2. CASE label_stack = <<Misc>> /\ stack = <<>>
    <3>1. Last(<<Misc>>) = Misc /\ Front(<<Misc>>) = <<>> /\ <<Misc>> # <<>>
      <4>1. <<Misc>> = Append(<<>>, Misc) /\ <<>> \in Seq({Misc})
        OBVIOUS
      <4>2. Misc \in {Misc}
        OBVIOUS
      <4>3. /\ Append(<<>>, Misc) # <<>> /\ Last(Append(<<>>, Misc)) = Misc
            /\ Front(Append(<<>>, Misc)) = <<>>
        BY <4>1, <4>2, AppendFront
      <4> QED BY <4>1, <4>3
    <3> QED BY <2>2, <3>1 DEF MiscPopped
  <2> QED BY <2>1, <2>2
<1>8. Labelled(stack, instr) = NextStack(stack, LabelOf(pc), pc \in DOMAIN table)
  BY <1>4, <1>5, <1>6 DEF Labelled, NextStack
<1> QED BY <1>2, <1>7, <1>8

(* and an address of a binary that is not known by a label of its own.     *)
LEMMA AddOutside ==
  ASSUME Ready, NEW pc \in Outside, add_instruction(pc)
  PROVE  ~ Known(pc) /\ pc \notin DOMAIN table /\ label_stack' = <<Misc>>
<1>1. pc \notin DOMAIN progtext /\ DOMAIN table \subseteq DOMAIN progtext
  BY DEF Ready, ImageFits
<1>2. getInstrFromAddr(pc) = null
  BY <1>1 DEF getInstrFromAddr
<1> QED BY <1>1, <1>2 DEF Known, add_instruction, Unlabelled

-----------------------------------------------------------------------------
\* StackUnwinder: the frames below the one that is executed.

Pcs == DOMAIN progtext \union DOMAIN table \union Outside

\* Their labels, without those of frames that have still to begin, and what can be
\* told of them.
LabelsOf(s) == [i \in DOMAIN s |-> LabelOf(s[i])]
Left(u) == {i \in DOMAIN u : u[i] \notin DOMAIN table /\ Known(u[i])}
Callers(u) == LabelsOf(Picked(u, Left(u)))
CallersTold(u) == Merged(Callers(u))

KnownPcs == {pc \in Pcs : Known(pc)}

(* Labels of known addresses,                                              *)
LEMMA LabelsOfFact ==
  ASSUME Ready, NEW s \in Seq(KnownPcs)
  PROVE  /\ LabelsOf(s) \in Seq(TableMarks)
         /\ \A pc \in KnownPcs : LabelsOf(Append(s, pc)) = Append(LabelsOf(s), LabelOf(pc))
<1>1. \A pc \in KnownPcs : LabelOf(pc) \in TableMarks
  BY KnownFact DEF KnownPcs
<1> DEFINE n == Len(s)
<1>2. n \in Nat /\ DOMAIN s = 1 .. n /\ \A i \in 1 .. n : s[i] \in KnownPcs
  BY LenProperties, ElementOfSeq
<1> HIDE DEF n
<1>3. LabelsOf(s) \in Seq(TableMarks) /\ Len(LabelsOf(s)) = n /\ \A i \in 1 .. n : LabelsOf(s)[i] = LabelOf(s[i])
  <2>1. LabelsOf(s) = [i \in 1 .. n |-> LabelOf(s[i])]
    BY <1>2 DEF LabelsOf
  <2>2. \A i \in 1 .. n : LabelOf(s[i]) \in TableMarks
    BY <1>1, <1>2
  <2>3. [i \in 1 .. n |-> LabelOf(s[i])] \in Seq(TableMarks)
    BY <1>2, <2>2, IsASeq
  <2>4. DOMAIN LabelsOf(s) = 1 .. n
    BY <2>1
  <2>5. Len(LabelsOf(s)) = n
    BY <1>2, <2>1, <2>3, <2>4, LenProperties
  <2> QED BY <2>1, <2>3, <2>5
<1>4. ASSUME NEW pc \in KnownPcs PROVE LabelsOf(Append(s, pc)) = Append(LabelsOf(s), LabelOf(pc))
  <2> DEFINE t == Append(s, pc)
             long == Append(LabelsOf(s), LabelOf(pc))
  <2>1. /\ t \in Seq(KnownPcs) /\ Len(t) = n + 1 /\ t[n + 1] = pc /\ \A i \in 1 .. n : t[i] = s[i]
    BY AppendProperties DEF n
  <2>2. DOMAIN t = 1 .. n + 1
    BY <2>1, LenProperties
  <2>3. /\ long \in Seq(TableMarks) /\ Len(long) = n + 1 /\ long[n + 1] = LabelOf(pc)
        /\ \A i \in 1 .. n : long[i] = LabelOf(s[i])
    <3>1. LabelOf(pc) \in TableMarks
      BY <1>1
    <3>2. /\ long \in Seq(TableMarks) /\ Len(long) = Len(LabelsOf(s)) + 1 /\ long[Len(LabelsOf(s)) + 1] = LabelOf(pc)
          /\ \A i \in 1 .. Len(LabelsOf(s)) : long[i] = LabelsOf(s)[i]
      BY <1>3, <3>1, AppendProperties
    <3> HIDE DEF long
    <3> QED BY <1>3, <3>2
  <2>4. DOMAIN long = 1 .. n + 1 /\ long = [i \in DOMAIN long |-> long[i]]
    BY <2>3, LenProperties
  <2> HIDE DEF t, long
  <2>5. \A i \in 1 .. n + 1 : LabelOf(t[i]) = long[i]
    <3> SUFFICES ASSUME NEW i \in 1 .. n + 1 PROVE LabelOf(t[i]) = long[i]
      OBVIOUS
    <3>1. CASE i = n + 1
      BY <2>1, <2>3, <3>1
    <3>2. CASE i # n + 1
      <4>1. i \in 1 .. n
        BY <1>2, <3>2
      <4> QED BY <2>1, <2>3, <4>1
    <3> QED BY <3>1, <3>2
  <2>6. LabelsOf(t) = [i \in 1 .. n + 1 |-> LabelOf(t[i])]
    BY <2>2 DEF LabelsOf
  <2>7. long = [i \in 1 .. n + 1 |-> long[i]]
    BY <2>4
  <2> QED BY <2>5, <2>6, <2>7 DEF t, long
<1> QED BY <1>3, <1>4

(* Without frames there are no labels,                                     *)
LEMMA CallersNone == Callers(<<>>) = <<>> /\ CallersTold(<<>>) = <<>>
<1>1. Callers(<<>>) = <<>>
  <2>1. Picked(<<>>, Left(<<>>)) = <<>>
    BY PickedNone
  <2>2. LabelsOf(<<>>) = <<>>
    BY DEF LabelsOf
  <2> QED BY <2>1, <2>2 DEF Callers
<1>2. Merged(<<>>) = <<>>
  BY PickedNone DEF Merged
<1> QED BY <1>1, <1>2 DEF CallersTold

(* and one frame more adds its label, if it has one and has begun.         *)
LEMMA CallersAppend ==
  ASSUME Ready, NEW u \in Seq(Pcs), NEW pc \in Pcs
  PROVE  /\ Callers(u) \in Seq(TableMarks) /\ CallersTold(u) \in Seq(TableMarks)
         /\ pc \in DOMAIN table \/ ~ Known(pc) => CallersTold(Append(u, pc)) = CallersTold(u)
         /\ pc \notin DOMAIN table /\ Known(pc) =>
              CallersTold(Append(u, pc)) = Pushed(CallersTold(u), LabelOf(pc))
<1> DEFINE n == Len(u)
           t == Append(u, pc)
           before == Picked(u, Left(u))
<1>1. /\ n \in Nat /\ DOMAIN u = 1 .. n /\ t \in Seq(Pcs) /\ Len(t) = n + 1 /\ t[n + 1] = pc
      /\ DOMAIN t = 1 .. n + 1 /\ \A i \in 1 .. n : t[i] = u[i]
  BY LenProperties, AppendProperties
<1> HIDE DEF n, t
<1>2. SamePositions(u, Left(t), Left(u))
  BY <1>1 DEF SamePositions, Left
<1>3. AllIn(t, Left(t), KnownPcs)
  <2>1. \A i \in DOMAIN t : t[i] \in Pcs
    BY <1>1, ElementOfSeq
  <2> QED BY <2>1 DEF AllIn, Left, KnownPcs
<1>4. /\ before \in Seq(KnownPcs)
      /\ Picked(t, Left(t)) = IF n + 1 \in Left(t) THEN Append(before, pc) ELSE before
  BY <1>2, <1>3, PickedAppend DEF t, n
<1>5. n + 1 \in Left(t) <=> pc \notin DOMAIN table /\ Known(pc)
  BY <1>1 DEF Left
<1> HIDE DEF before
<1>6. Callers(u) = LabelsOf(before) /\ LabelsOf(before) \in Seq(TableMarks)
  BY <1>4, LabelsOfFact DEF Callers, before
<1>7. Callers(t) = IF n + 1 \in Left(t) THEN LabelsOf(Append(before, pc)) ELSE LabelsOf(before)
  BY <1>4 DEF Callers
<1>8. CASE pc \notin DOMAIN table /\ Known(pc)
  <2>1. pc \in KnownPcs /\ LabelOf(pc) \in TableMarks
    BY <1>8, KnownFact DEF KnownPcs
  <2>2. Callers(t) = Append(Callers(u), LabelOf(pc))
    BY <1>4, <1>5, <1>6, <1>7, <1>8, <2>1, LabelsOfFact
  <2>3. /\ Merged(Callers(u)) \in Seq(TableMarks)
        /\ Merged(Append(Callers(u), LabelOf(pc))) = Pushed(Merged(Callers(u)), LabelOf(pc))
    BY <1>6, <2>1, MergedAppend
  <2> QED BY <1>6, <1>8, <2>2, <2>3 DEF CallersTold, t
<1>9. CASE ~ (pc \notin DOMAIN table /\ Known(pc))
  <2>1. Callers(t) = Callers(u)
    BY <1>5, <1>6, <1>7, <1>9
  <2>2. Merged(Callers(u)) \in Seq(TableMarks)
    <3>1. Mark(Handler) \in TableMarks
      BY DEF Ready, ImageFits, TableMarks
    <3> QED BY <1>6, <3>1, MergedAppend
  <2> QED BY <1>6, <1>9, <2>1, <2>2 DEF CallersTold, t
<1> QED BY <1>8, <1>9

(* What is expected is told of the frames below and of the last.           *)
LEMMA ExpectedFact ==
  ASSUME Ready, NEW u \in Seq(Pcs), NEW pc \in Pcs, frames = Append(u, pc)
  PROVE  Expected = IF Known(pc) THEN Pushed(CallersTold(u), LabelOf(pc)) ELSE <<Misc>>
<1> DEFINE n == Len(u)
           set == {i \in Begun : Known(frames[i])}
<1>1. /\ n \in Nat /\ DOMAIN u = 1 .. n /\ frames \in Seq(Pcs) /\ Len(frames) = n + 1 /\ frames[n + 1] = pc
      /\ \A i \in 1 .. n : frames[i] = u[i]
  BY LenProperties, AppendProperties
<1>2. DOMAIN frames = 1 .. n + 1
  BY <1>1, LenProperties
<1> HIDE DEF n
<1>3. Last(frames) = pc
  BY <1>1 DEF Last
<1>4. CASE ~ Known(pc)
  BY <1>3, <1>4 DEF Expected
<1>5. CASE Known(pc)
  <2>1. SamePositions(u, set, Left(u))
    <3>1. ASSUME NEW i \in DOMAIN u PROVE i \in set <=> i \in Left(u)
      <4>1. i \in DOMAIN frames /\ i # n + 1 /\ frames[i] = u[i]
        BY <1>1, <1>2
      <4> QED BY <1>1, <4>1 DEF Begun, Left
    <3> QED BY <3>1 DEF SamePositions
  <2>2. n + 1 \in set
    BY <1>1, <1>2, <1>5 DEF Begun
  <2>3. AllIn(frames, set, KnownPcs)
    <3>1. \A i \in DOMAIN frames : frames[i] \in Pcs
      BY <1>1, <1>2, ElementOfSeq
    <3> QED BY <3>1 DEF AllIn, KnownPcs
  <2> DEFINE before == Picked(u, Left(u))
  <2>4. TrueStack = LabelsOf(Picked(frames, set))
    BY DEF TrueStack, LabelsOf
  <2> HIDE DEF set
  <2>5. before \in Seq(KnownPcs) /\ Picked(frames, set) = Append(before, pc)
    <3>1. AllIn(Append(u, pc), set, KnownPcs)
      BY <2>3
    <3>2. /\ before \in Seq(KnownPcs)
          /\ Picked(Append(u, pc), set) = IF Len(u) + 1 \in set THEN Append(before, pc) ELSE before
      BY <2>1, <3>1, PickedAppend
    <3> HIDE DEF before
    <3> QED BY <2>2, <3>2 DEF n
  <2> HIDE DEF before
  <2>6. pc \in KnownPcs /\ LabelOf(pc) \in TableMarks
    BY <1>5, KnownFact DEF KnownPcs
  <2>7. TrueStack = Append(LabelsOf(before), LabelOf(pc)) /\ LabelsOf(before) \in Seq(TableMarks)
    BY <2>4, <2>5, <2>6, LabelsOfFact
  <2>8. LabelsOf(before) = Callers(u)
    BY DEF Callers, before
  <2>9. Merged(TrueStack) = Pushed(CallersTold(u), LabelOf(pc))
    BY <2>6, <2>7, <2>8, MergedAppend DEF CallersTold
  <2> QED BY <1>3, <1>5, <2>9 DEF Expected
<1> QED BY <1>4, <1>5

-----------------------------------------------------------------------------
\* StackUnwinder: the invariant.

\* A frame below another has an address in the image, unless it is the one of the
\* binary that is not known.  It has still to begin only if its call was interrupted;
\* then its caller is below it, and if that is an assembly sequence something may be
\* lost.
SoundFrame(u, i, strays, loses) ==
  /\ Known(u[i]) \/ (i = 1 /\ u[i] \in Outside)
  /\ u[i] \in DOMAIN table =>
       /\ strays # 0 /\ i # 1
       /\ u[i - 1] \notin DOMAIN table /\ Known(u[i - 1])
       /\ loses \/ ~ InAsm(u[i - 1])
Frames(u, strays, loses) == u \in Seq(Pcs) /\ \A i \in DOMAIN u : SoundFrame(u, i, strays, loses)

\* The stack of labels, when the address executed last is pc and the frames below are u.
ToldOf(u, pc, stack, strays, loses) ==
  IF Known(pc)
  THEN stack \in Seq(TableMarks) /\ Told(Pushed(CallersTold(u), LabelOf(pc)), stack, strays = 0, ~ loses)
  ELSE pc \in Outside /\ u = <<>> /\ stack = <<Misc>>
Fits(u, pc, stack, strays, loses) ==
  /\ Frames(u, strays, loses) /\ pc \in Pcs
  /\ ToldOf(u, pc, stack, strays, loses)

UnwinderInv ==
  /\ TextInv /\ DOMAIN progtext \subseteq Nat
  /\ stray \in Nat /\ lost \in BOOLEAN
  /\ frames = <<>> => label_stack = <<>>
  /\ frames # <<>> => /\ stage = "run"
                      /\ \E u \in Seq(Pcs), pc \in Pcs : frames = Append(u, pc) /\ Fits(u, pc, label_stack, stray, lost)

(* There are no frames below the first,                                    *)
LEMMA FramesNone == ASSUME NEW strays, NEW loses PROVE Frames(<<>>, strays, loses)
<1>1. <<>> \in Seq(Pcs) /\ DOMAIN <<>> = {}
  OBVIOUS
<1> QED BY <1>1 DEF Frames

(* below the last are those below it, with what is there of it;            *)
LEMMA FramesFront ==
  ASSUME NEW u \in Seq(Pcs), NEW pc \in Pcs, NEW strays, NEW loses, Frames(Append(u, pc), strays, loses)
  PROVE  /\ Frames(u, strays, loses)
         /\ Known(pc) \/ (pc \in Outside /\ u = <<>>)
         /\ pc \in DOMAIN table =>
              /\ strays # 0
              /\ \E below \in Seq(Pcs), caller \in Pcs :
                   /\ u = Append(below, caller) /\ caller \notin DOMAIN table /\ Known(caller)
                   /\ loses \/ ~ InAsm(caller)
<1> DEFINE n == Len(u)
           t == Append(u, pc)
<1>1. /\ n \in Nat /\ DOMAIN u = 1 .. n /\ t \in Seq(Pcs) /\ Len(t) = n + 1 /\ t[n + 1] = pc
      /\ DOMAIN t = 1 .. n + 1 /\ \A i \in 1 .. n : t[i] = u[i]
  BY LenProperties, AppendProperties
<1>2. u = <<>> <=> n = 0
  BY EmptySeq
<1> HIDE DEF n, t
<1>3. \A i \in 1 .. n + 1 : SoundFrame(t, i, strays, loses)
  BY <1>1 DEF Frames, t
<1>4. ASSUME NEW i \in 1 .. n PROVE SoundFrame(u, i, strays, loses)
  <2>1. i \in 1 .. n + 1 /\ t[i] = u[i] /\ (i # 1 => i - 1 \in 1 .. n)
    BY <1>1
  <2>2. i # 1 => t[i - 1] = u[i - 1]
    BY <1>1, <2>1
  <2> QED BY <1>3, <2>1, <2>2 DEF SoundFrame
<1>5. SoundFrame(t, n + 1, strays, loses)
  <2>1. n + 1 \in 1 .. n + 1
    BY <1>1
  <2> QED BY <1>3, <2>1
<1>6. Known(pc) \/ (pc \in Outside /\ u = <<>>)
  <2>1. n + 1 = 1 => n = 0
    BY <1>1
  <2> QED BY <1>1, <1>2, <1>5, <2>1 DEF SoundFrame
<1>7. ASSUME pc \in DOMAIN table
      PROVE  /\ strays # 0
             /\ \E below \in Seq(Pcs), caller \in Pcs :
                  /\ u = Append(below, caller) /\ caller \notin DOMAIN table /\ Known(caller)
                  /\ loses \/ ~ InAsm(caller)
  <2>1. /\ strays # 0 /\ n + 1 # 1 /\ t[(n + 1) - 1] \notin DOMAIN table /\ Known(t[(n + 1) - 1])
        /\ loses \/ ~ InAsm(t[(n + 1) - 1])
    BY <1>1, <1>5, <1>7 DEF SoundFrame
  <2>2. (n + 1) - 1 = n /\ n # 0 /\ n \in 1 .. n
    BY <1>1, <2>1
  <2>3. t[n] = u[n] /\ u # <<>>
    BY <1>1, <1>2, <2>2
  <2>4. Front(u) \in Seq(Pcs) /\ Last(u) \in Pcs /\ u = Append(Front(u), Last(u)) /\ Last(u) = u[n]
    BY <2>3, FrontLast DEF Last, n
  <2>5. Last(u) \notin DOMAIN table /\ Known(Last(u)) /\ (loses \/ ~ InAsm(Last(u)))
    BY <2>1, <2>2, <2>3, <2>4
  <2> QED BY <2>1, <2>4, <2>5
<1>8. Frames(u, strays, loses)
  BY <1>1, <1>4 DEF Frames
<1> QED BY <1>6, <1>7, <1>8

(* a frame is added that calls,                                            *)
LEMMA FramesAppend ==
  ASSUME NEW u \in Seq(Pcs), NEW pc \in Pcs, NEW strays, NEW loses, Frames(u, strays, loses),
         Known(pc) \/ (pc \in Outside /\ u = <<>>), pc \notin DOMAIN table
  PROVE  Frames(Append(u, pc), strays, loses)
<1> DEFINE n == Len(u)
           t == Append(u, pc)
<1>1. /\ n \in Nat /\ DOMAIN u = 1 .. n /\ t \in Seq(Pcs) /\ Len(t) = n + 1 /\ t[n + 1] = pc
      /\ DOMAIN t = 1 .. n + 1 /\ \A i \in 1 .. n : t[i] = u[i]
  BY LenProperties, AppendProperties
<1>2. u = <<>> => n = 0
  BY EmptySeq
<1> HIDE DEF n, t
<1>3. ASSUME NEW i \in 1 .. n PROVE SoundFrame(t, i, strays, loses)
  <2>1. t[i] = u[i] /\ (i # 1 => i - 1 \in 1 .. n)
    BY <1>1
  <2>2. i # 1 => t[i - 1] = u[i - 1]
    BY <1>1, <2>1
  <2>3. SoundFrame(u, i, strays, loses)
    BY <1>1 DEF Frames
  <2> QED BY <2>1, <2>2, <2>3 DEF SoundFrame
<1>4. SoundFrame(t, n + 1, strays, loses)
  <2>1. u = <<>> => n + 1 = 1
    BY <1>2
  <2> QED BY <1>1, <2>1 DEF SoundFrame
<1>5. \A i \in 1 .. n + 1 : SoundFrame(t, i, strays, loses)
  <2>1. \A i \in 1 .. n + 1 : i = n + 1 \/ i \in 1 .. n
    BY <1>1
  <2> QED BY <1>3, <1>4, <2>1
<1> QED BY <1>1, <1>5 DEF Frames, t

(* and on it one whose call was interrupted.                               *)
LEMMA FramesPending ==
  ASSUME NEW u \in Seq(Pcs), NEW caller \in Pcs, NEW pc \in Pcs, NEW strays, NEW loses,
         Frames(Append(u, caller), strays, loses), caller \notin DOMAIN table, Known(caller),
         strays # 0, loses \/ ~ InAsm(caller), Known(pc)
  PROVE  Frames(Append(Append(u, caller), pc), strays, loses)
<1>1. PICK s \in Seq(Pcs) : s = Append(u, caller)
  BY AppendProperties
<1> DEFINE n == Len(s)
           t == Append(s, pc)
<1>2. n = Len(u) + 1 /\ Len(u) \in Nat /\ s[n] = caller
  BY <1>1, LenProperties, AppendProperties
<1>3. /\ n \in Nat /\ DOMAIN s = 1 .. n /\ t \in Seq(Pcs) /\ Len(t) = n + 1 /\ t[n + 1] = pc
      /\ DOMAIN t = 1 .. n + 1 /\ \A i \in 1 .. n : t[i] = s[i]
  BY LenProperties, AppendProperties
<1> HIDE DEF n, t
<1>4. ASSUME NEW i \in 1 .. n PROVE SoundFrame(t, i, strays, loses)
  <2>1. t[i] = s[i] /\ (i # 1 => i - 1 \in 1 .. n)
    BY <1>3
  <2>2. i # 1 => t[i - 1] = s[i - 1]
    BY <1>3, <2>1
  <2>3. SoundFrame(s, i, strays, loses)
    BY <1>1, <1>3 DEF Frames
  <2> QED BY <2>1, <2>2, <2>3 DEF SoundFrame
<1>5. SoundFrame(t, n + 1, strays, loses)
  <2>1. (n + 1) - 1 = n /\ n \in 1 .. n /\ n + 1 # 1
    BY <1>2, <1>3
  <2>2. t[(n + 1) - 1] = caller
    BY <1>2, <1>3, <2>1
  <2> QED BY <1>3, <2>1, <2>2 DEF SoundFrame
<1>6. \A i \in 1 .. n + 1 : SoundFrame(t, i, strays, loses)
  <2>1. \A i \in 1 .. n + 1 : i = n + 1 \/ i \in 1 .. n
    BY <1>3
  <2> QED BY <1>4, <1>5, <2>1
<1>7. Frames(t, strays, loses)
  BY <1>3, <1>6 DEF Frames
<1> QED BY <1>1, <1>7 DEF t

(* What has strayed since changes nothing.                                 *)
LEMMA FramesWeaken ==
  ASSUME NEW u, NEW strays, NEW loses, Frames(u, strays, loses), NEW more, NEW hides,
         strays # 0 => more # 0, loses => hides
  PROVE  Frames(u, more, hides)
<1> QED BY DEF Frames, SoundFrame

-----------------------------------------------------------------------------
\* StackUnwinder: its steps.

Holds(u, pc) ==
  /\ u \in Seq(Pcs) /\ pc \in Pcs /\ frames = Append(u, pc)
  /\ stray \in Nat /\ lost \in BOOLEAN
  /\ Fits(u, pc, label_stack, stray, lost)
Goes(u, pc) ==
  /\ u \in Seq(Pcs) /\ pc \in Pcs /\ frames' = Append(u, pc)
  /\ Fits(u, pc, label_stack', stray', lost')
Kept == \E u \in Seq(Pcs), pc \in Pcs : Goes(u, pc)

(* The last frame, the frames with another address in it, and those below. *)
LEMMA HoldsFact ==
  ASSUME NEW u \in Seq(Pcs), NEW pc \in Pcs, frames = Append(u, pc)
  PROVE  /\ Last(frames) = pc /\ Front(frames) = u
         /\ \A q \in Pcs : At(q) = Append(u, q)
         /\ ReturnTo = IF u = <<>> THEN {} ELSE {u}
<1> DEFINE n == Len(u)
<1>1. /\ n \in Nat /\ frames \in Seq(Pcs) /\ Len(frames) = n + 1 /\ DOMAIN frames = 1 .. n + 1
      /\ \A i \in 1 .. n : frames[i] = u[i]
  BY LenProperties, AppendProperties
<1>2. Last(frames) = pc /\ Front(frames) = u
  BY AppendFront
<1>3. u = <<>> <=> n = 0
  BY EmptySeq
<1>4. ASSUME NEW q \in Pcs PROVE At(q) = Append(u, q)
  <2> DEFINE t == Append(u, q)
             at == At(q)
  <2>1. t \in Seq(Pcs) /\ Len(t) = n + 1 /\ t[n + 1] = q /\ \A i \in 1 .. n : t[i] = u[i]
    BY AppendProperties
  <2> HIDE DEF n
  <2>2. DOMAIN t = 1 .. n + 1 /\ t = [i \in DOMAIN t |-> t[i]]
    BY <2>1, LenProperties
  <2> HIDE DEF t
  <2>3. at = [i \in 1 .. n + 1 |-> IF i = n + 1 THEN q ELSE frames[i]]
    BY <1>1 DEF At
  <2>4. \A i \in 1 .. n + 1 : t[i] = IF i = n + 1 THEN q ELSE frames[i]
    <3>1. \A i \in 1 .. n + 1 : i = n + 1 \/ i \in 1 .. n
      BY <1>1
    <3> QED BY <1>1, <2>1, <3>1
  <2> HIDE DEF at
  <2>5. t = at
    BY <2>2, <2>3, <2>4
  <2> QED BY <2>5 DEF t, at
<1> HIDE DEF n
<1>5. Len(frames) > 1 <=> u # <<>>
  BY <1>1, <1>3
<1>6. ReturnTo = IF u = <<>> THEN {} ELSE {u}
  BY <1>2, <1>5 DEF ReturnTo
<1> QED BY <1>2, <1>4, <1>6

(* A known address is not one of the binary that is not.                   *)
LEMMA KnownInside ==
  ASSUME Ready, NEW pc
  PROVE  /\ Known(pc) => pc \in Pcs /\ pc \notin Outside
         /\ pc \in Outside => pc \in Pcs /\ ~ Known(pc) /\ pc \notin DOMAIN table
<1>1. \A q \in Outside : q \notin DOMAIN progtext /\ DOMAIN table \subseteq DOMAIN progtext
  BY DEF Ready, ImageFits
<1> QED BY <1>1 DEF Known, Pcs

(* The label of a known address is put on what there is.                   *)
LEMMA NewStack ==
  ASSUME Ready, NEW u, NEW pc, Holds(u, pc), NEW q, Known(q), add_instruction(q)
  PROVE  /\ LabelOf(q) \in TableMarks
         /\ Known(pc) => /\ label_stack \in Seq(TableMarks) /\ LabelOf(pc) \in TableMarks
                         /\ label_stack' = NextStack(label_stack, LabelOf(q), q \in DOMAIN table)
         /\ ~ Known(pc) => /\ u = <<>> /\ pc \in Outside
                           /\ label_stack' = NextStack(<<>>, LabelOf(q), q \in DOMAIN table)
         /\ label_stack' \in Seq(TableMarks) /\ Tops(label_stack', LabelOf(q))
<1>1. LabelOf(q) \in TableMarks /\ (Known(pc) => LabelOf(pc) \in TableMarks)
  BY KnownFact
<1>2. ToldOf(u, pc, label_stack, stray, lost)
  BY DEF Holds, Fits
<1>3. CASE Known(pc)
  <2>1. label_stack \in Seq(TableMarks)
    BY <1>2, <1>3 DEF ToldOf
  <2>2. label_stack' = NextStack(label_stack, LabelOf(q), q \in DOMAIN table)
    BY <2>1, AddKnown
  <2>3. label_stack' \in Seq(TableMarks) /\ Tops(label_stack', LabelOf(q))
    BY <1>1, <2>1, <2>2, MarksFact, ToldAnyhow
  <2> QED BY <1>1, <1>3, <2>1, <2>2, <2>3
<1>4. CASE ~ Known(pc)
  <2>1. u = <<>> /\ pc \in Outside /\ label_stack = <<Misc>> /\ <<>> \in Seq(TableMarks)
    BY <1>2, <1>4 DEF ToldOf
  <2>2. label_stack' = NextStack(<<>>, LabelOf(q), q \in DOMAIN table)
    BY <2>1, AddKnown
  <2>3. label_stack' \in Seq(TableMarks) /\ Tops(label_stack', LabelOf(q))
    BY <1>1, <2>1, <2>2, MarksFact, ToldAnyhow
  <2> QED BY <1>1, <1>4, <2>1, <2>2, <2>3
<1> QED BY <1>3, <1>4

(* After something strayed and lost its label's place, the label is on top.*)
LEMMA ToldLost ==
  ASSUME NEW D, NEW s \in Seq(D), NEW a \in D, NEW stack \in Seq(D), Tops(stack, a), NEW same, ~ same, NEW kept, ~ kept
  PROVE  Told(Pushed(s, a), stack, same, kept)
<1>1. Last(Pushed(s, a)) = a
  BY PushedFact
<1> QED BY <1>1 DEF Told

(* On frames that have no label a subroutine's is the only one.            *)
LEMMA ToldFirst ==
  ASSUME NEW D, NEW a \in D, NEW begins, NEW same, NEW kept
  PROVE  Told(Pushed(<<>>, a), NextStack(<<>>, a, begins), same, kept)
<1>1. Pushed(<<>>, a) = <<a>>
  <2>1. Append(<<>>, a) = <<a>>
    OBVIOUS
  <2> QED BY <2>1 DEF Pushed
<1>2. NextStack(<<>>, a, begins) = <<a>>
  BY DEF NextStack
<1>3. IsSubsequence(<<a>>, <<a>>)
  BY SubRefl
<1> QED BY <1>1, <1>2, <1>3 DEF Told, Tops

(* Where the program may go on within the subroutine,                      *)
LEMMA StepFact ==
  ASSUME Ready, NEW u, NEW pc, Holds(u, pc), NEW stack \in StepTo
  PROVE  \/ pc \in Outside /\ stack = frames
         \/ \E q \in Pcs : stack = Append(u, q) /\ SameSubroutine(pc, q) /\ q \notin DOMAIN table
<1>1. Last(frames) = pc /\ \A q \in Pcs : At(q) = Append(u, q)
  BY HoldsFact DEF Holds
<1>2. CASE pc \in Outside
  BY <1>1, <1>2 DEF StepTo
<1>3. CASE pc \notin Outside
  <2>1. PICK q \in DOMAIN progtext : stack = At(q) /\ SameSubroutine(pc, q) /\ q \notin DOMAIN table
    BY <1>1, <1>3 DEF StepTo
  <2> QED BY <1>1, <2>1 DEF Pcs
<1> QED BY <1>2, <1>3

(* where it may call, and go on after.                                    *)
LEMMA CallFact ==
  ASSUME Ready, NEW u, NEW pc, Holds(u, pc), NEW stack \in CallTo
  PROVE  \E q \in Pcs, k \in DOMAIN table :
           stack = Append(Append(u, q), k) /\ SameSubroutine(pc, q) /\ q \notin DOMAIN table
<1>1. Last(frames) = pc /\ \A q \in Pcs : At(q) = Append(u, q)
  BY HoldsFact DEF Holds
<1>2. PICK k \in DOMAIN table : stack = Append(At(pc + 1), k) /\ SameSubroutine(pc, pc + 1)
  BY <1>1 DEF CallTo
<1>3. Known(pc) /\ Known(pc + 1) /\ (pc < pc + 1 => pc + 1 \notin DOMAIN table)
  BY <1>2, SameFact
<1>4. pc \in Nat /\ pc < pc + 1
  <2>1. pc \in Nat
    BY <1>3, KnownFact
  <2> QED BY <2>1
<1>5. pc + 1 \in Pcs /\ pc + 1 \notin DOMAIN table
  BY <1>3, <1>4, KnownInside
<1> QED BY <1>1, <1>2, <1>5

(* A call, after which the caller goes on at q.                            *)
LEMMA CallTold ==
  ASSUME Ready, NEW u, NEW pc, Holds(u, pc), NEW q \in Pcs, SameSubroutine(pc, q), q \notin DOMAIN table,
         NEW k \in DOMAIN table, add_instruction(k)
  PROVE  /\ Known(k) /\ k \in Pcs /\ Frames(Append(u, q), stray, lost) /\ Append(u, q) \in Seq(Pcs)
         /\ label_stack' \in Seq(TableMarks)
         /\ Told(Pushed(CallersTold(Append(u, q)), LabelOf(k)), label_stack', stray = 0, ~ lost)
<1>1. Known(k) /\ k \in Pcs /\ u \in Seq(Pcs)
  BY EntryKnown, KnownInside DEF Holds
<1>2. Known(pc) /\ Known(q) /\ LabelOf(q) = LabelOf(pc)
  BY SameFact
<1>3. Frames(u, stray, lost) /\ ToldOf(u, pc, label_stack, stray, lost)
  BY DEF Holds, Fits
<1>4. Frames(Append(u, q), stray, lost) /\ Append(u, q) \in Seq(Pcs)
  BY <1>1, <1>2, <1>3, FramesAppend, AppendProperties
<1> DEFINE s == Pushed(CallersTold(u), LabelOf(pc))
<1>5. CallersTold(u) \in Seq(TableMarks) /\ CallersTold(Append(u, q)) = s
  BY <1>1, <1>2, CallersAppend
<1>6. /\ LabelOf(k) \in TableMarks /\ LabelOf(pc) \in TableMarks /\ label_stack \in Seq(TableMarks)
      /\ label_stack' = NextStack(label_stack, LabelOf(k), k \in DOMAIN table)
      /\ label_stack' \in Seq(TableMarks)
  BY <1>1, <1>2, NewStack
<1>7. label_stack' = Pushed(label_stack, LabelOf(k))
  <2>1. (k \in DOMAIN table) = TRUE
    OBVIOUS
  <2>2. NextStack(label_stack, LabelOf(k), TRUE) = Pushed(label_stack, LabelOf(k))
    BY <1>6, MarksFact, Begins
  <2> QED BY <1>6, <2>1, <2>2
<1>8. s \in Seq(TableMarks) /\ s # <<>>
  BY <1>5, <1>6, PushedFact
<1>9. Told(s, label_stack, stray = 0, ~ lost)
  BY <1>2, <1>3 DEF ToldOf
<1> HIDE DEF s
<1>10. Told(Pushed(s, LabelOf(k)), Pushed(label_stack, LabelOf(k)), stray = 0, ~ lost)
  BY <1>6, <1>8, <1>9, ToldCalled
<1> QED BY <1>1, <1>4, <1>5, <1>6, <1>7, <1>10

(* A subroutine that takes the place of the one executed.                  *)
LEMMA ReplacedTold ==
  ASSUME Ready, NEW u, NEW pc, Holds(u, pc), Known(pc), NEW k \in DOMAIN table, add_instruction(k), NEW hides,
         \/ hides \/ ~ InAsm(pc) \/ CallersTold(u) = <<>> \/ ~ Last(CallersTold(u)).asm_sequence,
         lost => hides
  PROVE  /\ Known(k) /\ k \in Pcs
         /\ label_stack' \in Seq(TableMarks)
         /\ Told(Pushed(CallersTold(u), LabelOf(k)), label_stack', FALSE, ~ hides)
<1>1. Known(k) /\ k \in Pcs /\ u \in Seq(Pcs)
  BY EntryKnown, KnownInside DEF Holds
<1> DEFINE s == CallersTold(u)
           a == LabelOf(pc)
           b == LabelOf(k)
<1>2. s \in Seq(TableMarks)
  BY <1>1, CallersAppend
<1>3. /\ b \in TableMarks /\ a \in TableMarks /\ label_stack \in Seq(TableMarks)
      /\ label_stack' = NextStack(label_stack, b, k \in DOMAIN table)
      /\ label_stack' \in Seq(TableMarks) /\ Tops(label_stack', b)
  BY <1>1, NewStack
<1>4. label_stack' = Pushed(label_stack, b)
  <2>1. (k \in DOMAIN table) = TRUE
    OBVIOUS
  <2>2. NextStack(label_stack, b, TRUE) = Pushed(label_stack, b)
    BY <1>3, MarksFact, Begins
  <2> QED BY <1>3, <2>1, <2>2
<1>5. CASE hides
  BY <1>1, <1>2, <1>3, <1>5, ToldLost
<1>6. CASE ~ hides
  <2>1. ~ a.asm_sequence \/ s = <<>> \/ ~ Last(s).asm_sequence
    BY <1>6, KnownFact
  <2>2. Told(Pushed(s, a), label_stack, stray = 0, ~ lost)
    BY DEF Holds, Fits, ToldOf
  <2>3. Distinct(TableMarks)
    BY MarksFact
  <2> HIDE DEF s, a, b
  <2>4. Told(Pushed(s, b), Pushed(label_stack, b), FALSE, ~ lost)
    BY <1>2, <1>3, <2>1, <2>2, <2>3, ToldReplaced
  <2>5. ~ lost
    BY <1>6
  <2> QED BY <1>1, <1>3, <1>4, <1>6, <2>4, <2>5 DEF s, b, Told
<1> QED BY <1>5, <1>6

(* A step within the subroutine keeps the invariant,                       *)
LEMMA StepKeeps ==
  ASSUME Ready, NEW u, NEW pc, Holds(u, pc), NEW q \in Pcs, SameSubroutine(pc, q), q \notin DOMAIN table,
         frames' = Append(u, q), add_instruction(q), UNCHANGED <<stray, lost>>
  PROVE  Kept
<1>1. Known(pc) /\ Known(q) /\ LabelOf(q) = LabelOf(pc)
  BY SameFact
<1>2. u \in Seq(Pcs) /\ Frames(u, stray, lost) /\ ToldOf(u, pc, label_stack, stray, lost)
  BY DEF Holds, Fits
<1> DEFINE s == CallersTold(u)
           a == LabelOf(pc)
<1>3. s \in Seq(TableMarks)
  BY <1>2, CallersAppend DEF Holds
<1>4. /\ a \in TableMarks /\ label_stack \in Seq(TableMarks)
      /\ label_stack' = NextStack(label_stack, a, q \in DOMAIN table)
      /\ label_stack' \in Seq(TableMarks)
  BY <1>1, NewStack
<1>5. Told(Pushed(s, a), label_stack, stray = 0, ~ lost)
  BY <1>1, <1>2 DEF ToldOf
<1> HIDE DEF s, a
<1>6. Told(Pushed(s, a), NextStack(label_stack, a, q \in DOMAIN table), stray = 0, ~ lost)
  BY <1>3, <1>4, <1>5, ToldStays
<1>7. Told(Pushed(s, LabelOf(q)), label_stack', stray = 0, ~ lost)
  BY <1>1, <1>4, <1>6 DEF a
<1>8. ToldOf(u, q, label_stack', stray, lost)
  BY <1>1, <1>4, <1>7 DEF ToldOf, s
<1> QED BY <1>2, <1>8 DEF Kept, Goes, Fits

(* a call does,                                                            *)
LEMMA CallKeeps ==
  ASSUME Ready, NEW u, NEW pc, Holds(u, pc), NEW q \in Pcs, SameSubroutine(pc, q), q \notin DOMAIN table,
         NEW k \in DOMAIN table, frames' = Append(Append(u, q), k), add_instruction(k), UNCHANGED <<stray, lost>>
  PROVE  Kept
<1>1. /\ Known(k) /\ k \in Pcs /\ Frames(Append(u, q), stray, lost) /\ Append(u, q) \in Seq(Pcs)
      /\ label_stack' \in Seq(TableMarks)
      /\ Told(Pushed(CallersTold(Append(u, q)), LabelOf(k)), label_stack', stray = 0, ~ lost)
  BY CallTold
<1>2. ToldOf(Append(u, q), k, label_stack', stray, lost)
  BY <1>1 DEF ToldOf
<1>3. Fits(Append(u, q), k, label_stack', stray', lost')
  BY <1>1, <1>2 DEF Fits
<1> QED BY <1>1, <1>3 DEF Kept, Goes

(* and a return does: to a frame that has begun, or that begins only now.  *)
LEMMA ReturnKeeps ==
  ASSUME Ready, NEW u, NEW pc, Holds(u, pc), u # <<>>,
         frames' = u, add_instruction(Last(u)), Last(u) \notin Outside, UNCHANGED <<stray, lost>>
  PROVE  Kept
<1>1. /\ u \in Seq(Pcs) /\ pc \in Pcs /\ Frames(u, stray, lost) /\ ToldOf(u, pc, label_stack, stray, lost)
      /\ stray \in Nat /\ lost \in BOOLEAN
  BY DEF Holds, Fits
<1>2. PICK v \in Seq(Pcs), c \in Pcs : u = Append(v, c)
  <2>1. Front(u) \in Seq(Pcs) /\ Last(u) \in Pcs /\ u = Append(Front(u), Last(u))
    BY <1>1, FrontLast
  <2> QED BY <2>1
<1>3. Last(u) = c
  BY <1>2, AppendFront
<1>4. /\ Frames(v, stray, lost) /\ (Known(c) \/ (c \in Outside /\ v = <<>>))
      /\ c \in DOMAIN table =>
           /\ stray # 0
           /\ \E below \in Seq(Pcs), caller \in Pcs :
                /\ v = Append(below, caller) /\ caller \notin DOMAIN table /\ Known(caller)
                /\ lost \/ ~ InAsm(caller)
  <2>1. Frames(Append(v, c), stray, lost)
    BY <1>1, <1>2
  <2> QED BY <2>1, FramesFront
<1>5. Known(c) /\ Known(pc)
  BY <1>1, <1>3, <1>4 DEF ToldOf
<1>6. add_instruction(c)
  BY <1>3
<1> DEFINE s == CallersTold(v)
           a == LabelOf(pc)
           b == LabelOf(c)
<1>7. s \in Seq(TableMarks)
  BY <1>2, CallersAppend
<1>8. /\ a \in TableMarks /\ b \in TableMarks /\ label_stack \in Seq(TableMarks)
      /\ label_stack' = NextStack(label_stack, b, c \in DOMAIN table)
      /\ label_stack' \in Seq(TableMarks)
  BY <1>5, <1>6, NewStack
<1>9. Told(Pushed(CallersTold(u), a), label_stack, stray = 0, ~ lost)
  BY <1>1, <1>5 DEF ToldOf
<1>10. CASE c \notin DOMAIN table
  <2>1. CallersTold(Append(v, c)) = Pushed(s, b)
    BY <1>2, <1>5, <1>10, CallersAppend
  <2>2. CallersTold(u) = Pushed(s, b)
    BY <1>2, <2>1
  <2>3. (c \in DOMAIN table) = FALSE
    BY <1>10
  <2>4. Distinct(TableMarks)
    BY MarksFact
  <2> HIDE DEF s, a, b
  <2>5. Told(Pushed(Pushed(s, b), a), label_stack, stray = 0, ~ lost)
    BY <1>9, <2>2
  <2>6. Told(Pushed(s, b), NextStack(label_stack, b, FALSE), stray = 0, ~ lost)
    BY <1>7, <1>8, <2>4, <2>5, ToldReturned
  <2>7. Told(Pushed(s, b), label_stack', stray = 0, ~ lost)
    BY <1>8, <2>3, <2>6
  <2>8. ToldOf(v, c, label_stack', stray, lost)
    BY <1>5, <1>8, <2>7 DEF ToldOf, s, b
  <2> QED BY <1>2, <1>4, <2>8 DEF Kept, Goes, Fits
<1>11. CASE c \in DOMAIN table
  <2>1. PICK below \in Seq(Pcs), caller \in Pcs :
          /\ v = Append(below, caller) /\ caller \notin DOMAIN table /\ Known(caller)
          /\ lost \/ ~ InAsm(caller)
    BY <1>4, <1>11
  <2>2. CallersTold(Append(v, c)) = s
    BY <1>2, <1>11, CallersAppend
  <2>3. CallersTold(u) = s
    BY <1>2, <2>2
  <2>4. lost \/ ~ Last(s).asm_sequence
    <3>1. CallersTold(Append(below, caller)) = Pushed(CallersTold(below), LabelOf(caller))
      BY <2>1, CallersAppend
    <3>2. CallersTold(below) \in Seq(TableMarks)
      BY <2>1, CallersAppend
    <3>3. LabelOf(caller) \in TableMarks
      BY <2>1, KnownFact
    <3>4. Last(Pushed(CallersTold(below), LabelOf(caller))) = LabelOf(caller)
      BY <3>2, <3>3, PushedFact
    <3>5. Last(s) = LabelOf(caller)
      BY <2>1, <3>1, <3>4
    <3> QED BY <2>1, <3>5, KnownFact
  <2>5. /\ label_stack' \in Seq(TableMarks)
        /\ Told(Pushed(CallersTold(u), LabelOf(c)), label_stack', FALSE, ~ lost)
    <3>1. lost \/ ~ InAsm(pc) \/ CallersTold(u) = <<>> \/ ~ Last(CallersTold(u)).asm_sequence
      BY <2>3, <2>4
    <3> QED BY <1>5, <1>6, <1>11, <3>1, ReplacedTold
  <2>6. stray # 0
    BY <1>4, <1>11
  <2>7. Told(Pushed(s, b), label_stack', stray = 0, ~ lost)
    <3> HIDE DEF s, b
    <3>1. Told(Pushed(s, b), label_stack', FALSE, ~ lost)
      BY <2>3, <2>5 DEF b
    <3> QED BY <2>6, <3>1 DEF Told
  <2>8. ToldOf(v, c, label_stack', stray, lost)
    BY <1>5, <1>8, <2>7 DEF ToldOf
  <2> QED BY <1>2, <1>4, <2>8 DEF Kept, Goes, Fits
<1> QED BY <1>10, <1>11

(* Whatever strayed is over in a binary that is not known.                 *)
LEMMA OutsideKeeps ==
  ASSUME Ready, NEW pc \in Outside, frames' = <<pc>>, add_instruction(pc)
  PROVE  Kept
<1>1. <<pc>> = Append(<<>>, pc) /\ <<>> \in Seq(Pcs)
  OBVIOUS
<1>2. pc \in Pcs /\ ~ Known(pc)
  BY KnownInside
<1>3. label_stack' = <<Misc>>
  BY AddOutside
<1>4. ToldOf(<<>>, pc, label_stack', stray', lost')
  BY <1>2, <1>3 DEF ToldOf
<1>5. Frames(<<>>, stray', lost')
  BY FramesNone
<1> QED BY <1>1, <1>2, <1>4, <1>5 DEF Kept, Goes, Fits

(* The steps without an interrupt and without a tail call.                *)
LEMMA NestedKeeps ==
  ASSUME Ready, NEW u, NEW pc, Holds(u, pc), Nested
  PROVE  Kept
<1>1. PICK stack \in StepTo \union CallTo \union ReturnTo : Execute(stack)
  BY DEF Nested
<1>2. frames' = stack /\ add_instruction(Last(stack))
  BY <1>1 DEF Execute
<1>3. Last(stack) \notin Outside => UNCHANGED <<stray, lost>>
  BY <1>2 DEF Nested
<1>4. u \in Seq(Pcs) /\ pc \in Pcs /\ frames = Append(u, pc) /\ ToldOf(u, pc, label_stack, stray, lost)
      /\ Frames(u, stray, lost)
  BY DEF Holds, Fits
<1>5. CASE stack \in StepTo
  <2>1. CASE pc \in Outside /\ stack = frames
    <3>1. ~ Known(pc)
      BY <2>1, KnownInside
    <3>2. u = <<>>
      BY <1>4, <3>1 DEF ToldOf
    <3>3. Append(<<>>, pc) = <<pc>>
      OBVIOUS
    <3>4. Last(stack) = pc
      BY <1>4, <2>1, HoldsFact
    <3> QED BY <1>2, <1>4, <2>1, <3>2, <3>3, <3>4, OutsideKeeps
  <2>2. ASSUME NEW q \in Pcs, stack = Append(u, q), SameSubroutine(pc, q), q \notin DOMAIN table
        PROVE  Kept
    <3>1. Last(Append(u, q)) = q
      BY <1>4, AppendFront
    <3>2. q \notin Outside
      BY <2>2, SameFact, KnownInside
    <3>3. frames' = Append(u, q) /\ add_instruction(q) /\ UNCHANGED <<stray, lost>>
      BY <1>2, <1>3, <2>2, <3>1, <3>2
    <3> QED BY <2>2, <3>3, StepKeeps
  <2> QED BY <1>5, <2>1, <2>2, StepFact
<1>6. CASE stack \in CallTo
  <2>1. PICK q \in Pcs, k \in DOMAIN table :
          stack = Append(Append(u, q), k) /\ SameSubroutine(pc, q) /\ q \notin DOMAIN table
    BY <1>6, CallFact
  <2>2. Known(k) /\ k \in Pcs /\ k \notin Outside
    BY EntryKnown, KnownInside
  <2>3. Append(u, q) \in Seq(Pcs)
    BY <1>4, AppendProperties
  <2>4. Last(Append(Append(u, q), k)) = k
    BY <2>2, <2>3, AppendFront
  <2>5. frames' = Append(Append(u, q), k) /\ add_instruction(k) /\ UNCHANGED <<stray, lost>>
    BY <1>2, <1>3, <2>1, <2>2, <2>4
  <2> QED BY <2>1, <2>5, CallKeeps
<1>7. CASE stack \in ReturnTo
  <2>1. u # <<>> /\ stack = u
    BY <1>4, <1>7, HoldsFact
  <2>2. CASE Last(u) \notin Outside
    BY <1>2, <1>3, <2>1, <2>2, ReturnKeeps
  <2>3. CASE Last(u) \in Outside
    <3>1. Front(u) \in Seq(Pcs) /\ Last(u) \in Pcs /\ u = Append(Front(u), Last(u))
      BY <1>4, <2>1, FrontLast
    <3>2. Frames(Append(Front(u), Last(u)), stray, lost)
      BY <1>4, <3>1
    <3>3. Known(Last(u)) \/ (Last(u) \in Outside /\ Front(u) = <<>>)
      BY <3>1, <3>2, FramesFront
    <3>4. Front(u) = <<>>
      BY <2>3, <3>3, KnownInside
    <3>5. Append(<<>>, Last(u)) = <<Last(u)>>
      OBVIOUS
    <3>6. u = <<Last(u)>>
      BY <3>1, <3>4, <3>5
    <3> QED BY <1>2, <2>1, <2>3, <3>6, OutsideKeeps
  <2> QED BY <2>2, <2>3
<1> QED BY <1>5, <1>6, <1>7

(* A tail call puts a subroutine in the place of another.                  *)
LEMMA TailCallKeeps ==
  ASSUME Ready, NEW u, NEW pc, Holds(u, pc), TailCall
  PROVE  Kept
<1>1. /\ u \in Seq(Pcs) /\ pc \in Pcs /\ frames = Append(u, pc) /\ Frames(u, stray, lost)
      /\ ToldOf(u, pc, label_stack, stray, lost) /\ stray \in Nat /\ lost \in BOOLEAN
  BY DEF Holds, Fits
<1>2. Last(frames) = pc /\ \A q \in Pcs : At(q) = Append(u, q)
  BY <1>1, HoldsFact
<1>3. PICK k \in DOMAIN table : pc \notin Outside /\ Execute(At(k))
  BY <1>2 DEF TailCall, TailCallTo
<1>4. Known(k) /\ k \in Pcs
  BY EntryKnown, KnownInside
<1>5. At(k) = Append(u, k) /\ Last(Append(u, k)) = k
  BY <1>1, <1>2, <1>4, AppendFront
<1>6. frames' = Append(u, k) /\ add_instruction(k)
  BY <1>3, <1>5 DEF Execute
<1>7. stray' = stray + 1 /\ (lost' <=> lost \/ InAsm(pc))
  BY <1>2 DEF TailCall, Strays
<1>8. stray' # 0
  BY <1>1, <1>7
<1>9. Known(pc)
  BY <1>1, <1>3 DEF ToldOf
<1>10. /\ label_stack' \in Seq(TableMarks)
       /\ Told(Pushed(CallersTold(u), LabelOf(k)), label_stack', FALSE, ~ lost')
  BY <1>6, <1>7, <1>9, ReplacedTold
<1>11. Told(Pushed(CallersTold(u), LabelOf(k)), label_stack', stray' = 0, ~ lost')
  BY <1>8, <1>10 DEF Told
<1>12. ToldOf(u, k, label_stack', stray', lost')
  BY <1>4, <1>10, <1>11 DEF ToldOf
<1>13. Frames(u, stray', lost')
  BY <1>1, <1>7, <1>8, FramesWeaken
<1> QED BY <1>1, <1>4, <1>6, <1>12, <1>13 DEF Kept, Goes, Fits

(* An interrupt calls the handler; what it comes before has still to be    *)
(* executed, be it the first instruction of a subroutine.                  *)
LEMMA InterruptKeeps ==
  ASSUME Ready, NEW u, NEW pc, Holds(u, pc), Interrupt
  PROVE  Kept
<1>1. /\ u \in Seq(Pcs) /\ pc \in Pcs /\ frames = Append(u, pc) /\ Frames(u, stray, lost)
      /\ ToldOf(u, pc, label_stack, stray, lost) /\ stray \in Nat /\ lost \in BOOLEAN
  BY DEF Holds, Fits
<1>2. PICK stack \in StepTo \union CallTo \union ReturnTo :
        /\ Execute(Append(stack, Handler))
        /\ IF stack \in StepTo THEN UNCHANGED <<stray, lost>> ELSE Strays(InAsm(Last(frames)))
  BY DEF Interrupt
<1>3. Last(frames) = pc
  BY <1>1, HoldsFact
<1>4. Handler \in DOMAIN table /\ Known(Handler) /\ Handler \in Pcs /\ LabelOf(Handler) \in TableMarks
  <2>1. Handler \in DOMAIN table
    BY DEF Ready, ImageFits
  <2> QED BY <2>1, EntryKnown, KnownInside, KnownFact
<1>5. ASSUME stack \in Seq(Pcs) PROVE frames' = Append(stack, Handler) /\ add_instruction(Handler)
  <2>1. Last(Append(stack, Handler)) = Handler
    BY <1>4, <1>5, AppendFront
  <2> QED BY <1>2, <2>1 DEF Execute
<1>6. CASE stack \in StepTo
  <2>1. UNCHANGED <<stray, lost>>
    BY <1>2, <1>6
  <2>2. CASE pc \in Outside /\ stack = frames
    <3>1. ~ Known(pc) /\ pc \notin DOMAIN table
      BY <2>2, KnownInside
    <3>2. u = <<>> /\ <<>> \in Seq(Pcs)
      BY <1>1, <3>1 DEF ToldOf
    <3>3. stack = Append(<<>>, pc) /\ stack \in Seq(Pcs)
      BY <1>1, <2>2, <3>2, AppendProperties
    <3>4. frames' = Append(stack, Handler) /\ add_instruction(Handler)
      BY <1>5, <3>3
    <3>5. label_stack' = NextStack(<<>>, LabelOf(Handler), Handler \in DOMAIN table) /\ label_stack' \in Seq(TableMarks)
      BY <1>4, <3>1, <3>4, NewStack
    <3>6. CallersTold(stack) = <<>>
      <4>1. CallersTold(Append(<<>>, pc)) = CallersTold(<<>>)
        BY <1>1, <3>1, <3>2, CallersAppend
      <4> QED BY <3>3, <4>1, CallersNone
    <3>7. Told(Pushed(<<>>, LabelOf(Handler)),
               NextStack(<<>>, LabelOf(Handler), Handler \in DOMAIN table), stray = 0, ~ lost)
      BY <1>4, ToldFirst
    <3>8. ToldOf(stack, Handler, label_stack', stray, lost)
      BY <1>4, <3>5, <3>6, <3>7 DEF ToldOf
    <3>9. Frames(stack, stray, lost)
      <4>1. Frames(<<>>, stray, lost)
        BY FramesNone
      <4>2. Frames(Append(<<>>, pc), stray, lost)
        BY <1>1, <2>2, <3>1, <3>2, <4>1, FramesAppend
      <4> QED BY <3>3, <4>2
    <3> QED BY <1>4, <2>1, <3>3, <3>4, <3>8, <3>9 DEF Kept, Goes, Fits
  <2>3. ASSUME NEW q \in Pcs, stack = Append(u, q), SameSubroutine(pc, q), q \notin DOMAIN table
        PROVE  Kept
    <3>1. stack \in Seq(Pcs)
      BY <1>1, <2>3, AppendProperties
    <3>2. frames' = Append(Append(u, q), Handler) /\ add_instruction(Handler)
      BY <1>5, <2>3, <3>1
    <3> QED BY <1>4, <2>1, <2>3, <3>2, CallKeeps
  <2> QED BY <1>6, <2>2, <2>3, StepFact
<1>7. CASE stack \notin StepTo
  <2>1. stray' = stray + 1 /\ (lost' <=> lost \/ InAsm(pc))
    BY <1>2, <1>3, <1>7 DEF Strays
  <2>2. stray' # 0
    BY <1>1, <2>1
  <2>3. CASE stack \in CallTo
    <3>1. PICK q \in Pcs, k \in DOMAIN table :
            stack = Append(Append(u, q), k) /\ SameSubroutine(pc, q) /\ q \notin DOMAIN table
      BY <2>3, CallFact
    <3>2. Known(k) /\ k \in Pcs
      BY EntryKnown, KnownInside
    <3>3. PICK v \in Seq(Pcs) : v = Append(u, q)
      BY <1>1, AppendProperties
    <3>4. stack = Append(v, k) /\ stack \in Seq(Pcs)
      <4>1. stack = Append(v, k)
        BY <3>1, <3>3
      <4>2. Append(v, k) \in Seq(Pcs)
        BY <3>2, AppendProperties
      <4> QED BY <4>1, <4>2
    <3>5. frames' = Append(stack, Handler) /\ add_instruction(Handler)
      BY <1>5, <3>4
    <3>6. /\ Frames(Append(u, q), stray, lost) /\ label_stack' \in Seq(TableMarks)
          /\ Told(Pushed(CallersTold(Append(u, q)), LabelOf(Handler)), label_stack', stray = 0, ~ lost)
      BY <1>4, <3>1, <3>5, CallTold
    <3>7. Known(q) /\ (InAsm(q) <=> InAsm(pc))
      BY <3>1, SameFact
    <3>8. CallersTold(stack) = CallersTold(v)
      <4>1. CallersTold(Append(v, k)) = CallersTold(v)
        BY <3>2, CallersAppend
      <4> QED BY <3>4, <4>1
    <3>9. Told(Pushed(CallersTold(v), LabelOf(Handler)), label_stack', stray' = 0, ~ lost')
      <4>1. Told(Pushed(CallersTold(v), LabelOf(Handler)), label_stack', stray = 0, ~ lost)
        BY <3>3, <3>6
      <4> QED BY <2>1, <2>2, <4>1 DEF Told
    <3>10. ToldOf(stack, Handler, label_stack', stray', lost')
      BY <1>4, <3>6, <3>8, <3>9 DEF ToldOf
    <3>11. Frames(stack, stray', lost')
      <4>1. Frames(Append(u, q), stray', lost')
        BY <2>1, <2>2, <3>6, FramesWeaken
      <4>2. lost' \/ ~ InAsm(q)
        BY <2>1, <3>7
      <4>3. Frames(Append(Append(u, q), k), stray', lost')
        BY <1>1, <2>2, <3>1, <3>2, <3>7, <4>1, <4>2, FramesPending
      <4> QED BY <3>1, <4>3
    <3> QED BY <1>4, <3>4, <3>5, <3>10, <3>11 DEF Kept, Goes, Fits
  <2>4. CASE stack \in ReturnTo
    <3>1. u # <<>> /\ stack = u
      BY <1>1, <2>4, HoldsFact
    <3>2. frames' = Append(u, Handler) /\ add_instruction(Handler)
      BY <1>1, <1>5, <3>1
    <3>3. Known(pc)
      BY <1>1, <3>1 DEF ToldOf
    <3>4. /\ label_stack' \in Seq(TableMarks)
          /\ Told(Pushed(CallersTold(u), LabelOf(Handler)), label_stack', FALSE, ~ lost')
      BY <1>4, <2>1, <3>2, <3>3, ReplacedTold
    <3>5. Told(Pushed(CallersTold(u), LabelOf(Handler)), label_stack', stray' = 0, ~ lost')
      BY <2>2, <3>4 DEF Told
    <3>6. ToldOf(u, Handler, label_stack', stray', lost')
      BY <1>4, <3>4, <3>5 DEF ToldOf
    <3>7. Frames(u, stray', lost')
      BY <1>1, <2>1, <2>2, FramesWeaken
    <3> QED BY <1>1, <1>4, <3>2, <3>6, <3>7 DEF Kept, Goes, Fits
  <2> QED BY <1>2, <1>7, <2>3, <2>4
<1> QED BY <1>6, <1>7

(* After a switch to another task only the last label is to be relied on.  *)
LEMMA SwitchKeeps ==
  ASSUME Ready, NEW u, NEW pc, Holds(u, pc), Switch
  PROVE  Kept
<1>1. PICK q \in DOMAIN progtext, out \in Outside :
        Known(q) /\ q \notin DOMAIN table /\ Execute(Append(<<out>>, q))
  BY DEF Switch
<1>2. q \in Pcs /\ out \in Pcs /\ ~ Known(out) /\ out \notin DOMAIN table
  BY <1>1, KnownInside
<1>3. <<out>> \in Seq(Pcs) /\ <<out>> = Append(<<>>, out) /\ <<>> \in Seq(Pcs)
  BY <1>2
<1>4. Last(Append(<<out>>, q)) = q
  BY <1>2, <1>3, AppendFront
<1>5. frames' = Append(<<out>>, q) /\ add_instruction(q)
  BY <1>1, <1>4 DEF Execute
<1>6. stray' # 0 /\ lost'
  <2>1. stray \in Nat /\ stray' = stray + 1
    BY DEF Holds, Switch, Strays
  <2>2. lost'
    BY DEF Switch, Strays
  <2> QED BY <2>1, <2>2
<1>7. LabelOf(q) \in TableMarks /\ label_stack' \in Seq(TableMarks) /\ Tops(label_stack', LabelOf(q))
  BY <1>1, <1>5, NewStack
<1>8. CallersTold(<<out>>) \in Seq(TableMarks)
  BY <1>2, <1>3, CallersAppend
<1>9. Told(Pushed(CallersTold(<<out>>), LabelOf(q)), label_stack', stray' = 0, ~ lost')
  BY <1>6, <1>7, <1>8, ToldLost
<1>10. ToldOf(<<out>>, q, label_stack', stray', lost')
  BY <1>1, <1>7, <1>9 DEF ToldOf
<1>11. Frames(<<out>>, stray', lost')
  <2>1. Frames(<<>>, stray', lost')
    BY FramesNone
  <2>2. Frames(Append(<<>>, out), stray', lost')
    BY <1>2, <1>3, <2>1, FramesAppend
  <2> QED BY <1>3, <2>2
<1> QED BY <1>2, <1>3, <1>5, <1>10, <1>11 DEF Kept, Goes, Fits

(* The first address has the first label.                                  *)
LEMMA StartKeeps ==
  ASSUME Ready, label_stack = <<>>, Start
  PROVE  Kept
<1>1. PICK pc \in Outside \union {Min(DOMAIN table)} : Execute(<<pc>>)
  BY DEF Start
<1>2. <<pc>> = Append(<<>>, pc) /\ Last(<<pc>>) = pc /\ <<>> \in Seq(Pcs) /\ <<>> \in Seq(TableMarks)
  <2>1. Last(<<pc>>) = pc
    BY DEF Last
  <2> QED BY <2>1
<1>3. frames' = <<pc>> /\ add_instruction(pc)
  BY <1>1, <1>2 DEF Execute
<1>4. CASE pc \in Outside
  BY <1>3, <1>4, OutsideKeeps
<1>5. CASE pc \notin Outside
  <2>1. DOMAIN table \in SUBSET Nat /\ Handler \in DOMAIN table
    BY DEF Ready, ImageFits, TextInv, TableInv
  <2>2. pc \in DOMAIN table
    BY <1>5, <2>1, LeastOf
  <2>3. Known(pc) /\ pc \in Pcs /\ LabelOf(pc) \in TableMarks
    BY <2>2, EntryKnown, KnownInside, KnownFact
  <2>4. label_stack' = NextStack(<<>>, LabelOf(pc), pc \in DOMAIN table)
    BY <1>2, <1>3, <2>3, AddKnown
  <2>5. Told(Pushed(<<>>, LabelOf(pc)), NextStack(<<>>, LabelOf(pc), pc \in DOMAIN table), stray' = 0, ~ lost')
    BY <2>3, ToldFirst
  <2>6. label_stack' \in Seq(TableMarks)
    BY <1>2, <2>3, <2>4, MarksFact, ToldAnyhow
  <2>7. ToldOf(<<>>, pc, label_stack', stray', lost')
    BY <2>3, <2>4, <2>5, <2>6, CallersNone DEF ToldOf
  <2>8. Frames(<<>>, stray', lost')
    BY FramesNone
  <2> QED BY <1>2, <1>3, <2>3, <2>7, <2>8 DEF Kept, Goes, Fits
<1> QED BY <1>4, <1>5

-----------------------------------------------------------------------------
\* StackUnwinder: the theorem.

(* The image has addresses only.                                           *)
LEMMA ImageNats ==
  ASSUME TextInv, DOMAIN progtext \subseteq Nat, TextNext
  PROVE  DOMAIN progtext' \subseteq Nat
<1>1. TableInv
  BY DEF TextInv
<1>2. \A text, limit : DOMAIN CarriedOn(text, limit) = DOMAIN text
  BY DEF CarriedOn, Filled
<1>3. ASSUME NEW end \in Int PROVE baseaddr .. end - 1 \subseteq Nat
  <2>1. baseaddr \in Nat
    BY <1>1, BaseFact
  <2> QED BY <2>1
<1>4. CASE die_subprogram \/ Symbol
  BY <1>4 DEF die_subprogram, Symbol
<1>5. CASE Allocate
  <2>1. DOMAIN Resized(<<>>, baseaddr .. highpc - 1) = baseaddr .. highpc - 1
    BY DEF Resized
  <2>2. highpc \in Int
    BY TextAssumption
  <2> QED BY <1>3, <1>5, <2>1, <2>2 DEF Allocate
<1>6. CASE Populate
  <2> DEFINE start == Min(left)
             end == Max({table[start].pc_end, start})
             text == CarriedOn(Resized(progtext, baseaddr .. end - 1), start)
  <2>1. start \in Nat /\ table[start].pc_end \in Nat
    <3>1. left \in SUBSET Nat /\ left # {} /\ left \subseteq DOMAIN table
      BY <1>1, <1>6 DEF TableInv, Populate
    <3>2. start \in left
      BY <3>1, LeastOf
    <3>3. table[start] \in Subroutines
      BY <1>1, <3>1, <3>2 DEF TableInv
    <3> QED BY <3>1, <3>2, <3>3 DEF Subroutines
  <2>2. end \in Nat
    BY <2>1, LargerOf
  <2>3. DOMAIN progtext' = DOMAIN text
    <3>1. \A entry, sites, a, b, c :
            DOMAIN Filled(Filled([text EXCEPT ![start] = entry], sites, a), b, c) = DOMAIN text
      BY DEF Filled
    <3> HIDE DEF text, end, start
    <3> QED BY <1>6, <3>1 DEF Populate, text, end, start
  <2>4. DOMAIN text = DOMAIN progtext \union (baseaddr .. end - 1)
    <3> HIDE DEF end, start
    <3>1. DOMAIN text = DOMAIN Resized(progtext, baseaddr .. end - 1)
      BY <1>2
    <3> QED BY <3>1 DEF Resized
  <2>5. baseaddr .. end - 1 \subseteq Nat
    <3> HIDE DEF end
    <3> QED BY <1>3, <2>2
  <2> HIDE DEF text, end
  <2> QED BY <2>3, <2>4, <2>5
<1>7. CASE FillEnd
  BY <1>2, <1>7 DEF FillEnd
<1> QED BY <1>4, <1>5, <1>6, <1>7 DEF TextNext

(* As long as the image stays, what fits does.                             *)
LEMMA FitsOn ==
  ASSUME UNCHANGED <<table, progtext>>, NEW CONSTANT u, NEW CONSTANT pc, NEW CONSTANT stack,
         NEW CONSTANT strays, NEW CONSTANT loses, Fits(u, pc, stack, strays, loses)
  PROVE  Fits(u, pc, stack, strays, loses)'
<1>1. \A q : subroutine_find(q)' = subroutine_find(q)
  BY DEF subroutine_find
<1>2. \A q : (Known(q)' <=> Known(q)) /\ LabelOf(q)' = LabelOf(q) /\ (InAsm(q)' <=> InAsm(q))
  BY <1>1 DEF Known, LabelOf, InAsm
<1>3. Pcs' = Pcs /\ TableMarks' = TableMarks
  BY DEF Pcs, TableMarks, Mark
<1>4. Frames(u, strays, loses)'
  BY <1>2, <1>3 DEF Fits, Frames, SoundFrame
<1>5. CallersTold(u)' = CallersTold(u)
  <2>1. Left(u)' = Left(u)
    BY <1>2 DEF Left
  <2>2. \A s : LabelsOf(s)' = LabelsOf(s)
    BY <1>2 DEF LabelsOf
  <2>3. Callers(u)' = Callers(u)
    BY <2>1, <2>2 DEF Callers
  <2> QED BY <2>3 DEF CallersTold
<1>6. ToldOf(u, pc, stack, strays, loses)'
  BY <1>2, <1>3, <1>5 DEF Fits, ToldOf
<1> QED BY <1>3, <1>4, <1>6 DEF Fits

(* Before the table is built there is nothing on either stack,            *)
LEMMA UnwinderStarts == UnwinderInit /\ Inputs => UnwinderInv
<1> SUFFICES ASSUME UnwinderInit, Inputs PROVE UnwinderInv
  OBVIOUS
<1>1. TextInv
  BY TextStarts DEF UnwinderInit
<1>2. frames = <<>> /\ label_stack = <<>> /\ stray = 0 /\ lost = FALSE /\ progtext = <<>>
  BY DEF UnwinderInit, TextInit
<1>3. DOMAIN progtext \subseteq Nat
  <2>1. DOMAIN <<>> \subseteq Nat
    OBVIOUS
  <2> QED BY <1>2, <2>1
<1>4. stray \in Nat
  BY <1>2
<1>5. lost \in BOOLEAN
  BY <1>2
<1> QED BY <1>1, <1>2, <1>3, <1>4, <1>5 DEF UnwinderInv

(* and every step keeps the invariant.                                     *)
LEMMA UnwinderKeeps ==
  UnwinderInv /\ ImageFits /\ [UnwinderNext]_<<textVars, unwinderVars>> => UnwinderInv'
<1> SUFFICES ASSUME UnwinderInv, ImageFits, [UnwinderNext]_<<textVars, unwinderVars>> PROVE UnwinderInv'
  OBVIOUS
<1>1. /\ TextInv /\ DOMAIN progtext \subseteq Nat /\ stray \in Nat /\ lost \in BOOLEAN
      /\ (frames = <<>> => label_stack = <<>>)
      /\ (frames # <<>> => stage = "run")
  BY DEF UnwinderInv
<1>2. CASE TextNext /\ UNCHANGED unwinderVars
  <2>1. stage # "run"
    BY <1>2 DEF TextNext, die_subprogram, Symbol, Allocate, Populate, FillEnd
  <2>2. frames = <<>> /\ label_stack = <<>> /\ UNCHANGED <<frames, label_stack, stray, lost>>
    BY <1>1, <1>2, <2>1 DEF unwinderVars
  <2>3. TextInv'
    BY <1>1, <1>2, TextKeeps
  <2>4. DOMAIN progtext' \subseteq Nat
    BY <1>1, <1>2, ImageNats
  <2> QED BY <1>1, <2>2, <2>3, <2>4 DEF UnwinderInv
<1>3. CASE UNCHANGED textVars /\ (Start \/ Run \/ UNCHANGED unwinderVars)
  <2>1. UNCHANGED <<table, progtext, stage>>
    BY <1>3 DEF textVars
  <2>2. TextInv'
    BY <1>1, <1>3, TextKeeps
  <2>3. DOMAIN progtext' \subseteq Nat
    BY <1>1, <2>1
  <2>4. Pcs' = Pcs
    BY <2>1 DEF Pcs
  <2>5. ASSUME Kept, stage = "run", stray' \in Nat, lost' \in BOOLEAN PROVE UnwinderInv'
    <3>1. PICK u \in Seq(Pcs), pc \in Pcs : Goes(u, pc)
      BY <2>5 DEF Kept
    <3>2. PICK stack, strays, loses : stack = label_stack' /\ strays = stray' /\ loses = lost'
      OBVIOUS
    <3>3. frames' = Append(u, pc) /\ Fits(u, pc, stack, strays, loses)
      BY <3>1, <3>2 DEF Goes
    <3>4. Fits(u, pc, stack, strays, loses)'
      BY <2>1, <3>3, FitsOn
    <3>5. frames' # <<>>
      BY <3>1, <3>3, AppendProperties
    <3>6. (\E v \in Seq(Pcs), q \in Pcs : frames = Append(v, q) /\ Fits(v, q, label_stack, stray, lost))'
      BY <2>4, <3>1, <3>2, <3>3, <3>4
    <3> QED BY <2>1, <2>2, <2>3, <2>5, <3>5, <3>6 DEF UnwinderInv
  <2>6. CASE Start
    <3>1. stage = "run" /\ frames = <<>> /\ UNCHANGED <<stray, lost>>
      BY <2>6 DEF Start
    <3>2. Ready
      BY <1>1, <3>1 DEF Ready
    <3>3. Kept
      BY <1>1, <2>6, <3>1, <3>2, StartKeeps
    <3> QED BY <1>1, <2>5, <3>1, <3>3
  <2>7. CASE Run
    <3>1. frames # <<>>
      BY <2>7 DEF Run
    <3>2. stage = "run" /\ Ready
      BY <1>1, <3>1 DEF Ready
    <3>3. PICK u, pc : Holds(u, pc)
      BY <1>1, <3>1 DEF UnwinderInv, Holds
    <3>4. Kept
      BY <2>7, <3>2, <3>3, NestedKeeps, TailCallKeeps, InterruptKeeps, SwitchKeeps DEF Run
    <3>5. stray' \in Nat /\ lost' \in BOOLEAN
      <4>1. CASE Nested
        <5>1. stray' = 0 \/ stray' = stray
          BY <4>1 DEF Nested
        <5>2. lost' = FALSE \/ lost' = lost
          BY <4>1 DEF Nested
        <5>3. stray' \in Nat
          BY <1>1, <5>1
        <5>4. lost' \in BOOLEAN
          BY <1>1, <5>2
        <5> QED BY <5>3, <5>4
      <4>2. CASE TailCall \/ Interrupt \/ Switch
        <5>1. stray' = stray + 1 \/ stray' = stray
          BY <4>2 DEF TailCall, Interrupt, Switch, Strays
        <5>2. (\E hides : lost' = (lost \/ hides)) \/ lost' = lost
          BY <4>2 DEF TailCall, Interrupt, Switch, Strays
        <5>3. stray' \in Nat
          BY <1>1, <5>1
        <5>4. lost' \in BOOLEAN
          BY <1>1, <5>2
        <5> QED BY <5>3, <5>4
      <4> QED BY <2>7, <4>1, <4>2 DEF Run
    <3> QED BY <2>5, <3>2, <3>4, <3>5
  <2>8. CASE UNCHANGED unwinderVars
    <3>1. UNCHANGED <<frames, label_stack, stray, lost>>
      BY <2>8 DEF unwinderVars
    <3>2. CASE frames = <<>>
      BY <1>1, <2>2, <2>3, <3>1, <3>2 DEF UnwinderInv
    <3>3. CASE frames # <<>>
      <4>1. Kept /\ stage = "run"
        BY <3>1, <3>3 DEF UnwinderInv, Kept, Goes
      <4>2. stray' \in Nat /\ lost' \in BOOLEAN
        BY <1>1, <3>1
      <4> QED BY <2>5, <4>1, <4>2
    <3> QED BY <3>2, <3>3
  <2> QED BY <1>3, <2>6, <2>7, <2>8
<1>4. (Start \/ Run) => UNCHANGED textVars
  BY DEF Start, Run, Nested, TailCall, Interrupt, Switch, Execute, add_instruction
<1>5. UnwinderNext => (TextNext /\ UNCHANGED unwinderVars) \/ Start \/ Run
  BY DEF UnwinderNext
<1> QED BY <1>2, <1>3, <1>4, <1>5

(* The labels are those the frames give.                                   *)
LEMMA UnwinderTells == UnwinderInv /\ ImageFits => LabelsAreStack
<1> SUFFICES ASSUME UnwinderInv, ImageFits, frames # <<>>
             PROVE  /\ stray = 0 => label_stack = Expected
                    /\ ~ lost =>
                         /\ IsSubsequence(Expected, label_stack)
                         /\ Last(label_stack) = Last(Expected)
                    /\ label_stack = <<>> \/ Last(label_stack) = Last(Expected)
  BY DEF LabelsAreStack
<1>1. Ready
  BY DEF UnwinderInv, Ready
<1>2. PICK u \in Seq(Pcs), pc \in Pcs : frames = Append(u, pc) /\ Fits(u, pc, label_stack, stray, lost)
  BY DEF UnwinderInv
<1>3. Expected = IF Known(pc) THEN Pushed(CallersTold(u), LabelOf(pc)) ELSE <<Misc>>
  BY <1>1, <1>2, ExpectedFact
<1>4. CASE Known(pc)
  <2>1. Told(Expected, label_stack, stray = 0, ~ lost)
    BY <1>2, <1>3, <1>4 DEF Fits, ToldOf
  <2> QED BY <2>1 DEF Told, Tops
<1>5. CASE ~ Known(pc)
  <2>1. label_stack = Expected
    BY <1>2, <1>3, <1>5 DEF Fits, ToldOf
  <2> QED BY <2>1, SubRefl
<1> QED BY <1>4, <1>5

(* In every run of a program whose image has the subroutines, none of them *)
(* named like one of another kind, the stack of labels is that of the      *)
(* frames: exactly, after calls and returns; with labels left over, after  *)
(* tail calls and interrupted calls; and with the right one on top if it   *)
(* is not empty, after an assembly sequence that was interrupted or a      *)
(* switch.                                                                 *)
THEOREM LabelsTellStack == UnwinderSpec /\ []ImageFits => []LabelsAreStack
<1>1. UnwinderInit /\ Inputs => UnwinderInv
  BY UnwinderStarts
<1>2. UnwinderInv /\ ImageFits /\ [UnwinderNext]_<<textVars, unwinderVars>> => UnwinderInv'
  BY UnwinderKeeps
<1>3. UnwinderInv /\ ImageFits => LabelsAreStack
  BY UnwinderTells
<1> QED BY <1>1, <1>2, <1>3, PTL DEF UnwinderSpec
=============================================================================
