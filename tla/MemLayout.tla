----------------------------- MODULE MemLayout -----------------------------
(***************************************************************************)
(* The -m option: base:size tuples are aligned to pages and refused if     *)
(* they cannot be addressed; what overlaps is merged.  Addresses are those *)
(* of a machine word, and sums wrap around in it.                          *)
(*                                                                         *)
(* The operators with a suffix (sort_mem_region_Size) are faulty variants. *)
(***************************************************************************)
EXTENDS Integers, SequencesExt

CONSTANTS
  WORD,              \* 2^64
  PGSIZE,
  max_allowed_pa,    \* the highest physical address
  Bases, Sizes,      \* what the command line may say
  MaxTuples          \* bound: tuples

ASSUME LayoutAssumption ==
  /\ PGSIZE \in Nat \ {0} /\ WORD \in Nat
  /\ WORD % PGSIZE = 0 /\ PGSIZE < WORD
  /\ Bases \subseteq 0 .. WORD - 1 /\ Sizes \subseteq 0 .. WORD - 1

VARIABLES
  asked,     \* history: the tuples that were accepted, as they were written
  res,       \* and as they are used
  merged,    \* the merged regions so far
  layout     \* "parse", "merge", "done", and "exit" if a tuple was refused

layoutVars == <<asked, res, merged, layout>>

LayoutInit ==
  /\ asked = <<>>
  /\ res = <<>>
  /\ merged = <<>>
  /\ layout = "parse"

Region(base, size) == [base |-> base, size |-> size]
inclusive_end(r) == (r.base + r.size - 1) % WORD

-----------------------------------------------------------------------------
\* parse_mem_layout

Aligned(base, size) ==
  LET wide == (size + (base % PGSIZE)) % WORD
  IN  Region(base - (base % PGSIZE),
             IF wide % PGSIZE = 0 THEN wide ELSE (wide + PGSIZE - (wide % PGSIZE)) % WORD)

check_if_supported(r) ==
  /\ r.size % PGSIZE = 0 /\ r.base % PGSIZE = 0
  /\ r.size > 0
  /\ r.base + r.size <= WORD

Tuple(base, size) ==
  /\ layout = "parse" /\ Len(res) < MaxTuples
  /\ LET r == Aligned(base, size)
     IN  IF check_if_supported(r) /\ inclusive_end(r) <= max_allowed_pa
           THEN /\ res' = Append(res, r)
                /\ asked' = Append(asked, Region(base, size))
                /\ UNCHANGED layout
           ELSE layout' = "exit" /\ UNCHANGED <<res, asked>>
  /\ UNCHANGED merged

-----------------------------------------------------------------------------
\* merge_overlapping_memory_regions

sort_mem_region_Size(a, b) == a.size < b.size
sort_mem_region(a, b) == IF a.base = b.base THEN a.size < b.size ELSE a.base < b.base

check_mem_overlap(l, r) ==
  Max({l.base, r.base}) <= Min({inclusive_end(l), inclusive_end(r)})

check_if_merge_covers_64bit_space(l, r) ==
  /\ check_mem_overlap(l, r)
  /\ Min({l.base, r.base}) = 0
  /\ Max({inclusive_end(l), inclusive_end(r)}) = WORD - 1

merge_mem_regions(l, r) ==
  LET base == Min({l.base, r.base})
  IN  Region(base, (Max({inclusive_end(l), inclusive_end(r)}) - base + 1) % WORD)

\* std::sort: an order in which none is less than one before it.
BeginMerge ==
  /\ layout = "parse" /\ res # <<>>
  /\ \E order \in Bijection(DOMAIN res, DOMAIN res) :
       LET sorted == [i \in DOMAIN res |-> res[order[i]]]
       IN  /\ \A i, j \in DOMAIN res : i < j => ~ sort_mem_region(sorted[j], sorted[i])
           /\ res' = Tail(sorted) /\ merged' = <<Head(sorted)>>
  /\ layout' = "merge"
  /\ UNCHANGED asked

\* One region of 2^64 bytes cannot be said: there are two, and nothing is
\* left to be merged.
WholeSpace == <<Region(0, WORD - PGSIZE), Region(WORD - PGSIZE, PGSIZE)>>

MergeNext ==
  /\ layout = "merge" /\ res # <<>>
  /\ LET l == Last(merged)
         r == Head(res)
         whole == check_if_merge_covers_64bit_space(l, r)
     IN  /\ merged' = IF ~ check_mem_overlap(l, r) THEN Append(merged, r)
                      ELSE IF whole THEN WholeSpace
                      ELSE Append(Front(merged), merge_mem_regions(l, r))
         /\ res' = IF whole THEN <<>> ELSE Tail(res)
  /\ UNCHANGED <<asked, layout>>

EndMerge ==
  /\ layout = "merge" /\ res = <<>>
  /\ layout' = "done"
  /\ UNCHANGED <<asked, res, merged>>

LayoutNext ==
  (\E base \in Bases, size \in Sizes : Tuple(base, size)) \/ BeginMerge \/ MergeNext \/ EndMerge

LayoutSpec == LayoutInit /\ [][LayoutNext]_layoutVars

-----------------------------------------------------------------------------

\* The pages of a region, and what a tuple can mean.
PagesOf(r) == {a \div PGSIZE : a \in r.base .. r.base + r.size - 1}
Sensible(r) == r.size > 0 /\ r.base + r.size <= WORD

(* The machine gets the pages that were asked for and no others, each once *)
(* and in the order of addresses.  Left out are a tuple that reaches       *)
(* beyond the last address, whose size wraps around and may come out       *)
(* small, and a size of zero, for which an unaligned base gives a page.    *)
LayoutIsAsked ==
  layout = "done" =>
    /\ \A i, j \in DOMAIN merged : i < j => inclusive_end(merged[i]) < merged[j].base
    /\ (\A i \in DOMAIN asked : Sensible(asked[i])) =>
         UNION {PagesOf(merged[i]) : i \in DOMAIN merged}
           = UNION {PagesOf(asked[i]) : i \in DOMAIN asked}
=============================================================================
