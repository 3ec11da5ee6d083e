--------------------------- MODULE PageCheckpoint ---------------------------
(***************************************************************************)
(* The in-place memory checkpoint (serialize_mem = false): serialize_proto *)
(* only notes which pages exist, mmu_lib_t copies a page the first time it *)
(* is stored to after that, and deserialize_proto copies those pages back  *)
(* and frees the pages that are new.  A store whose page is in the store   *)
(* TLB goes round mmu_lib_t: that is safe only as long as such a page has  *)
(* been copied.                                                            *)
(*                                                                         *)
(* The sparse memory (mem_t) and the fast path of stores are Spike's, as   *)
(* sim_lib.cc and mmu_lib.cc use them: a page is allocated, zeroed, when   *)
(* it is first touched.  A page's contents is one value.                   *)
(*                                                                         *)
(* The operators with a suffix (flush_tlb_HartOnly) are faulty variants.  *)
(***************************************************************************)
EXTENDS Naturals, FiniteSets

CONSTANTS
  Ppns,       \* page numbers of the target's memory
  Hosts,      \* host pages malloc may return
  Bufs,       \* checkpoint buffers calloc may return
  Mmus,       \* the hart's mmu and debug_mmu
  Values, Zero,
  None        \* not allocated, not copied

ASSUME PageAssumption ==
  Zero \in Values /\ None \notin Hosts /\ None \notin Bufs

VARIABLES
  spm,        \* sparse memory map: Ppns -> Hosts, or None
  data,       \* contents of each host page
  tlb,        \* per mmu, the pages its store TLB holds
  serialize_called,
  ckpt_ppn,   \* pages that existed at the checkpoint
  mm_ckpt,    \* host page -> the buffer with its copy, or None
  buf,        \* contents of each buffer
  ckpt_mempool,  \* buffers to use again
  saved       \* history: the memory at the checkpoint

vars == <<spm, data, tlb, serialize_called, ckpt_ppn, mm_ckpt, buf, ckpt_mempool, saved>>

\* What the target reads: a page that does not exist yet is zeroed first.
MemOf(map, contents) == [p \in Ppns |-> IF map[p] = None THEN Zero ELSE contents[map[p]]]
mem == MemOf(spm, data)

Allocated == {p \in Ppns : spm[p] # None}
FreeHosts == Hosts \ {spm[p] : p \in Allocated}
InUse_WithNull == {mm_ckpt[h] : h \in Hosts}
InUse == {mm_ckpt[h] : h \in {x \in Hosts : mm_ckpt[x] # None}}
FreshBufs == Bufs \ (InUse \union ckpt_mempool)

Init ==
  /\ spm = [p \in Ppns |-> None]
  /\ data \in [Hosts -> {Zero}] /\ buf \in [Bufs -> {Zero}]
  /\ tlb = [u \in Mmus |-> {}]
  /\ serialize_called = FALSE /\ ckpt_ppn = {}
  /\ mm_ckpt = [h \in Hosts |-> None]
  /\ ckpt_mempool = {} /\ saved = mem

\* mem_t: a page that is loaded from or stored to is allocated first; a store
\* that allocates is this step and then StoreSlow, with nothing between them
\* that the target could see.
Touch(p) ==
  /\ spm[p] = None
  /\ \E h \in FreeHosts :
       /\ spm' = [spm EXCEPT ![p] = h]
       /\ data' = [data EXCEPT ![h] = Zero]
  /\ UNCHANGED <<tlb, serialize_called, ckpt_ppn, mm_ckpt, buf, ckpt_mempool, saved>>

\* A store that hits the store TLB writes the page and does nothing else.
StoreFast(u, p, v) ==
  /\ p \in tlb[u]
  /\ data' = [data EXCEPT ![spm[p]] = v]
  /\ UNCHANGED <<spm, tlb, serialize_called, ckpt_ppn, mm_ckpt, buf, ckpt_mempool, saved>>

\* take_checkpoint: the page's first copy; a buffer of the pool is used first.
take_checkpoint(h) ==
  IF mm_ckpt[h] # None THEN UNCHANGED <<mm_ckpt, buf, ckpt_mempool>>
  ELSE \E b \in IF ckpt_mempool = {} THEN FreshBufs ELSE ckpt_mempool :
         /\ mm_ckpt' = [mm_ckpt EXCEPT ![h] = b]
         /\ buf' = [buf EXCEPT ![b] = data[h]]
         /\ ckpt_mempool' = ckpt_mempool \ {b}

\* store_slow_path_intrapage on a page the TLB does not hold: copy the page
\* if a checkpoint is held, store, refill the TLB (which may evict others).
StoreSlow(u, p, v) ==
  /\ p \notin tlb[u] /\ spm[p] # None
  /\ IF serialize_called THEN take_checkpoint(spm[p])
     ELSE UNCHANGED <<mm_ckpt, buf, ckpt_mempool>>
  /\ data' = [data EXCEPT ![spm[p]] = v]
  /\ \E kept \in SUBSET tlb[u] : tlb' = [tlb EXCEPT ![u] = kept \union {p}]
  /\ UNCHANGED <<spm, serialize_called, ckpt_ppn, saved>>

\* flush_tlb of every mmu, when a checkpoint is taken and when it is restored.
flush_tlb_HartOnly == \E u \in Mmus : tlb' = [tlb EXCEPT ![u] = {}]
flush_tlb == tlb' = [u \in Mmus |-> {}]

\* The target's own sfence, or a refill for a load.
Evict(u) ==
  /\ tlb[u] # {} /\ tlb' = [tlb EXCEPT ![u] = {}]
  /\ UNCHANGED <<spm, data, serialize_called, ckpt_ppn, mm_ckpt, buf, ckpt_mempool, saved>>

serialize_proto ==
  /\ serialize_called' = TRUE
  /\ flush_tlb
  /\ ckpt_ppn' = Allocated
  /\ ckpt_mempool' = ckpt_mempool \union InUse
  /\ mm_ckpt' = [h \in Hosts |-> None]
  /\ saved' = mem
  /\ UNCHANGED <<spm, data, buf>>

\* The pages deserialize_proto keeps; it frees the others.
KeptMap_All == spm
KeptMap == [p \in Ppns |-> IF p \in ckpt_ppn THEN spm[p] ELSE None]

\* Called once for each checkpoint, as run() does.
deserialize_proto ==
  /\ serialize_called
  /\ serialize_called' = FALSE
  /\ flush_tlb
  /\ data' = [h \in Hosts |->
                IF mm_ckpt[h] # None /\ \E p \in ckpt_ppn : spm[p] = h
                  THEN buf[mm_ckpt[h]] ELSE data[h]]
  /\ spm' = KeptMap
  /\ UNCHANGED <<ckpt_ppn, mm_ckpt, buf, ckpt_mempool, saved>>

Store == \E u \in Mmus, p \in Ppns, v \in Values : StoreFast(u, p, v) \/ StoreSlow(u, p, v)

Next ==
  \/ Store \/ \E p \in Ppns : Touch(p) \/ \E u \in Mmus : Evict(u)
  \/ serialize_proto \/ deserialize_proto

Spec == Init /\ [][Next]_vars

-----------------------------------------------------------------------------

(* Types of the variables. *)
TypeOK ==
  /\ spm \in [Ppns -> Hosts \union {None}] /\ data \in [Hosts -> Values]
  /\ tlb \in [Mmus -> SUBSET Ppns] /\ serialize_called \in BOOLEAN
  /\ ckpt_ppn \subseteq Ppns /\ mm_ckpt \in [Hosts -> Bufs \union {None}]
  /\ buf \in [Bufs -> Values] /\ ckpt_mempool \subseteq Bufs
  /\ saved \in [Ppns -> Values]

\* No two pages of the target share a host page, and the TLB holds only pages
\* that exist.
Mapped ==
  /\ \A p, q \in Ppns : spm[p] # None /\ spm[p] = spm[q] => p = q
  /\ \A u \in Mmus : tlb[u] \subseteq Allocated

(* No buffer holds the copies of two pages, and none that is in use is in  *)
(* the pool: a later first store would overwrite the copy.                 *)
BufferOwnedOnce ==
  /\ \A h, g \in Hosts : mm_ckpt[h] # None /\ mm_ckpt[h] = mm_ckpt[g] => h = g
  /\ InUse \intersect ckpt_mempool = {}

\* While a checkpoint is held: the pages that existed still do, a page that
\* can be stored to without mmu_lib_t seeing it has been copied, and the copy,
\* or else the page itself, has the contents of the checkpoint.
Held ==
  serialize_called =>
    /\ ckpt_ppn \subseteq Allocated
    /\ \A u \in Mmus : \A p \in tlb[u] : mm_ckpt[spm[p]] # None
    /\ \A p \in Ppns :
         saved[p] = IF p \notin ckpt_ppn THEN Zero
                    ELSE IF mm_ckpt[spm[p]] # None THEN buf[mm_ckpt[spm[p]]]
                    ELSE data[spm[p]]

(* At any time between serialize_proto and deserialize_proto, what the     *)
(* second would restore is the memory at the first: no store, of the hart  *)
(* or of the host through debug_mmu, reaches a page that was not copied.   *)
Recoverable == Mapped /\ BufferOwnedOnce /\ Held

(* The checkpoint implements one that saves and restores all of memory. *)
Memory == INSTANCE SnapshotMemory WITH armed <- serialize_called
RestoresMemory == Memory!Spec
=============================================================================
