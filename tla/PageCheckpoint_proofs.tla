------------------------ MODULE PageCheckpoint_proofs ------------------------
(***************************************************************************)
(* The in-place checkpoint restores the memory, for every number of pages, *)
(* mmus and buffers.  TypeOK /\ Recoverable is inductive: what makes a     *)
(* store through the TLB safe is the second conjunct of Held, and what     *)
(* keeps the copies is BufferOwnedOnce.                                    *)
(***************************************************************************)
EXTENDS PageCheckpoint, TLAPS

IInv == TypeOK /\ Recoverable

\* A buffer that take_checkpoint may choose holds no copy.
LEMMA ChosenBufferIsFree ==
  ASSUME TypeOK, Recoverable,
         NEW b \in IF ckpt_mempool = {} THEN FreshBufs ELSE ckpt_mempool
  PROVE  b \in Bufs /\ b # None /\ \A h \in Hosts : mm_ckpt[h] # b
BY PageAssumption DEF TypeOK, Recoverable, BufferOwnedOnce, InUse, FreshBufs

\* Two pages that exist are in different host pages.
LEMMA PagesApart ==
  ASSUME TypeOK, Mapped, NEW p \in Allocated, NEW q \in Allocated, p # q
  PROVE  spm[p] \in Hosts /\ spm[q] \in Hosts /\ spm[p] # spm[q]
BY DEF TypeOK, Mapped, Allocated

\* The initial states satisfy the invariant.
LEMMA InitInv == Init => IInv
<1> SUFFICES ASSUME Init PROVE IInv
  OBVIOUS
<1>1. TypeOK
  BY PageAssumption DEF Init, TypeOK, mem, MemOf
<1>2. Mapped
  BY DEF Init, Mapped, Allocated
<1>3. BufferOwnedOnce
  BY DEF Init, BufferOwnedOnce, InUse
<1>4. Held
  BY DEF Init, Held
<1>5. QED
  BY <1>1, <1>2, <1>3, <1>4 DEF IInv, Recoverable

\* Mapping a page for the first time takes a host page nothing else uses.
LEMMA TouchInv ==
  ASSUME IInv, NEW p \in Ppns, Touch(p)
  PROVE  IInv'
<1> USE DEF IInv, Recoverable
<1>1. PICK h \in FreeHosts : /\ spm' = [spm EXCEPT ![p] = h]
                             /\ data' = [data EXCEPT ![h] = Zero]
  BY DEF Touch
<1>2. h \in Hosts /\ h # None /\ \A q \in Allocated : spm[q] # h
  BY <1>1, PageAssumption DEF FreeHosts
<1>3. UNCHANGED <<tlb, serialize_called, ckpt_ppn, mm_ckpt, buf, ckpt_mempool, saved>>
      /\ spm[p] = None
  BY DEF Touch
<1>4. TypeOK'
  BY <1>1, <1>2, <1>3, PageAssumption DEF TypeOK
<1>5. Mapped'
  BY <1>1, <1>2, <1>3 DEF TypeOK, Mapped, Allocated
<1>6. BufferOwnedOnce'
  BY <1>3 DEF BufferOwnedOnce, InUse
<1>7. Held'
  <2> SUFFICES ASSUME serialize_called
               PROVE  Held'
    BY <1>3 DEF Held
  <2>1. \A q \in Allocated : spm'[q] = spm[q] /\ spm'[q] \in Hosts /\ data'[spm'[q]] = data[spm[q]]
    BY <1>1, <1>2, <1>3 DEF TypeOK, Allocated
  <2>2. Allocated \subseteq Allocated'
    BY <1>1, <1>2, <1>3 DEF TypeOK, Allocated
  <2>3. ckpt_ppn \subseteq Allocated /\ \A u \in Mmus : tlb[u] \subseteq Allocated
    BY DEF Held, Mapped
  <2>4. (ckpt_ppn \subseteq Allocated)'
    BY <2>2, <2>3, <1>3
  <2>5. (\A u \in Mmus : \A q \in tlb[u] : mm_ckpt[spm[q]] # None)'
    BY <2>1, <2>3, <1>3 DEF Held
  <2>6. ASSUME NEW q \in Ppns
        PROVE  (saved[q] = IF q \notin ckpt_ppn THEN Zero
                           ELSE IF mm_ckpt[spm[q]] # None THEN buf[mm_ckpt[spm[q]]]
                           ELSE data[spm[q]])'
    <3>1. CASE q \notin ckpt_ppn
      BY <3>1, <1>3 DEF Held
    <3>2. CASE q \in ckpt_ppn
      BY <3>2, <2>1, <2>3, <1>3 DEF Held
    <3>3. QED BY <3>1, <3>2
  <2>7. QED
    BY <2>4, <2>5, <2>6, <1>3 DEF Held
<1>8. QED
  BY <1>4, <1>5, <1>6, <1>7

\* A store through the TLB hits a page that is copied or was made since.
LEMMA StoreFastInv ==
  ASSUME IInv, NEW u \in Mmus, NEW p \in Ppns, NEW v \in Values, StoreFast(u, p, v)
  PROVE  IInv'
<1> USE DEF IInv, Recoverable
<1>1. /\ p \in tlb[u]
      /\ data' = [data EXCEPT ![spm[p]] = v]
      /\ UNCHANGED <<spm, tlb, serialize_called, ckpt_ppn, mm_ckpt, buf, ckpt_mempool, saved>>
  BY DEF StoreFast
<1>2. p \in Allocated
  BY <1>1 DEF Mapped
<1>3. TypeOK' /\ Mapped' /\ BufferOwnedOnce'
  BY <1>1 DEF TypeOK, Mapped, Allocated, BufferOwnedOnce, InUse
<1>4. Held'
  <2> SUFFICES ASSUME serialize_called PROVE Held'
    BY <1>1 DEF Held
  <2>1. mm_ckpt[spm[p]] # None
    BY <1>1 DEF Held
  <2>2. \A q \in ckpt_ppn : q # p => data'[spm[q]] = data[spm[q]]
    BY <1>1, <1>2, PagesApart DEF TypeOK, Held
  <2>3. ASSUME NEW q \in Ppns
        PROVE  (saved[q] = IF q \notin ckpt_ppn THEN Zero
                           ELSE IF mm_ckpt[spm[q]] # None THEN buf[mm_ckpt[spm[q]]]
                           ELSE data[spm[q]])'
    BY <1>1, <2>1, <2>2 DEF Held
  <2>4. QED
    BY <1>1, <2>3 DEF Held, Allocated
<1>5. QED
  BY <1>3, <1>4

\* What take_checkpoint leaves: the page is copied, and the copies of other
\* pages are where and what they were.
LEMMA Copied ==
  ASSUME IInv, NEW h \in Hosts, take_checkpoint(h)
  PROVE  /\ mm_ckpt' \in [Hosts -> Bufs \union {None}]
         /\ buf' \in [Bufs -> Values] /\ ckpt_mempool' \subseteq Bufs
         /\ BufferOwnedOnce'
         /\ mm_ckpt'[h] # None
         /\ buf'[mm_ckpt'[h]] = IF mm_ckpt[h] # None THEN buf[mm_ckpt[h]] ELSE data[h]
         /\ \A g \in Hosts : g # h =>
              /\ mm_ckpt'[g] = mm_ckpt[g]
              /\ mm_ckpt[g] # None => buf'[mm_ckpt[g]] = buf[mm_ckpt[g]]
<1> USE DEF IInv, Recoverable
<1>1. CASE mm_ckpt[h] # None
  BY <1>1 DEF take_checkpoint, TypeOK, BufferOwnedOnce, InUse
<1>2. CASE mm_ckpt[h] = None
  <2>1. PICK b \in IF ckpt_mempool = {} THEN FreshBufs ELSE ckpt_mempool :
          /\ mm_ckpt' = [mm_ckpt EXCEPT ![h] = b]
          /\ buf' = [buf EXCEPT ![b] = data[h]]
          /\ ckpt_mempool' = ckpt_mempool \ {b}
    BY <1>2 DEF take_checkpoint
  <2>2. b \in Bufs /\ b # None /\ \A g \in Hosts : mm_ckpt[g] # b
    BY ChosenBufferIsFree
  <2>3. BufferOwnedOnce'
    BY <2>1, <2>2 DEF TypeOK, BufferOwnedOnce, InUse
  <2>4. QED
    BY <1>2, <2>1, <2>2, <2>3 DEF TypeOK
<1>3. QED
  BY <1>1, <1>2

\* A store that misses the TLB copies the page first, if it is an old one.
LEMMA StoreSlowInv ==
  ASSUME IInv, NEW u \in Mmus, NEW p \in Ppns, NEW v \in Values, StoreSlow(u, p, v)
  PROVE  IInv'
<1> USE DEF IInv, Recoverable
<1>1. /\ spm[p] \in Hosts /\ p \in Allocated
      /\ IF serialize_called THEN take_checkpoint(spm[p])
         ELSE UNCHANGED <<mm_ckpt, buf, ckpt_mempool>>
      /\ data' = [data EXCEPT ![spm[p]] = v]
      /\ UNCHANGED <<spm, serialize_called, ckpt_ppn, saved>>
  BY DEF StoreSlow, TypeOK, Allocated
<1>2. PICK kept \in SUBSET tlb[u] : tlb' = [tlb EXCEPT ![u] = kept \union {p}]
  BY DEF StoreSlow
<1>3. TypeOK'
  BY <1>1, <1>2, Copied DEF TypeOK
<1>4. Mapped'
  BY <1>1, <1>2 DEF TypeOK, Mapped, Allocated
<1>5. BufferOwnedOnce'
  BY <1>1, Copied DEF BufferOwnedOnce, InUse
<1>6. Held'
  <2> SUFFICES ASSUME serialize_called PROVE Held'
    BY <1>1 DEF Held
  <2> DEFINE h == spm[p]
  <2>1. take_checkpoint(h)
    BY <1>1
  <2>2. /\ mm_ckpt'[h] # None
        /\ buf'[mm_ckpt'[h]] = IF mm_ckpt[h] # None THEN buf[mm_ckpt[h]] ELSE data[h]
        /\ \A g \in Hosts : g # h =>
             /\ mm_ckpt'[g] = mm_ckpt[g]
             /\ mm_ckpt[g] # None => buf'[mm_ckpt[g]] = buf[mm_ckpt[g]]
    BY <1>1, <2>1, Copied
  <2>3. \A q \in Allocated : q # p =>
          /\ spm[q] \in Hosts /\ spm[q] # h /\ data'[spm[q]] = data[spm[q]]
    BY <1>1, PagesApart DEF TypeOK
  <2>4. (\A w \in Mmus : \A q \in tlb[w] : mm_ckpt[spm[q]] # None)'
    <3>1. \A w \in Mmus : tlb'[w] \subseteq tlb[w] \union {p}
      BY <1>2 DEF TypeOK
    <3>2. \A w \in Mmus : \A q \in tlb[w] : q \in Allocated /\ mm_ckpt[spm[q]] # None
      BY DEF Held, Mapped
    <3>3. QED
      BY <1>1, <2>2, <2>3, <3>1, <3>2
  <2>5. ASSUME NEW q \in Ppns
        PROVE  (saved[q] = IF q \notin ckpt_ppn THEN Zero
                           ELSE IF mm_ckpt[spm[q]] # None THEN buf[mm_ckpt[spm[q]]]
                           ELSE data[spm[q]])'
    <3>1. CASE q \notin ckpt_ppn
      BY <3>1, <1>1 DEF Held
    <3>2. CASE q \in ckpt_ppn /\ q # p
      BY <3>2, <1>1, <2>2, <2>3 DEF Held
    <3>3. CASE q \in ckpt_ppn /\ q = p
      BY <3>3, <1>1, <2>2 DEF Held
    <3>4. QED BY <3>1, <3>2, <3>3
  <2>6. (ckpt_ppn \subseteq Allocated)'
    BY <1>1 DEF Held, Allocated
  <2>7. QED
    BY <2>4, <2>5, <2>6 DEF Held
<1>7. QED
  BY <1>3, <1>4, <1>5, <1>6

\* Losing a TLB entry only sends later stores to the slow path.
LEMMA EvictInv ==
  ASSUME IInv, NEW u \in Mmus, Evict(u)
  PROVE  IInv'
BY DEF Evict, IInv, Recoverable, TypeOK, Mapped, BufferOwnedOnce, InUse, Held, Allocated

\* A new checkpoint starts with no copy and with empty TLBs.
LEMMA SerializeInv ==
  ASSUME IInv, serialize_proto
  PROVE  IInv'
<1> USE DEF IInv, Recoverable, serialize_proto, flush_tlb
<1>1. TypeOK'
  BY PageAssumption DEF TypeOK, InUse, Allocated, mem, MemOf
<1>2. Mapped'
  BY DEF Mapped, Allocated
<1>3. BufferOwnedOnce'
  BY DEF BufferOwnedOnce, InUse
<1>4. Held'
  BY DEF Held, Allocated, mem, MemOf, TypeOK
<1>5. QED
  BY <1>1, <1>2, <1>3, <1>4

\* A restore gives every copied page its contents back.
LEMMA DeserializeInv ==
  ASSUME IInv, deserialize_proto
  PROVE  IInv'
<1> USE DEF IInv, Recoverable, deserialize_proto, flush_tlb, KeptMap
<1>1. TypeOK'
  BY DEF TypeOK
<1>2. Mapped'
  BY DEF Mapped, Allocated, TypeOK
<1>3. BufferOwnedOnce'
  BY DEF BufferOwnedOnce, InUse
<1>4. Held'
  BY DEF Held
<1>5. QED
  BY <1>1, <1>2, <1>3, <1>4

\* Every step preserves the invariant.
LEMMA InvStep == IInv /\ [Next]_vars => IInv'
<1> SUFFICES ASSUME IInv, [Next]_vars PROVE IInv'
  OBVIOUS
<1>1. ASSUME NEW u \in Mmus, NEW p \in Ppns, NEW v \in Values, StoreFast(u, p, v)
      PROVE  IInv'
  BY <1>1, StoreFastInv
<1>2. ASSUME NEW u \in Mmus, NEW p \in Ppns, NEW v \in Values, StoreSlow(u, p, v)
      PROVE  IInv'
  BY <1>2, StoreSlowInv
<1>3. ASSUME NEW p \in Ppns, Touch(p) PROVE IInv'
  BY <1>3, TouchInv
<1>4. ASSUME NEW u \in Mmus, Evict(u) PROVE IInv'
  BY <1>4, EvictInv
<1>5. CASE serialize_proto
  BY <1>5, SerializeInv
<1>6. CASE deserialize_proto
  BY <1>6, DeserializeInv
<1>7. CASE UNCHANGED vars
  BY <1>7 DEF vars, IInv, Recoverable, TypeOK, Mapped, BufferOwnedOnce, InUse, Held, Allocated
<1>8. QED
  BY <1>1, <1>2, <1>3, <1>4, <1>5, <1>6, <1>7 DEF Next, Store

(* At any time what deserialize_proto would restore is the memory that     *)
(* serialize_proto saw, and no copy of a page can be overwritten.          *)
THEOREM AlwaysRecoverable == Spec => []Recoverable
<1>1. IInv => Recoverable
  BY DEF IInv
<1>2. QED
  BY <1>1, InitInv, InvStep, PTL DEF Spec

(* The variables keep their types. *)
THEOREM TypeCorrect == Spec => []TypeOK
<1>1. IInv => TypeOK
  BY DEF IInv
<1>2. QED
  BY <1>1, InitInv, InvStep, PTL DEF Spec

-----------------------------------------------------------------------------
\* The refinement.

\* The initial states are initial states of SnapshotMemory.
LEMMA InitImplements == Init => Memory!Init
BY DEF Init, Memory!Init, mem, MemOf

\* A store changes the memory at its page only.
LEMMA StoreWrites ==
  ASSUME IInv, NEW p \in Allocated, NEW v \in Values,
         spm' = spm, data' = [data EXCEPT ![spm[p]] = v]
  PROVE  mem' = [mem EXCEPT ![p] = v]
<1>1. \A q \in Allocated : q # p => spm[q] \in Hosts /\ data'[spm[q]] = data[spm[q]]
  BY PagesApart DEF IInv, Recoverable, TypeOK
<1>2. data'[spm[p]] = v
  BY DEF IInv, TypeOK, Allocated
<1>3. QED
  BY <1>1, <1>2 DEF mem, MemOf, Allocated

\* Every step is a step of SnapshotMemory or leaves its variables alone.
LEMMA StepImplements == IInv /\ [Next]_vars => [Memory!Next]_(Memory!vars)
<1> SUFFICES ASSUME IInv, [Next]_vars PROVE [Memory!Next]_(Memory!vars)
  OBVIOUS
<1>1. ASSUME NEW u \in Mmus, NEW p \in Ppns, NEW v \in Values,
             StoreFast(u, p, v) \/ StoreSlow(u, p, v)
      PROVE  Memory!Next
  <2>1. p \in Allocated
    BY <1>1 DEF StoreFast, StoreSlow, IInv, Recoverable, Mapped, Allocated
  <2>2. mem' = [mem EXCEPT ![p] = v]
    BY <1>1, <2>1, StoreWrites DEF StoreFast, StoreSlow
  <2>3. Memory!Write(p, v)
    BY <1>1, <2>2 DEF Memory!Write, StoreFast, StoreSlow
  <2>4. QED
    BY <2>3 DEF Memory!Next
<1>2. ASSUME NEW p \in Ppns, Touch(p) PROVE UNCHANGED Memory!vars
  <2>1. PICK h \in FreeHosts : /\ spm' = [spm EXCEPT ![p] = h]
                               /\ data' = [data EXCEPT ![h] = Zero]
    BY <1>2 DEF Touch
  <2>2. h \in Hosts /\ h # None /\ \A q \in Allocated : spm[q] # h
    BY <2>1, PageAssumption DEF FreeHosts
  <2>3. \A q \in Ppns : spm'[q] = (IF q = p THEN h ELSE spm[q]) /\ spm[p] = None
    BY <1>2, <2>1 DEF Touch, IInv, TypeOK
  <2>4. \A q \in Allocated : data'[spm[q]] = data[spm[q]] /\ q # p
    BY <2>1, <2>2, <2>3 DEF IInv, TypeOK, Allocated
  <2>5. data'[h] = Zero
    BY <2>1, <2>2 DEF IInv, TypeOK
  <2>6. \A q \in Ppns : mem'[q] = mem[q]
    BY <2>2, <2>3, <2>4, <2>5 DEF mem, MemOf, Allocated
  <2>7. mem' = mem
    BY <2>6 DEF mem, MemOf
  <2>8. QED
    BY <1>2, <2>7 DEF Memory!vars, Touch
<1>3. ASSUME NEW u \in Mmus, Evict(u) PROVE UNCHANGED Memory!vars
  BY <1>3 DEF Evict, Memory!vars, mem, MemOf
<1>4. ASSUME serialize_proto PROVE Memory!Next
  BY <1>4 DEF serialize_proto, Memory!Next, Memory!Save, mem, MemOf
<1>5. ASSUME deserialize_proto PROVE Memory!Next
  <2>1. \A p \in ckpt_ppn : spm[p] \in Hosts /\ spm[p] # None
    BY <1>5 DEF deserialize_proto, IInv, Recoverable, Held, Allocated, TypeOK
  <2>2. \A p \in ckpt_ppn : data'[spm[p]] = IF mm_ckpt[spm[p]] # None
                                              THEN buf[mm_ckpt[spm[p]]] ELSE data[spm[p]]
    BY <1>5, <2>1 DEF deserialize_proto
  <2>3. \A p \in Ppns : mem'[p] = saved[p]
    BY <1>5, <2>1, <2>2 DEF deserialize_proto, KeptMap, IInv, Recoverable, Held, mem, MemOf
  <2>4. mem' = saved
    BY <2>3 DEF mem, MemOf, IInv, TypeOK
  <2>5. QED
    BY <1>5, <2>4 DEF deserialize_proto, Memory!Next, Memory!Restore
<1>6. CASE UNCHANGED vars
  BY <1>6 DEF vars, Memory!vars, mem, MemOf
<1>7. QED
  BY <1>1, <1>2, <1>3, <1>4, <1>5, <1>6 DEF Next, Store

(* The checkpoint of pages copied at their first store saves and restores  *)
(* all of the target's memory.                                             *)
THEOREM CheckpointRestoresMemory == Spec => RestoresMemory
<1>1. Spec => []IInv
  BY InitInv, InvStep, PTL DEF Spec
<1>2. QED
  BY <1>1, InitImplements, StepImplements, PTL DEF Spec, RestoresMemory, Memory!Spec
=============================================================================
