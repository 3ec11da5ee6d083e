------------------------ MODULE TraceReader_proofs ------------------------
(***************************************************************************)
(* Theorems about TraceReader, for every number of buffers, threads,       *)
(* files and lines: buffers are owned once, the reader implements          *)
(* TraceDelivery, and its assertion never fails.                           *)
(***************************************************************************)
EXTENDS TraceReader, FiniteSetTheorems, TLAPS

(* Modulo by the number of buffers is a wrap to 0 at the end.              *)
LEMMA NextIdWraps ==
  ASSUME NEW i \in Ids
  PROVE  /\ NextId(i) = IF i + 1 = NBuffers THEN 0 ELSE i + 1
         /\ NextId(i) \in Ids
<1>1. NBuffers \in Nat \ {0} BY ReaderAssumption
<1>2. CASE i + 1 = NBuffers
  BY <1>1, <1>2, SMT DEF NextId, Ids
<1>3. CASE i + 1 # NBuffers
  BY <1>1, <1>3, SMT DEF NextId, Ids
<1> QED BY <1>2, <1>3

(* The ring operations keep a ring a ring.                                  *)
LEMMA RingTypes ==
  ASSUME NEW b \in Ring!Buffer, NEW s \in Steps
  PROVE  /\ Ring!NewBuffer \in Ring!Buffer
         /\ Ring!push_back(b, s) \in Ring!Buffer
         /\ Ring!pop_front(b) \in Ring!Buffer
         /\ Ring!done_consume(b) \in Ring!Buffer
         /\ Ring!set_consumable(b) \in Ring!Buffer
<1>1. \A i \in Nat : i % Ring!Size \in 0 .. MaxEntries
  BY ReaderAssumption, SMT DEF Ring!Size
<1>2. /\ 1 % Ring!Size \in 0 .. MaxEntries
      /\ (b.head + 1) % Ring!Size \in 0 .. MaxEntries
      /\ (b.tail + 1) % Ring!Size \in 0 .. MaxEntries
  <2>1. b.head \in 0 .. MaxEntries /\ b.tail \in 0 .. MaxEntries
    BY DEF Ring!Buffer
  <2>2. 1 \in Nat /\ b.head + 1 \in Nat /\ b.tail + 1 \in Nat
    BY <2>1, ReaderAssumption
  <2> QED BY <1>1, <2>2
<1>3. 0 \in 0 .. MaxEntries
  BY ReaderAssumption
<1> QED
  BY <1>2, <1>3 DEF Ring!Buffer, Ring!NewBuffer, Ring!push_back, Ring!pop_front,
     Ring!done_consume, Ring!set_consumable

(* Different files in flight are in different buffers, the oldest of them  *)
(* in the consumer's, and the producer's is free while fewer than NBuffers *)
(* files are in flight.                                                    *)
LEMMA BufferOfFacts ==
  ASSUME TypeOK, Window
  PROVE  /\ \A f \in bufid .. (bufid + NBuffers) : BufferOf(f) \in Ids
         /\ \A f, g \in bufid .. (bufid + NBuffers - 1) :
              f # g => BufferOf(f) # BufferOf(g)
         /\ BufferOf(bufid) = consumer_id
         /\ BufferOf(bufid + NBuffers) = consumer_id
<1>1. /\ NBuffers \in Nat \ {0}
      /\ bufid \in Nat /\ trace_id \in Nat /\ consumer_id \in 0 .. NBuffers - 1
  BY ReaderAssumption DEF TypeOK, Ids
<1>2. \A f \in bufid .. (bufid + NBuffers) : BufferOf(f) \in Ids
  BY <1>1 DEF BufferOf, Ids
<1>3. \A f, g \in bufid .. (bufid + NBuffers - 1) :
              f # g => BufferOf(f) # BufferOf(g)
  BY <1>1 DEF BufferOf
<1>4. BufferOf(bufid) = consumer_id /\ BufferOf(bufid + NBuffers) = consumer_id
  BY <1>1 DEF BufferOf
<1> QED BY <1>2, <1>3, <1>4

(* The initial state satisfies the inductive invariant.                    *)
LEMMA OwnershipInit == Init => OwnershipInv
<1> SUFFICES ASSUME Init PROVE OwnershipInv
  OBVIOUS
<1>1. TypeOK
  <2>1. Ring!NewBuffer \in Ring!Buffer
    <3>1. 1 % Ring!Size \in 0 .. MaxEntries /\ 0 \in 0 .. MaxEntries
      BY ReaderAssumption, SMT DEF Ring!Size
    <3> QED BY <3>1 DEF Ring!NewBuffer, Ring!Buffer
  <2>2. 0 \in Ids /\ 0 \in 0 .. NumFiles /\ 0 \in 0 .. FdLimit
    BY ReaderAssumption DEF Ids
  <2> QED BY <2>1, <2>2 DEF Init, TypeOK, Idle, WorkerState
<1>2. Window
  BY ReaderAssumption DEF Init, Window, BufferOf
<1>3. Filling /\ Published
  BY DEF Init, Filling, Published, Busy, Idle, Ring!NewBuffer
<1> QED BY <1>1, <1>2, <1>3 DEF OwnershipInv

(* A claim takes a buffer that nobody owns.                                *)
LEMMA ClaimKeepsOwnership ==
  ASSUME OwnershipInv, NEW t \in Threads, Claim(t)
  PROVE  OwnershipInv'
<1> USE DEF OwnershipInv
<1>1. /\ NBuffers \in Nat \ {0} /\ NumFiles \in Nat
      /\ bufid \in Nat /\ trace_id \in Nat /\ consumer_id \in Ids /\ files \in 0 .. NumFiles
      /\ bufid <= trace_id /\ trace_id < files
  BY ReaderAssumption DEF TypeOK, Window, Claim
<1>2. trace_id < bufid + NBuffers
  <2>1. CASE init
    BY <1>1, <2>1 DEF Window
  <2>2. CASE producer_id # consumer_id
    BY <1>1, <2>2, BufferOfFacts DEF Window
  <2> QED BY <2>1, <2>2 DEF Claim, MayClaim
<1>3. /\ producer_id = BufferOf(trace_id) /\ producer_id \in Ids
      /\ producer_id' = BufferOf(trace_id + 1)
  BY <1>1, <1>2, NextIdWraps, BufferOfFacts DEF Window, Claim, BufferOf, Ids
<1>4. TypeOK'
  <2>1. producer_id' \in Ids
    BY <1>3, NextIdWraps DEF Claim
  <2>2. trace_id \in 0 .. NumFiles /\ trace_id' \in 0 .. NumFiles
    BY <1>1 DEF Claim
  <2>3. worker' \in [Threads -> WorkerState]
    <3>1. [pc |-> "open", pid |-> producer_id, file |-> trace_id, line |-> 0, lines |-> 0]
             \in WorkerState
      BY <1>3, <2>2 DEF WorkerState
    <3> QED BY <3>1 DEF Claim, TypeOK
  <2> QED BY <2>1, <2>2, <2>3 DEF TypeOK, Claim, consumerVars
<1>5. \A f : BufferOf(f)' = BufferOf(f)
  BY DEF BufferOf, Claim, consumerVars
<1>6. Window'
  <2>1. producer_id' = BufferOf(trace_id)'
    BY <1>3 DEF Claim, BufferOf, consumerVars
  <2>2. /\ bufid' = bufid /\ trace_id' = trace_id + 1 /\ files' = files /\ init' = FALSE
    BY DEF Claim, consumerVars
  <2> QED BY <1>1, <1>2, <2>1, <2>2 DEF Window
<1>7. InFlight' = InFlight \union {trace_id}
  BY <1>1 DEF InFlight, Claim, consumerVars
<1>8. \A f \in InFlight : BufferOf(f) # producer_id
  BY <1>1, <1>2, <1>3, BufferOfFacts DEF InFlight
<1>9. ~ buffers[producer_id].consumable
  BY <1>3, <1>8 DEF Published
<1>10. /\ buffers' = buffers /\ cpc' = cpc /\ consumer_id' = consumer_id /\ bufid' = bufid
       /\ \A u \in Threads \ {t} : worker'[u] = worker[u]
       /\ worker'[t].pc = "open" /\ worker'[t].pid = producer_id /\ worker'[t].file = trace_id
       /\ ~ Busy(t)
  BY DEF Claim, consumerVars, TypeOK, Busy
<1>11. Filling'
  BY <1>1, <1>3, <1>5, <1>7, <1>8, <1>9, <1>10 DEF Filling, Busy, InFlight
<1>12. Published'
  <2>1. cpc = "pop" => producer_id # consumer_id
    BY <1>1, <1>8, BufferOfFacts DEF Published, InFlight
  <2> QED BY <1>1, <1>5, <1>7, <1>10, <2>1 DEF Published, Busy, Claim
<1> QED BY <1>4, <1>6, <1>11, <1>12

(* Steps that move neither id nor a file's state keep the bookkeeping.     *)
LEMMA SameWindow ==
  ASSUME OwnershipInv, UNCHANGED readerVars, UNCHANGED bufid,
         files' >= files, files' \in 0 .. NumFiles
  PROVE  /\ Window'
         /\ InFlight' = InFlight
         /\ \A f : BufferOf(f)' = BufferOf(f)
<1>1. InFlight' = InFlight /\ \A f : BufferOf(f)' = BufferOf(f)
  BY DEF InFlight, BufferOf, readerVars
<1>2. BufferOf(trace_id)' = BufferOf(trace_id)
  BY DEF BufferOf, readerVars
<1>3. Window'
  BY <1>2 DEF OwnershipInv, Window, TypeOK, readerVars
<1> QED BY <1>1, <1>3

(* The thread that decompresses touches only the buffer it claimed.        *)
LEMMA WorkerKeepsOwnership ==
  ASSUME OwnershipInv, NEW t \in Threads, OpenAndRead(t) \/ PushLine(t) \/ Publish(t)
  PROVE  OwnershipInv'
<1> USE DEF OwnershipInv
<1> DEFINE w == worker[t]
<1>1. /\ w \in WorkerState /\ Busy(t) /\ w.pid \in Ids /\ w.file \in 0 .. NumFiles - 1
      /\ w.file \in InFlight /\ w.pid = BufferOf(w.file)
  <2>1. w \in WorkerState /\ Busy(t)
    BY DEF TypeOK, OpenAndRead, PushLine, Publish, Busy
  <2>2. w.file \in InFlight /\ w.pid = BufferOf(w.file)
    BY <2>1 DEF Filling
  <2>3. w.file \in 0 .. NumFiles - 1
    BY <2>2, ReaderAssumption DEF InFlight, TypeOK, Window
  <2> QED BY <2>1, <2>2, <2>3 DEF WorkerState
<1>2. /\ UNCHANGED readerVars /\ UNCHANGED consumerVars /\ files' = files
      /\ consumer_id' = consumer_id /\ bufid' = bufid /\ cpc' = cpc /\ trace_id' = trace_id
  BY DEF OpenAndRead, PushLine, Publish, consumerVars, readerVars
<1>3. /\ Window' /\ InFlight' = InFlight /\ \A f : BufferOf(f)' = BufferOf(f)
  BY <1>2, SameWindow DEF TypeOK, consumerVars
<1>4. CASE OpenAndRead(t)
  <2>1. (IF fds < FdLimit THEN FileLen[w.file] ELSE 0) \in Nat
    BY <1>1, ReaderAssumption
  <2>2. worker' \in [Threads -> WorkerState]
    <3> DEFINE n == IF fds < FdLimit THEN FileLen[w.file] ELSE 0
               new == [w EXCEPT !.pc = "fill", !.lines = n]
    <3>1. worker' = [worker EXCEPT ![t] = new]
      BY <1>4 DEF OpenAndRead, TypeOK
    <3>2. w \in WorkerState /\ n \in Nat
      BY <1>1, <2>1
    <3>3. new \in WorkerState
      <4> HIDE DEF n, w
      <4> QED BY <3>2 DEF WorkerState
    <3> HIDE DEF new
    <3> QED BY <3>1, <3>3 DEF TypeOK
  <2>3. fds' \in 0 .. FdLimit
    BY <1>4, ReaderAssumption DEF OpenAndRead, TypeOK
  <2>4. TypeOK'
    BY <1>2, <1>4, <2>2, <2>3 DEF TypeOK, OpenAndRead, readerVars, consumerVars
  <2>5. /\ buffers' = buffers
        /\ \A u \in Threads : /\ Busy(u)' <=> Busy(u)
                             /\ worker'[u].pid = worker[u].pid
                             /\ worker'[u].file = worker[u].file
    BY <1>4 DEF OpenAndRead, TypeOK, WorkerState, Busy
  <2>6. Filling' /\ Published'
    BY <1>2, <1>3, <2>5 DEF Filling, Published
  <2> QED BY <1>3, <2>4, <2>6
<1>5. CASE PushLine(t)
  <2>1. <<w.file, w.line + 1>> \in Steps
    BY <1>1 DEF Steps, WorkerState
  <2>2. buffers[w.pid] \in Ring!Buffer /\ Ring!push_back(buffers[w.pid], <<w.file, w.line + 1>>) \in Ring!Buffer
    BY <1>1, <2>1, RingTypes DEF TypeOK
  <2>3. \/ aborted' = TRUE /\ UNCHANGED <<buffers, worker>>
        \/ /\ buffers' = [buffers EXCEPT ![w.pid] =
                             Ring!push_back(@, <<w.file, w.line + 1>>)]
           /\ worker' = [worker EXCEPT ![t].line = @ + 1]
           /\ aborted' = aborted
    BY <1>5 DEF PushLine
  <2>4. UNCHANGED fds
    BY <1>5 DEF PushLine
  <2>5. TypeOK'
    <3>1. buffers' \in [Ids -> Ring!Buffer]
      BY <2>3, <2>2 DEF TypeOK
    <3>2. worker' \in [Threads -> WorkerState]
      <4>1. [w EXCEPT !.line = @ + 1] \in WorkerState
        BY <1>1 DEF WorkerState
      <4> QED BY <2>3, <4>1 DEF TypeOK
    <3>3. aborted' \in BOOLEAN
      BY <2>3 DEF TypeOK
    <3> QED BY <1>2, <2>4, <3>1, <3>2, <3>3 DEF TypeOK, readerVars, consumerVars
  <2>6. /\ \A b \in Ids : buffers'[b].consumable = buffers[b].consumable
        /\ \A u \in Threads : /\ Busy(u)' <=> Busy(u)
                             /\ worker'[u].pid = worker[u].pid
                             /\ worker'[u].file = worker[u].file
    <3>1. \A b \in Ids : buffers'[b].consumable = buffers[b].consumable
      <4>1. Ring!push_back(buffers[w.pid], <<w.file, w.line + 1>>).consumable
              = buffers[w.pid].consumable
        BY <2>2 DEF Ring!push_back, Ring!Buffer
      <4> QED BY <2>3, <4>1 DEF TypeOK
    <3>2. \A u \in Threads : /\ worker'[u].pc = worker[u].pc
                            /\ worker'[u].pid = worker[u].pid
                            /\ worker'[u].file = worker[u].file
      BY <2>3 DEF TypeOK, WorkerState
    <3> QED BY <3>1, <3>2 DEF Busy
  <2>7. \A u \in Threads : worker[u].pid \in Ids
    BY DEF TypeOK, WorkerState
  <2>8. consumer_id \in Ids
    BY DEF TypeOK
  <2>9. Filling' /\ Published'
    BY <1>2, <1>3, <2>6, <2>7, <2>8 DEF Filling, Published
  <2> QED BY <1>3, <2>5, <2>9
<1>6. CASE Publish(t)
  <2>1. buffers[w.pid] \in Ring!Buffer /\ Ring!set_consumable(buffers[w.pid]) \in Ring!Buffer
    <3> DEFINE b == buffers[w.pid]
    <3>1. b \in Ring!Buffer
      BY <1>1 DEF TypeOK
    <3> HIDE DEF b
    <3>2. Ring!set_consumable(b) \in Ring!Buffer
      BY <3>1 DEF Ring!set_consumable, Ring!Buffer
    <3> QED BY <3>1, <3>2 DEF b
  <2>2. buffers' \in [Ids -> Ring!Buffer]
    BY <1>6, <2>1 DEF Publish, TypeOK
  <2>3. Idle \in WorkerState
    BY ReaderAssumption DEF Idle, WorkerState, Ids
  <2>4. worker' \in [Threads -> WorkerState]
    BY <1>6, <2>3 DEF Publish, TypeOK
  <2>5. TypeOK'
    BY <1>2, <1>6, <2>2, <2>4 DEF TypeOK, Publish, readerVars, consumerVars
  <2>6. /\ \A b \in Ids : buffers'[b].consumable <=> (b = w.pid \/ buffers[b].consumable)
        /\ ~ Busy(t)'
        /\ \A u \in Threads \ {t} : worker'[u] = worker[u]
    BY <1>6, <2>1 DEF Publish, TypeOK, Busy, Idle, Ring!set_consumable, Ring!Buffer
  <2>7. \A u \in Threads \ {t} : Busy(u) => worker[u].pid # w.pid
    <3> SUFFICES ASSUME NEW u \in Threads \ {t}, Busy(u) PROVE worker[u].pid # w.pid
      OBVIOUS
    <3>1. worker[u].file \in InFlight /\ worker[u].pid = BufferOf(worker[u].file)
           /\ worker[u].file # w.file
      BY <1>1 DEF Filling
    <3> QED BY <1>1, <3>1, BufferOfFacts, ReaderAssumption DEF InFlight, Window, TypeOK
  <2>8. \A u \in Threads : worker[u].pid \in Ids
    BY DEF TypeOK, WorkerState
  <2>9. Filling'
    BY <1>3, <2>6, <2>7, <2>8 DEF Filling, Busy
  <2>10. cpc = "pop" => w.pid # consumer_id
    BY <1>1 DEF Published
  <2>11. Published'
    <3>1. \A b \in Ids : buffers'[b].consumable => \E f \in InFlight : b = BufferOf(f)
      BY <1>1, <2>6 DEF Published
    <3>2. consumer_id \in Ids
      BY DEF TypeOK
    <3> QED BY <1>2, <1>3, <2>6, <2>10, <3>1, <3>2 DEF Published, Busy
  <2> QED BY <1>3, <2>5, <2>9, <2>11
<1> QED BY <1>4, <1>5, <1>6

(* The profiler thread drains a published buffer and releases it before    *)
(* it moves on.                                                            *)
LEMMA ConsumerKeepsOwnership ==
  ASSUME OwnershipInv, Consumer
  PROVE  OwnershipInv'
<1> USE DEF OwnershipInv
<1>1. /\ consumer_id \in Ids /\ buffers[consumer_id] \in Ring!Buffer
      /\ NBuffers \in Nat \ {0} /\ bufid \in 0 .. NumFiles /\ trace_id \in 0 .. NumFiles
  BY ReaderAssumption DEF TypeOK
<1>2. /\ \A t \in Threads : worker[t].pid \in Ids
      /\ \A t \in Threads : Busy(t) => ~ buffers[worker[t].pid].consumable
  BY DEF TypeOK, WorkerState, Filling
<1>3. /\ worker' = worker /\ files' = files /\ files \in 0 .. NumFiles
      /\ \A t \in Threads : Busy(t)' <=> Busy(t)
  BY DEF Consumer, CanConsume, Pop, DoneConsume, PopBuffer, TypeOK, Busy
<1>4. CASE CanConsume
  <2>1. UNCHANGED <<readerVars, buffers, bufid>> /\ cpc' = "drain" /\ buffers[consumer_id].consumable
    BY <1>4 DEF CanConsume
  <2>2. TypeOK'
    BY <1>4 DEF CanConsume, TypeOK, readerVars
  <2>3. Window' /\ InFlight' = InFlight /\ \A f : BufferOf(f)' = BufferOf(f)
    BY <1>3, <2>1, SameWindow
  <2>4. Filling' /\ Published'
    BY <1>3, <2>1, <2>3 DEF Filling, Published, readerVars
  <2> QED BY <2>2, <2>3, <2>4
<1>5. CASE Pop
  <2>1. UNCHANGED <<readerVars, bufid, cpc>>
    BY <1>5 DEF Pop
  <2>2. /\ Ring!pop_front(buffers[consumer_id]) \in Ring!Buffer
        /\ Ring!pop_front(buffers[consumer_id]).consumable = buffers[consumer_id].consumable
    <3>1. (buffers[consumer_id].head + 1) % Ring!Size \in 0 .. MaxEntries
      <4>1. buffers[consumer_id].head + 1 \in Nat
        BY <1>1, ReaderAssumption DEF Ring!Buffer
      <4> QED BY <4>1, ReaderAssumption, SMT DEF Ring!Size
    <3> QED BY <1>1, <3>1 DEF Ring!pop_front, Ring!Buffer
  <2>3. TypeOK'
    <3>1. buffers' \in [Ids -> Ring!Buffer]
      BY <1>5, <2>2 DEF Pop, TypeOK
    <3> QED BY <1>5, <3>1 DEF Pop, TypeOK, readerVars
  <2>4. Window' /\ InFlight' = InFlight /\ \A f : BufferOf(f)' = BufferOf(f)
    BY <1>3, <2>1, SameWindow
  <2>5. \A b \in Ids : buffers'[b].consumable = buffers[b].consumable
    BY <1>5, <2>2 DEF Pop, TypeOK
  <2>6. Filling' /\ Published'
    BY <1>1, <1>2, <1>3, <2>1, <2>4, <2>5 DEF Filling, Published, readerVars
  <2> QED BY <2>3, <2>4, <2>6
<1>6. CASE DoneConsume
  <2>1. UNCHANGED <<readerVars, bufid>> /\ cpc = "drain" /\ cpc' = "pop"
    BY <1>6 DEF DoneConsume
  <2>2. /\ Ring!done_consume(buffers[consumer_id]) \in Ring!Buffer
        /\ Ring!done_consume(buffers[consumer_id]).consumable = FALSE
    BY <1>1 DEF Ring!done_consume, Ring!Buffer
  <2>3. TypeOK'
    <3>1. buffers' \in [Ids -> Ring!Buffer]
      BY <1>6, <2>2 DEF DoneConsume, TypeOK
    <3> QED BY <1>6, <3>1 DEF DoneConsume, TypeOK, readerVars
  <2>4. Window' /\ InFlight' = InFlight /\ \A f : BufferOf(f)' = BufferOf(f)
    BY <1>3, <2>1, SameWindow
  <2>5. \A b \in Ids : buffers'[b].consumable <=> (b # consumer_id /\ buffers[b].consumable)
    BY <1>1, <1>6, <2>2 DEF DoneConsume, TypeOK
  <2>6. Filling'
    BY <1>2, <1>3, <2>4, <2>5 DEF Filling
  <2>7. buffers[consumer_id].consumable
    BY <2>1 DEF Published
  <2>8. bufid < trace_id
    <3>1. PICK f \in InFlight : consumer_id = BufferOf(f)
      BY <1>1, <2>7 DEF Published
    <3> QED BY <1>1, <3>1 DEF InFlight
  <2>9. \A t \in Threads : Busy(t) => worker[t].pid # consumer_id
    BY <1>2, <2>7
  <2>10. Published'
    BY <1>1, <1>3, <2>1, <2>4, <2>5, <2>8, <2>9 DEF Published, readerVars
  <2> QED BY <2>3, <2>4, <2>6, <2>10
<1>7. CASE PopBuffer
  <2>1. /\ bufid < trace_id /\ ~ buffers[consumer_id].consumable
        /\ \A t \in Threads : Busy(t) => worker[t].pid # consumer_id
    BY <1>7 DEF PopBuffer, Published
  <2>2. /\ consumer_id' = NextId(consumer_id) /\ bufid' = bufid + 1 /\ trace_id' = trace_id
        /\ producer_id' = producer_id /\ init' = init /\ buffers' = buffers /\ cpc' = "wait"
        /\ consumer_id' \in Ids
    BY <1>1, <1>7, NextIdWraps DEF PopBuffer
  <2>3. TypeOK'
    <3>1. bufid' \in 0 .. NumFiles
      BY <1>1, <2>1, <2>2, ReaderAssumption
    <3> QED BY <1>7, <2>2, <3>1 DEF PopBuffer, TypeOK
  <2>4. \A f \in (bufid + 1) .. (bufid + NBuffers) : BufferOf(f)' = BufferOf(f)
    BY <1>1, <2>2, NextIdWraps DEF BufferOf, Ids
  <2>5. InFlight' = InFlight \ {bufid} /\ InFlight' \subseteq (bufid + 1) .. (bufid + NBuffers)
    BY <1>1, <2>2 DEF InFlight, Window
  <2>6. Window'
    <3>1. trace_id \in (bufid + 1) .. (bufid + NBuffers)
      BY <1>1, <2>1 DEF Window
    <3>2. BufferOf(trace_id)' = BufferOf(trace_id)
      BY <1>1, <2>2, <3>1, NextIdWraps DEF BufferOf, Ids
    <3> QED BY <1>1, <1>3, <2>1, <2>2, <3>2 DEF Window
  <2>7. BufferOf(bufid) = consumer_id
    BY BufferOfFacts
  <2>8. Filling'
    <3>1. \A t \in Threads : Busy(t) => worker[t].file \in InFlight'
      BY <2>1, <2>5, <2>7 DEF Filling
    <3> QED BY <1>3, <2>2, <2>4, <2>5, <3>1 DEF Filling
  <2>9. \A b \in Ids : buffers[b].consumable => \E f \in InFlight' : b = BufferOf(f)
    BY <2>1, <2>5, <2>7 DEF Published
  <2>10. Published'
    BY <2>2, <2>4, <2>5, <2>9 DEF Published
  <2> QED BY <2>3, <2>6, <2>8, <2>10
<1> QED BY <1>4, <1>5, <1>6, <1>7 DEF Consumer

(* Every step keeps the inductive invariant.                               *)
LEMMA OwnershipStep == OwnershipInv /\ [Next]_vars => OwnershipInv'
<1> SUFFICES ASSUME OwnershipInv, [Next]_vars PROVE OwnershipInv'
  OBVIOUS
<1>1. CASE UNCHANGED vars
  <2>1. /\ UNCHANGED <<readerVars, buffers, worker, cpc, bufid, files>>
        /\ files' \in 0 .. NumFiles /\ files' >= files
    BY <1>1 DEF vars, consumerVars, OwnershipInv, TypeOK
  <2>2. Window' /\ InFlight' = InFlight /\ \A f : BufferOf(f)' = BufferOf(f)
    BY <2>1, SameWindow
  <2>3. TypeOK'
    BY <1>1 DEF vars, readerVars, consumerVars, OwnershipInv, TypeOK
  <2> QED BY <2>1, <2>2, <2>3 DEF OwnershipInv, Filling, Published, Busy, readerVars
<1>2. CASE FileAppears
  <2>1. /\ UNCHANGED <<readerVars, buffers, worker, cpc, bufid>>
        /\ files' \in 0 .. NumFiles /\ files' >= files
    BY <1>2, ReaderAssumption DEF FileAppears, consumerVars, OwnershipInv, TypeOK
  <2>2. Window' /\ InFlight' = InFlight /\ \A f : BufferOf(f)' = BufferOf(f)
    BY <2>1, SameWindow
  <2>3. TypeOK'
    BY <1>2, <2>1 DEF FileAppears, readerVars, consumerVars, OwnershipInv, TypeOK
  <2> QED BY <2>1, <2>2, <2>3 DEF OwnershipInv, Filling, Published, Busy, readerVars
<1>3. CASE Consumer
  BY <1>3, ConsumerKeepsOwnership
<1>4. ASSUME NEW t \in Threads, Worker(t) PROVE OwnershipInv'
  BY <1>4, ClaimKeepsOwnership, WorkerKeepsOwnership DEF Worker
<1> QED BY <1>1, <1>2, <1>3, <1>4 DEF Next

(* The buffers in flight form a window over the circular array, in every   *)
(* reachable state: what the two ids, the flags and the threads' claims    *)
(* say about each other.                                                   *)
THEOREM Ownership == Spec => []OwnershipInv
<1> QED BY OwnershipInit, OwnershipStep, PTL DEF Spec

(* The variables keep their types: no id leaves the array of buffers and   *)
(* no ring index leaves its ring.                                          *)
THEOREM TypeCorrect == Spec => []TypeOK
<1>1. OwnershipInv => TypeOK
  BY DEF OwnershipInv
<1> QED BY <1>1, Ownership, PTL

(* A buffer has one owner at a time, for any number of threads and buffers. *)
THEOREM ExclusiveBuffers == Spec => []Exclusive
<1>1. OwnershipInv => Exclusive
  <2> SUFFICES ASSUME OwnershipInv, NEW t \in Threads, Busy(t)
               PROVE  /\ \A u \in Threads \ {t} : Busy(u) => worker[u].pid # worker[t].pid
                      /\ ~ buffers[worker[t].pid].consumable
                      /\ ~ (cpc # "wait" /\ worker[t].pid = consumer_id)
    BY DEF Exclusive
  <2> USE DEF OwnershipInv
  <2>1. ~ buffers[worker[t].pid].consumable
    BY DEF Filling
  <2>2. ~ (cpc # "wait" /\ worker[t].pid = consumer_id)
    BY <2>1 DEF Published, TypeOK
  <2>3. ASSUME NEW u \in Threads \ {t}, Busy(u) PROVE worker[u].pid # worker[t].pid
    <3>1. /\ worker[t].file \in InFlight /\ worker[t].pid = BufferOf(worker[t].file)
          /\ worker[u].file \in InFlight /\ worker[u].pid = BufferOf(worker[u].file)
          /\ worker[u].file # worker[t].file
      BY <2>3 DEF Filling
    <3>2. InFlight \subseteq bufid .. (bufid + NBuffers - 1)
      BY ReaderAssumption DEF InFlight, Window, TypeOK
    <3> QED BY <3>1, <3>2, BufferOfFacts
  <2> QED BY <2>1, <2>2, <2>3
<1> QED BY <1>1, Ownership, PTL

-----------------------------------------------------------------------------
\* What is delivered.  OwnershipInv says whose each buffer is; ContentInv adds
\* what is in it.

\* gzopen finds a descriptor for every file.
EnoughFds == NumFiles <= FdLimit

\* Every file is shorter than "max insns per file".
ShortFiles == \A f \in 0 .. NumFiles - 1 : FileLen[f] < MaxEntries

\* The slot k places after the head.
At(b, k) == IF b.head + k < MaxEntries + 1 THEN b.head + k ELSE b.head + k - (MaxEntries + 1)

\* Ring b holds the lines i + 1 .. j of file f, in order, and nothing else.
Has(b, f, i, j) ==
  /\ i \in Nat /\ j \in Nat /\ i <= j /\ j - i < MaxEntries
  /\ b.tail = At(b, 1 + (j - i))
  /\ \A k \in 1 .. (j - i) : b.slot[At(b, k)] = <<f, i + k>>

\* Files claimed and not yet opened.
Unopened == {worker[t].file : t \in {u \in Threads : worker[u].pc = "open"}}

\* Every claimed file that has been opened took a descriptor.
Counted == fds + Cardinality(Unopened) = trace_id

\* What the threads have written so far is in their rings.
Written ==
  \A t \in Threads :
    /\ worker[t].pc = "open" => worker[t].line = 0 /\ Ring!empty(buffers[worker[t].pid])
    /\ worker[t].pc = "fill" =>
         /\ worker[t].lines = FileLen[worker[t].file] /\ worker[t].line <= worker[t].lines
         /\ Has(buffers[worker[t].pid], worker[t].file, 0, worker[t].line)

\* A buffer of no file in flight is empty.
Unused == \A b \in Ids : (\A f \in InFlight : b # BufferOf(f)) => Ring!empty(buffers[b])

\* How much of file f has been taken from its buffer.
Popped(f) == IF f = bufid THEN taken ELSE 0

\* A published ring holds its file up to the end.
Complete ==
  \A f \in InFlight : buffers[BufferOf(f)].consumable =>
    Has(buffers[BufferOf(f)], f, Popped(f), FileLen[f])

\* A buffer is left when the whole file has been taken.
Drained ==
  /\ cpc = "wait" => taken = 0
  /\ cpc = "pop" => taken = FileLen[bufid] /\ Ring!empty(buffers[consumer_id])

ContentInv == Counted /\ Written /\ Unused /\ Complete /\ Drained

-----------------------------------------------------------------------------
\* The ring.

(* An index of a ring goes back to 0 after MaxEntries.                     *)
LEMMA IndexWraps ==
  ASSUME NEW x \in 0 .. MaxEntries
  PROVE  (x + 1) % Ring!Size = IF x = MaxEntries THEN 0 ELSE x + 1
<1>1. MaxEntries \in Nat \ {0} /\ Ring!Size = MaxEntries + 1
  BY ReaderAssumption DEF Ring!Size
<1>2. CASE x = MaxEntries
  BY <1>1, <1>2, SMT
<1>3. CASE x # MaxEntries
  <2>1. x + 1 \in 0 .. MaxEntries
    BY <1>1, <1>3
  <2> QED BY <1>1, <1>3, <2>1, SMT
<1> QED BY <1>2, <1>3

(* The parts of a ring, and the places after its head.                     *)
LEMMA RingParts ==
  ASSUME NEW b \in Ring!Buffer
  PROVE  /\ MaxEntries \in Nat \ {0} /\ b.head \in 0 .. MaxEntries /\ b.tail \in 0 .. MaxEntries
         /\ DOMAIN b.slot = 0 .. MaxEntries
         /\ \A k \in 0 .. MaxEntries + 1 : At(b, k) \in 0 .. MaxEntries
         /\ \A k, l \in 0 .. MaxEntries : k # l => At(b, k) # At(b, l)
         /\ At(b, MaxEntries + 1) = b.head
         /\ (b.head + 1) % Ring!Size = At(b, 1)
         /\ \A k \in 0 .. MaxEntries : (At(b, k) + 1) % Ring!Size = At(b, k + 1)
<1>1. /\ MaxEntries \in Nat \ {0} /\ b.head \in 0 .. MaxEntries /\ b.tail \in 0 .. MaxEntries
      /\ DOMAIN b.slot = 0 .. MaxEntries
  BY ReaderAssumption DEF Ring!Buffer
<1>2. \A k \in 0 .. MaxEntries + 1 : At(b, k) \in 0 .. MaxEntries
  BY <1>1 DEF At
<1>3. \A k, l \in 0 .. MaxEntries : k # l => At(b, k) # At(b, l)
  BY <1>1 DEF At
<1>4. At(b, MaxEntries + 1) = b.head
  BY <1>1 DEF At
<1>5. (b.head + 1) % Ring!Size = At(b, 1)
  BY <1>1, IndexWraps DEF At
<1>6. ASSUME NEW k \in 0 .. MaxEntries PROVE (At(b, k) + 1) % Ring!Size = At(b, k + 1)
  <2>1. At(b, k) \in 0 .. MaxEntries
    BY <1>1, <1>2
  <2>2. (At(b, k) + 1) % Ring!Size = IF At(b, k) = MaxEntries THEN 0 ELSE At(b, k) + 1
    BY <2>1, IndexWraps
  <2>3. CASE b.head + k <= MaxEntries
    BY <1>1, <2>2, <2>3 DEF At
  <2>4. CASE ~ (b.head + k <= MaxEntries)
    BY <1>1, <2>2, <2>4 DEF At
  <2> QED BY <2>3, <2>4
<1> QED BY <1>1, <1>2, <1>3, <1>4, <1>5, <1>6

(* A ring is empty exactly when it holds no line of any file.              *)
LEMMA HasNone ==
  ASSUME NEW b \in Ring!Buffer, NEW f, NEW i \in Nat
  PROVE  Has(b, f, i, i) <=> Ring!empty(b)
<1>1. i - i = 0 /\ 1 + 0 = 1 /\ 1 .. 0 = {} /\ 0 < MaxEntries
  BY ReaderAssumption
<1>2. Ring!empty(b) <=> b.tail = At(b, 1)
  BY RingParts DEF Ring!empty
<1> QED BY <1>1, <1>2 DEF Has

(* It is empty once the last line has been taken.                          *)
LEMMA HasAll ==
  ASSUME NEW b \in Ring!Buffer, NEW f, NEW i, NEW j, Has(b, f, i, j)
  PROVE  Ring!empty(b) <=> i = j
<1>1. i \in Nat /\ j \in Nat /\ i <= j /\ j - i < MaxEntries /\ b.tail = At(b, 1 + (j - i))
  BY DEF Has
<1>2. 1 \in 0 .. MaxEntries /\ 1 + (j - i) \in 0 .. MaxEntries
  BY <1>1, RingParts
<1>3. At(b, 1) = At(b, 1 + (j - i)) => 1 = 1 + (j - i)
  BY <1>2, RingParts
<1>4. Ring!empty(b) <=> At(b, 1) = At(b, 1 + (j - i))
  BY <1>1, RingParts DEF Ring!empty
<1> QED BY <1>1, <1>3, <1>4

(* push_back asserts nothing while fewer than MaxEntries - 1 lines are in  *)
(* the ring, and appends the line.                                         *)
LEMMA PushFits ==
  ASSUME NEW b \in Ring!Buffer, NEW f, NEW i, NEW j, Has(b, f, i, j), j - i < MaxEntries - 1
  PROVE  ~ Ring!full(b)
<1>1. i \in Nat /\ j \in Nat /\ i <= j /\ b.tail = At(b, 1 + (j - i))
  BY DEF Has
<1>2. /\ 1 + (j - i) \in 0 .. MaxEntries /\ (1 + (j - i)) + 1 \in 1 .. MaxEntries
      /\ MaxEntries \in Nat
  BY <1>1, RingParts
<1>3. (b.tail + 1) % Ring!Size = At(b, (1 + (j - i)) + 1)
  BY <1>1, <1>2, RingParts
<1>4. At(b, 0) = b.head
  BY RingParts DEF At
<1>5. At(b, 0) # At(b, (1 + (j - i)) + 1)
  <2>1. 0 \in 0 .. MaxEntries /\ (1 + (j - i)) + 1 \in 0 .. MaxEntries /\ 0 # (1 + (j - i)) + 1
    BY <1>2
  <2> QED BY <2>1, RingParts
<1> QED BY <1>3, <1>4, <1>5 DEF Ring!full

(* Otherwise push_back appends the line to those in the ring.              *)
LEMMA PushAppends ==
  ASSUME NEW b \in Ring!Buffer, NEW f, NEW i, NEW j, Has(b, f, i, j), ~ Ring!full(b)
  PROVE  Has(Ring!push_back(b, <<f, j + 1>>), f, i, j + 1)
<1> DEFINE c == Ring!push_back(b, <<f, j + 1>>)
           n == j - i
<1>1. /\ i \in Nat /\ j \in Nat /\ i <= j /\ n < MaxEntries /\ n \in Nat /\ MaxEntries \in Nat
      /\ b.tail = At(b, 1 + n)
      /\ \A k \in 1 .. n : b.slot[At(b, k)] = <<f, i + k>>
  BY RingParts DEF Has
<1>2. c.head = b.head /\ c.tail = (b.tail + 1) % Ring!Size /\ c.slot = [b.slot EXCEPT ![b.tail] = <<f, j + 1>>]
  BY DEF Ring!push_back, Ring!Buffer
<1> HIDE DEF c
<1>3. \A k : At(c, k) = At(b, k)
  BY <1>2 DEF At
<1>4. 1 + n \in 0 .. MaxEntries
  BY <1>1
<1>5. (b.tail + 1) % Ring!Size = At(b, (1 + n) + 1)
  BY <1>1, <1>4, RingParts
<1>6. n + 1 < MaxEntries
  <2>1. CASE n + 1 = MaxEntries
    <3>1. (1 + n) + 1 = MaxEntries + 1
      BY <1>1, <2>1
    <3>2. (b.tail + 1) % Ring!Size = b.head
      BY <1>5, <3>1, RingParts
    <3> QED BY <3>2 DEF Ring!full
  <2>2. CASE n + 1 # MaxEntries
    BY <1>1, <2>2
  <2> QED BY <2>1, <2>2
<1>7. ASSUME NEW k \in 1 .. n + 1 PROVE c.slot[At(c, k)] = <<f, i + k>>
  <2>1. b.tail \in DOMAIN b.slot
    BY RingParts
  <2>2. CASE k = n + 1
    <3>1. At(c, k) = b.tail /\ i + k = j + 1
      BY <1>1, <1>3, <2>2
    <3> QED BY <1>2, <2>1, <3>1
  <2>3. CASE k # n + 1
    <3>1. k \in 1 .. n /\ k \in 0 .. MaxEntries /\ k # 1 + n
      BY <1>1, <2>3
    <3>2. At(b, k) # b.tail /\ At(b, k) \in DOMAIN b.slot
      <4>1. At(b, k) # At(b, 1 + n)
        BY <1>4, <3>1, RingParts
      <4>2. k \in 0 .. MaxEntries + 1
        BY <1>1, <3>1
      <4> QED BY <1>1, <4>1, <4>2, RingParts
    <3> QED BY <1>1, <1>2, <1>3, <3>1, <3>2
  <2> QED BY <2>2, <2>3
<1>8. (j + 1) - i = n + 1 /\ 1 + (n + 1) = (1 + n) + 1 /\ j + 1 \in Nat /\ i <= j + 1
  BY <1>1
<1>9. Has(c, f, i, j + 1)
  BY <1>1, <1>2, <1>3, <1>5, <1>6, <1>7, <1>8 DEF Has
<1> QED BY <1>9 DEF c

(* pop_front returns the oldest line and leaves the others.                *)
LEMMA PopTakesFirst ==
  ASSUME NEW b \in Ring!Buffer, NEW f, NEW i, NEW j, Has(b, f, i, j), ~ Ring!empty(b)
  PROVE  /\ i < j /\ Ring!front(b) = <<f, i + 1>>
         /\ Has(Ring!pop_front(b), f, i + 1, j)
<1> DEFINE c == Ring!pop_front(b)
           n == j - i
<1>1. /\ i \in Nat /\ j \in Nat /\ n < MaxEntries /\ n \in Nat \ {0} /\ MaxEntries \in Nat
      /\ b.tail = At(b, 1 + n)
      /\ \A k \in 1 .. n : b.slot[At(b, k)] = <<f, i + k>>
  <2>1. /\ i \in Nat /\ j \in Nat /\ i <= j /\ n < MaxEntries /\ b.tail = At(b, 1 + n)
        /\ \A k \in 1 .. n : b.slot[At(b, k)] = <<f, i + k>>
    BY DEF Has
  <2>2. i # j
    BY HasAll
  <2>3. n \in Nat \ {0}
    BY <2>1, <2>2
  <2> QED BY <2>1, <2>3, ReaderAssumption
<1>2. c.head = At(b, 1) /\ c.tail = b.tail /\ c.slot = b.slot
  BY RingParts DEF Ring!pop_front, Ring!Buffer
<1>3. Ring!front(b) = <<f, i + 1>>
  <2> HIDE DEF n
  <2>1. 1 \in 1 .. n
    BY <1>1
  <2>2. b.slot[At(b, 1)] = <<f, i + 1>>
    BY <1>1, <2>1
  <2>3. (b.head + 1) % Ring!Size = At(b, 1)
    BY RingParts
  <2>4. Ring!front(b) = b.slot[(b.head + 1) % Ring!Size]
    BY DEF Ring!front
  <2> QED BY <2>2, <2>3, <2>4
<1> HIDE DEF c
<1>4. ASSUME NEW k \in 0 .. MaxEntries PROVE At(c, k) = At(b, k + 1)
  <2>1. b.head \in 0 .. MaxEntries /\ c.head = IF b.head = MaxEntries THEN 0 ELSE b.head + 1
    <3>1. b.head \in 0 .. MaxEntries
      BY RingParts
    <3>2. b.head + 1 < MaxEntries + 1 <=> b.head # MaxEntries
      BY <1>1, <3>1
    <3>3. b.head = MaxEntries => b.head + 1 - (MaxEntries + 1) = 0
      BY <1>1, <3>1
    <3> QED BY <1>2, <3>1, <3>2, <3>3 DEF At
  <2> QED BY <1>1, <2>1 DEF At
<1>5. ASSUME NEW k \in 1 .. n - 1 PROVE c.slot[At(c, k)] = <<f, (i + 1) + k>>
  <2>1. k + 1 \in 1 .. n /\ k \in 0 .. MaxEntries /\ i + (k + 1) = (i + 1) + k
    BY <1>1
  <2> QED BY <1>1, <1>2, <1>4, <2>1
<1>6. c.tail = At(c, 1 + (n - 1))
  <2>1. 1 + (n - 1) \in 0 .. MaxEntries /\ (1 + (n - 1)) + 1 = 1 + n
    BY <1>1
  <2> QED BY <1>1, <1>2, <1>4, <2>1
<1>7. j - (i + 1) = n - 1 /\ i + 1 \in Nat /\ i + 1 <= j /\ n - 1 < MaxEntries
  BY <1>1
<1>8. Has(c, f, i + 1, j)
  BY <1>1, <1>5, <1>6, <1>7 DEF Has
<1> QED BY <1>1, <1>3, <1>7, <1>8 DEF c

(* Publishing and releasing a ring leave what it holds.                    *)
LEMMA FlagKeepsLines ==
  ASSUME NEW b \in Ring!Buffer, NEW f, NEW i, NEW j
  PROVE  /\ Has(b, f, i, j) => Has(Ring!set_consumable(b), f, i, j)
         /\ Ring!empty(b) => Ring!empty(Ring!done_consume(b))
<1>1. /\ Ring!set_consumable(b).head = b.head /\ Ring!set_consumable(b).tail = b.tail
      /\ Ring!set_consumable(b).slot = b.slot
      /\ Ring!done_consume(b).head = b.head /\ Ring!done_consume(b).tail = b.tail
  BY DEF Ring!Buffer, Ring!set_consumable, Ring!done_consume
<1> QED BY <1>1 DEF Has, At, Ring!empty

-----------------------------------------------------------------------------
\* The reader.

(* Files in flight are in different buffers, the one being drained in the  *)
(* consumer's.                                                             *)
LEMMA OneBufferEach ==
  ASSUME OwnershipInv
  PROVE  /\ \A f \in InFlight : BufferOf(f) \in Ids /\ f \in 0 .. NumFiles - 1
         /\ \A f, g \in InFlight : f # g => BufferOf(f) # BufferOf(g)
         /\ \A f \in InFlight : BufferOf(f) = consumer_id <=> f = bufid
         /\ \A t \in Threads : Busy(t) => /\ worker[t].file \in InFlight
                                         /\ worker[t].pid = BufferOf(worker[t].file)
                                         /\ ~ buffers[worker[t].pid].consumable
         /\ \A t, u \in Threads : Busy(t) /\ Busy(u) /\ t # u =>
               worker[t].file # worker[u].file /\ worker[t].pid # worker[u].pid
         /\ \A b \in Ids : buffers[b] \in Ring!Buffer
         /\ consumer_id \in Ids
<1>1. TypeOK /\ Window /\ Filling /\ NBuffers \in Nat /\ bufid \in Nat /\ trace_id \in 0 .. NumFiles
      /\ NumFiles \in Nat
  BY ReaderAssumption DEF OwnershipInv, TypeOK
<1>2. InFlight \subseteq bufid .. (bufid + NBuffers - 1) /\ InFlight \subseteq 0 .. NumFiles - 1
  BY <1>1 DEF InFlight, Window
<1>3. \A f \in InFlight : f \in bufid .. (bufid + NBuffers) /\ bufid \in bufid .. (bufid + NBuffers - 1)
  BY <1>1, <1>2
<1>4. \A f \in InFlight : BufferOf(f) \in Ids /\ f \in 0 .. NumFiles - 1
  BY <1>1, <1>2, <1>3, BufferOfFacts
<1>5. \A f, g \in InFlight : f # g => BufferOf(f) # BufferOf(g)
  BY <1>1, <1>2, BufferOfFacts
<1>6. \A f \in InFlight : BufferOf(f) = consumer_id <=> f = bufid
  BY <1>1, <1>2, <1>3, BufferOfFacts
<1>7. (\A b \in Ids : buffers[b] \in Ring!Buffer) /\ consumer_id \in Ids
  BY <1>1 DEF TypeOK
<1> QED BY <1>1, <1>4, <1>5, <1>6, <1>7 DEF Filling

(* The files in flight after a step.                                       *)
LEMMA SameFlight ==
  UNCHANGED <<consumer_id, bufid, trace_id>> =>
    InFlight' = InFlight /\ (\A f : BufferOf(f)' = BufferOf(f)) /\ Ids' = Ids
  BY DEF InFlight, BufferOf, Ids

(* Only finitely many files wait to be opened.                             *)
LEMMA UnopenedFinite ==
  ASSUME OwnershipInv
  PROVE  IsFiniteSet(Unopened) /\ Unopened \subseteq InFlight
<1>1. Unopened \subseteq InFlight
  BY OneBufferEach DEF Unopened, Busy
<1>2. bufid \in Int /\ trace_id - 1 \in Int
  BY ReaderAssumption DEF OwnershipInv, TypeOK
<1>3. IsFiniteSet(InFlight)
  BY <1>2, FS_Interval DEF InFlight
<1> QED BY <1>1, <1>3, FS_Subset

(* All rings are empty at the start.                                       *)
LEMMA ContentInit == Init => ContentInv
<1> SUFFICES ASSUME Init PROVE ContentInv
  OBVIOUS
<1>1. OwnershipInv
  BY OwnershipInit
<1>2. /\ fds = 0 /\ trace_id = 0 /\ bufid = 0 /\ taken = 0 /\ cpc = "wait"
      /\ \A t \in Threads : worker[t].pc = "poll"
      /\ \A b \in Ids : buffers[b] = Ring!NewBuffer
  BY DEF Init, Idle
<1>3. Counted
  <2>1. Unopened = {}
    BY <1>2 DEF Unopened
  <2> QED BY <1>2, <2>1, FS_EmptySet DEF Counted
<1>4. Unused
  <2>1. Ring!empty(Ring!NewBuffer)
    <3>1. Ring!NewBuffer.head = 0 /\ Ring!NewBuffer.tail = 1 % Ring!Size /\ 0 + 1 = 1
      BY DEF Ring!NewBuffer
    <3> QED BY <3>1 DEF Ring!empty
  <2> QED BY <1>2, <2>1 DEF Unused
<1>5. Written /\ Complete /\ Drained
  <2>1. InFlight = {}
    BY <1>2 DEF InFlight
  <2> QED BY <1>2, <2>1 DEF Written, Complete, Drained
<1> QED BY <1>3, <1>4, <1>5 DEF ContentInv

(* Nobody has a claim on the buffer of a new claim, which is empty.        *)
LEMMA ClaimKeepsContent ==
  ASSUME OwnershipInv, OwnershipInv', ContentInv, NEW t \in Threads, Claim(t)
  PROVE  ContentInv'
<1>1. /\ trace_id \in Nat /\ bufid \in Nat /\ bufid <= trace_id
  BY DEF OwnershipInv, TypeOK, Window
<1>2. /\ UNCHANGED <<consumer_id, buffers, cpc, taken, bufid, fds>> /\ trace_id' = trace_id + 1
      /\ ~ Busy(t) /\ worker' = [worker EXCEPT ![t] =
            [pc |-> "open", pid |-> producer_id, file |-> trace_id, line |-> 0, lines |-> 0]]
      /\ worker \in [Threads -> WorkerState]
  BY DEF Claim, consumerVars, Busy, OwnershipInv, TypeOK
<1>3. /\ worker'[t].pc = "open" /\ worker'[t].pid = producer_id /\ worker'[t].file = trace_id
      /\ worker'[t].line = 0 /\ \A u \in Threads \ {t} : worker'[u] = worker[u]
  BY <1>2
<1>4. /\ InFlight' = InFlight \union {trace_id} /\ trace_id \notin InFlight
      /\ \A f : BufferOf(f)' = BufferOf(f) /\ Popped(f)' = Popped(f)
  BY <1>1, <1>2 DEF InFlight, BufferOf, Popped
<1>5. /\ producer_id = BufferOf(trace_id) /\ producer_id \in Ids
  BY DEF OwnershipInv, Window, TypeOK
<1>6. \A f \in InFlight : BufferOf(f) # producer_id
  <2>1. trace_id + 1 <= bufid + NBuffers /\ NBuffers \in Nat
    BY <1>2, ReaderAssumption DEF OwnershipInv, Window
  <2>2. /\ InFlight \subseteq bufid .. (bufid + NBuffers - 1)
        /\ trace_id \in bufid .. (bufid + NBuffers - 1)
    BY <1>1, <2>1 DEF InFlight
  <2> QED BY <1>4, <1>5, <2>2, BufferOfFacts DEF OwnershipInv
<1>7. Ring!empty(buffers[producer_id]) /\ ~ buffers[producer_id].consumable
  BY <1>5, <1>6 DEF ContentInv, Unused, OwnershipInv, Published
<1>8. Counted'
  <2>1. Unopened' = Unopened \union {trace_id}
    BY <1>2, <1>3 DEF Unopened, Busy
  <2>2. trace_id \notin Unopened /\ IsFiniteSet(Unopened)
    BY <1>4, UnopenedFinite
  <2>3. Cardinality(Unopened') = Cardinality(Unopened) + 1
    BY <2>1, <2>2, FS_AddElement
  <2>4. fds + Cardinality(Unopened) = trace_id /\ Cardinality(Unopened) \in Nat /\ fds \in Nat
    BY <2>2, FS_CardinalityType DEF ContentInv, Counted, OwnershipInv, TypeOK
  <2> QED BY <1>2, <2>3, <2>4 DEF Counted
<1>9. Written'
  BY <1>2, <1>3, <1>7 DEF ContentInv, Written
<1>10. Unused'
  BY <1>2, <1>4 DEF ContentInv, Unused, Ids
<1>11. Complete'
  BY <1>2, <1>4, <1>5, <1>7 DEF ContentInv, Complete
<1>12. Drained'
  BY <1>2 DEF ContentInv, Drained
<1> QED BY <1>8, <1>9, <1>10, <1>11, <1>12 DEF ContentInv

(* Decompressing a file touches only its buffer, which is not published.   *)
LEMMA WorkerKeepsContent ==
  ASSUME EnoughFds, OwnershipInv, ContentInv,
         NEW t \in Threads, OpenAndRead(t) \/ PushLine(t) \/ Publish(t)
  PROVE  ContentInv'
<1> DEFINE w == worker[t]
<1>1. /\ Busy(t) /\ w.file \in InFlight /\ w.pid = BufferOf(w.file) /\ w.pid \in Ids
      /\ ~ buffers[w.pid].consumable /\ buffers[w.pid] \in Ring!Buffer
      /\ w.file \in 0 .. NumFiles - 1
  <2>1. Busy(t)
    BY DEF OpenAndRead, PushLine, Publish, Busy
  <2> QED BY <2>1, OneBufferEach
<1>2. /\ UNCHANGED <<consumer_id, bufid, trace_id, cpc, taken>>
      /\ InFlight' = InFlight /\ Ids' = Ids
      /\ \A f : BufferOf(f)' = BufferOf(f) /\ Popped(f)' = Popped(f)
  <2>1. UNCHANGED <<consumer_id, bufid, trace_id, cpc, taken>>
    BY DEF OpenAndRead, PushLine, Publish, readerVars, consumerVars
  <2> QED BY <2>1, SameFlight DEF Popped
<1>3. /\ \A f \in InFlight : f # w.file => BufferOf(f) # w.pid
      /\ \A u \in Threads : Busy(u) /\ u # t => worker[u].pid # w.pid /\ worker[u].file # w.file
  BY <1>1, OneBufferEach
<1>4. /\ worker \in [Threads -> WorkerState] /\ w \in WorkerState
      /\ buffers \in [Ids -> Ring!Buffer] /\ FileLen[w.file] \in Nat
  BY <1>1, ReaderAssumption DEF OwnershipInv, TypeOK
<1>5. CASE OpenAndRead(t)
  <2>1. /\ Counted /\ IsFiniteSet(Unopened) /\ w.pc = "open" /\ w.file \in Unopened
    BY <1>5, UnopenedFinite DEF ContentInv, OpenAndRead, Unopened
  <2>2. Cardinality(Unopened) \in Nat \ {0} /\ fds \in Nat /\ trace_id <= NumFiles
    <3>1. Cardinality(Unopened) \in Nat /\ Cardinality(Unopened) # 0
      BY <2>1, FS_CardinalityType, FS_EmptySet
    <3> QED BY <3>1, ReaderAssumption DEF OwnershipInv, TypeOK
  <2>3. fds < FdLimit
    BY <2>1, <2>2, ReaderAssumption DEF Counted, EnoughFds
  <2>4. /\ worker' = [worker EXCEPT ![t].pc = "fill", ![t].lines = FileLen[w.file]]
        /\ fds' = fds + 1 /\ buffers' = buffers
    BY <1>5, <2>3 DEF OpenAndRead
  <2>5. /\ worker'[t].pc = "fill" /\ worker'[t].lines = FileLen[w.file]
        /\ worker'[t].file = w.file /\ worker'[t].line = w.line /\ worker'[t].pid = w.pid
        /\ \A u \in Threads \ {t} : worker'[u] = worker[u]
    BY <1>4, <2>4 DEF WorkerState
  <2>6. Counted'
    <3>1. Unopened' = Unopened \ {w.file}
      <4>1. \A u \in Threads \ {t} : worker[u].pc = "open" => worker[u].file # w.file
        BY <1>3 DEF Busy
      <4> QED BY <2>1, <2>5, <4>1 DEF Unopened
    <3>2. Cardinality(Unopened') = Cardinality(Unopened) - 1
      BY <2>1, <3>1, FS_RemoveElement
    <3> QED BY <1>2, <2>1, <2>2, <2>4, <3>2 DEF Counted
  <2>7. Written'
    <3>1. w.line = 0 /\ Ring!empty(buffers[w.pid])
      BY <2>1 DEF ContentInv, Written
    <3>2. Has(buffers[w.pid], w.file, 0, 0)
      BY <1>1, <3>1, HasNone
    <3> QED BY <1>4, <2>4, <2>5, <3>1, <3>2 DEF ContentInv, Written
  <2>8. Unused' /\ Complete' /\ Drained'
    BY <1>2, <2>4 DEF ContentInv, Unused, Complete, Drained
  <2> QED BY <2>6, <2>7, <2>8 DEF ContentInv
<1>6. CASE PushLine(t) /\ Ring!full(buffers[w.pid])
  <2>1. UNCHANGED <<buffers, worker, fds>>
    BY <1>6 DEF PushLine
  <2> QED BY <1>2, <2>1 DEF ContentInv, Counted, Unopened, Written, Unused, Complete, Drained
<1>7. CASE PushLine(t) /\ ~ Ring!full(buffers[w.pid])
  <2> DEFINE r == Ring!push_back(buffers[w.pid], <<w.file, w.line + 1>>)
  <2>1. /\ w.pc = "fill" /\ w.line < w.lines /\ fds' = fds
        /\ buffers' = [buffers EXCEPT ![w.pid] = r]
        /\ worker' = [worker EXCEPT ![t].line = @ + 1]
    BY <1>7 DEF PushLine
  <2>2. /\ worker'[t].pc = w.pc /\ worker'[t].lines = w.lines /\ worker'[t].file = w.file
        /\ worker'[t].line = w.line + 1 /\ worker'[t].pid = w.pid
        /\ \A u \in Threads \ {t} : worker'[u] = worker[u]
    BY <1>4, <2>1 DEF WorkerState
  <2>3. buffers'[w.pid] = r /\ \A b \in Ids \ {w.pid} : buffers'[b] = buffers[b]
    BY <1>1, <1>4, <2>1
  <2>4. w.lines = FileLen[w.file] /\ Has(r, w.file, 0, w.line + 1)
    BY <1>1, <1>7, <2>1, PushAppends DEF ContentInv, Written
  <2>5. r.consumable = buffers[w.pid].consumable
    BY <1>1 DEF Ring!push_back, Ring!Buffer
  <2>6. w.line + 1 <= w.lines
    BY <1>4, <2>1 DEF WorkerState
  <2> HIDE DEF r
  <2>7. Counted'
    <3>1. Unopened' = Unopened
      BY <2>1, <2>2 DEF Unopened
    <3> QED BY <1>2, <2>1, <3>1 DEF ContentInv, Counted
  <2>8. Written'
    <3>1. worker'[t].pc = "fill"
      BY <2>1, <2>2
    <3>2. ASSUME NEW u \in Threads \ {t}, Busy(u) PROVE buffers'[worker[u].pid] = buffers[worker[u].pid]
      <4>1. worker[u].pid \in Ids \ {w.pid}
        BY <1>3, <3>2, OneBufferEach
      <4> QED BY <2>3, <4>1
    <3> QED BY <2>2, <2>3, <2>4, <2>6, <3>1, <3>2 DEF ContentInv, Written, Busy
  <2>9. Unused'
    BY <1>1, <1>2, <2>3 DEF ContentInv, Unused
  <2>10. Complete'
    BY <1>1, <1>2, <1>3, <2>3, <2>5, OneBufferEach DEF ContentInv, Complete
  <2>11. Drained'
    <3>1. cpc = "pop" => consumer_id \in Ids \ {w.pid}
      BY <1>1, OneBufferEach DEF OwnershipInv, Published
    <3> QED BY <1>2, <2>3, <3>1 DEF ContentInv, Drained
  <2> QED BY <2>7, <2>8, <2>9, <2>10, <2>11 DEF ContentInv
<1>8. CASE Publish(t)
  <2> DEFINE r == Ring!set_consumable(buffers[w.pid])
  <2>1. /\ w.pc = "fill" /\ w.line = w.lines /\ fds' = fds
        /\ buffers' = [buffers EXCEPT ![w.pid] = r]
        /\ worker' = [worker EXCEPT ![t] = Idle]
    BY <1>8 DEF Publish
  <2>2. worker'[t].pc = "poll" /\ \A u \in Threads \ {t} : worker'[u] = worker[u]
    BY <1>4, <2>1 DEF Idle
  <2>3. buffers'[w.pid] = r /\ \A b \in Ids \ {w.pid} : buffers'[b] = buffers[b]
    BY <1>1, <1>4, <2>1
  <2>4. Has(r, w.file, 0, FileLen[w.file])
    BY <1>1, <2>1, FlagKeepsLines DEF ContentInv, Written
  <2> HIDE DEF r
  <2>5. Counted'
    <3>1. Unopened' = Unopened
      BY <2>1, <2>2 DEF Unopened
    <3> QED BY <1>2, <2>1, <3>1 DEF ContentInv, Counted
  <2>6. Written'
    <3>1. ASSUME NEW u \in Threads \ {t}, Busy(u) PROVE buffers'[worker[u].pid] = buffers[worker[u].pid]
      <4>1. worker[u].pid \in Ids \ {w.pid}
        BY <1>3, <3>1, OneBufferEach
      <4> QED BY <2>3, <4>1
    <3> QED BY <2>2, <3>1 DEF ContentInv, Written, Busy
  <2>7. Unused'
    BY <1>1, <1>2, <2>3 DEF ContentInv, Unused
  <2>8. cpc # "wait" => w.pid # consumer_id
    BY <1>1 DEF OwnershipInv, TypeOK, Published
  <2>9. Popped(w.file) = 0
    BY <1>1, <2>8, OneBufferEach DEF ContentInv, Drained, Popped
  <2>10. Complete'
    BY <1>1, <1>2, <1>3, <2>3, <2>4, <2>9, OneBufferEach DEF ContentInv, Complete
  <2>11. Drained'
    <3>1. cpc = "pop" => consumer_id \in Ids \ {w.pid}
      BY <2>8, OneBufferEach
    <3> QED BY <1>2, <2>3, <3>1 DEF ContentInv, Drained
  <2> QED BY <2>5, <2>6, <2>7, <2>10, <2>11 DEF ContentInv
<1> QED BY <1>5, <1>6, <1>7, <1>8

(* While it drains, the profiler thread is at the lines of file bufid that *)
(* are left in its buffer.                                                 *)
LEMMA DrainingFile ==
  ASSUME OwnershipInv, ContentInv, cpc = "drain"
  PROVE  /\ bufid \in InFlight /\ bufid \in 0 .. NumFiles - 1 /\ BufferOf(bufid) = consumer_id
         /\ Has(buffers[consumer_id], bufid, taken, FileLen[bufid])
<1>1. buffers[consumer_id].consumable /\ consumer_id \in Ids
  BY OneBufferEach DEF OwnershipInv, Published
<1>2. PICK f \in InFlight : consumer_id = BufferOf(f)
  BY <1>1 DEF OwnershipInv, Published
<1>3. f = bufid /\ Popped(f) = taken
  BY <1>2, OneBufferEach DEF Popped
<1> QED BY <1>1, <1>2, <1>3, OneBufferEach DEF ContentInv, Complete

(* The profiler thread takes the lines of its buffer one by one, and       *)
(* leaves it when it is empty.                                             *)
LEMMA ConsumerKeepsContent ==
  ASSUME OwnershipInv, ContentInv, Consumer
  PROVE  ContentInv'
<1>1. /\ worker' = worker /\ fds' = fds /\ trace_id' = trace_id
      /\ buffers \in [Ids -> Ring!Buffer] /\ consumer_id \in Ids
      /\ bufid \in Nat /\ taken \in Nat
  BY DEF Consumer, CanConsume, Pop, DoneConsume, PopBuffer, readerVars, OwnershipInv, TypeOK
<1>2. Counted'
  BY <1>1 DEF ContentInv, Counted, Unopened
<1>3. cpc = "drain" => \A t \in Threads : Busy(t) => worker[t].pid \in Ids \ {consumer_id}
  BY OneBufferEach DEF OwnershipInv, Published
<1>4. CASE CanConsume
  <2>1. UNCHANGED <<consumer_id, bufid, trace_id, taken, buffers>> /\ cpc' = "drain"
    BY <1>4 DEF CanConsume, readerVars
  <2>2. InFlight' = InFlight /\ Ids' = Ids /\ \A f : BufferOf(f)' = BufferOf(f) /\ Popped(f)' = Popped(f)
    BY <2>1, SameFlight DEF Popped
  <2> QED BY <1>1, <1>2, <2>1, <2>2 DEF ContentInv, Written, Unused, Complete, Drained
<1>5. CASE Pop
  <2> DEFINE r == Ring!pop_front(buffers[consumer_id])
  <2>1. /\ UNCHANGED <<consumer_id, bufid, trace_id, cpc>> /\ cpc = "drain" /\ taken' = taken + 1
        /\ ~ Ring!empty(buffers[consumer_id]) /\ buffers' = [buffers EXCEPT ![consumer_id] = r]
    BY <1>5 DEF Pop, readerVars
  <2>2. /\ buffers'[consumer_id] = r /\ \A b \in Ids \ {consumer_id} : buffers'[b] = buffers[b]
    BY <1>1, <2>1
  <2>3. Has(r, bufid, taken + 1, FileLen[bufid]) /\ bufid \in InFlight /\ BufferOf(bufid) = consumer_id
    BY <1>1, <2>1, DrainingFile, PopTakesFirst
  <2> HIDE DEF r
  <2>4. /\ InFlight' = InFlight /\ Ids' = Ids /\ \A f : BufferOf(f)' = BufferOf(f)
        /\ \A f : Popped(f)' = IF f = bufid THEN taken + 1 ELSE Popped(f)
    BY <2>1, SameFlight DEF Popped
  <2>5. Written'
    BY <1>1, <1>3, <2>1, <2>2 DEF ContentInv, Written, Busy
  <2>6. Unused'
    BY <2>2, <2>3, <2>4 DEF ContentInv, Unused
  <2>7. Complete'
    <3> SUFFICES ASSUME NEW f \in InFlight, buffers'[BufferOf(f)].consumable
                 PROVE  Has(buffers'[BufferOf(f)], f, Popped(f)', FileLen[f])
      BY <2>4 DEF Complete
    <3>1. CASE f = bufid
      BY <2>2, <2>3, <2>4, <3>1
    <3>2. CASE f # bufid
      <4>1. BufferOf(f) \in Ids \ {consumer_id}
        BY <3>2, OneBufferEach
      <4> QED BY <2>2, <2>4, <3>2, <4>1 DEF ContentInv, Complete
    <3> QED BY <3>1, <3>2
  <2>8. Drained'
    BY <2>1 DEF Drained
  <2> QED BY <1>2, <2>5, <2>6, <2>7, <2>8 DEF ContentInv
<1>6. CASE DoneConsume
  <2> DEFINE r == Ring!done_consume(buffers[consumer_id])
  <2>1. /\ UNCHANGED <<consumer_id, bufid, trace_id, taken>> /\ cpc = "drain" /\ cpc' = "pop"
        /\ Ring!empty(buffers[consumer_id]) /\ buffers' = [buffers EXCEPT ![consumer_id] = r]
    BY <1>6 DEF DoneConsume, readerVars
  <2>2. /\ buffers'[consumer_id] = r /\ \A b \in Ids \ {consumer_id} : buffers'[b] = buffers[b]
    BY <1>1, <2>1
  <2>3. Ring!empty(r) /\ ~ r.consumable
    BY <1>1, <2>1, FlagKeepsLines DEF Ring!done_consume, Ring!Buffer
  <2> HIDE DEF r
  <2>4. bufid \in InFlight /\ BufferOf(bufid) = consumer_id /\ taken = FileLen[bufid]
    BY <1>1, <2>1, DrainingFile, HasAll
  <2>5. InFlight' = InFlight /\ Ids' = Ids /\ \A f : BufferOf(f)' = BufferOf(f) /\ Popped(f)' = Popped(f)
    BY <2>1, SameFlight DEF Popped
  <2>6. Written'
    BY <1>1, <1>3, <2>1, <2>2 DEF ContentInv, Written, Busy
  <2>7. Unused'
    BY <2>2, <2>3, <2>5 DEF ContentInv, Unused
  <2>8. Complete'
    <3> SUFFICES ASSUME NEW f \in InFlight, buffers'[BufferOf(f)].consumable
                 PROVE  Has(buffers'[BufferOf(f)], f, Popped(f), FileLen[f])
      BY <2>5 DEF Complete
    <3>1. BufferOf(f) \in Ids \ {consumer_id}
      BY <2>2, <2>3, OneBufferEach
    <3> QED BY <2>2, <3>1 DEF ContentInv, Complete
  <2>9. Drained'
    BY <2>1, <2>2, <2>3, <2>4 DEF Drained
  <2> QED BY <1>2, <2>6, <2>7, <2>8, <2>9 DEF ContentInv
<1>7. CASE PopBuffer
  <2>1. /\ consumer_id' = NextId(consumer_id) /\ bufid' = bufid + 1 /\ taken' = 0
        /\ cpc = "pop" /\ cpc' = "wait" /\ buffers' = buffers
    BY <1>7 DEF PopBuffer
  <2>2. bufid < trace_id /\ trace_id <= bufid + NBuffers /\ NBuffers \in Nat \ {0} /\ trace_id \in Nat
    BY <2>1, ReaderAssumption DEF OwnershipInv, Published, Window, TypeOK
  <2>3. InFlight' = InFlight \ {bufid} /\ InFlight' \subseteq (bufid + 1) .. (bufid + NBuffers)
        /\ bufid \in InFlight
    BY <1>1, <2>1, <2>2 DEF InFlight
  <2>4. \A f \in (bufid + 1) .. (bufid + NBuffers) : BufferOf(f)' = BufferOf(f)
    <3>1. /\ NextId(consumer_id) = IF consumer_id + 1 = NBuffers THEN 0 ELSE consumer_id + 1
          /\ consumer_id \in 0 .. NBuffers - 1
      BY <1>1, NextIdWraps DEF Ids
    <3> QED BY <1>1, <2>1, <2>2, <3>1 DEF BufferOf
  <2>5. Ring!empty(buffers[consumer_id]) /\ BufferOf(bufid) = consumer_id
    BY <2>1, <2>3, OneBufferEach DEF ContentInv, Drained
  <2>6. Written'
    BY <1>1, <2>1 DEF ContentInv, Written
  <2>7. Unused'
    <3> SUFFICES ASSUME NEW b \in Ids, \A f \in InFlight' : b # BufferOf(f)'
                 PROVE  Ring!empty(buffers[b])
      BY <2>1 DEF Unused, Ids
    <3>1. CASE b = consumer_id
      BY <2>5, <3>1
    <3>2. CASE b # consumer_id
      <4>1. \A f \in InFlight : b # BufferOf(f)
        BY <2>3, <2>4, <2>5, <3>2
      <4> QED BY <4>1 DEF ContentInv, Unused
    <3> QED BY <3>1, <3>2
  <2>8. Complete'
    <3> SUFFICES ASSUME NEW f \in InFlight', buffers[BufferOf(f)].consumable
                 PROVE  Has(buffers[BufferOf(f)], f, Popped(f)', FileLen[f])
      BY <2>1, <2>3, <2>4 DEF Complete
    <3>1. f \in InFlight /\ Popped(f) = 0 /\ Popped(f)' = 0
      BY <2>1, <2>3 DEF Popped
    <3> QED BY <3>1 DEF ContentInv, Complete
  <2>9. Drained'
    BY <2>1 DEF Drained
  <2> QED BY <1>2, <2>6, <2>7, <2>8, <2>9 DEF ContentInv
<1> QED BY <1>4, <1>5, <1>6, <1>7 DEF Consumer

DeliveryInv == OwnershipInv /\ ContentInv

(* Every step keeps what is in the buffers.                                *)
LEMMA DeliveryStep == EnoughFds /\ DeliveryInv /\ [Next]_vars => DeliveryInv'
<1> SUFFICES ASSUME EnoughFds, OwnershipInv, ContentInv, [Next]_vars
             PROVE  OwnershipInv' /\ ContentInv'
  BY DEF DeliveryInv
<1>1. OwnershipInv'
  BY OwnershipStep
<1> SUFFICES ContentInv'
  BY <1>1
<1>2. ASSUME UNCHANGED <<consumer_id, bufid, trace_id, buffers, worker, cpc, taken, fds>>
      PROVE  ContentInv'
  <2>1. InFlight' = InFlight /\ Ids' = Ids /\ \A f : BufferOf(f)' = BufferOf(f) /\ Popped(f)' = Popped(f)
    BY <1>2, SameFlight DEF Popped
  <2> QED BY <1>2, <2>1 DEF ContentInv, Counted, Unopened, Written, Unused, Complete, Drained
<1>3. CASE UNCHANGED vars \/ FileAppears
  <2>1. UNCHANGED <<consumer_id, bufid, trace_id, buffers, worker, cpc, taken, fds>>
    BY <1>3 DEF vars, readerVars, consumerVars, FileAppears
  <2> QED BY <1>2, <2>1
<1>4. CASE Consumer
  BY <1>4, ConsumerKeepsContent
<1>5. ASSUME NEW t \in Threads, Worker(t) PROVE ContentInv'
  BY <1>1, <1>5, ClaimKeepsContent, WorkerKeepsContent DEF Worker
<1> QED BY <1>1, <1>3, <1>4, <1>5 DEF Next

(* trace_reader_t delivers the lines of all files in order, none skipped   *)
(* and none twice, whatever the number of buffers and of decompressing     *)
(* threads, as long as gzopen has descriptors.                             *)
THEOREM ReaderDelivers == ASSUME EnoughFds PROVE Spec => InOrder
<1>1. Init => DeliveryInv
  BY OwnershipInit, ContentInit DEF DeliveryInv
<1>2. DeliveryInv /\ [Next]_vars => DeliveryInv'
  BY EnoughFds, DeliveryStep
<1>3. Init => Delivery!Init
  BY DEF Init, Delivery!Init
<1>4. DeliveryInv /\ [Next]_vars => [Delivery!Next]_(Delivery!vars)
  <2> SUFFICES ASSUME OwnershipInv, ContentInv, [Next]_vars
               PROVE  Delivery!Next \/ UNCHANGED Delivery!vars
    BY DEF DeliveryInv
  <2>1. CASE UNCHANGED vars \/ FileAppears \/ CanConsume \/ DoneConsume
    BY <2>1 DEF vars, consumerVars, FileAppears, CanConsume, DoneConsume, Delivery!vars
  <2>2. ASSUME NEW t \in Threads, Worker(t) PROVE UNCHANGED Delivery!vars
    BY <2>2 DEF Worker, Claim, OpenAndRead, PushLine, Publish, consumerVars, Delivery!vars
  <2>3. CASE Pop
    <3>1. /\ bufid \in 0 .. NumFiles - 1 /\ buffers[consumer_id] \in Ring!Buffer
          /\ Has(buffers[consumer_id], bufid, taken, FileLen[bufid])
      BY <2>3, DrainingFile, OneBufferEach DEF Pop
    <3>2. taken < FileLen[bufid] /\ Ring!front(buffers[consumer_id]) = <<bufid, taken + 1>>
      BY <2>3, <3>1, PopTakesFirst DEF Pop
    <3>3. bufid < NumFiles
      BY <3>1, ReaderAssumption
    <3> QED BY <2>3, <3>2, <3>3 DEF Pop, Delivery!Next, Delivery!Deliver
  <2>4. CASE PopBuffer
    <3>1. taken = FileLen[bufid] /\ bufid < trace_id
      BY <2>4 DEF PopBuffer, ContentInv, Drained, OwnershipInv, Published
    <3>2. bufid < NumFiles
      BY <3>1, ReaderAssumption DEF OwnershipInv, TypeOK
    <3> QED BY <2>4, <3>1, <3>2 DEF PopBuffer, Delivery!Next, Delivery!NextFile
  <2> QED BY <2>1, <2>2, <2>3, <2>4 DEF Next, Consumer
<1> QED BY <1>1, <1>2, <1>3, <1>4, PTL DEF Spec, InOrder, Delivery!Spec

(* assert(!full()) of push_back does not fail when every file is shorter   *)
(* than the bound of --rtl-cfg, however often the rings are used again.    *)
THEOREM RingsNeverFull == ASSUME EnoughFds, ShortFiles PROVE Spec => []NoAssertFailure
<1>1. Init => DeliveryInv /\ NoAssertFailure
  BY OwnershipInit, ContentInit DEF DeliveryInv, NoAssertFailure, Init
<1>2. DeliveryInv /\ [Next]_vars => DeliveryInv'
  BY EnoughFds, DeliveryStep
<1>3. DeliveryInv /\ NoAssertFailure /\ [Next]_vars => NoAssertFailure'
  <2> SUFFICES ASSUME OwnershipInv, ContentInv, ~ aborted, [Next]_vars PROVE ~ aborted'
    BY DEF DeliveryInv, NoAssertFailure
  <2>1. ASSUME NEW t \in Threads, PushLine(t) PROVE aborted' = aborted
    <3> DEFINE w == worker[t]
    <3>1. Busy(t) /\ w.pc = "fill" /\ w.line < w.lines
      BY <2>1 DEF PushLine, Busy
    <3>2. /\ w.lines = FileLen[w.file] /\ Has(buffers[w.pid], w.file, 0, w.line)
          /\ w.file \in 0 .. NumFiles - 1 /\ buffers[w.pid] \in Ring!Buffer
      BY <3>1, OneBufferEach DEF ContentInv, Written
    <3>3. w.lines < MaxEntries /\ w.line \in Nat /\ w.lines \in Nat
      BY <3>2, ReaderAssumption DEF ShortFiles, Has
    <3>4. w.line - 0 < MaxEntries - 1
      BY <3>1, <3>3, ReaderAssumption
    <3>5. ~ Ring!full(buffers[w.pid])
      BY <3>2, <3>4, PushFits
    <3> QED BY <2>1, <3>5 DEF PushLine
  <2>2. ASSUME NEW t \in Threads, Claim(t) \/ OpenAndRead(t) \/ Publish(t) PROVE aborted' = aborted
    BY <2>2 DEF Claim, OpenAndRead, Publish
  <2>3. CASE UNCHANGED vars \/ FileAppears \/ Consumer
    BY <2>3 DEF vars, FileAppears, Consumer, CanConsume, Pop, DoneConsume, PopBuffer
  <2> QED BY <2>1, <2>2, <2>3 DEF Next, Worker
<1> QED BY <1>1, <1>2, <1>3, PTL DEF Spec
=============================================================================
