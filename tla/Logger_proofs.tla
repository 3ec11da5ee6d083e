--------------------------- MODULE Logger_proofs ---------------------------
(***************************************************************************)
(* Proofs about Logger, for any number of pool threads, traces and packets.*)
(* The two pools change separately: a step is one of a few things done to  *)
(* the traces (TraceSteps) and one of a few done to the packets            *)
(* (PacketSteps), and each invariant is kept by those.                     *)
(***************************************************************************)
EXTENDS Logger, SequenceTheorems, FiniteSetTheorems, TLAPS

\* Traces are named by their index, batches are sequences of packets.
PcJobs == 0 .. MaxTraces - 1

\* What the pool can do.
PcStep ==
  \/ \E j \in PcJobs : PcPool!queue_job(j)
  \/ PcPool!NotifyOne \/ PcPool!stop \/ PcPool!NotifyAll \/ PcPool!Join
  \/ \E t \in PcThreads : \/ PcPool!Wait(t) \/ PcPool!Return(t) \/ PcPool!Take(t)
                           \/ PcPool!Finish(t) \/ PcPool!SpuriousWakeup(t)

(* The pool keeps its types.                                               *)
LEMMA PcPoolType ==
  ASSUME PcPool!PoolTypeOK(PcJobs), PcStep \/ UNCHANGED pvars
  PROVE  PcPool!PoolTypeOK(PcJobs)'
  <1> DEFINE T == PcPool!Threads
  <1>1. /\ pjobs \in Seq(PcJobs) /\ pterm \in BOOLEAN
        /\ ppc \in [T -> {"check", "wait", "run", "exited"}]
        /\ pcur \in [T -> PcJobs \union {NoJob}]
        /\ \A t \in T : ppc[t] = "run" <=> pcur[t] # NoJob
        /\ pcaller \in {"idle", "notify_one", "notify_all", "join", "stopped"}
    BY DEF PcPool!PoolTypeOK
  <1>2. NoJob \notin PcJobs
    BY LoggerAssumption DEF PcJobs
  <1> SUFFICES
        /\ pjobs' \in Seq(PcJobs) /\ pterm' \in BOOLEAN
        /\ ppc' \in [T -> {"check", "wait", "run", "exited"}]
        /\ pcur' \in [T -> PcJobs \union {NoJob}]
        /\ \A t \in T : ppc'[t] = "run" <=> pcur'[t] # NoJob
        /\ pcaller' \in {"idle", "notify_one", "notify_all", "join", "stopped"}
    BY DEF PcPool!PoolTypeOK, PcJobs, PcPool!Threads, PcPool!num_threads
  <1> HIDE DEF T, PcJobs
  <1>3. ASSUME NEW j \in PcJobs, PcPool!queue_job(j)
        PROVE  pjobs' \in Seq(PcJobs) /\ pcaller' = "notify_one" /\ UNCHANGED <<pterm, ppc, pcur>>
    BY <1>1, <1>3, AppendProperties DEF PcPool!queue_job
  <1>4. CASE PcPool!NotifyOne
    BY <1>1, <1>4 DEF PcPool!NotifyOne, T
  <1>5. CASE PcPool!stop \/ PcPool!Join
    BY <1>1, <1>5 DEF PcPool!stop, PcPool!Join
  <1>6. CASE PcPool!NotifyAll
    BY <1>1, <1>6 DEF PcPool!NotifyAll, T
  <1>7. ASSUME NEW t \in T, PcPool!Take(t)
        PROVE  /\ pjobs' \in Seq(PcJobs)
               /\ \E j \in PcJobs : pcur' = [pcur EXCEPT ![t] = j]
               /\ ppc' = [ppc EXCEPT ![t] = "run"]
               /\ UNCHANGED <<pterm, pcaller>>
    BY <1>1, <1>7, HeadTailProperties DEF PcPool!Take
  <1>8. CASE \E t \in T : PcPool!Wait(t) \/ PcPool!Return(t) \/ PcPool!SpuriousWakeup(t)
    BY <1>1, <1>8 DEF PcPool!Wait, PcPool!Return, PcPool!SpuriousWakeup
  <1>9. CASE \E t \in T : PcPool!Finish(t)
    BY <1>1, <1>9 DEF PcPool!Finish
  <1>10. CASE UNCHANGED pvars
    BY <1>1, <1>10 DEF pvars
  <1>11. CASE \E j \in PcJobs : PcPool!queue_job(j)
    BY <1>1, <1>3, <1>11
  <1>12. CASE \E t \in T : PcPool!Take(t)
    BY <1>1, <1>2, <1>7, <1>12
  <1> QED BY <1>4, <1>5, <1>6, <1>8, <1>9, <1>10, <1>11, <1>12 DEF PcStep, PcThreads, T

EvJobs == Seq(1 .. MaxPackets)

\* What the pool can do.
EvStep ==
  \/ \E j \in EvJobs : EvPool!queue_job(j)
  \/ EvPool!NotifyOne \/ EvPool!stop \/ EvPool!NotifyAll \/ EvPool!Join
  \/ \E t \in EvThreads : \/ EvPool!Wait(t) \/ EvPool!Return(t) \/ EvPool!Take(t)
                           \/ EvPool!Finish(t) \/ EvPool!SpuriousWakeup(t)

(* The pool keeps its types.                                               *)
LEMMA EvPoolType ==
  ASSUME EvPool!PoolTypeOK(EvJobs), EvStep \/ UNCHANGED evars
  PROVE  EvPool!PoolTypeOK(EvJobs)'
  <1> DEFINE T == EvPool!Threads
  <1>1. /\ ejobs \in Seq(EvJobs) /\ eterm \in BOOLEAN
        /\ epc \in [T -> {"check", "wait", "run", "exited"}]
        /\ ecur \in [T -> EvJobs \union {NoJob}]
        /\ \A t \in T : epc[t] = "run" <=> ecur[t] # NoJob
        /\ ecaller \in {"idle", "notify_one", "notify_all", "join", "stopped"}
    BY DEF EvPool!PoolTypeOK
  <1>2. NoJob \notin EvJobs
    BY LoggerAssumption DEF EvJobs
  <1> SUFFICES
        /\ ejobs' \in Seq(EvJobs) /\ eterm' \in BOOLEAN
        /\ epc' \in [T -> {"check", "wait", "run", "exited"}]
        /\ ecur' \in [T -> EvJobs \union {NoJob}]
        /\ \A t \in T : epc'[t] = "run" <=> ecur'[t] # NoJob
        /\ ecaller' \in {"idle", "notify_one", "notify_all", "join", "stopped"}
    BY DEF EvPool!PoolTypeOK, EvJobs, EvPool!Threads, EvPool!num_threads
  <1> HIDE DEF T, EvJobs
  <1>3. ASSUME NEW j \in EvJobs, EvPool!queue_job(j)
        PROVE  ejobs' \in Seq(EvJobs) /\ ecaller' = "notify_one" /\ UNCHANGED <<eterm, epc, ecur>>
    BY <1>1, <1>3, AppendProperties DEF EvPool!queue_job
  <1>4. CASE EvPool!NotifyOne
    BY <1>1, <1>4 DEF EvPool!NotifyOne, T
  <1>5. CASE EvPool!stop \/ EvPool!Join
    BY <1>1, <1>5 DEF EvPool!stop, EvPool!Join
  <1>6. CASE EvPool!NotifyAll
    BY <1>1, <1>6 DEF EvPool!NotifyAll, T
  <1>7. ASSUME NEW t \in T, EvPool!Take(t)
        PROVE  /\ ejobs' \in Seq(EvJobs)
               /\ \E j \in EvJobs : ecur' = [ecur EXCEPT ![t] = j]
               /\ epc' = [epc EXCEPT ![t] = "run"]
               /\ UNCHANGED <<eterm, ecaller>>
    BY <1>1, <1>7, HeadTailProperties DEF EvPool!Take
  <1>8. CASE \E t \in T : EvPool!Wait(t) \/ EvPool!Return(t) \/ EvPool!SpuriousWakeup(t)
    BY <1>1, <1>8 DEF EvPool!Wait, EvPool!Return, EvPool!SpuriousWakeup
  <1>9. CASE \E t \in T : EvPool!Finish(t)
    BY <1>1, <1>9 DEF EvPool!Finish
  <1>10. CASE UNCHANGED evars
    BY <1>1, <1>10 DEF evars
  <1>11. CASE \E j \in EvJobs : EvPool!queue_job(j)
    BY <1>1, <1>3, <1>11
  <1>12. CASE \E t \in T : EvPool!Take(t)
    BY <1>1, <1>2, <1>7, <1>12
  <1> QED BY <1>4, <1>5, <1>6, <1>8, <1>9, <1>10, <1>11, <1>12 DEF EvStep, EvThreads, T

-----------------------------------------------------------------------------

\* A thread of the packets' pool prints a packet of its batch.
PrintOne(t) ==
  /\ epc[t] = "run" /\ ecur[t] # <<>>
  /\ eventLog' = Append(eventLog, Head(ecur[t]))
  /\ ecur' = [ecur EXCEPT ![t] = Tail(@)]
  /\ UNCHANGED <<ejobs, eterm, epc, ecaller>>

(* A running thread has a job.                                             *)
LEMMA PcRunning ==
  ASSUME TypeOK, NEW t \in PcThreads, ppc[t] = "run"
  PROVE  pcur[t] \in PcJobs /\ pcur[t] # NoJob
  BY DEF TypeOK, PcPool!PoolTypeOK, PcThreads, PcJobs

(* The same of the packets' pool.                                        *)
LEMMA EvRunning ==
  ASSUME TypeOK, NEW t \in EvThreads, epc[t] = "run"
  PROVE  ecur[t] \in EvJobs /\ ecur[t] # NoJob
  BY DEF TypeOK, EvPool!PoolTypeOK, EvThreads, EvJobs

(* Printing keeps the types of the pool.                                   *)
LEMMA PrintType ==
  ASSUME TypeOK, NEW t \in EvThreads, PrintOne(t)
  PROVE  /\ EvPool!PoolTypeOK(EvJobs)'
         /\ eventLog' \in Seq(1 .. MaxPackets)
  <1>1. ecur[t] \in Seq(1 .. MaxPackets) /\ ecur[t] # <<>>
    BY EvRunning DEF PrintOne, EvJobs
  <1>2. Head(ecur[t]) \in 1 .. MaxPackets /\ Tail(ecur[t]) \in Seq(1 .. MaxPackets)
    BY <1>1, HeadTailProperties
  <1>3. eventLog' \in Seq(1 .. MaxPackets)
    BY <1>2, AppendProperties DEF PrintOne, TypeOK
  <1>4. Tail(ecur[t]) \in EvJobs /\ NoJob \notin EvJobs
    BY <1>2, LoggerAssumption DEF EvJobs
  <1>5. EvPool!PoolTypeOK(EvJobs)
    BY DEF TypeOK, EvJobs
  <1>6. EvJobs' = EvJobs /\ EvPool!Threads = EvThreads /\ (EvPool!Threads)' = EvPool!Threads
    BY DEF EvJobs, EvThreads, EvPool!Threads, EvPool!num_threads
  <1> QED BY <1>3, <1>4, <1>5, <1>6 DEF EvPool!PoolTypeOK, PrintOne

\* What a step can do to the traces, and to the packets.

SubmitTrace ==
  /\ trace_idx_ < MaxTraces /\ PcPool!queue_job(trace_idx_)
  /\ trace_idx_' = trace_idx_ + 1 /\ UNCHANGED traceFiles
TakeTrace(t) == PcPool!Take(t) /\ UNCHANGED <<trace_idx_, traceFiles>>
WriteTrace(t) ==
  PcPool!Finish(t) /\ traceFiles' = Append(traceFiles, pcur[t]) /\ UNCHANGED trace_idx_
OtherPcStep ==
  /\ PcStep \/ UNCHANGED pvars
  /\ UNCHANGED <<pjobs, pcur, trace_idx_, traceFiles>>

(* A step submits a trace, takes one, writes one, or leaves them alone.  *)
LEMMA TraceSteps ==
  ASSUME TypeOK, [Next]_vars
  PROVE  \/ SubmitTrace \/ OtherPcStep
         \/ \E t \in PcThreads : TakeTrace(t) \/ WriteTrace(t)
  <1>1. CASE submit_trace_to_threadpool
    BY <1>1 DEF submit_trace_to_threadpool, SubmitTrace
  <1>2. CASE submit_packet \/ submit_packet_trace_to_threadpool \/ FinalFlush \/ StopPacketLoggers
    BY <1>2 DEF submit_packet, submit_packet_trace_to_threadpool, FinalFlush, StopPacketLoggers,
                OtherPcStep, pvars
  <1>3. CASE StopPctraceLoggers
    BY <1>3 DEF StopPctraceLoggers, OtherPcStep, PcStep, PcPool!stop
  <1>4. CASE Calling
    BY <1>4 DEF Calling, OtherPcStep, PcStep, PcPool!NotifyOne, PcPool!NotifyAll, PcPool!Join,
                pvars, mainVars
  <1>5. ASSUME NEW t \in PcThreads, PcThread(t)
        PROVE  OtherPcStep \/ TakeTrace(t) \/ WriteTrace(t)
    BY <1>5 DEF PcThread, print_insn_logs, OtherPcStep, TakeTrace, WriteTrace, PcStep,
                PcPool!Wait, PcPool!Return, mainVars
  <1>6. ASSUME NEW t \in EvThreads, EvThread(t) PROVE OtherPcStep
    BY <1>6 DEF EvThread, print_event_logs, OtherPcStep, pvars, mainVars
  <1>7. CASE Spurious
    BY <1>7 DEF Spurious, OtherPcStep, PcStep, PcPool!SpuriousWakeup, pvars, mainVars
  <1>8. CASE UNCHANGED vars
    BY <1>8 DEF vars, OtherPcStep, pvars, mainVars
  <1> QED BY <1>1, <1>2, <1>3, <1>4, <1>5, <1>6, <1>7, <1>8 DEF Next, Profiler

SubmitPacket ==
  /\ submitted < MaxPackets /\ submitted' = submitted + 1
  /\ packet_traces_' = Append(packet_traces_, submitted + 1)
  /\ UNCHANGED <<evars, eventLog>>
FlushPackets == flush /\ UNCHANGED <<submitted, eventLog>>
TakePackets(t) == EvPool!Take(t) /\ UNCHANGED <<packet_traces_, submitted, eventLog>>
PrintPacket(t) == PrintOne(t) /\ UNCHANGED <<packet_traces_, submitted>>
EndPackets(t) ==
  ecur[t] = <<>> /\ EvPool!Finish(t) /\ UNCHANGED <<packet_traces_, submitted, eventLog>>
OtherEvStep ==
  /\ EvStep \/ UNCHANGED evars
  /\ UNCHANGED <<ejobs, ecur, packet_traces_, submitted, eventLog>>

(* A step submits, flushes, takes, prints or ends packets, or leaves them. *)
LEMMA PacketSteps ==
  ASSUME TypeOK, [Next]_vars
  PROVE  \/ SubmitPacket \/ FlushPackets \/ OtherEvStep
         \/ \E t \in EvThreads : TakePackets(t) \/ PrintPacket(t) \/ EndPackets(t)
  <1>1. CASE submit_packet
    BY <1>1 DEF submit_packet, SubmitPacket
  <1>2. CASE submit_packet_trace_to_threadpool \/ FinalFlush
    BY <1>2 DEF submit_packet_trace_to_threadpool, FinalFlush, FlushPackets
  <1>3. CASE submit_trace_to_threadpool \/ StopPctraceLoggers
    BY <1>3 DEF submit_trace_to_threadpool, StopPctraceLoggers, OtherEvStep, evars
  <1>9. CASE StopPacketLoggers
    BY <1>9 DEF StopPacketLoggers, OtherEvStep, EvStep, EvPool!stop
  <1>4. CASE Calling
    BY <1>4 DEF Calling, OtherEvStep, EvStep, EvPool!NotifyOne, EvPool!NotifyAll, EvPool!Join,
                evars, mainVars
  <1>5. ASSUME NEW t \in EvThreads, EvThread(t)
        PROVE  OtherEvStep \/ TakePackets(t) \/ PrintPacket(t) \/ EndPackets(t)
    BY <1>5 DEF EvThread, print_event_logs, OtherEvStep, TakePackets, PrintPacket, EndPackets, PrintOne,
                EvStep, EvPool!Wait, EvPool!Return, mainVars
  <1>6. ASSUME NEW t \in PcThreads, PcThread(t) PROVE OtherEvStep
    BY <1>6 DEF PcThread, print_insn_logs, OtherEvStep, evars, mainVars
  <1>7. CASE Spurious
    BY <1>7 DEF Spurious, OtherEvStep, EvStep, EvPool!SpuriousWakeup, evars, mainVars
  <1>8. CASE UNCHANGED vars
    BY <1>8 DEF vars, OtherEvStep, evars, mainVars
  <1> QED BY <1>1, <1>2, <1>3, <1>4, <1>5, <1>6, <1>7, <1>8, <1>9 DEF Next, Profiler

(* The logger starts with its types.                                     *)
LEMMA TypeInit == Init => TypeOK
  <1>1. PcPool!Init => PcPool!PoolTypeOK(0 .. MaxTraces - 1)
    BY LoggerAssumption, EmptySeq DEF PcPool!Init, PcPool!PoolTypeOK
  <1>2. EvPool!Init => EvPool!PoolTypeOK(Seq(1 .. MaxPackets))
    BY LoggerAssumption, EmptySeq DEF EvPool!Init, EvPool!PoolTypeOK
  <1> QED BY <1>1, <1>2, LoggerAssumption, EmptySeq DEF Init, TypeOK

(* Every step keeps the types.                                           *)
LEMMA TypeNext == TypeOK /\ [Next]_vars => TypeOK'
  <1> SUFFICES ASSUME TypeOK, [Next]_vars PROVE TypeOK'
    OBVIOUS
  <1>1. main' \in {"loop", "flushed", "stopping", "end"}
    BY DEF TypeOK, Next, vars, Profiler, submit_packet, submit_trace_to_threadpool, mainVars,
           submit_packet_trace_to_threadpool, FinalFlush, StopPctraceLoggers, StopPacketLoggers, Calling,
           PcThread, EvThread, Spurious, print_insn_logs, print_event_logs
  <1>2. /\ PcPool!PoolTypeOK(PcJobs)' /\ trace_idx_' \in 0 .. MaxTraces
        /\ traceFiles' \in Seq(PcJobs)
    <2>1. /\ PcPool!PoolTypeOK(PcJobs) /\ trace_idx_ \in 0 .. MaxTraces
          /\ traceFiles \in Seq(PcJobs)
      BY DEF TypeOK, PcJobs
    <2>2. CASE SubmitTrace
      <3>1. trace_idx_ \in PcJobs /\ trace_idx_ + 1 \in 0 .. MaxTraces
        BY <2>1, <2>2, LoggerAssumption DEF SubmitTrace, PcJobs
      <3>2. PcStep
        BY <2>2, <3>1 DEF SubmitTrace, PcStep
      <3> QED BY <2>1, <2>2, <3>1, <3>2, PcPoolType DEF SubmitTrace
    <2>3. CASE OtherPcStep
      BY <2>1, <2>3, PcPoolType DEF OtherPcStep
    <2>4. ASSUME NEW t \in PcThreads, TakeTrace(t) \/ WriteTrace(t)
          PROVE  /\ PcPool!PoolTypeOK(PcJobs)' /\ trace_idx_' \in 0 .. MaxTraces
                 /\ traceFiles' \in Seq(PcJobs)
      <3>1. PcStep
        BY <2>4 DEF TakeTrace, WriteTrace, PcStep
      <3>2. ASSUME WriteTrace(t) PROVE traceFiles' \in Seq(PcJobs)
        <4>1. pcur[t] \in PcJobs
          BY <3>2, PcRunning DEF WriteTrace, PcPool!Finish
        <4> QED BY <2>1, <3>2, <4>1, AppendProperties DEF WriteTrace
      <3> QED BY <2>1, <2>4, <3>1, <3>2, PcPoolType DEF TakeTrace, WriteTrace
    <2> QED BY <2>2, <2>3, <2>4, TraceSteps
  <1>3. /\ EvPool!PoolTypeOK(EvJobs)' /\ submitted' \in 0 .. MaxPackets
        /\ packet_traces_' \in EvJobs /\ eventLog' \in EvJobs
    <2>1. /\ EvPool!PoolTypeOK(EvJobs) /\ submitted \in 0 .. MaxPackets
          /\ packet_traces_ \in EvJobs /\ eventLog \in EvJobs
      BY DEF TypeOK, EvJobs
    <2>2. CASE SubmitPacket
      <3>1. submitted + 1 \in 1 .. MaxPackets
        BY <2>1, <2>2, LoggerAssumption DEF SubmitPacket
      <3>2. packet_traces_' \in EvJobs
        BY <2>1, <2>2, <3>1, AppendProperties DEF SubmitPacket, EvJobs
      <3> QED BY <2>1, <2>2, <3>1, <3>2, EvPoolType DEF SubmitPacket, evars
    <2>3. CASE FlushPackets
      <3>1. EvStep
        BY <2>1, <2>3 DEF FlushPackets, flush, EvStep
      <3>2. packet_traces_' \in EvJobs
        BY <2>3, EmptySeq DEF FlushPackets, flush, EvJobs
      <3> QED BY <2>1, <2>3, <3>1, <3>2, EvPoolType DEF FlushPackets
    <2>4. CASE OtherEvStep
      BY <2>1, <2>4, EvPoolType DEF OtherEvStep
    <2>5. ASSUME NEW t \in EvThreads, TakePackets(t) \/ EndPackets(t)
          PROVE  /\ EvPool!PoolTypeOK(EvJobs)' /\ submitted' \in 0 .. MaxPackets
                 /\ packet_traces_' \in EvJobs /\ eventLog' \in EvJobs
      <3>1. EvStep
        BY <2>5 DEF TakePackets, EndPackets, EvStep
      <3> QED BY <2>1, <2>5, <3>1, EvPoolType DEF TakePackets, EndPackets
    <2>6. ASSUME NEW t \in EvThreads, PrintPacket(t)
          PROVE  /\ EvPool!PoolTypeOK(EvJobs)' /\ submitted' \in 0 .. MaxPackets
                 /\ packet_traces_' \in EvJobs /\ eventLog' \in EvJobs
      BY <2>1, <2>6, PrintType DEF PrintPacket, EvJobs
    <2> QED BY <2>2, <2>3, <2>4, <2>5, <2>6, PacketSteps
  <1> QED BY <1>1, <1>2, <1>3 DEF TypeOK, PcJobs, EvJobs

(* The variables of the logger and of its pools keep their types: a thread*)
(* in a job has taken one, and jobs are traces or batches of packets.    *)
THEOREM TypeCorrect == Spec => []TypeOK
  BY TypeInit, TypeNext, PTL DEF Spec

-----------------------------------------------------------------------------

(* The elements of a sequence that grows or shrinks at an end.             *)
LEMMA ElementsAppend ==
  ASSUME NEW S, NEW s \in Seq(S), NEW e \in S
  PROVE  Elements(Append(s, e)) = Elements(s) \union {e}
  <1>1. /\ Len(s) \in Nat /\ DOMAIN s = 1 .. Len(s)
        /\ DOMAIN Append(s, e) = 1 .. Len(s) + 1
        /\ \A i \in 1 .. Len(s) : Append(s, e)[i] = s[i]
        /\ Append(s, e)[Len(s) + 1] = e
    BY AppendProperties, LenProperties
  <1> QED BY <1>1 DEF Elements

(* Taking the head off loses nothing else.                               *)
LEMMA ElementsTail ==
  ASSUME NEW S, NEW s \in Seq(S), s # <<>>
  PROVE  Elements(s) = {Head(s)} \union Elements(Tail(s))
  <1>1. /\ Len(s) \in Nat \ {0} /\ DOMAIN s = 1 .. Len(s)
        /\ Tail(s) \in Seq(S) /\ Len(Tail(s)) = Len(s) - 1
        /\ \A i \in 1 .. Len(Tail(s)) : Tail(s)[i] = s[i + 1]
    BY HeadTailProperties, LenProperties, EmptySeq
  <1>2. DOMAIN Tail(s) = 1 .. Len(s) - 1
    BY <1>1, LenProperties
  <1>3. Head(s) = s[1]
    OBVIOUS
  <1>4. ASSUME NEW i \in 1 .. Len(s) PROVE s[i] \in {Head(s)} \union Elements(Tail(s))
    <2>1. CASE i = 1
      BY <1>3, <2>1
    <2>2. CASE i # 1
      <3>1. i - 1 \in 1 .. Len(s) - 1 /\ Tail(s)[i - 1] = s[i]
        BY <1>1, <2>2
      <3> QED BY <1>2, <3>1 DEF Elements
    <2> QED BY <2>1, <2>2
  <1>5. ASSUME NEW i \in DOMAIN Tail(s) PROVE Tail(s)[i] \in Elements(s)
    <2>1. i + 1 \in 1 .. Len(s) /\ Tail(s)[i] = s[i + 1]
      BY <1>1, <1>2
    <2> QED BY <1>1, <2>1 DEF Elements
  <1>6. Head(s) \in Elements(s)
    BY <1>1, <1>3 DEF Elements
  <1> QED BY <1>1, <1>4, <1>5, <1>6 DEF Elements

Running == {t \in PcThreads : pcur[t] # NoJob}

(* A pool has finitely many threads.                                     *)
LEMMA RunningFinite == IsFiniteSet(Running) /\ IsFiniteSet(PcThreads)
  <1>1. PcPool!num_threads \in Int
    BY LoggerAssumption DEF PcPool!num_threads
  <1>2. IsFiniteSet(PcThreads)
    BY <1>1, FS_Interval DEF PcThreads, PcPool!Threads
  <1> QED BY <1>2, FS_Subset DEF Running

Indices == Elements(pjobs) \union {pcur[t] : t \in Running} \union Elements(traceFiles)

(* TraceWrittenOnce in the terms above.                                  *)
LEMMA WrittenDef ==
  TraceWrittenOnce <=> /\ Indices = 0 .. trace_idx_ - 1
                       /\ Len(pjobs) + Cardinality(Running) + Len(traceFiles) = trace_idx_
  BY DEF TraceWrittenOnce, Running, Indices

(* Every step keeps the traces accounted for.                            *)
LEMMA WrittenNext == TypeOK /\ TraceWrittenOnce /\ [Next]_vars => TraceWrittenOnce'
  <1> SUFFICES ASSUME TypeOK, TraceWrittenOnce, [Next]_vars PROVE TraceWrittenOnce'
    OBVIOUS
  <1>1. /\ pjobs \in Seq(PcJobs) /\ pcur \in [PcThreads -> PcJobs \union {NoJob}] /\ traceFiles \in Seq(PcJobs)
        /\ \A t \in PcThreads : ppc[t] = "run" <=> pcur[t] # NoJob
        /\ trace_idx_ \in Nat
    BY DEF TypeOK, PcPool!PoolTypeOK, PcJobs, PcThreads
  <1>2. /\ Len(pjobs) \in Nat /\ Len(traceFiles) \in Nat /\ Cardinality(Running) \in Nat
    BY <1>1, LenProperties, FS_CardinalityType, RunningFinite
  <1>3. /\ Indices = 0 .. trace_idx_ - 1
        /\ Len(pjobs) + Cardinality(Running) + Len(traceFiles) = trace_idx_
    BY WrittenDef
  <1>4. NoJob \notin PcJobs /\ PcThreads' = PcThreads
    BY LoggerAssumption DEF PcJobs, PcThreads, PcPool!Threads, PcPool!num_threads
  <1> SUFFICES /\ Indices' = 0 .. trace_idx_' - 1
               /\ Len(pjobs') + Cardinality(Running') + Len(traceFiles') = trace_idx_'
    BY DEF TraceWrittenOnce, Running, Indices
  <1>5. CASE SubmitTrace
    <2>1. /\ pjobs' = Append(pjobs, trace_idx_) /\ trace_idx_' = trace_idx_ + 1
          /\ UNCHANGED <<pcur, traceFiles>> /\ trace_idx_ \in PcJobs
      BY <1>1, <1>5, LoggerAssumption DEF SubmitTrace, PcPool!queue_job, PcJobs
    <2>2. Running' = Running
      BY <1>4, <2>1 DEF Running
    <2>3. Elements(pjobs') = Elements(pjobs) \union {trace_idx_} /\ Len(pjobs') = Len(pjobs) + 1
      BY <1>1, <2>1, ElementsAppend, AppendProperties
    <2>4. Indices' = Indices \union {trace_idx_}
      BY <2>1, <2>2, <2>3 DEF Indices
    <2>5. (0 .. trace_idx_ - 1) \union {trace_idx_} = 0 .. trace_idx_' - 1
      <3>1. ASSUME NEW n \in Nat PROVE (0 .. n - 1) \union {n} = 0 .. (n + 1) - 1
        OBVIOUS
      <3> QED BY <1>1, <2>1, <3>1
    <2>6. Indices' = 0 .. trace_idx_' - 1
      BY <1>3, <2>4, <2>5
    <2>7. Len(pjobs') + Cardinality(Running') + Len(traceFiles') = trace_idx_'
      <3>1. /\ Len(pjobs') = Len(pjobs) + 1 /\ Cardinality(Running') = Cardinality(Running)
            /\ Len(traceFiles') = Len(traceFiles) /\ trace_idx_' = trace_idx_ + 1
        BY <2>1, <2>2, <2>3
      <3> QED BY ONLY <1>1, <1>2, <1>3, <3>1
    <2> QED BY <2>6, <2>7
  <1>6. CASE OtherPcStep
    <2>1. UNCHANGED <<pjobs, pcur, trace_idx_, traceFiles>>
      BY <1>6 DEF OtherPcStep
    <2>2. Running' = Running /\ Indices' = Indices
      BY <1>4, <2>1 DEF Running, Indices
    <2> QED BY <1>3, <2>1, <2>2
  <1>7. ASSUME NEW t \in PcThreads, TakeTrace(t)
        PROVE  /\ Indices' = 0 .. trace_idx_' - 1
               /\ Len(pjobs') + Cardinality(Running') + Len(traceFiles') = trace_idx_'
    <2>1. /\ pjobs # <<>> /\ pcur' = [pcur EXCEPT ![t] = Head(pjobs)] /\ pjobs' = Tail(pjobs)
          /\ UNCHANGED <<trace_idx_, traceFiles>> /\ pcur[t] = NoJob
      BY <1>1, <1>7 DEF TakeTrace, PcPool!Take
    <2>2. Head(pjobs) \in PcJobs /\ Len(pjobs') = Len(pjobs) - 1
      BY <1>1, <2>1, HeadTailProperties
    <2>3. Running' = Running \union {t} /\ t \notin Running
      BY <1>1, <1>4, <2>1, <2>2 DEF Running
    <2>4. Cardinality(Running') = Cardinality(Running) + 1
      BY <2>3, FS_AddElement, RunningFinite
    <2>5. Elements(pjobs) = {Head(pjobs)} \union Elements(pjobs')
      BY <1>1, <2>1, ElementsTail
    <2>6. {pcur'[u] : u \in Running'} = {pcur[u] : u \in Running} \union {Head(pjobs)}
      BY <1>1, <2>1, <2>3 DEF Running
    <2>7. Indices' = Indices
      BY <2>1, <2>5, <2>6 DEF Indices
    <2> QED BY <1>2, <1>3, <2>1, <2>2, <2>4, <2>7
  <1>8. ASSUME NEW t \in PcThreads, WriteTrace(t)
        PROVE  /\ Indices' = 0 .. trace_idx_' - 1
               /\ Len(pjobs') + Cardinality(Running') + Len(traceFiles') = trace_idx_'
    <2>1. /\ pcur' = [pcur EXCEPT ![t] = NoJob] /\ traceFiles' = Append(traceFiles, pcur[t])
          /\ UNCHANGED <<trace_idx_, pjobs>> /\ pcur[t] # NoJob /\ pcur[t] \in PcJobs
      BY <1>1, <1>8 DEF WriteTrace, PcPool!Finish
    <2>2. Len(traceFiles') = Len(traceFiles) + 1 /\ Elements(traceFiles') = Elements(traceFiles) \union {pcur[t]}
      BY <1>1, <2>1, AppendProperties, ElementsAppend
    <2>3. Running' = Running \ {t} /\ t \in Running
      BY <1>1, <1>4, <2>1 DEF Running
    <2>4. Cardinality(Running') = Cardinality(Running) - 1
      BY <2>3, FS_RemoveElement, RunningFinite
    <2>6. {pcur[u] : u \in Running} = {pcur'[u] : u \in Running'} \union {pcur[t]}
      BY <1>1, <2>1, <2>3 DEF Running
    <2>7. Indices' = Indices
      BY <2>1, <2>2, <2>6 DEF Indices
    <2> QED BY <1>2, <1>3, <2>1, <2>2, <2>4, <2>7
  <1> QED BY <1>5, <1>6, <1>7, <1>8, TraceSteps

(* There is no trace at the start.                                       *)
LEMMA WrittenInit == Init => TraceWrittenOnce
  <1> SUFFICES ASSUME Init PROVE TraceWrittenOnce
    OBVIOUS
  <1>1. /\ pjobs = <<>> /\ traceFiles = <<>> /\ trace_idx_ = 0
        /\ pcur = [t \in PcThreads |-> NoJob]
    BY DEF Init, PcPool!Init, PcThreads
  <1>2. Running = {} /\ Elements(<<>>) = {} /\ Len(<<>>) = 0
    BY <1>1 DEF Running, Elements
  <1>3. Cardinality({}) = 0
    BY FS_EmptySet
  <1> QED BY <1>1, <1>2, <1>3, WrittenDef DEF Indices

(* However many threads the host gives the pool of print_insn_logs, no   *)
(* trace is lost between queue_job and its file, nor written twice.      *)
THEOREM TracesWrittenOnce == Spec => []TraceWrittenOnce
  <1>1. Init => TypeOK /\ TraceWrittenOnce
    BY TypeInit, WrittenInit
  <1>2. TypeOK /\ TraceWrittenOnce /\ [Next]_vars => (TypeOK /\ TraceWrittenOnce)'
    BY TypeNext, WrittenNext
  <1> QED BY <1>1, <1>2, PTL DEF Spec

-----------------------------------------------------------------------------
\* The packets: where each of them is.

Distinct(s) == \A i, j \in DOMAIN s : s[i] = s[j] => i = j
Apart(s, r) == Elements(s) \intersect Elements(r) = {}

(* Taking the first element off a sequence without repetitions, or adding  *)
(* one it has not, leaves it without repetitions.                          *)
LEMMA DistinctAppend ==
  ASSUME NEW S, NEW s \in Seq(S), NEW e \in S, Distinct(s), e \notin Elements(s)
  PROVE  Distinct(Append(s, e))
  <1>1. /\ Len(s) \in Nat /\ DOMAIN s = 1 .. Len(s)
        /\ DOMAIN Append(s, e) = 1 .. Len(s) + 1
        /\ \A i \in 1 .. Len(s) : Append(s, e)[i] = s[i]
        /\ Append(s, e)[Len(s) + 1] = e
    BY AppendProperties, LenProperties
  <1> QED BY <1>1 DEF Distinct, Elements

(* The head of such a sequence is not in the rest of it.                 *)
LEMMA DistinctTail ==
  ASSUME NEW S, NEW s \in Seq(S), s # <<>>, Distinct(s)
  PROVE  Distinct(Tail(s)) /\ Head(s) \notin Elements(Tail(s))
  <1>1. /\ Len(s) \in Nat \ {0} /\ DOMAIN s = 1 .. Len(s)
        /\ Tail(s) \in Seq(S) /\ Len(Tail(s)) = Len(s) - 1
        /\ \A i \in 1 .. Len(Tail(s)) : Tail(s)[i] = s[i + 1]
    BY HeadTailProperties, LenProperties, EmptySeq
  <1>2. DOMAIN Tail(s) = 1 .. Len(s) - 1
    BY <1>1, LenProperties
  <1>3. Head(s) = s[1]
    OBVIOUS
  <1>4. \A i \in DOMAIN Tail(s) : i + 1 \in DOMAIN s /\ i + 1 # 1 /\ Tail(s)[i] = s[i + 1]
    BY <1>1, <1>2
  <1>5. 1 \in DOMAIN s
    BY <1>1
  <1>6. \A i, j \in DOMAIN Tail(s) : i + 1 = j + 1 => i = j
    BY <1>1, <1>2
  <1> QED BY <1>3, <1>4, <1>5, <1>6 DEF Distinct, Elements

(* The empty sequence holds nothing.                                     *)
LEMMA NothingInEmpty == Elements(<<>>) = {} /\ Distinct(<<>>)
  BY DEF Elements, Distinct

\* Whether packet p is in a sequence, or in one of a family of sequences.
Holds(s, p) == p \in Elements(s)
Within(F, p) == \E k \in DOMAIN F : Holds(F[k], p)

(* Each of the packets 1 .. n is once in one of the logger's vector V, the *)
(* event log L, the queued batches Q and what the threads print, P.        *)
Once(V, L, Q, P, n) ==
  /\ Distinct(V) /\ Distinct(L) /\ Apart(V, L)
  /\ \A k \in DOMAIN Q : Distinct(Q[k]) /\ Apart(V, Q[k]) /\ Apart(L, Q[k])
  /\ \A t \in DOMAIN P : Distinct(P[t]) /\ Apart(V, P[t]) /\ Apart(L, P[t])
  /\ \A k, l \in DOMAIN Q : k # l => Apart(Q[k], Q[l])
  /\ \A t, u \in DOMAIN P : t # u => Apart(P[t], P[u])
  /\ \A k \in DOMAIN Q, t \in DOMAIN P : Apart(Q[k], P[t])
  /\ \A p : p \in 1 .. n <=> Holds(V, p) \/ Holds(L, p) \/ Within(Q, p) \/ Within(P, p)

(* A new packet in the vector is nowhere else.                           *)
LEMMA OnceSubmit ==
  ASSUME NEW n \in Nat, NEW V \in Seq(Nat), NEW L, NEW Q, NEW P, Once(V, L, Q, P, n)
  PROVE  Once(Append(V, n + 1), L, Q, P, n + 1)
  <1> DEFINE W == Append(V, n + 1)
  <1>1. Elements(W) = Elements(V) \union {n + 1}
    BY ElementsAppend
  <1>2. n + 1 \notin 1 .. n /\ \A p : p \in 1 .. n + 1 <=> p \in 1 .. n \/ p = n + 1
    OBVIOUS
  <1>3. /\ ~Holds(V, n + 1) /\ ~Holds(L, n + 1)
        /\ \A k \in DOMAIN Q : ~Holds(Q[k], n + 1)
        /\ \A t \in DOMAIN P : ~Holds(P[t], n + 1)
    BY <1>2 DEF Once, Within
  <1>4. Distinct(W)
    BY <1>3, DistinctAppend DEF Once, Holds
  <1>5. \A r : Apart(V, r) /\ ~Holds(r, n + 1) => Apart(W, r)
    BY <1>1 DEF Apart, Holds
  <1>6. \A p : p \in 1 .. n + 1 <=> Holds(W, p) \/ Holds(L, p) \/ Within(Q, p) \/ Within(P, p)
    <2>1. \A p : Holds(W, p) <=> Holds(V, p) \/ p = n + 1
      BY <1>1 DEF Holds
    <2>2. \A p : p \in 1 .. n <=> Holds(V, p) \/ Holds(L, p) \/ Within(Q, p) \/ Within(P, p)
      BY DEF Once
    <2> QED BY <1>2, <2>1, <2>2
  <1> HIDE DEF W
  <1>7. Once(W, L, Q, P, n + 1)
    BY <1>3, <1>4, <1>5, <1>6 DEF Once
  <1> QED BY <1>7 DEF W

(* The vector becomes a batch and is emptied.                            *)
LEMMA OnceFlush ==
  ASSUME NEW n \in Nat, NEW V \in Seq(Nat), NEW L, NEW Q \in Seq(Seq(Nat)), NEW P,
         Once(V, L, Q, P, n)
  PROVE  Once(<<>>, L, Append(Q, V), P, n)
  <1> DEFINE R == Append(Q, V)
             m == Len(Q) + 1
  <1>1. /\ DOMAIN R = DOMAIN Q \union {m} /\ m \notin DOMAIN Q
        /\ R[m] = V /\ \A k \in DOMAIN Q : R[k] = Q[k]
    BY AppendProperties, LenProperties
  <1>2. \A r, s : Apart(r, s) <=> Apart(s, r)
    BY DEF Apart
  <1>3. \A r : Apart(<<>>, r)
    BY NothingInEmpty DEF Apart
  <1> HIDE DEF R, m
  <1>4. \A k, l \in DOMAIN R : k # l => Apart(R[k], R[l])
    BY <1>1, <1>2 DEF Once
  <1>5. \A p : p \in 1 .. n <=> Holds(<<>>, p) \/ Holds(L, p) \/ Within(R, p) \/ Within(P, p)
    <2>1. \A p : Within(R, p) <=> Within(Q, p) \/ Holds(V, p)
      BY <1>1 DEF Within
    <2>2. \A p : p \in 1 .. n <=> Holds(V, p) \/ Holds(L, p) \/ Within(Q, p) \/ Within(P, p)
      BY DEF Once
    <2>3. \A p : ~Holds(<<>>, p)
      BY NothingInEmpty DEF Holds
    <2> QED BY <2>1, <2>2, <2>3
  <1>6. Once(<<>>, L, R, P, n)
    BY <1>1, <1>2, <1>3, <1>4, <1>5, NothingInEmpty DEF Once
  <1> QED BY <1>6 DEF R

(* The first batch goes from the queue to a thread.                      *)
LEMMA OnceTake ==
  ASSUME NEW n \in Nat, NEW V, NEW L, NEW Q \in Seq(Seq(Nat)), NEW P, NEW T,
         P \in [T -> Seq(Nat)], Q # <<>>, NEW t \in T, P[t] = <<>>, Once(V, L, Q, P, n)
  PROVE  Once(V, L, Tail(Q), [P EXCEPT ![t] = Head(Q)], n)
  <1> DEFINE R == Tail(Q)
             N == [P EXCEPT ![t] = Head(Q)]
  <1>1. /\ Len(Q) \in Nat \ {0} /\ DOMAIN Q = 1 .. Len(Q)
        /\ R \in Seq(Seq(Nat)) /\ Len(R) = Len(Q) - 1
        /\ \A i \in 1 .. Len(R) : R[i] = Q[i + 1]
    BY HeadTailProperties, LenProperties, EmptySeq
  <1>2. DOMAIN R = 1 .. Len(Q) - 1
    BY <1>1, LenProperties
  <1>3. /\ 1 \in DOMAIN Q /\ Head(Q) = Q[1]
        /\ \A k \in DOMAIN R : k + 1 \in DOMAIN Q /\ k + 1 # 1 /\ R[k] = Q[k + 1]
        /\ \A k, l \in DOMAIN R : k # l => k + 1 # l + 1
        /\ \A k \in DOMAIN Q : k = 1 \/ \E l \in DOMAIN R : k = l + 1
    <2>1. ASSUME NEW k \in DOMAIN Q, k # 1 PROVE k - 1 \in DOMAIN R /\ k = (k - 1) + 1
      BY <1>1, <1>2, <2>1
    <2> QED BY <1>1, <1>2, <2>1
  <1>4. /\ DOMAIN P = T /\ DOMAIN N = T /\ N[t] = Q[1]
        /\ \A u \in T : u # t => N[u] = P[u]
    BY <1>3
  <1>5. \A r, s : Apart(r, s) <=> Apart(s, r)
    BY DEF Apart
  <1> HIDE DEF R, N
  <1>6. \A p : p \in 1 .. n <=> Holds(V, p) \/ Holds(L, p) \/ Within(R, p) \/ Within(N, p)
    <2>1. \A p : ~Holds(P[t], p)
      BY NothingInEmpty DEF Holds
    <2>2. \A p : Within(Q, p) <=> Holds(Q[1], p) \/ Within(R, p)
      BY <1>3 DEF Within
    <2>3. \A p : Within(N, p) <=> Holds(Q[1], p) \/ Within(P, p)
      BY <1>4, <2>1 DEF Within
    <2>4. \A p : p \in 1 .. n <=> Holds(V, p) \/ Holds(L, p) \/ Within(Q, p) \/ Within(P, p)
      BY DEF Once
    <2> QED BY <2>2, <2>3, <2>4
  <1>7. \A k \in DOMAIN R : Distinct(R[k]) /\ Apart(V, R[k]) /\ Apart(L, R[k])
    BY <1>3 DEF Once
  <1>8. \A u \in DOMAIN N : Distinct(N[u]) /\ Apart(V, N[u]) /\ Apart(L, N[u])
    BY <1>3, <1>4 DEF Once
  <1>9. \A k, l \in DOMAIN R : k # l => Apart(R[k], R[l])
    BY <1>3 DEF Once
  <1>13. \A k \in DOMAIN Q, u \in T : Apart(Q[k], P[u])
    BY <1>4 DEF Once
  <1>10. ASSUME NEW u \in T, NEW v \in T, u # v PROVE Apart(N[u], N[v])
    <2>1. CASE u = t
      BY <1>3, <1>4, <1>10, <1>13, <2>1
    <2>2. CASE v = t
      BY <1>3, <1>4, <1>5, <1>10, <1>13, <2>2
    <2>3. CASE u # t /\ v # t
      <3>1. N[u] = P[u] /\ N[v] = P[v] /\ Apart(P[u], P[v])
        BY <1>4, <1>10, <2>3 DEF Once
      <3> QED BY <3>1
    <2> QED BY <2>1, <2>2, <2>3
  <1>11. ASSUME NEW k \in DOMAIN R, NEW u \in T PROVE Apart(R[k], N[u])
    <2>1. CASE u = t
      <3>1. R[k] = Q[k + 1] /\ N[u] = Q[1] /\ Apart(Q[k + 1], Q[1])
        BY <1>3, <1>4, <2>1 DEF Once
      <3> QED BY <3>1
    <2>2. CASE u # t
      <3>1. R[k] = Q[k + 1] /\ N[u] = P[u] /\ Apart(Q[k + 1], P[u])
        BY <1>3, <1>4, <1>13, <2>2
      <3> QED BY <3>1
    <2> QED BY <2>1, <2>2
  <1>12. Once(V, L, R, N, n)
    BY <1>4, <1>6, <1>7, <1>8, <1>9, <1>10, <1>11 DEF Once
  <1> QED BY <1>12 DEF R, N

(* A packet goes from its thread to the log.                             *)
LEMMA OncePrint ==
  ASSUME NEW n \in Nat, NEW V, NEW L \in Seq(Nat), NEW Q, NEW P, NEW T,
         P \in [T -> Seq(Nat)], NEW t \in T, P[t] # <<>>, Once(V, L, Q, P, n)
  PROVE  Once(V, Append(L, Head(P[t])), Q, [P EXCEPT ![t] = Tail(@)], n)
  <1> DEFINE e == Head(P[t])
             M == Append(L, e)
             N == [P EXCEPT ![t] = Tail(@)]
  <1>1. /\ DOMAIN P = T /\ DOMAIN N = T /\ N[t] = Tail(P[t])
        /\ \A u \in T : u # t => N[u] = P[u]
    OBVIOUS
  <1>2. e \in Nat /\ Elements(P[t]) = {e} \union Elements(Tail(P[t]))
    BY HeadTailProperties, ElementsTail
  <1>3. Distinct(Tail(P[t])) /\ e \notin Elements(Tail(P[t]))
    BY DistinctTail, <1>1 DEF Once
  <1>4. /\ e \notin Elements(V) /\ e \notin Elements(L)
        /\ \A k \in DOMAIN Q : e \notin Elements(Q[k])
        /\ \A u \in T : u # t => e \notin Elements(P[u])
    BY <1>1, <1>2 DEF Once, Apart
  <1>5. Elements(M) = Elements(L) \union {e} /\ Distinct(M)
    BY <1>2, <1>4, ElementsAppend, DistinctAppend DEF Once
  <1> HIDE DEF e, M, N
  <1>6. \A p : p \in 1 .. n <=> Holds(V, p) \/ Holds(M, p) \/ Within(Q, p) \/ Within(N, p)
    <2>1. \A p : Holds(P[t], p) <=> p = e \/ Holds(N[t], p)
      BY <1>1, <1>2 DEF Holds
    <2>2. \A p : Within(P, p) <=> p = e \/ Within(N, p)
      BY <1>1, <2>1 DEF Within
    <2>3. \A p : Holds(M, p) <=> Holds(L, p) \/ p = e
      BY <1>5 DEF Holds
    <2>4. \A p : p \in 1 .. n <=> Holds(V, p) \/ Holds(L, p) \/ Within(Q, p) \/ Within(P, p)
      BY DEF Once
    <2> QED BY <2>2, <2>3, <2>4
  <1>7. \A u \in T : Distinct(N[u]) /\ Elements(N[u]) \subseteq Elements(P[u]) /\ e \notin Elements(N[u])
    BY <1>1, <1>2, <1>3, <1>4 DEF Once
  <1>8. \A r, s, u : Apart(r, s) /\ Elements(u) \subseteq Elements(s) => Apart(r, u) /\ Apart(u, r)
    BY DEF Apart
  <1>9. \A r : Apart(L, r) /\ e \notin Elements(r) => Apart(M, r)
    BY <1>5 DEF Apart
  <1>10. Apart(V, M)
    BY <1>4, <1>5 DEF Once, Apart
  <1>11. \A k \in DOMAIN Q : Distinct(Q[k]) /\ Apart(V, Q[k]) /\ Apart(M, Q[k])
    BY <1>4, <1>9 DEF Once
  <1>12. \A u \in DOMAIN N : Distinct(N[u]) /\ Apart(V, N[u]) /\ Apart(M, N[u])
    BY <1>1, <1>7, <1>8, <1>9 DEF Once
  <1>13. \A u, v \in DOMAIN N : u # v => Apart(N[u], N[v])
    BY <1>1, <1>7, <1>8 DEF Once
  <1>14. \A k \in DOMAIN Q, u \in DOMAIN N : Apart(Q[k], N[u])
    BY <1>1, <1>7, <1>8 DEF Once
  <1>15. Once(V, M, Q, N, n)
    BY <1>5, <1>6, <1>10, <1>11, <1>12, <1>13, <1>14 DEF Once
  <1> QED BY <1>15 DEF M, N, e

\* What each thread of the packets' pool has still to print.
Batch == [t \in EvThreads |-> IF ecur[t] = NoJob THEN <<>> ELSE ecur[t]]

OnceInv == Once(packet_traces_, eventLog, ejobs, Batch, submitted)

(* The types of what Once speaks of.                                     *)
LEMMA BatchType ==
  ASSUME TypeOK
  PROVE  /\ Batch \in [EvThreads -> Seq(Nat)] /\ ejobs \in Seq(Seq(Nat))
         /\ packet_traces_ \in Seq(Nat) /\ eventLog \in Seq(Nat) /\ submitted \in Nat
         /\ ecur \in [EvThreads -> EvJobs \union {NoJob}] /\ NoJob \notin EvJobs
  <1>1. Seq(1 .. MaxPackets) \subseteq Seq(Nat)
    <2>1. 1 .. MaxPackets \subseteq Nat
      OBVIOUS
    <2> QED BY <2>1, SeqMonotonic
  <1>2. ejobs \in Seq(Seq(Nat))
    BY <1>1 DEF TypeOK, EvPool!PoolTypeOK
  <1>3. ecur \in [EvThreads -> EvJobs \union {NoJob}] /\ NoJob \notin EvJobs
    BY LoggerAssumption DEF TypeOK, EvPool!PoolTypeOK, EvThreads, EvJobs
  <1>4. Batch \in [EvThreads -> Seq(Nat)]
    BY <1>1, <1>3, EmptySeq DEF Batch, EvJobs
  <1> QED BY <1>1, <1>2, <1>3, <1>4 DEF TypeOK

(* What a step of the profiler or of a thread does to the batches.         *)
LEMMA BatchSteps ==
  ASSUME TypeOK
  PROVE  /\ UNCHANGED ecur => Batch' = Batch
         /\ \A t \in EvThreads :
              /\ EvPool!Take(t) => Batch[t] = <<>> /\ Batch' = [Batch EXCEPT ![t] = Head(ejobs)]
              /\ PrintOne(t) => /\ Batch[t] = ecur[t] /\ Batch[t] # <<>>
                                /\ Batch' = [Batch EXCEPT ![t] = Tail(@)]
              /\ EndPackets(t) => Batch' = Batch
  <1>1. EvThreads' = EvThreads
    BY DEF EvThreads, EvPool!Threads, EvPool!num_threads
  <1>2. ecur \in [EvThreads -> EvJobs \union {NoJob}] /\ NoJob \notin EvJobs
    BY BatchType
  <1>3. \A t \in EvThreads : epc[t] = "run" <=> ecur[t] # NoJob
    BY DEF TypeOK, EvPool!PoolTypeOK, EvThreads
  <1>4. UNCHANGED ecur => Batch' = Batch
    BY <1>1 DEF Batch
  <1>5. ASSUME NEW t \in EvThreads, EvPool!Take(t)
        PROVE  Batch[t] = <<>> /\ Batch' = [Batch EXCEPT ![t] = Head(ejobs)]
    <2>1. epc[t] # "run" /\ ejobs # <<>> /\ ecur' = [ecur EXCEPT ![t] = Head(ejobs)]
      BY <1>5 DEF EvPool!Take
    <2>2. Head(ejobs) \in EvJobs
      BY <2>1, HeadTailProperties DEF TypeOK, EvPool!PoolTypeOK, EvJobs
    <2>3. \A u \in EvThreads : ecur'[u] = IF u = t THEN Head(ejobs) ELSE ecur[u]
      BY <1>2, <2>1
    <2> QED BY <1>1, <1>2, <1>3, <2>1, <2>2, <2>3 DEF Batch
  <1>6. ASSUME NEW t \in EvThreads, PrintOne(t)
        PROVE  /\ Batch[t] = ecur[t] /\ Batch[t] # <<>>
               /\ Batch' = [Batch EXCEPT ![t] = Tail(@)]
    <2>1. ecur[t] \in EvJobs /\ ecur[t] # <<>> /\ ecur' = [ecur EXCEPT ![t] = Tail(@)]
      BY <1>2, <1>3, <1>6 DEF PrintOne
    <2>2. Tail(ecur[t]) \in EvJobs /\ Batch[t] = ecur[t]
      BY <1>2, <2>1, HeadTailProperties DEF EvJobs, Batch
    <2>3. \A u \in EvThreads : ecur'[u] = IF u = t THEN Tail(ecur[t]) ELSE ecur[u]
      BY <1>2, <2>1
    <2> QED BY <1>1, <1>2, <2>1, <2>2, <2>3 DEF Batch
  <1>7. ASSUME NEW t \in EvThreads, EndPackets(t) PROVE Batch' = Batch
    <2>1. ecur[t] = <<>> /\ ecur' = [ecur EXCEPT ![t] = NoJob]
      BY <1>7 DEF EndPackets, EvPool!Finish
    <2>2. \A u \in EvThreads : ecur'[u] = IF u = t THEN NoJob ELSE ecur[u]
      BY <1>2, <2>1
    <2> QED BY <1>1, <2>1, <2>2 DEF Batch
  <1> QED BY <1>4, <1>5, <1>6, <1>7

(* Every step keeps each packet in one place.                            *)
LEMMA OnceNext == TypeOK /\ OnceInv /\ [Next]_vars => OnceInv'
  <1> SUFFICES ASSUME TypeOK, OnceInv, [Next]_vars PROVE OnceInv'
    OBVIOUS
  <1>1. Once(packet_traces_, eventLog, ejobs, Batch, submitted)
    BY DEF OnceInv
  <1>2. /\ Batch \in [EvThreads -> Seq(Nat)] /\ ejobs \in Seq(Seq(Nat))
        /\ packet_traces_ \in Seq(Nat) /\ eventLog \in Seq(Nat) /\ submitted \in Nat
    BY BatchType
  <1> SUFFICES Once(packet_traces_', eventLog', ejobs', Batch', submitted')
    BY DEF OnceInv
  <1>3. CASE SubmitPacket
    <2>1. Batch' = Batch
      BY <1>3, BatchSteps DEF SubmitPacket, evars
    <2> QED BY <1>1, <1>2, <1>3, <2>1, OnceSubmit DEF SubmitPacket, evars
  <1>4. CASE FlushPackets
    <2>1. /\ ejobs' = Append(ejobs, packet_traces_) /\ packet_traces_' = <<>>
          /\ UNCHANGED <<ecur, submitted, eventLog>>
      BY <1>4 DEF FlushPackets, flush, EvPool!queue_job
    <2> QED BY <1>1, <1>2, <2>1, BatchSteps, OnceFlush
  <1>5. CASE OtherEvStep
    <2>1. UNCHANGED <<ejobs, ecur, packet_traces_, submitted, eventLog>>
      BY <1>5 DEF OtherEvStep
    <2> QED BY <1>1, <2>1, BatchSteps
  <1>6. ASSUME NEW t \in EvThreads, TakePackets(t)
        PROVE  Once(packet_traces_', eventLog', ejobs', Batch', submitted')
    <2>1. /\ ejobs # <<>> /\ ejobs' = Tail(ejobs) /\ Batch[t] = <<>>
          /\ Batch' = [Batch EXCEPT ![t] = Head(ejobs)]
          /\ UNCHANGED <<packet_traces_, submitted, eventLog>>
      BY <1>6, BatchSteps DEF TakePackets, EvPool!Take
    <2> QED BY <1>1, <1>2, <2>1, OnceTake
  <1>7. ASSUME NEW t \in EvThreads, PrintPacket(t)
        PROVE  Once(packet_traces_', eventLog', ejobs', Batch', submitted')
    <2>1. /\ Batch[t] # <<>> /\ Batch' = [Batch EXCEPT ![t] = Tail(@)]
          /\ eventLog' = Append(eventLog, Head(Batch[t]))
          /\ UNCHANGED <<ejobs, packet_traces_, submitted>>
      BY <1>7, BatchSteps DEF PrintPacket, PrintOne
    <2> QED BY <1>1, <1>2, <2>1, OncePrint
  <1>8. ASSUME NEW t \in EvThreads, EndPackets(t)
        PROVE  Once(packet_traces_', eventLog', ejobs', Batch', submitted')
    <2>1. Batch' = Batch /\ UNCHANGED <<ejobs, packet_traces_, submitted, eventLog>>
      BY <1>8, BatchSteps DEF EndPackets, EvPool!Finish
    <2> QED BY <1>1, <2>1
  <1> QED BY <1>3, <1>4, <1>5, <1>6, <1>7, <1>8, PacketSteps

(* There is no packet at the start.                                      *)
LEMMA OnceInit == Init => OnceInv
  <1> SUFFICES ASSUME Init PROVE OnceInv
    OBVIOUS
  <1>1. /\ packet_traces_ = <<>> /\ eventLog = <<>> /\ ejobs = <<>> /\ submitted = 0
        /\ ecur = [t \in EvThreads |-> NoJob]
    BY DEF Init, EvPool!Init, EvThreads
  <1>2. DOMAIN Batch = EvThreads /\ \A t \in EvThreads : Batch[t] = <<>>
    BY <1>1 DEF Batch
  <1>3. DOMAIN ejobs = {} /\ 1 .. 0 = {}
    BY <1>1
  <1>4. \A r : Apart(<<>>, r)
    BY NothingInEmpty DEF Apart
  <1> QED BY <1>1, <1>2, <1>3, <1>4, NothingInEmpty DEF OnceInv, Once, Holds, Within

(* A sequence without repetitions has as many elements as positions.       *)
LEMMA DistinctCount ==
  ASSUME NEW S, NEW s \in Seq(S), Distinct(s)
  PROVE  Cardinality(Elements(s)) = Len(s)
  <1>1. Len(s) \in Nat /\ DOMAIN s = 1 .. Len(s)
    BY LenProperties
  <1>2. s \in Bijection(1 .. Len(s), Elements(s))
    <2>1. \A i \in 1 .. Len(s) : s[i] \in Elements(s)
      BY <1>1 DEF Elements
    <2>2. s \in [1 .. Len(s) -> Elements(s)]
      BY <1>1, <2>1, LenProperties
    <2>3. \A e \in Elements(s) : \E i \in 1 .. Len(s) : s[i] = e
      BY <1>1 DEF Elements
    <2>4. \A i, j \in 1 .. Len(s) : s[i] = s[j] => i = j
      BY <1>1 DEF Distinct
    <2> QED BY <2>2, <2>3, <2>4 DEF Bijection, Injection, Surjection, IsInjective
  <1>3. IsFiniteSet(1 .. Len(s)) /\ Cardinality(1 .. Len(s)) = Len(s)
    BY <1>1, FS_Interval
  <1> QED BY <1>2, <1>3, FS_Bijection DEF ExistsBijection

(* Places without repetitions are holders of as many packets as they count. *)
LEMMA OnceIsOwned == TypeOK /\ OnceInv => PacketOwnedOnce
  <1> SUFFICES ASSUME TypeOK, OnceInv PROVE PacketOwnedOnce
    OBVIOUS
  <1>1. /\ Once(packet_traces_, eventLog, ejobs, Batch, submitted)
        /\ Batch \in [EvThreads -> Seq(Nat)] /\ ejobs \in Seq(Seq(Nat))
        /\ packet_traces_ \in Seq(Nat) /\ eventLog \in Seq(Nat)
    BY BatchType DEF OnceInv
  <1>2. \A t \in EvThreads : /\ ecur[t] # NoJob => Batch[t] = ecur[t]
                             /\ ecur[t] = NoJob => Elements(Batch[t]) = {}
    BY NothingInEmpty DEF Batch
  <1>3. ASSUME NEW h \in Holders
        PROVE  \/ h = <<"vector", 0, packet_traces_>> \/ h = <<"log", 0, eventLog>>
               \/ \E k \in DOMAIN ejobs : h = <<"queued", k, ejobs[k]>>
               \/ \E t \in EvThreads : h = <<"printing", t, Batch[t]>>
    BY <1>2, <1>3 DEF Holders
  <1>4. ASSUME NEW h \in Holders PROVE Cardinality(Elements(h[3])) = Len(h[3])
    <2>1. h[3] \in Seq(Nat) /\ Distinct(h[3])
      <3>1. CASE h = <<"vector", 0, packet_traces_>> \/ h = <<"log", 0, eventLog>>
        BY <1>1, <3>1 DEF Once
      <3>2. CASE \E k \in DOMAIN ejobs : h = <<"queued", k, ejobs[k]>>
        BY <1>1, <3>2 DEF Once
      <3>3. CASE \E t \in EvThreads : h = <<"printing", t, Batch[t]>>
        BY <1>1, <3>3 DEF Once
      <3> QED BY <1>3, <3>1, <3>2, <3>3
    <2> QED BY <2>1, DistinctCount
  <1>5. ASSUME NEW h \in Holders, NEW g \in Holders, h # g
        PROVE  Apart(h[3], g[3])
    <2>1. \A r, s : Apart(r, s) <=> Apart(s, r)
      BY DEF Apart
    <2>2. DOMAIN Batch = EvThreads
      BY <1>1
    <2>3. CASE h = <<"vector", 0, packet_traces_>>
      BY <1>1, <1>3, <1>5, <2>1, <2>2, <2>3 DEF Once
    <2>4. CASE h = <<"log", 0, eventLog>>
      BY <1>1, <1>3, <1>5, <2>1, <2>2, <2>4 DEF Once
    <2>5. ASSUME NEW k \in DOMAIN ejobs, h = <<"queued", k, ejobs[k]>>
          PROVE  Apart(h[3], g[3])
      BY <1>1, <1>3, <1>5, <2>1, <2>2, <2>5 DEF Once
    <2>6. ASSUME NEW t \in EvThreads, h = <<"printing", t, Batch[t]>>
          PROVE  Apart(h[3], g[3])
      BY <1>1, <1>3, <1>5, <2>1, <2>2, <2>6 DEF Once
    <2> QED BY <1>3, <2>3, <2>4, <2>5, <2>6
  <1>6. UNION {Elements(h[3]) : h \in Holders} = 1 .. submitted
    <2>1. ASSUME NEW p
          PROVE  (\E h \in Holders : p \in Elements(h[3]))
                   <=> \/ p \in Elements(packet_traces_) \/ p \in Elements(eventLog)
                       \/ \E k \in DOMAIN ejobs : p \in Elements(ejobs[k])
                       \/ \E t \in EvThreads : p \in Elements(Batch[t])
      <3>1. ASSUME NEW h \in Holders, p \in Elements(h[3])
            PROVE  \/ p \in Elements(packet_traces_) \/ p \in Elements(eventLog)
                   \/ \E k \in DOMAIN ejobs : p \in Elements(ejobs[k])
                   \/ \E t \in EvThreads : p \in Elements(Batch[t])
        BY <1>3, <3>1
      <3>2. /\ <<"vector", 0, packet_traces_>> \in Holders /\ <<"log", 0, eventLog>> \in Holders
            /\ \A k \in DOMAIN ejobs : <<"queued", k, ejobs[k]>> \in Holders
            /\ \A t \in EvThreads : ecur[t] # NoJob => <<"printing", t, Batch[t]>> \in Holders
        BY <1>2 DEF Holders
      <3> QED BY <1>2, <3>1, <3>2
    <2>2. DOMAIN Batch = EvThreads
      BY <1>1
    <2>3. \A p : p \in 1 .. submitted <=> \/ Holds(packet_traces_, p) \/ Holds(eventLog, p)
                                         \/ Within(ejobs, p) \/ Within(Batch, p)
      BY <1>1 DEF Once
    <2>4. \A p : p \in 1 .. submitted <=> \E h \in Holders : p \in Elements(h[3])
      BY <2>1, <2>2, <2>3 DEF Holds, Within
    <2> QED BY <2>4
  <1> QED BY <1>4, <1>5, <1>6 DEF PacketOwnedOnce, Apart

(* However many threads print_event_logs has, each packet that was       *)
(* submitted is in one place, so none is printed or deleted twice.       *)
THEOREM PacketsOwnedOnce == Spec => []PacketOwnedOnce
  <1>1. Init => TypeOK /\ OnceInv
    BY TypeInit, OnceInit
  <1>2. TypeOK /\ OnceInv /\ [Next]_vars => (TypeOK /\ OnceInv)'
    BY TypeNext, OnceNext
  <1> QED BY <1>1, <1>2, OnceIsOwned, PTL DEF Spec

-----------------------------------------------------------------------------
\* The order of the packets, with one thread to print them.

\* start takes the larger of Hw \div 16 and 1 for the packets' pool.
SmallHost == Hw < 32

(* With fewer than 32 hardware threads the pool has one thread or none.  *)
LEMMA OnePacketThread == SmallHost => EvThreads \subseteq {1}
  <1>1. Hw \in Nat
    BY LoggerAssumption
  <1>2. SmallHost => Hw \div 16 \in {0, 1}
    BY <1>1 DEF SmallHost
  <1> QED BY <1>1, <1>2 DEF EvThreads, EvPool!Threads, EvPool!num_threads

\* The numbers a + 1, a + 2, ...
From(a, s) == \A i \in DOMAIN s : s[i] = a + i

(* Such a sequence grows by the next number.                             *)
LEMMA FromAppend ==
  ASSUME NEW a \in Nat, NEW s \in Seq(Nat), From(a, s)
  PROVE  From(a, Append(s, a + Len(s) + 1)) /\ Len(Append(s, a + Len(s) + 1)) = Len(s) + 1
  <1> DEFINE e == a + Len(s) + 1
             r == Append(s, e)
  <1>1. /\ Len(s) \in Nat /\ DOMAIN s = 1 .. Len(s) /\ e \in Nat
        /\ DOMAIN r = 1 .. Len(s) + 1 /\ Len(r) = Len(s) + 1
        /\ \A i \in 1 .. Len(s) : r[i] = s[i]
        /\ r[Len(s) + 1] = e
    BY AppendProperties, LenProperties
  <1> HIDE DEF r
  <1>2. ASSUME NEW i \in 1 .. Len(s) + 1 PROVE r[i] = a + i
    <2>1. CASE i = Len(s) + 1
      BY <1>1, <2>1
    <2>2. CASE i # Len(s) + 1
      <3>1. i \in 1 .. Len(s)
        BY <1>1, <2>2
      <3> QED BY <1>1, <3>1 DEF From
    <2> QED BY <2>1, <2>2
  <1>3. From(a, r) /\ Len(r) = Len(s) + 1
    BY <1>1, <1>2 DEF From
  <1> QED BY <1>3 DEF r

(* Without its head it starts one later.                                 *)
LEMMA FromTail ==
  ASSUME NEW a \in Nat, NEW s \in Seq(Nat), s # <<>>, From(a, s)
  PROVE  /\ Head(s) = a + 1 /\ From(a + 1, Tail(s)) /\ Tail(s) \in Seq(Nat)
         /\ Len(Tail(s)) = Len(s) - 1
  <1> DEFINE r == Tail(s)
  <1>1. /\ Len(s) \in Nat \ {0} /\ DOMAIN s = 1 .. Len(s)
        /\ r \in Seq(Nat) /\ Len(r) = Len(s) - 1 /\ Head(s) = s[1]
        /\ \A i \in 1 .. Len(r) : r[i] = s[i + 1]
    BY HeadTailProperties, LenProperties, EmptySeq
  <1>2. DOMAIN r = 1 .. Len(s) - 1
    BY <1>1, LenProperties
  <1> HIDE DEF r
  <1>3. ASSUME NEW i \in 1 .. Len(s) - 1 PROVE r[i] = (a + 1) + i
    <2>1. i + 1 \in 1 .. Len(s) /\ r[i] = s[i + 1]
      BY <1>1
    <2>2. s[i + 1] = a + (i + 1)
      BY <1>1, <2>1 DEF From
    <2> QED BY <1>1, <2>1, <2>2
  <1>4. Head(s) = a + 1
    <2>1. 1 \in DOMAIN s
      BY <1>1
    <2>2. s[1] = a + 1
      BY <2>1 DEF From
    <2> QED BY <1>1, <2>2
  <1>5. From(a + 1, r)
    BY <1>2, <1>3 DEF From
  <1> QED BY <1>1, <1>4, <1>5 DEF r

\* What the one thread has still to print.
Printing == IF 1 \in EvThreads THEN Batch[1] ELSE <<>>

(* The log L, the batch B in print, the queued batches Q and the vector V  *)
(* hold 1 .. n in this order: b[k] is where queued batch k begins.         *)
Line(L, B, Q, V, n) ==
  /\ From(0, L) /\ From(Len(L), B)
  /\ \E b \in [1 .. Len(Q) + 1 -> Nat] :
       /\ b[1] = Len(L) + Len(B)
       /\ \A k \in 1 .. Len(Q) : From(b[k], Q[k]) /\ b[k + 1] = b[k] + Len(Q[k])
       /\ From(b[Len(Q) + 1], V) /\ n = b[Len(Q) + 1] + Len(V)

(* A new packet comes last.                                              *)
LEMMA LineSubmit ==
  ASSUME NEW n \in Nat, NEW V \in Seq(Nat), NEW L, NEW Q \in Seq(Seq(Nat)), NEW B,
         Line(L, B, Q, V, n)
  PROVE  Line(L, B, Q, Append(V, n + 1), n + 1)
  <1>1. Len(Q) \in Nat /\ Len(V) \in Nat
    BY LenProperties
  <1>2. PICK b \in [1 .. Len(Q) + 1 -> Nat] :
               /\ b[1] = Len(L) + Len(B)
               /\ \A k \in 1 .. Len(Q) : From(b[k], Q[k]) /\ b[k + 1] = b[k] + Len(Q[k])
               /\ From(b[Len(Q) + 1], V) /\ n = b[Len(Q) + 1] + Len(V)
    BY DEF Line
  <1>3. b[Len(Q) + 1] \in Nat
    BY <1>1
  <1>4. /\ From(b[Len(Q) + 1], Append(V, n + 1)) /\ Len(Append(V, n + 1)) = Len(V) + 1
    BY <1>2, <1>3, FromAppend
  <1>5. n + 1 = b[Len(Q) + 1] + Len(Append(V, n + 1))
    BY <1>1, <1>2, <1>3, <1>4
  <1> QED BY <1>2, <1>4, <1>5 DEF Line

(* The vector joins the end of the queue.                                *)
LEMMA LineFlush ==
  ASSUME NEW n \in Nat, NEW V \in Seq(Nat), NEW L, NEW Q \in Seq(Seq(Nat)), NEW B,
         Line(L, B, Q, V, n)
  PROVE  Line(L, B, Append(Q, V), <<>>, n)
  <1> DEFINE R == Append(Q, V)
             m == Len(Q) + 1
  <1>1. /\ Len(Q) \in Nat /\ Len(V) \in Nat /\ Len(R) = m /\ R[m] = V
        /\ \A k \in 1 .. Len(Q) : R[k] = Q[k]
    BY AppendProperties, LenProperties
  <1>2. PICK b \in [1 .. m -> Nat] :
               /\ b[1] = Len(L) + Len(B)
               /\ \A k \in 1 .. Len(Q) : From(b[k], Q[k]) /\ b[k + 1] = b[k] + Len(Q[k])
               /\ From(b[m], V) /\ n = b[m] + Len(V)
    BY DEF Line
  <1> DEFINE c == [k \in 1 .. m + 1 |-> IF k = m + 1 THEN n ELSE b[k]]
  <1>3. m \in Nat \ {0} /\ 1 .. m + 1 = 1 .. m \union {m + 1} /\ m + 1 \notin 1 .. m
    BY <1>1
  <1> HIDE DEF R
  <1>4. c \in [1 .. m + 1 -> Nat] /\ c[m + 1] = n /\ \A k \in 1 .. m : c[k] = b[k]
    BY <1>3
  <1>5. ASSUME NEW k \in 1 .. m PROVE From(c[k], R[k]) /\ c[k + 1] = c[k] + Len(R[k])
    <2>1. CASE k = m
      BY <1>1, <1>2, <1>3, <1>4, <2>1
    <2>2. CASE k # m
      <3>1. k \in 1 .. Len(Q) /\ k + 1 \in 1 .. m
        BY <1>1, <2>2
      <3> QED BY <1>1, <1>2, <1>4, <3>1
    <2> QED BY <2>1, <2>2
  <1>6. c[1] = Len(L) + Len(B)
    BY <1>2, <1>3, <1>4
  <1>7. From(n, <<>>) /\ Len(<<>>) = 0 /\ n = n + 0
    BY DEF From
  <1> HIDE DEF c, m
  <1>8. Line(L, B, R, <<>>, n)
    BY <1>1, <1>4, <1>5, <1>6, <1>7 DEF Line
  <1> QED BY <1>8 DEF R

(* The first batch is what comes after the log.                          *)
LEMMA LineTake ==
  ASSUME NEW n \in Nat, NEW V \in Seq(Nat), NEW L \in Seq(Nat), NEW Q \in Seq(Seq(Nat)),
         Q # <<>>, Line(L, <<>>, Q, V, n)
  PROVE  Line(L, Head(Q), Tail(Q), V, n)
  <1> DEFINE R == Tail(Q)
  <1>1. /\ Len(Q) \in Nat \ {0} /\ Len(R) = Len(Q) - 1 /\ Len(L) \in Nat /\ Head(Q) = Q[1]
        /\ \A k \in 1 .. Len(R) : R[k] = Q[k + 1]
    BY HeadTailProperties, LenProperties, EmptySeq
  <1>2. PICK b \in [1 .. Len(Q) + 1 -> Nat] :
               /\ b[1] = Len(L) + Len(<<>>)
               /\ \A k \in 1 .. Len(Q) : From(b[k], Q[k]) /\ b[k + 1] = b[k] + Len(Q[k])
               /\ From(b[Len(Q) + 1], V) /\ n = b[Len(Q) + 1] + Len(V)
    BY DEF Line
  <1> DEFINE c == [k \in 1 .. Len(R) + 1 |-> b[k + 1]]
  <1>3. \A k \in 1 .. Len(R) + 1 : k + 1 \in 1 .. Len(Q) + 1
    BY <1>1
  <1>4. /\ c \in [1 .. Len(R) + 1 -> Nat] /\ \A k \in 1 .. Len(R) + 1 : c[k] = b[k + 1]
    BY <1>3
  <1>5. From(Len(L), Head(Q)) /\ b[2] = Len(L) + Len(Head(Q))
    <2>1. 1 \in 1 .. Len(Q) /\ 1 + 1 = 2 /\ b[1] = Len(L)
      BY <1>1, <1>2
    <2> QED BY <1>1, <1>2, <2>1
  <1>6. c[1] = Len(L) + Len(Head(Q))
    <2>1. 1 \in 1 .. Len(R) + 1 /\ 1 + 1 = 2
      BY <1>1
    <2> QED BY <1>4, <1>5, <2>1
  <1>7. ASSUME NEW k \in 1 .. Len(R) PROVE From(c[k], R[k]) /\ c[k + 1] = c[k] + Len(R[k])
    <2>1. /\ k + 1 \in 1 .. Len(Q) /\ k \in 1 .. Len(R) + 1 /\ k + 1 \in 1 .. Len(R) + 1
      BY <1>1
    <2>2. c[k] = b[k + 1] /\ c[k + 1] = b[(k + 1) + 1] /\ R[k] = Q[k + 1]
      BY <1>1, <1>4, <2>1
    <2> QED BY <1>2, <2>1, <2>2
  <1>8. c[Len(R) + 1] = b[Len(Q) + 1]
    <2>1. Len(R) + 1 \in 1 .. Len(R) + 1 /\ (Len(R) + 1) + 1 = Len(Q) + 1
      BY <1>1
    <2> QED BY <1>4, <2>1
  <1>9. From(0, L)
    BY DEF Line
  <1> HIDE DEF c, R
  <1>10. Line(L, Head(Q), R, V, n)
    BY <1>2, <1>4, <1>5, <1>6, <1>7, <1>8, <1>9 DEF Line
  <1> QED BY <1>10 DEF R

(* The head of the batch in print is the next of the log.                *)
LEMMA LinePrint ==
  ASSUME NEW n, NEW V, NEW L \in Seq(Nat), NEW Q, NEW B \in Seq(Nat), B # <<>>, Line(L, B, Q, V, n)
  PROVE  Line(Append(L, Head(B)), Tail(B), Q, V, n)
  <1> DEFINE M == Append(L, Head(B))
  <1>1. Len(L) \in Nat /\ Len(B) \in Nat \ {0}
    BY LenProperties, EmptySeq
  <1>2. /\ Head(B) = Len(L) + 1 /\ From(Len(L) + 1, Tail(B)) /\ Len(Tail(B)) = Len(B) - 1
    BY <1>1, FromTail DEF Line
  <1>3. From(0, M) /\ Len(M) = Len(L) + 1
    <2>1. 0 + Len(L) + 1 = Head(B)
      BY <1>1, <1>2
    <2> QED BY <1>1, <2>1, FromAppend DEF Line
  <1>4. Len(M) + Len(Tail(B)) = Len(L) + Len(B)
    BY <1>1, <1>2, <1>3
  <1> HIDE DEF M
  <1>5. Line(M, Tail(B), Q, V, n)
    BY <1>2, <1>3, <1>4 DEF Line
  <1> QED BY <1>5 DEF M

LineInv == Line(eventLog, Printing, ejobs, packet_traces_, submitted)

(* With one thread every step keeps the packets in line.                 *)
LEMMA LineNext == SmallHost /\ TypeOK /\ LineInv /\ [Next]_vars => LineInv'
  <1> SUFFICES ASSUME SmallHost, TypeOK, LineInv, [Next]_vars PROVE LineInv'
    OBVIOUS
  <1>1. Line(eventLog, Printing, ejobs, packet_traces_, submitted)
    BY DEF LineInv
  <1>2. /\ Batch \in [EvThreads -> Seq(Nat)] /\ ejobs \in Seq(Seq(Nat))
        /\ packet_traces_ \in Seq(Nat) /\ eventLog \in Seq(Nat) /\ submitted \in Nat
    BY BatchType
  <1>3. EvThreads' = EvThreads /\ EvThreads \subseteq {1}
    BY OnePacketThread DEF EvThreads, EvPool!Threads, EvPool!num_threads
  <1>4. Batch' = Batch => Printing' = Printing
    BY <1>3 DEF Printing
  <1>5. \A t \in EvThreads : Printing = Batch[t] /\ Printing' = Batch'[t]
    BY <1>3 DEF Printing
  <1> SUFFICES Line(eventLog', Printing', ejobs', packet_traces_', submitted')
    BY DEF LineInv
  <1>6. CASE SubmitPacket
    <2>1. Printing' = Printing
      BY <1>4, <1>6, BatchSteps DEF SubmitPacket, evars
    <2> QED BY <1>1, <1>2, <1>6, <2>1, LineSubmit DEF SubmitPacket, evars
  <1>7. CASE FlushPackets
    <2>1. /\ ejobs' = Append(ejobs, packet_traces_) /\ packet_traces_' = <<>>
          /\ UNCHANGED <<ecur, submitted, eventLog>>
      BY <1>7 DEF FlushPackets, flush, EvPool!queue_job
    <2> QED BY <1>1, <1>2, <1>4, <2>1, BatchSteps, LineFlush
  <1>8. CASE OtherEvStep
    <2>1. UNCHANGED <<ejobs, ecur, packet_traces_, submitted, eventLog>>
      BY <1>8 DEF OtherEvStep
    <2> QED BY <1>1, <1>4, <2>1, BatchSteps
  <1>9. ASSUME NEW t \in EvThreads, TakePackets(t)
        PROVE  Line(eventLog', Printing', ejobs', packet_traces_', submitted')
    <2>1. /\ ejobs # <<>> /\ ejobs' = Tail(ejobs) /\ Batch[t] = <<>>
          /\ Batch' = [Batch EXCEPT ![t] = Head(ejobs)]
          /\ UNCHANGED <<packet_traces_, submitted, eventLog>>
      BY <1>9, BatchSteps DEF TakePackets, EvPool!Take
    <2>2. Printing = <<>> /\ Printing' = Head(ejobs)
      BY <1>2, <1>5, <2>1
    <2> QED BY <1>1, <1>2, <2>1, <2>2, LineTake
  <1>10. ASSUME NEW t \in EvThreads, PrintPacket(t)
         PROVE  Line(eventLog', Printing', ejobs', packet_traces_', submitted')
    <2>1. /\ Batch[t] = ecur[t] /\ Batch[t] # <<>> /\ Batch' = [Batch EXCEPT ![t] = Tail(@)]
          /\ eventLog' = Append(eventLog, Head(Batch[t]))
          /\ UNCHANGED <<ejobs, packet_traces_, submitted>>
      BY <1>10, BatchSteps DEF PrintPacket, PrintOne
    <2>2. Printing = Batch[t] /\ Printing' = Tail(Printing)
      BY <1>2, <1>5, <2>1
    <2> QED BY <1>1, <1>2, <2>1, <2>2, LinePrint
  <1>11. ASSUME NEW t \in EvThreads, EndPackets(t)
         PROVE  Line(eventLog', Printing', ejobs', packet_traces_', submitted')
    <2>1. Batch' = Batch /\ UNCHANGED <<ejobs, packet_traces_, submitted, eventLog>>
      BY <1>11, BatchSteps DEF EndPackets, EvPool!Finish
    <2> QED BY <1>1, <1>4, <2>1
  <1> QED BY <1>6, <1>7, <1>8, <1>9, <1>10, <1>11, PacketSteps

(* No packet is a line.                                                  *)
LEMMA LineInit == Init => LineInv
  <1> SUFFICES ASSUME Init PROVE LineInv
    OBVIOUS
  <1>1. /\ packet_traces_ = <<>> /\ eventLog = <<>> /\ ejobs = <<>> /\ submitted = 0
        /\ ecur = [t \in EvThreads |-> NoJob]
    BY DEF Init, EvPool!Init, EvThreads
  <1>2. Printing = <<>>
    BY <1>1 DEF Printing, Batch
  <1> DEFINE b == [k \in 1 .. 1 |-> 0]
  <1>3. b \in [1 .. 1 -> Nat] /\ b[1] = 0 /\ Len(<<>>) = 0 /\ \A a : From(a, <<>>)
    BY DEF From
  <1> HIDE DEF b
  <1>4. Line(<<>>, <<>>, <<>>, <<>>, 0)
    <2>1. 1 .. Len(<<>>) + 1 = 1 .. 1 /\ Len(<<>>) + 1 = 1 /\ 1 .. Len(<<>>) = {}
      BY <1>3
    <2> QED BY <1>3, <2>1 DEF Line
  <1> QED BY <1>1, <1>2, <1>4 DEF LineInv

(* On a host with fewer than 32 hardware threads start(1) makes one thread*)
(* at most, and PROF-EVENT-LOGS has the packets in submission order.     *)
THEOREM EventLogOrdered == ASSUME SmallHost PROVE Spec => []EventLogInOrder
  <1>1. Init => TypeOK /\ LineInv
    BY TypeInit, LineInit
  <1>2. TypeOK /\ LineInv /\ [Next]_vars => (TypeOK /\ LineInv)'
    BY SmallHost, TypeNext, LineNext
  <1>3. TypeOK /\ LineInv => EventLogInOrder
    <2> SUFFICES ASSUME TypeOK, LineInv PROVE EventLogInOrder
      OBVIOUS
    <2>1. From(0, eventLog)
      BY DEF LineInv, Line
    <2>2. \A i \in DOMAIN eventLog : i \in Nat
      BY DEF TypeOK
    <2> QED BY <2>1, <2>2 DEF From, EventLogInOrder
  <1> QED BY <1>1, <1>2, <1>3, PTL DEF Spec
=============================================================================
