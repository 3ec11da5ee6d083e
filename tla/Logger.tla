------------------------------- MODULE Logger -------------------------------
(***************************************************************************)
(* logger_t (profiler/logger.cc): the profiler thread hands instruction    *)
(* traces and batches of perfetto packets to two thread pools and stops    *)
(* them at the end of the run.  A trace is its index, which names its file *)
(* (SPIKETRACE-<index>); packets are numbered in the order they were       *)
(* submitted.  The profiler thread may call the logger in any order until  *)
(* the final flush, which covers the loops of run and run_from_trace.      *)
(***************************************************************************)
EXTENDS Naturals, Sequences, FiniteSets

CONSTANTS
  Hw,          \* std::thread::hardware_concurrency()
  Threshold,   \* PACKET_TRACE_FLUSH_THRESHOLD
  MaxTraces,   \* bound: traces submitted in a run
  MaxPackets,  \* bound: packets submitted in a run
  NoJob

ASSUME LoggerAssumption ==
  /\ Hw \in Nat /\ Threshold \in Nat \ {0} /\ MaxTraces \in Nat /\ MaxPackets \in Nat
  /\ NoJob \notin 0 .. MaxTraces - 1 /\ NoJob \notin Seq(1 .. MaxPackets)

VARIABLES
  pjobs, pterm, ppc, pcur, pcaller,   \* pctrace_loggers_
  ejobs, eterm, epc, ecur, ecaller,   \* packet_loggers_
  main,            \* the profiler thread: loop, flushed, stopping, end
  trace_idx_, packet_traces_,
  submitted,       \* packets submitted so far
  traceFiles,      \* indices written, one per finished print_insn_logs
  eventLog         \* packets written to PROF-EVENT-LOGS

pvars == <<pjobs, pterm, ppc, pcur, pcaller>>
evars == <<ejobs, eterm, epc, ecur, ecaller>>
mainVars == <<main, trace_idx_, packet_traces_, submitted>>
vars == <<pvars, evars, mainVars, traceFiles, eventLog>>

\* The constructor: start(4) and start(1).
PcPool == INSTANCE ThreadPool WITH MaxConcurrency <- 4, jobs <- pjobs,
            should_terminate <- pterm, pc <- ppc, cur <- pcur, caller <- pcaller
EvPool == INSTANCE ThreadPool WITH MaxConcurrency <- 1, jobs <- ejobs,
            should_terminate <- eterm, pc <- epc, cur <- ecur, caller <- ecaller

PcThreads == PcPool!Threads
EvThreads == EvPool!Threads

Init ==
  /\ PcPool!Init /\ EvPool!Init
  /\ main = "loop" /\ trace_idx_ = 0 /\ packet_traces_ = <<>> /\ submitted = 0
  /\ traceFiles = <<>> /\ eventLog = <<>>

-----------------------------------------------------------------------------
\* The profiler thread.  It is in one call at a time: it goes on once its
\* last queue_job has notified.

InLoop == main = "loop" /\ pcaller = "idle" /\ ecaller = "idle"

submit_packet ==
  /\ InLoop /\ submitted < MaxPackets
  /\ submitted' = submitted + 1
  /\ packet_traces_' = Append(packet_traces_, submitted + 1)
  /\ UNCHANGED <<pvars, evars, main, trace_idx_, traceFiles, eventLog>>

submit_trace_to_threadpool ==
  /\ InLoop /\ trace_idx_ < MaxTraces
  /\ PcPool!queue_job(trace_idx_)
  /\ trace_idx_' = trace_idx_ + 1
  /\ UNCHANGED <<evars, main, packet_traces_, submitted, traceFiles, eventLog>>

\* The job gets a copy of the vector of pointers; the vector is emptied.
flush_NoClear == EvPool!queue_job(packet_traces_) /\ UNCHANGED packet_traces_
flush == EvPool!queue_job(packet_traces_) /\ packet_traces_' = <<>>

submit_packet_trace_to_threadpool ==
  /\ InLoop /\ Len(packet_traces_) >= Threshold
  /\ flush
  /\ UNCHANGED <<pvars, main, trace_idx_, submitted, traceFiles, eventLog>>

\* After the loop: flush whatever is left, then stop both pools in turn.
FinalFlush ==
  /\ InLoop
  /\ flush
  /\ main' = "flushed"
  /\ UNCHANGED <<pvars, trace_idx_, submitted, traceFiles, eventLog>>

StopPctraceLoggers ==
  /\ main = "flushed" /\ ecaller = "idle"
  /\ PcPool!stop
  /\ main' = "stopping"
  /\ UNCHANGED <<evars, trace_idx_, packet_traces_, submitted, traceFiles, eventLog>>

StopPacketLoggers ==
  /\ main = "stopping" /\ pcaller = "stopped"
  /\ EvPool!stop
  /\ main' = "end"
  /\ UNCHANGED <<pvars, trace_idx_, packet_traces_, submitted, traceFiles, eventLog>>

\* The part of queue_job and stop that runs after the unlock.
Calling ==
  \/ /\ PcPool!NotifyOne \/ PcPool!NotifyAll \/ PcPool!Join
     /\ UNCHANGED <<evars, mainVars, traceFiles, eventLog>>
  \/ /\ EvPool!NotifyOne \/ EvPool!NotifyAll \/ EvPool!Join
     /\ UNCHANGED <<pvars, mainVars, traceFiles, eventLog>>

Profiler ==
  \/ submit_packet \/ submit_trace_to_threadpool \/ submit_packet_trace_to_threadpool
  \/ FinalFlush \/ StopPctraceLoggers \/ StopPacketLoggers \/ Calling

-----------------------------------------------------------------------------
\* The threads of the pools.

\* print_insn_logs writes one file and returns.
print_insn_logs(t) ==
  /\ PcPool!Finish(t)
  /\ traceFiles' = Append(traceFiles, pcur[t])
  /\ UNCHANGED <<evars, mainVars, eventLog>>

\* print_event_logs prints and deletes the packets of its batch one by one.
print_event_logs(t) ==
  /\ epc[t] = "run"
  /\ \/ /\ ecur[t] # <<>>
        /\ eventLog' = Append(eventLog, Head(ecur[t]))
        /\ ecur' = [ecur EXCEPT ![t] = Tail(@)]
        /\ UNCHANGED <<ejobs, eterm, epc, ecaller>>
     \/ /\ ecur[t] = <<>>
        /\ EvPool!Finish(t)
        /\ UNCHANGED eventLog
  /\ UNCHANGED <<pvars, mainVars, traceFiles>>

PcThread(t) ==
  \/ print_insn_logs(t)
  \/ /\ PcPool!Wait(t) \/ PcPool!Return(t) \/ PcPool!Take(t)
     /\ UNCHANGED <<evars, mainVars, traceFiles, eventLog>>

EvThread(t) ==
  \/ print_event_logs(t)
  \/ /\ EvPool!Wait(t) \/ EvPool!Return(t) \/ EvPool!Take(t)
     /\ UNCHANGED <<pvars, mainVars, traceFiles, eventLog>>

Spurious ==
  \/ /\ \E t \in PcThreads : PcPool!SpuriousWakeup(t)
     /\ UNCHANGED <<evars, mainVars, traceFiles, eventLog>>
  \/ /\ \E t \in EvThreads : EvPool!SpuriousWakeup(t)
     /\ UNCHANGED <<pvars, mainVars, traceFiles, eventLog>>

Next ==
  \/ Profiler
  \/ \E t \in PcThreads : PcThread(t)
  \/ \E t \in EvThreads : EvThread(t)
  \/ Spurious

Spec == Init /\ [][Next]_vars

\* Every thread is scheduled; nothing makes the profiler reach the end of its
\* loop, but once in queue_job, the final flush or stop it goes on.
Fairness ==
  /\ \A t \in PcThreads : WF_vars(PcThread(t))
  /\ \A t \in EvThreads : WF_vars(EvThread(t))
  /\ WF_vars(Calling) /\ WF_vars(StopPctraceLoggers) /\ WF_vars(StopPacketLoggers)

FairSpec == Spec /\ Fairness

-----------------------------------------------------------------------------

(* Types of the variables. *)
TypeOK ==
  /\ PcPool!PoolTypeOK(0 .. MaxTraces - 1)
  /\ EvPool!PoolTypeOK(Seq(1 .. MaxPackets))
  /\ main \in {"loop", "flushed", "stopping", "end"}
  /\ trace_idx_ \in 0 .. MaxTraces /\ submitted \in 0 .. MaxPackets
  /\ packet_traces_ \in Seq(1 .. MaxPackets)
  /\ traceFiles \in Seq(0 .. MaxTraces - 1) /\ eventLog \in Seq(1 .. MaxPackets)

Elements(s) == {s[i] : i \in DOMAIN s}

\* Everything that holds a packet: the logger's vector, the queued batches,
\* what each thread still has to print, and the event log.
Holders ==
  {<<"vector", 0, packet_traces_>>, <<"log", 0, eventLog>>}
    \union {<<"queued", i, ejobs[i]>> : i \in DOMAIN ejobs}
    \union {<<"printing", t, ecur[t]>> : t \in {u \in EvThreads : ecur[u] # NoJob}}

(* A packet is allocated once and deleted by the thread that prints it: at *)
(* any time exactly one holder has it, and once, so that no packet is      *)
(* printed or deleted twice and none leaks while the pools run.            *)
PacketOwnedOnce ==
  /\ \A h \in Holders : Cardinality(Elements(h[3])) = Len(h[3])
  /\ \A h, g \in Holders : h # g => Elements(h[3]) \intersect Elements(g[3]) = {}
  /\ UNION {Elements(h[3]) : h \in Holders} = 1 .. submitted

(* No trace file is written by two threads or twice, and a trace that was  *)
(* submitted is queued, being written or written.                          *)
TraceWrittenOnce ==
  LET running == {t \in PcThreads : pcur[t] # NoJob}
  IN  /\ Elements(pjobs) \union {pcur[t] : t \in running} \union Elements(traceFiles)
           = 0 .. trace_idx_ - 1
      /\ Len(pjobs) + Cardinality(running) + Len(traceFiles) = trace_idx_

(* PROF-EVENT-LOGS lists the packets in the order the profiler submitted   *)
(* them, so that timestamps in it never go back.                           *)
EventLogInOrder == \A i \in DOMAIN eventLog : eventLog[i] = i

(* Once the profiler thread has called stop, both pools are joined.        *)
StopReturns == main = "stopping" ~> (main = "end" /\ ecaller = "stopped")

(* A queued batch does not sit in the queue: it is printed, or the pool is *)
(* told to terminate.                                                      *)
QueuedIsPrinted ==
  \A p \in 1 .. MaxPackets :
    (\E i \in DOMAIN ejobs : p \in Elements(ejobs[i])) ~> (p \in Elements(eventLog) \/ eterm)

(* When the profiler has stopped the logger, every packet it submitted is  *)
(* in the event log and every trace in its file.                           *)
AllLogged ==
  main = "end" /\ ecaller = "stopped" =>
    /\ Elements(eventLog) = 1 .. submitted
    /\ Elements(traceFiles) = 0 .. trace_idx_ - 1
=============================================================================
