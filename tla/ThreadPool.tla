----------------------------- MODULE ThreadPool -----------------------------
(***************************************************************************)
(* threadpool_t (profiler/thread_pool.h): a queue of jobs under a mutex, a *)
(* condition variable, and threads that take jobs until told to terminate. *)
(* The queues jobs, traces and ofnames are pushed and popped together      *)
(* under the lock, so one sequence of jobs stands for the three.  Each     *)
(* critical section is one action; what runs outside the lock (the job,    *)
(* notify_one, notify_all, join) is an action of its own.                  *)
(*                                                                         *)
(* The operators with a suffix (stop_NoNotify) are faulty variants.        *)
(***************************************************************************)
EXTENDS Naturals, Sequences

CONSTANTS
  Hw,              \* std::thread::hardware_concurrency(), 0 when unknown
  MaxConcurrency,  \* the argument of start()
  NoJob            \* what a thread that runs nothing has taken

VARIABLES
  jobs,              \* queued jobs, oldest first
  should_terminate,
  pc,                \* [Threads -> {"check", "wait", "run", "exited"}]
  cur,               \* the job each thread has taken
  caller             \* where the one client thread is in queue_job or stop

poolVars == <<jobs, should_terminate, pc, cur, caller>>

\* start: the threads it creates.
num_threads ==
  LET least == IF Hw < MaxConcurrency THEN Hw ELSE MaxConcurrency
  IN  IF Hw \div 16 > least THEN Hw \div 16 ELSE least

Threads == 1 .. num_threads

Init ==
  /\ jobs = <<>> /\ should_terminate = FALSE
  /\ pc = [t \in Threads |-> "check"]
  /\ cur = [t \in Threads |-> NoJob]
  /\ caller = "idle"

\* queue_job, the critical section; the notification comes after the unlock.
queue_job(j) ==
  /\ caller = "idle"
  /\ jobs' = Append(jobs, j)
  /\ caller' = "notify_one"
  /\ UNCHANGED <<should_terminate, pc, cur>>

\* notify_one wakes one waiting thread, and nobody when none waits.
NotifyOne_Lost ==
  caller = "notify_one" /\ caller' = "idle" /\ UNCHANGED <<jobs, should_terminate, pc, cur>>
NotifyOne ==
  /\ caller = "notify_one"
  /\ LET waiting == {t \in Threads : pc[t] = "wait"} IN
       IF waiting = {} THEN UNCHANGED pc
       ELSE \E t \in waiting : pc' = [pc EXCEPT ![t] = "check"]
  /\ caller' = "idle"
  /\ UNCHANGED <<jobs, should_terminate, cur>>

stop_NoNotify ==
  /\ caller = "idle"
  /\ should_terminate' = TRUE
  /\ caller' = "join"
  /\ UNCHANGED <<jobs, pc, cur>>
stop ==
  /\ caller = "idle"
  /\ should_terminate' = TRUE
  /\ caller' = "notify_all"
  /\ UNCHANGED <<jobs, pc, cur>>

NotifyAll ==
  /\ caller = "notify_all"
  /\ pc' = [t \in Threads |-> IF pc[t] = "wait" THEN "check" ELSE pc[t]]
  /\ caller' = "join"
  /\ UNCHANGED <<jobs, should_terminate, cur>>

Join ==
  /\ caller = "join"
  /\ \A t \in Threads : pc[t] = "exited"
  /\ caller' = "stopped"
  /\ UNCHANGED <<jobs, should_terminate, pc, cur>>

\* threadloop under the lock.  A thread told to terminate returns at once,
\* whether or not jobs are left.
Wait(t) ==
  /\ pc[t] = "check" /\ jobs = <<>> /\ ~ should_terminate
  /\ pc' = [pc EXCEPT ![t] = "wait"]
  /\ UNCHANGED <<jobs, should_terminate, cur, caller>>

Return(t) ==
  /\ pc[t] = "check" /\ should_terminate
  /\ pc' = [pc EXCEPT ![t] = "exited"]
  /\ UNCHANGED <<jobs, should_terminate, cur, caller>>

Take_NoPop(t) ==
  /\ pc[t] = "check" /\ ~ should_terminate /\ jobs # <<>>
  /\ cur' = [cur EXCEPT ![t] = Head(jobs)]
  /\ pc' = [pc EXCEPT ![t] = "run"]
  /\ UNCHANGED <<jobs, should_terminate, caller>>
Take_Newest(t) ==
  /\ pc[t] = "check" /\ ~ should_terminate /\ jobs # <<>>
  /\ cur' = [cur EXCEPT ![t] = jobs[Len(jobs)]]
  /\ jobs' = SubSeq(jobs, 1, Len(jobs) - 1)
  /\ pc' = [pc EXCEPT ![t] = "run"]
  /\ UNCHANGED <<should_terminate, caller>>
Take(t) ==
  /\ pc[t] = "check" /\ ~ should_terminate /\ jobs # <<>>
  /\ cur' = [cur EXCEPT ![t] = Head(jobs)]
  /\ jobs' = Tail(jobs)
  /\ pc' = [pc EXCEPT ![t] = "run"]
  /\ UNCHANGED <<should_terminate, caller>>

\* The job returns; the thread goes round its loop.
Finish_KeepsJob(t) ==
  pc[t] = "run" /\ pc' = [pc EXCEPT ![t] = "check"] /\ UNCHANGED <<jobs, should_terminate, cur, caller>>
Finish(t) ==
  /\ pc[t] = "run"
  /\ cur' = [cur EXCEPT ![t] = NoJob]
  /\ pc' = [pc EXCEPT ![t] = "check"]
  /\ UNCHANGED <<jobs, should_terminate, caller>>

\* A condition variable may wake a thread that nobody notified.
SpuriousWakeup(t) ==
  /\ pc[t] = "wait"
  /\ pc' = [pc EXCEPT ![t] = "check"]
  /\ UNCHANGED <<jobs, should_terminate, cur, caller>>

PoolTypeOK(Jobs) ==
  /\ jobs \in Seq(Jobs) /\ should_terminate \in BOOLEAN
  /\ pc \in [Threads -> {"check", "wait", "run", "exited"}]
  /\ cur \in [Threads -> Jobs \union {NoJob}]
  /\ \A t \in Threads : pc[t] = "run" <=> cur[t] # NoJob
  /\ caller \in {"idle", "notify_one", "notify_all", "join", "stopped"}
=============================================================================
