--------------------------- MODULE Interception ---------------------------
(***************************************************************************)
(* What the profiler promises of kernel functions, whatever way it runs    *)
(* the target: each execution of a registered pc updates the profiler's    *)
(* view exactly once, in program order.  Instructions nobody registered    *)
(* do not show.                                                            *)
(***************************************************************************)
EXTENDS ProfilerState

CONSTANTS FirstPid, Programs

VARIABLES
  code,   \* the instructions the target executes
  marks,  \* how many of its registered instructions have been accounted for
  view    \* cur_pid_ and the call stacks

vars == <<code, marks, view>>

Init == code \in Programs /\ marks = 0 /\ view = EmptyView(FirstPid)

Account ==
  /\ marks < Len(Registered(code))
  /\ view' = Intercepted(view, Registered(code)[marks + 1])
  /\ marks' = marks + 1
  /\ UNCHANGED code

Spec == Init /\ [][Account]_vars
=============================================================================
