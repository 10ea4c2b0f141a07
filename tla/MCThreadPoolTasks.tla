------------------------- MODULE MCThreadPoolTasks -------------------------
(* The program of thread 0 that TLC runs over the single-thread tasks.      *)
EXTENDS ThreadPoolTasks

(* Script: every kind of task, tasks in the queues when the threads are     *)
(* killed, a call without threads, and work for the threads spawned again.  *)
MCScript == <<"async", "parallel", "reduce", "async", "kill",
              "parallel", "spawn", "parallel", "kill">>
=============================================================================
