-------------------------- MODULE ThreadPoolTasks --------------------------
(***************************************************************************)
(* The tasks of System/Threading/ThreadPool that are executed by one thread *)
(* each: the child tasks of parallel, the SyncTasks of parallel_reduce and  *)
(* the AsyncTasks of ThreadPool::Enqueue.  The queues hold plain pointers,  *)
(* so that what matters is how long a task lives: a child is deleted by the *)
(* thread that waits for it, the others delete themselves, and KillThreads  *)
(* throws away the pointers that are left in the queues.                    *)
(*                                                                         *)
(* There is one worker of each kind for every number in 1 .. NumWorkers;    *)
(* thread 0 of the sync kind runs the program.  Sleeping on the signal is a *)
(* timed wait and is not modelled.                                          *)
(***************************************************************************)
EXTENDS Naturals, Sequences, FiniteSets

CONSTANTS
    NumWorkers,   \* workers of each kind that SetDefaultThreadCount spawns
    Script        \* what thread 0 does

ASSUME ThreadPoolTasksAssumption ==
    /\ NumWorkers \in Nat \ {0}
    /\ Script \in Seq({"parallel", "reduce", "async", "kill", "spawn"})

Kinds == {"sync", "async"}
Main == <<"sync", 0>>
Workers == Kinds \X (1..NumWorkers)
Threads == {Main} \union Workers

(* A task is named by the step of the script that makes it and the worker   *)
(* it is meant for.                                                         *)
Tasks == (DOMAIN Script) \X (0..NumWorkers)
NoTask == <<>>
WantedThread(k) == k[2]
KindOf(k) == Script[k[1]]
IsAsyncTask(k) == KindOf(k) = "async"
SelfDelete(k) == KindOf(k) # "parallel"
QueueOf(k) == <<IF IsAsyncTask(k) THEN "async" ELSE "sync", WantedThread(k)>>

VARIABLES
    step,        \* steps of the script that thread 0 has begun
    tasks,       \* the tasks that exist or existed
    queue,       \* taskQueues
    exitFlag,    \* exitFlags
    running,     \* the workers that have been spawned and not joined
    at,          \* where each thread is
    task,        \* the task it executes
    pushed       \* the worker that thread 0 pushes to next

vars == <<step, tasks, queue, exitFlag, running, at, task, pushed>>

(* A task: created, in a queue or being executed (inTaskQueue), function    *)
(* executed (its future is ready), remainingTasks, execLoopDone, deleted.   *)
FreshTask == [exists |-> TRUE, runs |-> 0, remaining |-> 1,
              inTaskQueue |-> TRUE, execLoopDone |-> FALSE, deleted |-> FALSE]
NoSuchTask == [FreshTask EXCEPT !.exists = FALSE]

Init ==
    /\ step = 0
    /\ tasks = [k \in Tasks |-> NoSuchTask]
    /\ queue = [w \in Workers |-> <<>>]
    /\ exitFlag = [n \in 1..NumWorkers |-> FALSE]
    /\ running = Workers
    /\ at = [t \in Threads |-> IF t = Main THEN "script" ELSE "loop"]
    /\ task = [t \in Threads |-> NoTask]
    /\ pushed = 0

(* Mutant: a finished task that is in no queue may be deleted.              *)
AllowDeleteEarly(k) == tasks[k].remaining = 0 /\ ~tasks[k].inTaskQueue
AllowDelete(k) ==
    tasks[k].remaining = 0 /\ ~tasks[k].inTaskQueue /\ tasks[k].execLoopDone
Goto(t, place) == at' = [at EXCEPT ![t] = place]
Kind == Script[step]
TaskFor(n) == <<step, n>>

-----------------------------------------------------------------------------
(* Thread 0 begins the next step of its script.  Without workers nothing is *)
(* put in a queue: the function is simply called.                           *)
NextStep(what) ==
    /\ at[Main] = "script"
    /\ step < Len(Script)
    /\ Script[step + 1] = what
    /\ step' = step + 1

CallFunction ==
    /\ \E what \in {"parallel", "reduce", "async"} : NextStep(what)
    /\ running = {}
    /\ UNCHANGED <<tasks, queue, exitFlag, running, at, task, pushed>>

(* parallel_reduce executes its own task before it pushes the others, by    *)
(* the same steps as a worker; parallel and Enqueue go on to push.          *)
Submit ==
    /\ \E what \in {"parallel", "reduce", "async"} :
        /\ NextStep(what)
        /\ IF what = "reduce"
           THEN LET own == <<step + 1, 0>> IN
                /\ tasks' = [tasks EXCEPT ![own] = FreshTask]
                /\ task' = [task EXCEPT ![Main] = own]
                /\ Goto(Main, "execute")
           ELSE UNCHANGED <<tasks, task>> /\ Goto(Main, "push")
    /\ running # {}
    /\ pushed' = 1
    /\ UNCHANGED <<queue, exitFlag, running>>

(* The next task of the call is created and pushed to the worker it is      *)
(* meant for; Enqueue makes a single task, for any worker.                  *)
Push ==
    /\ at[Main] = "push"
    /\ \E n \in IF Kind = "async" THEN 1..NumWorkers ELSE {pushed} :
        LET k == TaskFor(n) IN
        /\ tasks' = [tasks EXCEPT ![k] = FreshTask]
        /\ queue' = [queue EXCEPT ![QueueOf(k)] = Append(@, k)]
        /\ IF Kind = "async" THEN pushed' = 0 /\ Goto(Main, "script")
           ELSE IF n = NumWorkers THEN pushed' = 0 /\ Goto(Main, "wait")
           ELSE pushed' = n + 1 /\ UNCHANGED at
    /\ UNCHANGED <<step, exitFlag, running, task>>

(* Parallel2TaskGroup::ExecuteStep, called by WaitForFinished again and     *)
(* again until every child may be deleted; then the children are cleared.   *)
ParallelReturns ==
    /\ at[Main] = "wait"
    /\ Kind = "parallel"
    /\ \A n \in 1..NumWorkers : AllowDelete(TaskFor(n))
    /\ tasks' = [k \in Tasks |->
          IF k[1] = step /\ tasks[k].exists
          THEN [tasks[k] EXCEPT !.deleted = TRUE] ELSE tasks[k]]
    /\ Goto(Main, "script")
    /\ UNCHANGED <<step, queue, exitFlag, running, task, pushed>>

(* std::accumulate over the futures of a parallel_reduce.                   *)
ReduceReturns ==
    /\ at[Main] = "wait"
    /\ Kind = "reduce"
    /\ \A n \in 0..NumWorkers : tasks[TaskFor(n)].runs > 0
    /\ Goto(Main, "script")
    /\ UNCHANGED <<step, tasks, queue, exitFlag, running, task, pushed>>

-----------------------------------------------------------------------------
(* WorkerLoop: a thread whose exit flag is set leaves after DoTask.         *)
LookForTasks(w) ==
    /\ w \in running
    /\ at[w] = "loop"
    /\ ~exitFlag[w[2]]
    /\ Goto(w, "drain")
    /\ UNCHANGED <<step, tasks, queue, exitFlag, running, task, pushed>>

ExitLoop(w) ==
    /\ w \in running
    /\ at[w] = "loop"
    /\ exitFlag[w[2]]
    /\ Goto(w, "exited")
    /\ UNCHANGED <<step, tasks, queue, exitFlag, running, task, pushed>>

(* Mutant: the pointer is looked at but stays in the queue.                 *)
DequeuePeeking(w) ==
    /\ at[w] = "drain"
    /\ queue[w] # <<>>
    /\ task' = [task EXCEPT ![w] = Head(queue[w])]
    /\ Goto(w, "execute")
    /\ UNCHANGED <<step, tasks, queue, exitFlag, running, pushed>>

(* DoTask takes one pointer after the other from the thread's own queue.    *)
Dequeue(w) ==
    /\ at[w] = "drain"
    /\ queue[w] # <<>>
    /\ task' = [task EXCEPT ![w] = Head(queue[w])]
    /\ queue' = [queue EXCEPT ![w] = Tail(@)]
    /\ Goto(w, "execute")
    /\ UNCHANGED <<step, tasks, exitFlag, running, pushed>>

QueueEmpty(w) ==
    /\ at[w] = "drain"
    /\ queue[w] = <<>>
    /\ Goto(w, "loop")
    /\ UNCHANGED <<step, tasks, queue, exitFlag, running, task, pushed>>

(* Mutant: the step counts the task down, and the loop does so again.       *)
ExecuteCounting(t) ==
    /\ at[t] = "execute"
    /\ tasks' = [tasks EXCEPT ![task[t]].runs = @ + 1, ![task[t]].remaining = @ - 1]
    /\ Goto(t, "executed")
    /\ UNCHANGED <<step, queue, exitFlag, running, task, pushed>>

(* ExecuteStep: the function is called.                                     *)
Execute(t) ==
    /\ at[t] = "execute"
    /\ tasks' = [tasks EXCEPT ![task[t]].runs = @ + 1]
    /\ Goto(t, "executed")
    /\ UNCHANGED <<step, queue, exitFlag, running, task, pushed>>

(* remainingTasks -= 1.                                                     *)
CountDown(t) ==
    /\ at[t] = "executed"
    /\ tasks' = [tasks EXCEPT ![task[t]].remaining = @ - 1]
    /\ Goto(t, "unflag")
    /\ UNCHANGED <<step, queue, exitFlag, running, task, pushed>>

(* ExecuteLoop, after the last step: inTaskQueue is cleared ...             *)
ClearFlag(t) ==
    /\ at[t] = "unflag"
    /\ tasks' = [tasks EXCEPT ![task[t]].inTaskQueue = FALSE]
    /\ Goto(t, "leave")
    /\ UNCHANGED <<step, queue, exitFlag, running, task, pushed>>

(* Mutant: only a task that deletes itself is marked.                       *)
LeaveLoopUnmarked(t) ==
    /\ at[t] = "leave"
    /\ tasks' = [tasks EXCEPT ![task[t]].execLoopDone = SelfDelete(task[t]),
                              ![task[t]].deleted = @ \/ SelfDelete(task[t])]
    /\ task' = [task EXCEPT ![t] = NoTask]
    /\ Goto(t, IF t = Main THEN "push" ELSE "drain")
    /\ UNCHANGED <<step, queue, exitFlag, running, pushed>>

(* ... then execLoopDone is set, and a task that nobody owns is deleted.    *)
LeaveLoop(t) ==
    /\ at[t] = "leave"
    /\ tasks' = [tasks EXCEPT ![task[t]].execLoopDone = TRUE,
                              ![task[t]].deleted = @ \/ SelfDelete(task[t])]
    /\ task' = [task EXCEPT ![t] = NoTask]
    /\ Goto(t, IF t = Main THEN "push" ELSE "drain")
    /\ UNCHANGED <<step, queue, exitFlag, running, pushed>>

-----------------------------------------------------------------------------
(* KillThreads, called by SetThreadCount(0): the flags are set, ...         *)
Kill ==
    /\ NextStep("kill")
    /\ running # {}
    /\ exitFlag' = [n \in 1..NumWorkers |-> TRUE]
    /\ Goto(Main, "join")
    /\ UNCHANGED <<tasks, queue, running, task, pushed>>

(* Mutant: a thread is not waited for.                                      *)
JoinAtOnce ==
    /\ at[Main] = "join"
    /\ running # {}
    /\ \E w \in running : running' = running \ {w}
    /\ UNCHANGED <<step, tasks, queue, exitFlag, at, task, pushed>>

(* ... the threads are joined, the last one first, ...                      *)
Join ==
    LET n == CHOOSE m \in 1..NumWorkers : /\ <<"async", m>> \in running
                                          /\ \A w \in running : w[2] <= m
        w == IF <<"sync", n>> \in running THEN <<"sync", n>> ELSE <<"async", n>>
    IN
    /\ at[Main] = "join"
    /\ running # {}
    /\ at[w] = "exited"
    /\ running' = running \ {w}
    /\ UNCHANGED <<step, tasks, queue, exitFlag, at, task, pushed>>

(* ... and what is left in their queues is thrown away.                     *)
DropQueues ==
    /\ at[Main] = "join"
    /\ running = {}
    /\ queue' = [w \in Workers |-> <<>>]
    /\ Goto(Main, "script")
    /\ UNCHANGED <<step, tasks, exitFlag, running, task, pushed>>

(* SpawnThreads, called by SetDefaultThreadCount.                           *)
Spawn ==
    /\ NextStep("spawn")
    /\ running = {}
    /\ exitFlag' = [n \in 1..NumWorkers |-> FALSE]
    /\ running' = Workers
    /\ at' = [t \in Threads |-> IF t = Main THEN "script" ELSE "loop"]
    /\ UNCHANGED <<tasks, queue, task, pushed>>

(* The program ends; its workers go on looking for tasks.                   *)
Program ==
    \/ CallFunction \/ Submit \/ Push \/ ParallelReturns \/ ReduceReturns
    \/ Kill \/ Join \/ DropQueues \/ Spawn
Run(t) == Execute(t) \/ CountDown(t) \/ ClearFlag(t) \/ LeaveLoop(t)
Work(w) == LookForTasks(w) \/ ExitLoop(w) \/ Dequeue(w) \/ QueueEmpty(w)

Finished ==
    /\ step = Len(Script) /\ at[Main] = "script"
    /\ running = {}
    /\ UNCHANGED vars

Next ==
    \/ Program
    \/ \E t \in Threads : Run(t)
    \/ \E w \in Workers : Work(w)
    \/ Finished

Spec == Init /\ [][Next]_vars

FairSpec ==
    /\ Spec
    /\ WF_vars(Program)
    /\ \A t \in Threads : WF_vars(Run(t))
    /\ \A w \in Workers : WF_vars(Work(w))

-----------------------------------------------------------------------------
(* Every variable has its type.                                             *)
TypeOK ==
    /\ step \in 0..Len(Script)
    /\ tasks \in [Tasks -> [exists : BOOLEAN, runs : Nat, remaining : Nat,
                            inTaskQueue : BOOLEAN, execLoopDone : BOOLEAN,
                            deleted : BOOLEAN]]
    /\ queue \in [Workers -> Seq(Tasks)]
    /\ exitFlag \in [1..NumWorkers -> BOOLEAN]
    /\ running \subseteq Workers
    /\ at \in [Threads -> {"script", "push", "wait", "join", "loop", "drain",
                           "exited", "execute", "executed", "unflag", "leave"}]
    /\ task \in [Threads -> Tasks \union {NoTask}]
    /\ pushed \in 0..NumWorkers

(* Nobody touches a task that is gone: a task that some queue points to or  *)
(* some thread still executes, down to its last access in ExecuteLoop, has  *)
(* not been deleted - neither by the parallel that waits for it nor by      *)
(* itself ("all tasks must have exited ExecuteLoop").                       *)
NoUseAfterDelete ==
    /\ \A t \in Threads : task[t] # NoTask => ~tasks[task[t]].deleted
    /\ \A w \in Workers : \A i \in DOMAIN queue[w] : ~tasks[queue[w][i]].deleted

(* A parallel's function is executed once by each worker and never by the   *)
(* thread that waits, and no task at all is executed twice or by a worker   *)
(* of the wrong number or kind (test_parallel of testThreadPool.cpp).       *)
OncePerWorker ==
    /\ \A k \in Tasks : tasks[k].runs <= 1
    /\ \A w \in Workers : task[w] # NoTask => QueueOf(task[w]) = w
    /\ \A k \in Tasks :
           tasks[k].runs > 0 /\ WantedThread(k) = 0 => KindOf(k) = "reduce"

(* When KillThreads is done, no task is half executed: each was completed   *)
(* and deleted, or nobody began it and no queue remembers it.               *)
CleanlyKilled ==
    (running = {} /\ at[Main] = "script") =>
        /\ \A w \in Workers : queue[w] = <<>> /\ task[w] = NoTask
        /\ \A k \in Tasks : tasks[k].exists /\ ~tasks[k].deleted => tasks[k].runs = 0

(* The program gets through its script: parallel and parallel_reduce return *)
(* and the join of KillThreads does not wait for ever.                      *)
ProgramEnds == <>(step = Len(Script) /\ at[Main] = "script")

=============================================================================
