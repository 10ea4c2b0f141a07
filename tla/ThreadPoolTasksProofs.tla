----------------------- MODULE ThreadPoolTasksProofs -----------------------
(* The life of the tasks of the thread pool, for any number of workers and   *)
(* any program of the main thread.                                           *)
EXTENDS ThreadPoolTasks, SequenceTheorems, TLAPS

(* What a task goes through: it is made, executed, counted, taken off its    *)
(* queue's account, and left; Left(TRUE) is deleted.                         *)
Record(runs, remaining, inTaskQueue) ==
    [exists |-> TRUE, runs |-> runs, remaining |-> remaining,
     inTaskQueue |-> inTaskQueue, execLoopDone |-> FALSE, deleted |-> FALSE]
Begun == Record(1, 1, TRUE)
Counted == Record(1, 0, TRUE)
Unflagged == Record(1, 0, FALSE)
Left(deleted) ==
    [exists |-> TRUE, runs |-> 1, remaining |-> 0, inTaskQueue |-> FALSE,
     execLoopDone |-> TRUE, deleted |-> deleted]
TaskStates ==
    {NoSuchTask, FreshTask, Begun, Counted, Unflagged, Left(TRUE), Left(FALSE)}

Busy == {"execute", "executed", "unflag", "leave"}
PhaseOf(place) ==
    CASE place = "execute" -> FreshTask
      [] place = "executed" -> Begun
      [] place = "unflag" -> Counted
      [] place = "leave" -> Unflagged

Types ==
    /\ step \in 0..Len(Script)
    /\ tasks \in [Tasks -> TaskStates]
    /\ queue \in [Workers -> Seq(Tasks)]
    /\ exitFlag \in [1..NumWorkers -> BOOLEAN]
    /\ running \subseteq Workers
    /\ at \in [Threads -> {"script", "push", "wait", "join", "loop", "drain",
                           "exited"} \union Busy]
    /\ task \in [Threads -> Tasks \union {NoTask}]
    /\ pushed \in 0..NumWorkers

(* A task is held exactly by a thread that executes it, in the phase it is   *)
(* in: one of a worker's own queue, or thread 0's part of a parallel_reduce. *)
HeldRight ==
    /\ \A t \in Threads :
          /\ task[t] # NoTask <=> at[t] \in Busy
          /\ task[t] # NoTask => tasks[task[t]] = PhaseOf(at[t])
    /\ \A w \in Workers : task[w] # NoTask => QueueOf(task[w]) = w
    /\ task[Main] # NoTask => task[Main] = TaskFor(0) /\ Kind = "reduce"

(* What is in a queue is there once, belongs there, and is in nobody's hands.*)
QueuesRight ==
    \A w \in Workers : \A i \in DOMAIN queue[w] :
        /\ QueueOf(queue[w][i]) = w
        /\ tasks[queue[w][i]] = FreshTask
        /\ \A t \in Threads : task[t] # queue[w][i]
        /\ \A j \in DOMAIN queue[w] : queue[w][j] = queue[w][i] => j = i

(* Tasks were made by the steps of the script until now.                     *)
MadeRight ==
    \A k \in Tasks : tasks[k] # NoSuchTask =>
        /\ k[1] <= step
        /\ k[2] = 0 => KindOf(k) = "reduce"
        /\ k[1] = step /\ at[Main] \in {"push"} \union Busy => k[2] < pushed

(* The children of a parallel do not outlive it.                             *)
ChildrenRight ==
    \A k \in Tasks : tasks[k] \notin {NoSuchTask, Left(TRUE)} /\ KindOf(k) = "parallel" =>
        k[1] = step /\ at[Main] \in {"push", "wait"}

(* A task that was begun is in somebody's hands until it is left, and only a *)
(* child of a parallel is then not deleted.                                  *)
BegunRight ==
    \A k \in Tasks :
        /\ tasks[k] \in {Begun, Counted, Unflagged} => \E t \in Threads : task[t] = k
        /\ tasks[k] = Left(FALSE) => KindOf(k) = "parallel"

(* Thread 0 and its workers.                                                 *)
MainRight ==
    /\ at[Main] \in {"script", "push", "wait", "join"} \union Busy
    /\ at[Main] \in {"push", "wait"} \union Busy => step > 0 /\ running # {}
    /\ at[Main] \in {"push"} \union Busy => pushed > 0 /\ (Kind = "async" => pushed = 1)
    /\ at[Main] = "push" => Kind \in {"parallel", "reduce", "async"}
    /\ \A w \in Workers : w \notin running => at[w] = "exited"
    /\ \A w \in Workers : at[w] \in {"loop", "drain", "exited"} \union Busy
    /\ running = {} /\ at[Main] = "script" => \A w \in Workers : queue[w] = <<>>

Inv ==
    /\ Types /\ HeldRight /\ QueuesRight /\ MadeRight /\ ChildrenRight
    /\ BegunRight /\ MainRight

-----------------------------------------------------------------------------
(* The states of a task are different, and each step leads to the next.      *)
TaskType ==
    [exists : BOOLEAN, runs : Nat, remaining : Nat, inTaskQueue : BOOLEAN,
     execLoopDone : BOOLEAN, deleted : BOOLEAN]

LEMMA StatesTyped == TaskStates \subseteq TaskType
  <1>1. FreshTask \in TaskType
    BY DEF TaskType, FreshTask
  <1>2. NoSuchTask \in TaskType
    <2>1. \A r \in TaskType : [r EXCEPT !.exists = FALSE] \in TaskType
      BY DEF TaskType
    <2> QED  BY <1>1, <2>1 DEF NoSuchTask
  <1>3. \A runs \in Nat, remaining \in Nat, flag \in BOOLEAN :
            Record(runs, remaining, flag) \in TaskType
    BY DEF TaskType, Record
  <1>4. \A d \in BOOLEAN : Left(d) \in TaskType
    BY DEF TaskType, Left
  <1>5. Begun \in TaskType /\ Counted \in TaskType /\ Unflagged \in TaskType
    BY <1>3 DEF Begun, Counted, Unflagged
  <1> QED  BY <1>1, <1>2, <1>4, <1>5 DEF TaskStates

LEMMA StatesDiffer ==
    /\ NoSuchTask \notin {FreshTask, Begun, Counted, Unflagged, Left(TRUE), Left(FALSE)}
    /\ FreshTask \notin {Begun, Counted, Unflagged, Left(TRUE), Left(FALSE)}
    /\ Begun \notin {Counted, Unflagged, Left(TRUE), Left(FALSE)}
    /\ Counted \notin {Unflagged, Left(TRUE), Left(FALSE)}
    /\ Unflagged \notin {Left(TRUE), Left(FALSE)}
    /\ Left(TRUE) # Left(FALSE)
  <1>1. /\ NoSuchTask.exists = FALSE /\ FreshTask.exists = TRUE
        /\ Begun.exists = TRUE /\ Counted.exists = TRUE /\ Unflagged.exists = TRUE
        /\ Left(TRUE).exists = TRUE /\ Left(FALSE).exists = TRUE
    BY DEF NoSuchTask, FreshTask, Begun, Counted, Unflagged, Left, Record
  <1>2. /\ FreshTask.runs # Begun.runs /\ FreshTask.runs # Counted.runs
        /\ FreshTask.runs # Unflagged.runs
    BY DEF FreshTask, Begun, Counted, Unflagged, Record
  <1>3. FreshTask.runs # Left(TRUE).runs /\ FreshTask.runs # Left(FALSE).runs
    BY DEF FreshTask, Left
  <1>4. Begun.remaining # Counted.remaining /\ Begun.remaining # Unflagged.remaining
    BY DEF Begun, Counted, Unflagged, Record
  <1>5. Begun.remaining # Left(TRUE).remaining /\ Begun.remaining # Left(FALSE).remaining
    BY DEF Begun, Left, Record
  <1>6. /\ Counted.inTaskQueue = TRUE /\ Unflagged.inTaskQueue = FALSE
        /\ Left(TRUE).inTaskQueue = FALSE /\ Left(FALSE).inTaskQueue = FALSE
    BY DEF Counted, Unflagged, Left, Record
  <1>7. /\ Unflagged.execLoopDone = FALSE /\ Left(TRUE).execLoopDone = TRUE
        /\ Left(FALSE).execLoopDone = TRUE
    BY DEF Unflagged, Left, Record
  <1>8. Left(TRUE).deleted = TRUE /\ Left(FALSE).deleted = FALSE
    BY DEF Left
  <1>9. NoSuchTask \notin {FreshTask, Begun, Counted, Unflagged, Left(TRUE), Left(FALSE)}
    BY <1>1
  <1>10. FreshTask \notin {Begun, Counted, Unflagged, Left(TRUE), Left(FALSE)}
    BY <1>2, <1>3
  <1>11. Begun \notin {Counted, Unflagged, Left(TRUE), Left(FALSE)}
    BY <1>4, <1>5
  <1>12. Counted \notin {Unflagged, Left(TRUE), Left(FALSE)}
    BY <1>6
  <1>13. Unflagged \notin {Left(TRUE), Left(FALSE)}
    BY <1>7
  <1>14. Left(TRUE) # Left(FALSE)
    BY <1>8
  <1> QED  BY <1>9, <1>10, <1>11, <1>12, <1>13, <1>14

LEMMA Updated ==
    ASSUME NEW r \in TaskType, NEW s \in TaskType,
           r.exists = s.exists, r.deleted = s.deleted
    PROVE  /\ r.remaining = s.remaining /\ r.inTaskQueue = s.inTaskQueue
                  /\ r.execLoopDone = s.execLoopDone => [r EXCEPT !.runs = s.runs] = s
           /\ r.runs = s.runs /\ r.inTaskQueue = s.inTaskQueue
                  /\ r.execLoopDone = s.execLoopDone => [r EXCEPT !.remaining = s.remaining] = s
           /\ r.runs = s.runs /\ r.remaining = s.remaining
                  /\ r.execLoopDone = s.execLoopDone => [r EXCEPT !.inTaskQueue = s.inTaskQueue] = s
  BY DEF TaskType

LEMMA Steps ==
    /\ [FreshTask EXCEPT !.runs = FreshTask.runs + 1] = Begun
    /\ [Begun EXCEPT !.remaining = Begun.remaining - 1] = Counted
    /\ [Counted EXCEPT !.inTaskQueue = FALSE] = Unflagged
    /\ \A d \in BOOLEAN : [Unflagged EXCEPT !.execLoopDone = TRUE, !.deleted = @ \/ d] = Left(d)
    /\ \A d \in BOOLEAN : [Left(d) EXCEPT !.deleted = TRUE] = Left(TRUE)
  <1>0. /\ FreshTask \in TaskType /\ Begun \in TaskType
        /\ Counted \in TaskType /\ Unflagged \in TaskType
        /\ \A d \in BOOLEAN : Left(d) \in TaskType
    BY StatesTyped DEF TaskStates
  <1>1. [FreshTask EXCEPT !.runs = FreshTask.runs + 1] = Begun
    <2>1. FreshTask.runs + 1 = Begun.runs
      BY DEF FreshTask, Begun, Record
    <2>2. /\ FreshTask.remaining = Begun.remaining /\ FreshTask.exists = Begun.exists
          /\ FreshTask.inTaskQueue = Begun.inTaskQueue /\ FreshTask.deleted = Begun.deleted
          /\ FreshTask.execLoopDone = Begun.execLoopDone
      BY DEF FreshTask, Begun, Record
    <2>3. [FreshTask EXCEPT !.runs = Begun.runs] = Begun
      BY <1>0, <2>2, Updated
    <2> QED  BY <2>1, <2>3
  <1>2. [Begun EXCEPT !.remaining = Begun.remaining - 1] = Counted
    <2>1. Begun.remaining - 1 = Counted.remaining
      BY DEF Begun, Counted, Record
    <2>2. /\ Begun.runs = Counted.runs /\ Begun.exists = Counted.exists
          /\ Begun.inTaskQueue = Counted.inTaskQueue /\ Begun.deleted = Counted.deleted
          /\ Begun.execLoopDone = Counted.execLoopDone
      BY DEF Begun, Counted, Record
    <2>3. [Begun EXCEPT !.remaining = Counted.remaining] = Counted
      BY <1>0, <2>2, Updated
    <2> QED  BY <2>1, <2>3
  <1>3. [Counted EXCEPT !.inTaskQueue = FALSE] = Unflagged
    <2>1. Unflagged.inTaskQueue = FALSE
      BY DEF Unflagged, Record
    <2>2. /\ Counted.runs = Unflagged.runs /\ Counted.exists = Unflagged.exists
          /\ Counted.remaining = Unflagged.remaining /\ Counted.deleted = Unflagged.deleted
          /\ Counted.execLoopDone = Unflagged.execLoopDone
      BY DEF Counted, Unflagged, Record
    <2>3. [Counted EXCEPT !.inTaskQueue = Unflagged.inTaskQueue] = Unflagged
      BY <1>0, <2>2, Updated
    <2> QED  BY <2>1, <2>3
  <1>4. ASSUME NEW d \in BOOLEAN
        PROVE  [Unflagged EXCEPT !.execLoopDone = TRUE, !.deleted = @ \/ d] = Left(d)
    <2>1. ASSUME NEW r \in TaskType, NEW s \in TaskType, r.runs = s.runs,
                 r.exists = s.exists, r.remaining = s.remaining,
                 r.inTaskQueue = s.inTaskQueue
          PROVE  [r EXCEPT !.execLoopDone = s.execLoopDone, !.deleted = s.deleted] = s
      BY <2>1 DEF TaskType
    <2>2. /\ Unflagged.runs = Left(d).runs /\ Unflagged.exists = Left(d).exists
          /\ Unflagged.remaining = Left(d).remaining
          /\ Unflagged.inTaskQueue = Left(d).inTaskQueue
      BY DEF Unflagged, Left, Record
    <2>3. Unflagged.deleted = FALSE /\ Left(d).deleted = d /\ Left(d).execLoopDone = TRUE
      BY DEF Unflagged, Left, Record
    <2>4. (Unflagged.deleted \/ d) = d
      BY <2>3
    <2>5. [Unflagged EXCEPT !.execLoopDone = Left(d).execLoopDone,
                            !.deleted = Left(d).deleted] = Left(d)
      BY <1>0, <2>1, <2>2
    <2>6. CASE d = TRUE
      BY <2>3, <2>4, <2>5, <2>6
    <2>7. CASE d = FALSE
      BY <2>3, <2>4, <2>5, <2>7
    <2> QED  BY <2>6, <2>7
  <1>5. ASSUME NEW d \in BOOLEAN PROVE [Left(d) EXCEPT !.deleted = TRUE] = Left(TRUE)
    <2>1. ASSUME NEW r \in TaskType, NEW s \in TaskType, r.runs = s.runs,
                 r.exists = s.exists, r.remaining = s.remaining,
                 r.inTaskQueue = s.inTaskQueue, r.execLoopDone = s.execLoopDone
          PROVE  [r EXCEPT !.deleted = s.deleted] = s
      BY <2>1 DEF TaskType
    <2>2. /\ Left(d).runs = Left(TRUE).runs /\ Left(d).exists = Left(TRUE).exists
          /\ Left(d).remaining = Left(TRUE).remaining
          /\ Left(d).inTaskQueue = Left(TRUE).inTaskQueue
          /\ Left(d).execLoopDone = Left(TRUE).execLoopDone
      BY DEF Left
    <2>3. Left(TRUE).deleted = TRUE /\ Left(TRUE) \in TaskType
      BY <1>0 DEF Left
    <2>4. [Left(d) EXCEPT !.deleted = Left(TRUE).deleted] = Left(TRUE)
      BY <1>0, <2>1, <2>2, <2>3
    <2> QED  BY <2>3, <2>4
  <1> QED  BY <1>1, <1>2, <1>3, <1>4, <1>5

LEMMA PhasesAre ==
    /\ PhaseOf("execute") = FreshTask /\ PhaseOf("executed") = Begun
    /\ PhaseOf("unflag") = Counted /\ PhaseOf("leave") = Unflagged
  BY DEF PhaseOf

LEMMA MainIsNoWorker == Main \notin Workers /\ Main \in Threads /\ Workers \subseteq Threads
  BY ThreadPoolTasksAssumption DEF Main, Workers, Threads, Kinds

LEMMA TasksArePairs ==
    /\ \A k \in Tasks : /\ k[1] \in DOMAIN Script /\ k[2] \in 0..NumWorkers
                        /\ k = <<k[1], k[2]>> /\ k # NoTask
    /\ \A s \in DOMAIN Script, n \in 0..NumWorkers :
          <<s, n>> \in Tasks /\ <<s, n>> # NoTask /\ <<s, n>>[1] = s /\ <<s, n>>[2] = n
  <1>1. ASSUME NEW k \in Tasks
        PROVE  /\ k[1] \in DOMAIN Script /\ k[2] \in 0..NumWorkers
               /\ k = <<k[1], k[2]>>
    BY DEF Tasks
  <1>2. \A a, b : <<a, b>> # NoTask
    BY DEF NoTask
  <1>3. ASSUME NEW s \in DOMAIN Script, NEW n \in 0..NumWorkers
        PROVE  <<s, n>> \in Tasks /\ <<s, n>>[1] = s /\ <<s, n>>[2] = n
    BY DEF Tasks
  <1> QED  BY <1>1, <1>2, <1>3

LEMMA ScriptKinds ==
    \A s \in DOMAIN Script : Script[s] \in {"parallel", "reduce", "async", "kill", "spawn"}
  BY ThreadPoolTasksAssumption

(* Nobody but the thread that executes a task holds it.                      *)
LEMMA OneHolder ==
    ASSUME Inv, NEW t \in Threads, NEW u \in Threads, task[t] # NoTask, task[t] = task[u]
    PROVE  t = u
  <1>1. CASE t \in Workers /\ u \in Workers
    BY <1>1 DEF Inv, HeldRight
  <1>2. ASSUME NEW w \in Workers, task[w] # NoTask, task[w] = task[Main] PROVE FALSE
    <2>1. QueueOf(task[w])[2] = w[2] /\ w[2] \in 1..NumWorkers
      BY <1>2 DEF Inv, HeldRight, Workers
    <2>2. task[w][2] = 0
      BY <1>2, TasksArePairs DEF Inv, HeldRight, TaskFor
    <2> QED  BY <2>1, <2>2 DEF QueueOf, WantedThread
  <1> QED  BY <1>1, <1>2 DEF Threads

(* Steps that leave the tasks alone, and the queues.                         *)
LEMMA SameQueues == ASSUME Inv, UNCHANGED <<queue, tasks, task>> PROVE QueuesRight'
  BY DEF Inv, QueuesRight

LEMMA SameBegun == ASSUME Inv, UNCHANGED <<tasks, task>> PROVE BegunRight'
  BY DEF Inv, BegunRight

-----------------------------------------------------------------------------
(* A thread goes through a task.                                             *)
LEMMA RunOn ==
    ASSUME Inv, NEW t \in Threads, NEW from \in {"execute", "executed", "unflag"},
           at[t] = from,
           NEW place \in {"executed", "unflag", "leave"},
           tasks' = [tasks EXCEPT ![task[t]] = PhaseOf(place)],
           at' = [at EXCEPT ![t] = place],
           UNCHANGED <<step, queue, exitFlag, running, task, pushed>>
    PROVE  Inv'
  <1> DEFINE k == task[t]
  <1>1. k \in Tasks /\ k # NoTask /\ tasks[k] \in {FreshTask, Begun, Counted}
    BY PhasesAre DEF Inv, Types, HeldRight, Busy
  <1>2. PhaseOf(place) \in {Begun, Counted, Unflagged}
    BY PhasesAre
  <1>3. \A u \in Threads : u # t => task[u] # k
    BY <1>1, OneHolder
  <1>4. \A u \in Threads : /\ at[u] \in Busy <=> at'[u] \in Busy
                           /\ u # t => at'[u] = at[u]
                           /\ u = t => at'[u] = place
    BY DEF Busy, Inv, Types
  <1>5. \A j \in Tasks : tasks'[j] = IF j = k THEN PhaseOf(place) ELSE tasks[j]
    BY <1>1 DEF Inv, Types
  <1> HIDE DEF k
  <1>6. Types'
    <2>1. tasks' \in [Tasks -> TaskStates]
      BY <1>1, <1>2, <1>5 DEF Inv, Types, TaskStates, k
    <2>2. at' \in [Threads -> {"script", "push", "wait", "join", "loop", "drain",
                               "exited"} \union Busy]
      BY DEF Inv, Types, Busy
    <2> QED  BY <2>1, <2>2 DEF Inv, Types
  <1>7. HeldRight'
    <2>1. ASSUME NEW u \in Threads
          PROVE  /\ task[u] # NoTask <=> at'[u] \in Busy
                 /\ task[u] # NoTask => tasks'[task[u]] = PhaseOf(at'[u])
      <3>1. task[u] # NoTask <=> at'[u] \in Busy
        BY <1>4 DEF Inv, HeldRight
      <3>2. CASE u = t
        BY <1>1, <1>4, <1>5, <3>1, <3>2 DEF k
      <3>3. CASE u # t
        BY <1>3, <1>4, <1>5, <3>1, <3>3 DEF Inv, HeldRight, Types
      <3> QED  BY <3>2, <3>3, <3>1
    <2> QED  BY <2>1 DEF Inv, HeldRight, Kind, TaskFor
  <1>8. QueuesRight'
    <2>1. ASSUME NEW w \in Workers, NEW i \in DOMAIN queue[w]
          PROVE  queue[w][i] # k /\ queue[w][i] \in Tasks
      BY DEF Inv, QueuesRight, Types, k
    <2> QED  BY <2>1, <1>5 DEF Inv, QueuesRight
  <1>9. \A j \in Tasks : /\ tasks'[j] = NoSuchTask <=> tasks[j] = NoSuchTask
                         /\ tasks'[j] = Left(TRUE) <=> tasks[j] = Left(TRUE)
                         /\ tasks'[j] = Left(FALSE) <=> tasks[j] = Left(FALSE)
    BY <1>1, <1>2, <1>5, StatesDiffer
  <1>10. \A S \in {{"push"} \union Busy, {"push", "wait"}, {"push", "wait"} \union Busy,
                   {"script"}, {"push"}} : at'[Main] \in S <=> at[Main] \in S
    BY <1>4, MainIsNoWorker DEF Busy, Inv, Types
  <1>11. MadeRight' /\ ChildrenRight'
    BY <1>9, <1>10 DEF Inv, MadeRight, ChildrenRight
  <1>12. BegunRight'
    <2>1. ASSUME NEW j \in Tasks, tasks'[j] \in {Begun, Counted, Unflagged}
          PROVE  \E u \in Threads : task[u] = j
      BY <1>5, <2>1 DEF Inv, BegunRight, k
    <2> QED  BY <2>1, <1>9 DEF Inv, BegunRight
  <1>13. MainRight'
    <2>1. at'[Main] \in {"script", "push", "wait", "join"} \union Busy
      BY <1>4, MainIsNoWorker DEF Inv, MainRight, Busy
    <2>2. \A w \in Workers : /\ w \notin running => at'[w] = "exited"
                             /\ at'[w] \in {"loop", "drain", "exited"} \union Busy
      BY <1>4, MainIsNoWorker DEF Inv, MainRight, Busy
    <2> QED  BY <1>10, <2>1, <2>2 DEF Inv, MainRight, Kind
  <1> QED  BY <1>6, <1>7, <1>8, <1>11, <1>12, <1>13 DEF Inv

LEMMA ExecuteInv == ASSUME Inv, NEW t \in Threads, Execute(t) PROVE Inv'
  <1>1. task[t] \in Tasks /\ tasks[task[t]] = FreshTask
    BY PhasesAre DEF Execute, Inv, Types, HeldRight, Busy
  <1>2. [tasks[task[t]] EXCEPT !.runs = tasks[task[t]].runs + 1] = Begun
    BY <1>1, Steps
  <1>3. tasks' = [tasks EXCEPT ![task[t]] = Begun]
    BY <1>1, <1>2 DEF Execute
  <1> QED  BY <1>3, RunOn, PhasesAre DEF Execute, Goto

LEMMA CountDownInv == ASSUME Inv, NEW t \in Threads, CountDown(t) PROVE Inv'
  <1>1. task[t] \in Tasks /\ tasks[task[t]] = Begun
    BY PhasesAre DEF CountDown, Inv, Types, HeldRight, Busy
  <1>2. [tasks[task[t]] EXCEPT !.remaining = tasks[task[t]].remaining - 1] = Counted
    BY <1>1, Steps
  <1>3. tasks' = [tasks EXCEPT ![task[t]] = Counted]
    BY <1>1, <1>2 DEF CountDown
  <1> QED  BY <1>3, RunOn, PhasesAre DEF CountDown, Goto

LEMMA ClearFlagInv == ASSUME Inv, NEW t \in Threads, ClearFlag(t) PROVE Inv'
  <1>1. task[t] \in Tasks /\ tasks[task[t]] = Counted
    BY PhasesAre DEF ClearFlag, Inv, Types, HeldRight, Busy
  <1>2. [tasks[task[t]] EXCEPT !.inTaskQueue = FALSE] = Unflagged
    BY <1>1, Steps
  <1>3. tasks' = [tasks EXCEPT ![task[t]] = Unflagged]
    BY <1>1, <1>2 DEF ClearFlag
  <1> QED  BY <1>3, RunOn, PhasesAre DEF ClearFlag, Goto

(* A task is left, and deleted unless a parallel waits for it.               *)
LEMMA LeaveLoopInv == ASSUME Inv, NEW t \in Threads, LeaveLoop(t) PROVE Inv'
  <1> DEFINE k == task[t]
             d == SelfDelete(k)
             next == IF t = Main THEN "push" ELSE "drain"
  <1>1. k \in Tasks /\ k # NoTask /\ tasks[k] = Unflagged /\ d \in BOOLEAN
        /\ at[t] = "leave"
    BY PhasesAre DEF LeaveLoop, Inv, Types, HeldRight, Busy, SelfDelete
  <1>2. tasks' = [tasks EXCEPT ![k] = Left(d)]
    <2>1. tasks' = [tasks EXCEPT ![k] = [tasks[k] EXCEPT !.execLoopDone = TRUE,
                                                        !.deleted = @ \/ d]]
      BY DEF LeaveLoop
    <2> HIDE DEF d, k
    <2> QED  BY <1>1, <2>1, Steps
  <1>3. /\ task' = [task EXCEPT ![t] = NoTask] /\ at' = [at EXCEPT ![t] = next]
        /\ UNCHANGED <<step, queue, exitFlag, running, pushed>>
    BY DEF LeaveLoop, Goto
  <1>4. \A u \in Threads : u # t => task[u] # k
    BY <1>1, OneHolder
  <1>5. \A j \in Tasks : tasks'[j] = IF j = k THEN Left(d) ELSE tasks[j]
    BY <1>1, <1>2 DEF Inv, Types
  <1>6. \A u \in Threads : /\ at'[u] = IF u = t THEN next ELSE at[u]
                           /\ task'[u] = IF u = t THEN NoTask ELSE task[u]
    BY <1>3 DEF Inv, Types
  <1>7. d <=> KindOf(k) # "parallel"
    BY DEF SelfDelete
  <1>8. Left(d) \in {Left(TRUE), Left(FALSE)} /\ Left(d) \in TaskStates
    BY <1>1 DEF TaskStates
  <1> HIDE DEF d, k
  <1>9. Types'
    <2>1. tasks' \in [Tasks -> TaskStates]
      BY <1>1, <1>2, <1>8 DEF Inv, Types
    <2> QED  BY <1>3, <2>1 DEF Inv, Types
  <1>10. HeldRight'
    <2>1. ASSUME NEW u \in Threads
          PROVE  /\ task'[u] # NoTask <=> at'[u] \in Busy
                 /\ task'[u] # NoTask => tasks'[task'[u]] = PhaseOf(at'[u])
      <3>1. CASE u = t
        BY <1>6, <3>1 DEF Busy
      <3>2. CASE u # t
        BY <1>4, <1>5, <1>6, <3>2 DEF Inv, HeldRight, Types
      <3> QED  BY <3>1, <3>2
    <2>2. \A w \in Workers : task'[w] # NoTask => QueueOf(task'[w]) = w
      BY <1>6, MainIsNoWorker DEF Inv, HeldRight
    <2>3. task'[Main] # NoTask => task'[Main] = TaskFor(0)' /\ Kind' = "reduce"
      BY <1>3, <1>6, MainIsNoWorker DEF Inv, HeldRight, TaskFor, Kind
    <2> QED  BY <2>1, <2>2, <2>3 DEF HeldRight
  <1>11. QueuesRight'
    <2>1. ASSUME NEW w \in Workers, NEW i \in DOMAIN queue[w]
          PROVE  queue[w][i] # k /\ queue[w][i] \in Tasks
      BY DEF Inv, QueuesRight, Types, k
    <2>2. ASSUME NEW w \in Workers, NEW i \in DOMAIN queue[w], NEW u \in Threads
          PROVE  task'[u] # queue[w][i]
      BY <1>6, <2>1, TasksArePairs DEF Inv, QueuesRight
    <2> QED  BY <2>1, <2>2, <1>3, <1>5 DEF Inv, QueuesRight
  <1>12. \A j \in Tasks : tasks'[j] = NoSuchTask <=> tasks[j] = NoSuchTask
    BY <1>1, <1>5, <1>8, StatesDiffer
  <1>13. at'[Main] \in {"push"} \union Busy => at[Main] \in {"push"} \union Busy
    BY <1>1, <1>6, MainIsNoWorker DEF Busy
  <1>14. /\ at'[Main] \in {"push", "wait"} \union Busy => at[Main] \in {"push", "wait"} \union Busy
         /\ at'[Main] = "script" => at[Main] = "script"
    BY <1>1, <1>6, MainIsNoWorker DEF Busy
  <1>15. MadeRight'
    BY <1>3, <1>12, <1>13 DEF Inv, MadeRight
  <1>16. ChildrenRight'
    <2>1. ASSUME NEW j \in Tasks, tasks'[j] \notin {NoSuchTask, Left(TRUE)},
                 KindOf(j) = "parallel"
          PROVE  tasks[j] \notin {NoSuchTask, Left(TRUE)}
      BY <1>1, <1>5, <2>1, StatesDiffer
    <2>2. at[Main] \in {"push", "wait"} => at'[Main] \in {"push", "wait"}
      BY <1>1, <1>6, MainIsNoWorker
    <2> QED  BY <1>3, <2>1, <2>2 DEF Inv, ChildrenRight
  <1>17. BegunRight'
    <2>1. ASSUME NEW j \in Tasks, tasks'[j] \in {Begun, Counted, Unflagged}
          PROVE  \E u \in Threads : task'[u] = j
      <3>1. j # k /\ tasks[j] \in {Begun, Counted, Unflagged}
        BY <1>5, <1>8, <2>1, StatesDiffer
      <3>2. PICK u \in Threads : task[u] = j
        BY <3>1 DEF Inv, BegunRight
      <3> QED  BY <1>6, <3>1, <3>2 DEF k
    <2>2. ASSUME NEW j \in Tasks, tasks'[j] = Left(FALSE) PROVE KindOf(j) = "parallel"
      <3>1. CASE j = k
        BY <1>1, <1>5, <1>7, <2>2, <3>1, StatesDiffer
      <3>2. CASE j # k
        BY <1>5, <2>2, <3>2 DEF Inv, BegunRight
      <3> QED  BY <3>1, <3>2
    <2> QED  BY <2>1, <2>2 DEF BegunRight
  <1>18. MainRight'
    <2>1. at'[Main] \in {"script", "push", "wait", "join"} \union Busy
      BY <1>6, MainIsNoWorker DEF Inv, MainRight
    <2>2. \A w \in Workers : /\ w \notin running => at'[w] = "exited"
                             /\ at'[w] \in {"loop", "drain", "exited"} \union Busy
      BY <1>1, <1>6, MainIsNoWorker DEF Inv, MainRight
    <2>3. at'[Main] = "push" => Kind \in {"parallel", "reduce", "async"}
      <3>1. CASE t = Main
        BY <1>1, <3>1 DEF Inv, HeldRight, k
      <3>2. CASE t # Main
        BY <1>6, <3>2, MainIsNoWorker DEF Inv, MainRight
      <3> QED  BY <3>1, <3>2
    <2> QED  BY <1>3, <1>13, <1>14, <2>1, <2>2, <2>3 DEF Inv, MainRight, Kind
  <1> QED  BY <1>9, <1>10, <1>11, <1>15, <1>16, <1>17, <1>18 DEF Inv

-----------------------------------------------------------------------------
(* A worker looks for work, or leaves.                                       *)
LEMMA WalkInv ==
    ASSUME Inv, NEW w \in Workers, NEW place \in {"loop", "drain", "exited"},
           w \in running \/ place = "exited", at[w] \notin Busy,
           at' = [at EXCEPT ![w] = place],
           UNCHANGED <<step, tasks, queue, exitFlag, running, task, pushed>>
    PROVE  Inv'
  <1>1. \A u \in Threads : at'[u] = IF u = w THEN place ELSE at[u]
    BY MainIsNoWorker DEF Inv, Types
  <1>2. at'[Main] = at[Main]
    BY <1>1, MainIsNoWorker
  <1>3. Types'
    BY DEF Inv, Types
  <1>4. HeldRight'
    <2>1. ASSUME NEW u \in Threads
          PROVE  /\ task[u] # NoTask <=> at'[u] \in Busy
                 /\ task[u] # NoTask => tasks[task[u]] = PhaseOf(at'[u])
      BY <1>1 DEF Inv, HeldRight, Busy
    <2> QED  BY <2>1 DEF Inv, HeldRight, TaskFor, Kind
  <1>5. QueuesRight' /\ MadeRight' /\ ChildrenRight' /\ BegunRight'
    <2>1. QueuesRight' /\ BegunRight'
      BY SameQueues, SameBegun
    <2>2. MadeRight' /\ ChildrenRight'
      BY <1>2 DEF Inv, MadeRight, ChildrenRight
    <2> QED  BY <2>1, <2>2
  <1>6. MainRight'
    BY <1>1, <1>2, MainIsNoWorker DEF Inv, MainRight, Kind
  <1> QED  BY <1>3, <1>4, <1>5, <1>6 DEF Inv

LEMMA StayInRunning ==
    ASSUME Inv, NEW w \in Workers, at[w] # "exited" PROVE w \in running
  BY DEF Inv, MainRight

LEMMA DequeueInv == ASSUME Inv, NEW w \in Workers, Dequeue(w) PROVE Inv'
  <1> DEFINE k == Head(queue[w])
  <1>1. /\ queue[w] \in Seq(Tasks) /\ queue[w] # <<>> /\ at[w] = "drain"
        /\ w \in Threads /\ w # Main
    BY MainIsNoWorker DEF Dequeue, Inv, Types
  <1>2. /\ 1 \in DOMAIN queue[w] /\ k = queue[w][1] /\ k \in Tasks
        /\ Tail(queue[w]) \in Seq(Tasks)
        /\ \A i \in DOMAIN Tail(queue[w]) :
              i + 1 \in DOMAIN queue[w] /\ Tail(queue[w])[i] = queue[w][i + 1] /\ i \in Nat
              /\ i + 1 # 1
    BY <1>1
  <1>3. /\ task' = [task EXCEPT ![w] = k] /\ queue' = [queue EXCEPT ![w] = Tail(queue[w])]
        /\ at' = [at EXCEPT ![w] = "execute"]
        /\ UNCHANGED <<step, tasks, exitFlag, running, pushed>>
    BY DEF Dequeue, Goto
  <1>4. /\ QueueOf(k) = w /\ tasks[k] = FreshTask /\ k # NoTask
        /\ \A t \in Threads : task[t] # k
        /\ \A j \in DOMAIN queue[w] : queue[w][j] = k => j = 1
    BY <1>2, TasksArePairs DEF Inv, QueuesRight
  <1> HIDE DEF k
  <1>5. \A u \in Threads : /\ at'[u] = IF u = w THEN "execute" ELSE at[u]
                           /\ task'[u] = IF u = w THEN k ELSE task[u]
    BY <1>3 DEF Inv, Types
  <1>6. at'[Main] = at[Main] /\ task'[Main] = task[Main]
    BY <1>1, <1>5, MainIsNoWorker
  <1>7. Types'
    BY <1>1, <1>2, <1>3 DEF Inv, Types, Busy
  <1>8. HeldRight'
    <2>1. ASSUME NEW u \in Threads
          PROVE  /\ task'[u] # NoTask <=> at'[u] \in Busy
                 /\ task'[u] # NoTask => tasks[task'[u]] = PhaseOf(at'[u])
      BY <1>4, <1>5, PhasesAre DEF Inv, HeldRight, Busy
    <2>2. \A v \in Workers : task'[v] # NoTask => QueueOf(task'[v]) = v
      BY <1>4, <1>5, MainIsNoWorker DEF Inv, HeldRight
    <2> QED  BY <1>3, <1>6, <2>1, <2>2 DEF Inv, HeldRight, TaskFor, Kind
  <1>9. QueuesRight'
    <2>1. ASSUME NEW v \in Workers, NEW i \in DOMAIN queue'[v]
          PROVE  /\ QueueOf(queue'[v][i]) = v
                 /\ tasks[queue'[v][i]] = FreshTask
                 /\ \A t \in Threads : task'[t] # queue'[v][i]
                 /\ \A j \in DOMAIN queue'[v] : queue'[v][j] = queue'[v][i] => j = i
      <3>1. CASE v = w
        <4>1. queue'[v] = Tail(queue[w])
          BY <1>3, <3>1 DEF Inv, Types
        <4>2. /\ i + 1 \in DOMAIN queue[w] /\ queue'[v][i] = queue[w][i + 1]
              /\ queue[w][i + 1] # k /\ i \in Nat
          BY <1>2, <1>4, <4>1
        <4>3. \A j \in DOMAIN queue'[v] : queue'[v][j] = queue'[v][i] => j = i
          <5>1. ASSUME NEW j \in DOMAIN queue'[v], queue'[v][j] = queue'[v][i] PROVE j = i
            <6>1. /\ j + 1 \in DOMAIN queue[w] /\ queue'[v][j] = queue[w][j + 1] /\ j \in Nat
              BY <1>2, <4>1
            <6>2. j + 1 = i + 1
              BY <4>2, <5>1, <6>1 DEF Inv, QueuesRight
            <6> QED  BY <4>2, <6>1, <6>2
          <5> QED  BY <5>1
        <4>4. \A t \in Threads : task'[t] # queue'[v][i]
          BY <1>5, <4>2 DEF Inv, QueuesRight
        <4> QED  BY <3>1, <4>2, <4>3, <4>4 DEF Inv, QueuesRight
      <3>2. CASE v # w
        <4>1. queue'[v] = queue[v]
          BY <1>3, <3>2 DEF Inv, Types
        <4>2. queue[v][i] # k
          BY <1>4, <3>2, <4>1 DEF Inv, QueuesRight
        <4> QED  BY <1>5, <4>1, <4>2 DEF Inv, QueuesRight
      <3> QED  BY <3>1, <3>2
    <2> QED  BY <1>3, <2>1 DEF QueuesRight
  <1>10. MadeRight' /\ ChildrenRight'
    BY <1>3, <1>6 DEF Inv, MadeRight, ChildrenRight
  <1>11. BegunRight'
    <2>1. ASSUME NEW j \in Tasks, tasks[j] \in {Begun, Counted, Unflagged}
          PROVE  \E u \in Threads : task'[u] = j
      <3>1. PICK u \in Threads : task[u] = j
        BY <2>1 DEF Inv, BegunRight
      <3>2. u # w
        BY <1>1, <2>1, <3>1, TasksArePairs DEF Inv, HeldRight, Busy
      <3> QED  BY <1>5, <3>1, <3>2
    <2> QED  BY <1>3, <2>1 DEF Inv, BegunRight
  <1>12. MainRight'
    <2>1. \A v \in Workers : /\ v \notin running => at'[v] = "exited"
                             /\ at'[v] \in {"loop", "drain", "exited"} \union Busy
      BY <1>1, <1>5, StayInRunning, MainIsNoWorker DEF Inv, MainRight, Busy
    <2>2. running # {}
      BY <1>1, StayInRunning
    <2> QED  BY <1>3, <1>6, <2>1, <2>2 DEF Inv, MainRight, Kind
  <1> QED  BY <1>7, <1>8, <1>9, <1>10, <1>11, <1>12 DEF Inv

LEMMA WorkInv == ASSUME Inv, NEW w \in Workers, Work(w) PROVE Inv'
  <1>1. CASE LookForTasks(w)
    BY <1>1, WalkInv DEF LookForTasks, Goto, Busy
  <1>2. CASE ExitLoop(w)
    BY <1>2, WalkInv DEF ExitLoop, Goto, Busy
  <1>3. CASE Dequeue(w)
    BY <1>3, DequeueInv
  <1>4. CASE QueueEmpty(w)
    BY <1>4, WalkInv, StayInRunning DEF QueueEmpty, Goto, Busy
  <1> QED  BY <1>1, <1>2, <1>3, <1>4 DEF Work

-----------------------------------------------------------------------------
(* Thread 0.  No task of a step that was not begun has been made.            *)
LEMMA NextStepFacts ==
    ASSUME Inv, NEW what, NextStep(what)
    PROVE  /\ at[Main] = "script" /\ step + 1 \in DOMAIN Script /\ step + 1 \in 0..Len(Script)
           /\ step' = step + 1 /\ Script[step + 1] = what /\ task[Main] = NoTask
           /\ \A k \in Tasks : tasks[k] # NoSuchTask => k[1] # step + 1
           /\ \A k \in Tasks : tasks[k] \notin {NoSuchTask, Left(TRUE)}
                                  => KindOf(k) # "parallel"
           /\ step \in Nat
  <1>1. at[Main] = "script" /\ step' = step + 1 /\ Script[step + 1] = what
        /\ step < Len(Script)
    BY DEF NextStep
  <1>2. step + 1 \in DOMAIN Script /\ step + 1 \in 0..Len(Script) /\ step \in Nat
    BY <1>1, ThreadPoolTasksAssumption DEF Inv, Types
  <1>3. task[Main] = NoTask
    BY <1>1, MainIsNoWorker DEF Inv, HeldRight, Busy
  <1>4. \A k \in Tasks : tasks[k] # NoSuchTask => k[1] # step + 1
    BY <1>2 DEF Inv, MadeRight, Tasks
  <1>5. \A k \in Tasks : tasks[k] \notin {NoSuchTask, Left(TRUE)} => KindOf(k) # "parallel"
    BY <1>1 DEF Inv, ChildrenRight
  <1> QED  BY <1>1, <1>2, <1>3, <1>4, <1>5

(* Thread 0 goes on without touching a task.                                 *)
LEMMA MainInv ==
    ASSUME Inv, at[Main] \in {"script", "push", "wait", "join"},
           NEW place \in {"script", "push", "wait", "join"},
           at' = [at EXCEPT ![Main] = place],
           UNCHANGED <<tasks, task>>,
           step' \in 0..Len(Script), step' \in {step, step + 1},
           pushed' \in 0..NumWorkers,
           exitFlag' \in [1..NumWorkers -> BOOLEAN],
           UNCHANGED running,
           queue' \in [Workers -> Seq(Tasks)],
           QueuesRight', ChildrenRight',
           \A k \in Tasks : tasks[k] # NoSuchTask /\ k[1] = step' /\ place = "push"
                               => k[2] < pushed',
           place \in {"push", "wait"} => step' > 0 /\ running # {},
           place = "push" => /\ pushed' > 0 /\ (Kind' = "async" => pushed' = 1)
                             /\ Kind' \in {"parallel", "reduce", "async"},
           running = {} /\ place = "script" => \A w \in Workers : queue'[w] = <<>>
    PROVE  Inv'
  <1>1. \A u \in Threads : at'[u] = IF u = Main THEN place ELSE at[u]
    BY MainIsNoWorker DEF Inv, Types
  <1>2. at'[Main] = place /\ place \notin Busy /\ at[Main] \notin Busy
    BY <1>1, MainIsNoWorker DEF Busy
  <1>3. Types'
    BY DEF Inv, Types
  <1>4. HeldRight'
    <2>1. ASSUME NEW u \in Threads
          PROVE  /\ task[u] # NoTask <=> at'[u] \in Busy
                 /\ task[u] # NoTask => tasks[task[u]] = PhaseOf(at'[u])
      BY <1>1, <1>2 DEF Inv, HeldRight
    <2>2. task[Main] = NoTask
      BY <1>2, MainIsNoWorker DEF Inv, HeldRight
    <2> QED  BY <2>1, <2>2 DEF Inv, HeldRight
  <1>5. MadeRight'
    <2>1. ASSUME NEW k \in Tasks, tasks[k] # NoSuchTask
          PROVE  k[1] <= step' /\ (k[2] = 0 => KindOf(k) = "reduce")
      <3>1. k[1] <= step /\ (k[2] = 0 => KindOf(k) = "reduce") /\ step \in Nat /\ k[1] \in Int
        BY <2>1, TasksArePairs, ThreadPoolTasksAssumption DEF Inv, MadeRight, Types
      <3> QED  BY <3>1
    <2> QED  BY <1>2, <2>1 DEF MadeRight
  <1>6. BegunRight'
    BY DEF Inv, BegunRight
  <1>7. MainRight'
    <2>1. \A w \in Workers : /\ w \notin running => at'[w] = "exited"
                             /\ at'[w] \in {"loop", "drain", "exited"} \union Busy
      BY <1>1, MainIsNoWorker DEF Inv, MainRight
    <2> QED  BY <1>2, <2>1 DEF MainRight
  <1> QED  BY <1>3, <1>4, <1>5, <1>6, <1>7 DEF Inv

LEMMA CallFunctionInv == ASSUME Inv, CallFunction PROVE Inv'
  <1>1. PICK what \in {"parallel", "reduce", "async"} : NextStep(what)
    BY DEF CallFunction
  <1>2. UNCHANGED <<tasks, queue, exitFlag, running, at, task, pushed>> /\ running = {}
    BY DEF CallFunction
  <1>3. at' = [at EXCEPT ![Main] = "script"]
    BY <1>1, <1>2, NextStepFacts DEF Inv, Types
  <1>4. ChildrenRight'
    BY <1>1, <1>2, NextStepFacts DEF ChildrenRight
  <1>5. \A w \in Workers : queue[w] = <<>>
    BY <1>1, <1>2, NextStepFacts DEF Inv, MainRight
  <1>6. step' \in 0..Len(Script) /\ step' = step + 1 /\ at[Main] = "script"
    BY <1>1, NextStepFacts
  <1>7. /\ pushed' \in 0..NumWorkers /\ exitFlag' \in [1..NumWorkers -> BOOLEAN]
        /\ queue' \in [Workers -> Seq(Tasks)] /\ QueuesRight'
    BY <1>2, SameQueues DEF Inv, Types
  <1> QED  BY <1>2, <1>3, <1>4, <1>5, <1>6, <1>7, MainInv

LEMMA KillInv == ASSUME Inv, Kill PROVE Inv'
  <1>1. NextStep("kill") /\ at' = [at EXCEPT ![Main] = "join"]
        /\ UNCHANGED <<tasks, queue, running, task, pushed>>
        /\ exitFlag' \in [1..NumWorkers -> BOOLEAN]
    BY DEF Kill, Goto
  <1>2. ChildrenRight'
    BY <1>1, NextStepFacts DEF ChildrenRight
  <1>3. step' \in 0..Len(Script) /\ step' = step + 1 /\ at[Main] = "script"
    BY <1>1, NextStepFacts
  <1>4. pushed' \in 0..NumWorkers /\ queue' \in [Workers -> Seq(Tasks)] /\ QueuesRight'
    BY <1>1, SameQueues DEF Inv, Types
  <1> QED  BY <1>1, <1>2, <1>3, <1>4, MainInv

LEMMA ReduceReturnsInv == ASSUME Inv, ReduceReturns PROVE Inv'
  <1>1. at[Main] = "wait" /\ at' = [at EXCEPT ![Main] = "script"] /\ Kind = "reduce"
        /\ UNCHANGED <<step, tasks, queue, exitFlag, running, task, pushed>>
    BY DEF ReduceReturns, Goto
  <1>2. ChildrenRight'
    <2>1. ASSUME NEW k \in Tasks, tasks[k] \notin {NoSuchTask, Left(TRUE)},
                 KindOf(k) = "parallel" PROVE FALSE
      BY <1>1, <2>1 DEF Inv, ChildrenRight, KindOf, Kind
    <2> QED  BY <1>1, <2>1 DEF ChildrenRight
  <1>3. running # {}
    BY <1>1 DEF Inv, MainRight
  <1>4. /\ step' \in 0..Len(Script) /\ pushed' \in 0..NumWorkers
        /\ exitFlag' \in [1..NumWorkers -> BOOLEAN]
        /\ queue' \in [Workers -> Seq(Tasks)] /\ QueuesRight'
    BY <1>1, SameQueues DEF Inv, Types
  <1> QED  BY <1>1, <1>2, <1>3, <1>4, MainInv

LEMMA DropQueuesInv == ASSUME Inv, DropQueues PROVE Inv'
  <1>1. at[Main] = "join" /\ at' = [at EXCEPT ![Main] = "script"]
        /\ queue' = [w \in Workers |-> <<>>]
        /\ UNCHANGED <<step, tasks, exitFlag, running, task, pushed>>
    BY DEF DropQueues, Goto
  <1>2. ChildrenRight' /\ QueuesRight'
    <2>1. ChildrenRight'
      BY <1>1, MainIsNoWorker DEF Inv, ChildrenRight, Types
    <2>2. QueuesRight'
      BY <1>1 DEF QueuesRight
    <2> QED  BY <2>1, <2>2
  <1>3. /\ step' \in 0..Len(Script) /\ pushed' \in 0..NumWorkers
        /\ exitFlag' \in [1..NumWorkers -> BOOLEAN]
        /\ queue' \in [Workers -> Seq(Tasks)]
    BY <1>1 DEF Inv, Types
  <1>4. \A w \in Workers : queue'[w] = <<>>
    BY <1>1
  <1> QED  BY <1>1, <1>2, <1>3, <1>4, MainInv

LEMMA JoinInv == ASSUME Inv, Join PROVE Inv'
  <1>1. /\ at[Main] = "join" /\ UNCHANGED <<step, tasks, queue, exitFlag, at, task, pushed>>
        /\ running' \subseteq running
        /\ \A w \in running : w \notin running' => at[w] = "exited"
    BY DEF Join
  <1>2. Types'
    BY <1>1 DEF Inv, Types
  <1>3. HeldRight' /\ QueuesRight' /\ BegunRight'
    <2>1. QueuesRight' /\ BegunRight'
      BY <1>1, SameQueues, SameBegun
    <2>2. HeldRight'
      BY <1>1 DEF Inv, HeldRight, TaskFor, Kind
    <2> QED  BY <2>1, <2>2
  <1>4. MadeRight' /\ ChildrenRight'
    BY <1>1 DEF Inv, MadeRight, ChildrenRight
  <1>5. MainRight'
    <2>1. \A w \in Workers : w \notin running' => at'[w] = "exited"
      BY <1>1 DEF Inv, MainRight
    <2> QED  BY <1>1, <2>1 DEF Inv, MainRight, Busy
  <1> QED  BY <1>2, <1>3, <1>4, <1>5 DEF Inv

LEMMA SpawnInv == ASSUME Inv, Spawn PROVE Inv'
  <1>1. NextStep("spawn") /\ running = {} /\ running' = Workers
        /\ exitFlag' \in [1..NumWorkers -> BOOLEAN]
        /\ at' = [t \in Threads |-> IF t = Main THEN "script" ELSE "loop"]
        /\ UNCHANGED <<tasks, queue, task, pushed>>
    BY DEF Spawn
  <1>2. /\ at'[Main] = "script" /\ \A w \in Workers : at'[w] = "loop"
        /\ \A t \in Threads : at'[t] \notin Busy
    BY <1>1, MainIsNoWorker DEF Busy
  <1>3. \A t \in Threads : task[t] = NoTask
    <2>1. task[Main] = NoTask
      BY <1>1, NextStepFacts
    <2>2. \A w \in Workers : task[w] = NoTask
      BY <1>1, MainIsNoWorker DEF Inv, MainRight, HeldRight, Busy
    <2> QED  BY <2>1, <2>2 DEF Threads
  <1>4. Types'
    BY <1>1, NextStepFacts DEF Inv, Types
  <1>5. HeldRight'
    BY <1>1, <1>2, <1>3, MainIsNoWorker DEF HeldRight
  <1>6. QueuesRight' /\ BegunRight'
    BY <1>1, SameQueues, SameBegun
  <1>7. MadeRight'
    <2>1. ASSUME NEW k \in Tasks, tasks[k] # NoSuchTask
          PROVE  k[1] <= step' /\ (k[2] = 0 => KindOf(k) = "reduce")
      <3>1. /\ k[1] <= step /\ (k[2] = 0 => KindOf(k) = "reduce") /\ step \in Nat
            /\ k[1] \in Int /\ step' = step + 1
        <4>1. k[1] <= step /\ (k[2] = 0 => KindOf(k) = "reduce")
          BY <2>1 DEF Inv, MadeRight
        <4>2. step \in Nat /\ step' = step + 1
          BY <1>1, NextStepFacts
        <4>3. k[1] \in Int
          BY TasksArePairs, ThreadPoolTasksAssumption
        <4> QED  BY <4>1, <4>2, <4>3
      <3> QED  BY <3>1
    <2> QED  BY <1>1, <1>2, <2>1 DEF MadeRight, Busy
  <1>8. ChildrenRight'
    BY <1>1, NextStepFacts DEF ChildrenRight
  <1>9. MainRight'
    <2>1. \A w \in Workers : queue[w] = <<>>
      BY <1>1, NextStepFacts DEF Inv, MainRight
    <2> QED  BY <1>1, <1>2, <2>1 DEF MainRight, Busy
  <1> QED  BY <1>4, <1>5, <1>6, <1>7, <1>8, <1>9 DEF Inv

LEMMA SubmitInv == ASSUME Inv, Submit PROVE Inv'
  <1>1. PICK what \in {"parallel", "reduce", "async"} :
           /\ NextStep(what)
           /\ IF what = "reduce"
              THEN /\ tasks' = [tasks EXCEPT ![<<step + 1, 0>>] = FreshTask]
                   /\ task' = [task EXCEPT ![Main] = <<step + 1, 0>>]
                   /\ at' = [at EXCEPT ![Main] = "execute"]
              ELSE UNCHANGED <<tasks, task>> /\ at' = [at EXCEPT ![Main] = "push"]
    BY DEF Submit, Goto
  <1>2. running # {} /\ pushed' = 1 /\ UNCHANGED <<queue, exitFlag, running>>
    BY DEF Submit
  <1>3. /\ at[Main] = "script" /\ step + 1 \in DOMAIN Script /\ step' \in 0..Len(Script)
        /\ step' = step + 1 /\ Kind' = what /\ task[Main] = NoTask /\ step \in Nat
        /\ \A k \in Tasks : tasks[k] # NoSuchTask => k[1] # step'
        /\ \A k \in Tasks : tasks[k] \notin {NoSuchTask, Left(TRUE)} => KindOf(k) # "parallel"
    BY <1>1, NextStepFacts DEF Kind
  <1>4. 1 \in 0..NumWorkers
    BY ThreadPoolTasksAssumption
  <1>5. CASE what # "reduce"
    <2>1. ChildrenRight'
      BY <1>1, <1>3, <1>5 DEF ChildrenRight
    <2>2. /\ exitFlag' \in [1..NumWorkers -> BOOLEAN]
          /\ queue' \in [Workers -> Seq(Tasks)] /\ QueuesRight'
      BY <1>1, <1>2, <1>5, SameQueues DEF Inv, Types
    <2>3. step' > 0
      BY <1>3
    <2> QED  BY <1>1, <1>2, <1>3, <1>4, <1>5, <2>1, <2>2, <2>3, MainInv
  <1>6. CASE what = "reduce"
    <2> DEFINE own == <<step + 1, 0>>
    <2>1. /\ own \in Tasks /\ own # NoTask /\ own[1] = step' /\ own[2] = 0
          /\ KindOf(own) = "reduce" /\ own = TaskFor(0)'
      <3>1. own \in Tasks /\ own # NoTask /\ own[1] = step + 1 /\ own[2] = 0
        <4>1. 0 \in 0..NumWorkers /\ step + 1 \in DOMAIN Script
          BY <1>3, ThreadPoolTasksAssumption
        <4>2. /\ <<step + 1, 0>> \in Tasks /\ <<step + 1, 0>> # NoTask
              /\ <<step + 1, 0>>[1] = step + 1 /\ <<step + 1, 0>>[2] = 0
          BY <4>1, TasksArePairs
        <4> QED  BY <4>2
      <3>2. KindOf(own) = "reduce"
        BY <1>3, <1>6, <3>1 DEF KindOf, Kind
      <3>3. own = TaskFor(0)'
        BY <1>3 DEF TaskFor
      <3> QED  BY <1>3, <3>1, <3>2, <3>3
    <2>2. tasks[own] = NoSuchTask
      BY <1>3, <2>1
    <2> HIDE DEF own
    <2>3. /\ tasks' = [tasks EXCEPT ![own] = FreshTask]
          /\ task' = [task EXCEPT ![Main] = own]
          /\ at' = [at EXCEPT ![Main] = "execute"]
      BY <1>1, <1>6 DEF own
    <2>4. /\ \A u \in Threads : /\ at'[u] = IF u = Main THEN "execute" ELSE at[u]
                                /\ task'[u] = IF u = Main THEN own ELSE task[u]
          /\ \A j \in Tasks : tasks'[j] = IF j = own THEN FreshTask ELSE tasks[j]
      BY <2>1, <2>3, MainIsNoWorker DEF Inv, Types
    <2>5. \A u \in Threads : task[u] # own
      BY <2>1, <2>2, PhasesAre, StatesDiffer DEF Inv, HeldRight, Busy
    <2>6. \A w \in Workers : \A i \in DOMAIN queue[w] : queue[w][i] # own /\ queue[w][i] \in Tasks
      <3>1. ASSUME NEW w \in Workers, NEW i \in DOMAIN queue[w]
            PROVE  queue[w][i] # own /\ queue[w][i] \in Tasks
        <4>1. queue[w][i] \in Tasks
          BY DEF Inv, Types
        <4>2. tasks[queue[w][i]] = FreshTask
          BY DEF Inv, QueuesRight
        <4> QED  BY <2>2, <4>1, <4>2, StatesDiffer
      <3> QED  BY <3>1
    <2>7. Types'
      <3>1. FreshTask \in TaskStates
        BY DEF TaskStates
      <3> QED  BY <1>2, <1>3, <1>4, <2>1, <2>3, <3>1 DEF Inv, Types, Busy
    <2>8. HeldRight'
      <3>1. ASSUME NEW u \in Threads
            PROVE  /\ task'[u] # NoTask <=> at'[u] \in Busy
                   /\ task'[u] # NoTask => tasks'[task'[u]] = PhaseOf(at'[u])
        <4>1. CASE u = Main
          BY <2>1, <2>4, <4>1, PhasesAre DEF Busy
        <4>2. CASE u # Main
          BY <2>4, <2>5, <4>2 DEF Inv, HeldRight, Types
        <4> QED  BY <4>1, <4>2
      <3>2. \A w \in Workers : task'[w] # NoTask => QueueOf(task'[w]) = w
        BY <2>4, MainIsNoWorker DEF Inv, HeldRight
      <3>3. task'[Main] = TaskFor(0)' /\ Kind' = "reduce"
        BY <1>3, <1>6, <2>1, <2>4, MainIsNoWorker
      <3> QED  BY <3>1, <3>2, <3>3 DEF HeldRight
    <2>9. QueuesRight'
      <3>1. ASSUME NEW w \in Workers, NEW i \in DOMAIN queue[w], NEW u \in Threads
            PROVE  task'[u] # queue[w][i]
        BY <2>4, <2>6 DEF Inv, QueuesRight
      <3>2. ASSUME NEW w \in Workers, NEW i \in DOMAIN queue[w]
            PROVE  tasks'[queue[w][i]] = FreshTask
        BY <2>4, <2>6 DEF Inv, QueuesRight
      <3> QED  BY <1>2, <3>1, <3>2 DEF Inv, QueuesRight
    <2>10. MadeRight'
      <3>1. ASSUME NEW j \in Tasks, tasks'[j] # NoSuchTask
            PROVE  /\ j[1] <= step'
                   /\ j[2] = 0 => KindOf(j) = "reduce"
                   /\ j[1] = step' => j[2] < pushed'
        <4>1. CASE j = own
          BY <1>2, <1>3, <2>1, <4>1
        <4>2. CASE j # own
          <5>1. tasks[j] # NoSuchTask
            BY <2>4, <3>1, <4>2
          <5>2. /\ j[1] <= step /\ (j[2] = 0 => KindOf(j) = "reduce") /\ j[1] \in Int
                /\ j[1] # step'
            BY <1>3, <5>1, TasksArePairs, ThreadPoolTasksAssumption DEF Inv, MadeRight
          <5> QED  BY <1>3, <5>2
        <4> QED  BY <4>1, <4>2
      <3> QED  BY <3>1 DEF MadeRight
    <2>11. ChildrenRight'
      <3>1. \A j \in Tasks : tasks'[j] \notin {NoSuchTask, Left(TRUE)} => KindOf(j) # "parallel"
        BY <1>3, <2>1, <2>4
      <3> QED  BY <3>1 DEF ChildrenRight
    <2>12. BegunRight'
      <3>1. ASSUME NEW j \in Tasks, tasks'[j] \in {Begun, Counted, Unflagged}
            PROVE  \E u \in Threads : task'[u] = j
        <4>1. j # own /\ tasks[j] \in {Begun, Counted, Unflagged}
          BY <2>4, <3>1, StatesDiffer
        <4>2. PICK u \in Threads : task[u] = j
          BY <4>1 DEF Inv, BegunRight
        <4>3. u # Main
          BY <1>3, <3>1, <4>2, TasksArePairs
        <4> QED  BY <2>4, <4>2, <4>3
      <3>2. \A j \in Tasks : tasks'[j] = Left(FALSE) => KindOf(j) = "parallel"
        BY <2>4, StatesDiffer DEF Inv, BegunRight
      <3> QED  BY <3>1, <3>2 DEF BegunRight
    <2>13. MainRight'
      <3>1. \A w \in Workers : /\ w \notin running' => at'[w] = "exited"
                               /\ at'[w] \in {"loop", "drain", "exited"} \union Busy
        BY <1>2, <2>4, MainIsNoWorker DEF Inv, MainRight
      <3>2. at'[Main] = "execute" /\ Kind' = "reduce" /\ step' > 0
        BY <1>3, <1>6, <2>4, MainIsNoWorker
      <3> QED  BY <1>2, <3>1, <3>2 DEF MainRight, Busy
    <2> QED  BY <2>7, <2>8, <2>9, <2>10, <2>11, <2>12, <2>13 DEF Inv
  <1> QED  BY <1>5, <1>6

LEMMA PushInv == ASSUME Inv, Push PROVE Inv'
  <1>1. PICK n \in IF Kind = "async" THEN 1..NumWorkers ELSE {pushed} :
           /\ tasks' = [tasks EXCEPT ![TaskFor(n)] = FreshTask]
           /\ queue' = [queue EXCEPT ![QueueOf(TaskFor(n))] = Append(@, TaskFor(n))]
           /\ IF Kind = "async" THEN pushed' = 0 /\ Goto(Main, "script")
              ELSE IF n = NumWorkers THEN pushed' = 0 /\ Goto(Main, "wait")
              ELSE pushed' = n + 1 /\ UNCHANGED at
    BY DEF Push
  <1>2. at[Main] = "push" /\ UNCHANGED <<step, exitFlag, running, task>>
    BY DEF Push
  <1>3. /\ step \in DOMAIN Script /\ step \in 0..Len(Script) /\ step > 0 /\ running # {}
        /\ pushed > 0 /\ pushed \in 0..NumWorkers
        /\ Kind = "async" => pushed = 1
        /\ Kind \in {"parallel", "reduce", "async"}
    BY <1>2, ThreadPoolTasksAssumption DEF Inv, Types, MainRight
  <1>4. n \in 1..NumWorkers /\ n >= pushed /\ n \in 0..NumWorkers
    BY <1>1, <1>3, ThreadPoolTasksAssumption
  <1> DEFINE k == TaskFor(n)
             q == QueueOf(k)
  <1>5. k \in Tasks /\ k # NoTask /\ k[1] = step /\ k[2] = n /\ KindOf(k) = Kind
    BY <1>3, <1>4, TasksArePairs DEF TaskFor, KindOf, Kind
  <1>6. q \in Workers
    BY <1>4, <1>5 DEF QueueOf, WantedThread, Workers, Kinds
  <1>7. tasks[k] = NoSuchTask
    BY <1>2, <1>4, <1>5, <1>3, ThreadPoolTasksAssumption DEF Inv, MadeRight
  <1> HIDE DEF k, q
  <1>8. tasks' = [tasks EXCEPT ![k] = FreshTask] /\ queue' = [queue EXCEPT ![q] = Append(@, k)]
    BY <1>1 DEF k, q
  <1>9. PICK place \in {"script", "push", "wait"} :
          /\ at' = [at EXCEPT ![Main] = place]
          /\ place = "script" <=> Kind = "async"
          /\ place = "push" => pushed' = n + 1 /\ n + 1 <= NumWorkers /\ Kind # "async"
                               /\ n = pushed
          /\ pushed' \in 0..NumWorkers
    <2>1. CASE Kind = "async"
      <3>1. at' = [at EXCEPT ![Main] = "script"] /\ pushed' = 0
        BY <1>1, <2>1 DEF Goto
      <3>2. 0 \in 0..NumWorkers
        BY ThreadPoolTasksAssumption
      <3> QED  BY <2>1, <3>1, <3>2
    <2>2. CASE Kind # "async" /\ n = NumWorkers
      <3>1. at' = [at EXCEPT ![Main] = "wait"] /\ pushed' = 0
        BY <1>1, <2>2 DEF Goto
      <3>2. 0 \in 0..NumWorkers
        BY ThreadPoolTasksAssumption
      <3> QED  BY <2>2, <3>1, <3>2
    <2>3. CASE Kind # "async" /\ n # NumWorkers
      <3>1. at' = [at EXCEPT ![Main] = "push"]
        BY <1>1, <1>2, <2>3 DEF Inv, Types
      <3>2. pushed' = n + 1 /\ n + 1 <= NumWorkers /\ n + 1 \in 0..NumWorkers /\ n = pushed
        BY <1>1, <1>4, <2>3, ThreadPoolTasksAssumption
      <3> QED  BY <2>3, <3>1, <3>2
    <2> QED  BY <2>1, <2>2, <2>3
  <1>10. /\ \A u \in Threads : at'[u] = IF u = Main THEN place ELSE at[u]
         /\ \A j \in Tasks : tasks'[j] = IF j = k THEN FreshTask ELSE tasks[j]
         /\ \A w \in Workers : queue'[w] = IF w = q THEN Append(queue[q], k) ELSE queue[w]
    BY <1>5, <1>6, <1>8, <1>9, MainIsNoWorker DEF Inv, Types
  <1>11. \A u \in Threads : task[u] # k
    BY <1>5, <1>7, PhasesAre, StatesDiffer DEF Inv, HeldRight, Busy
  <1>12. \A w \in Workers : \A i \in DOMAIN queue[w] : queue[w][i] # k /\ queue[w][i] \in Tasks
    <2>1. ASSUME NEW w \in Workers, NEW i \in DOMAIN queue[w]
          PROVE  queue[w][i] # k /\ queue[w][i] \in Tasks
      <3>1. queue[w][i] \in Tasks
        BY DEF Inv, Types
      <3>2. tasks[queue[w][i]] = FreshTask
        BY DEF Inv, QueuesRight
      <3> QED  BY <1>7, <3>1, <3>2, StatesDiffer
    <2> QED  BY <2>1
  <1>13. Types'
    <2>1. FreshTask \in TaskStates
      BY DEF TaskStates
    <2>2. tasks' \in [Tasks -> TaskStates]
      BY <1>8, <2>1 DEF Inv, Types
    <2>3. Append(queue[q], k) \in Seq(Tasks)
      BY <1>5, <1>6 DEF Inv, Types
    <2>4. queue' \in [Workers -> Seq(Tasks)]
      BY <1>8, <2>3 DEF Inv, Types
    <2>5. at' \in [Threads -> {"script", "push", "wait", "join", "loop", "drain",
                               "exited"} \union Busy]
      BY <1>9 DEF Inv, Types
    <2> QED  BY <1>2, <1>9, <2>2, <2>4, <2>5 DEF Inv, Types
  <1>14. task[Main] = NoTask
    BY <1>2, MainIsNoWorker DEF Inv, HeldRight, Busy
  <1>15. HeldRight'
    <2>1. ASSUME NEW u \in Threads
          PROVE  /\ task[u] # NoTask <=> at'[u] \in Busy
                 /\ task[u] # NoTask => tasks'[task[u]] = PhaseOf(at'[u])
      <3>1. CASE u = Main
        BY <1>9, <1>10, <1>14, <3>1 DEF Busy
      <3>2. CASE u # Main
        BY <1>10, <1>11, <3>2 DEF Inv, HeldRight, Types
      <3> QED  BY <3>1, <3>2
    <2> QED  BY <1>2, <1>14, <2>1 DEF Inv, HeldRight
  <1>16. QueuesRight'
    <2>1. ASSUME NEW w \in Workers, NEW i \in DOMAIN queue'[w]
          PROVE  /\ QueueOf(queue'[w][i]) = w
                 /\ tasks'[queue'[w][i]] = FreshTask
                 /\ \A t \in Threads : task[t] # queue'[w][i]
                 /\ \A j \in DOMAIN queue'[w] : queue'[w][j] = queue'[w][i] => j = i
      <3>1. CASE w = q
        <4>1. queue[q] \in Seq(Tasks)
          BY <1>6 DEF Inv, Types
        <4>2. /\ queue'[w] = Append(queue[q], k) /\ DOMAIN queue'[w] = 1..(Len(queue[q]) + 1)
              /\ \A j \in DOMAIN queue'[w] :
                    \/ j \in DOMAIN queue[q] /\ queue'[w][j] = queue[q][j]
                    \/ j = Len(queue[q]) + 1 /\ queue'[w][j] = k
          <5>1. queue'[w] = Append(queue[q], k)
            BY <1>10, <3>1
          <5>2. /\ Len(Append(queue[q], k)) = Len(queue[q]) + 1
                /\ DOMAIN Append(queue[q], k) = 1..(Len(queue[q]) + 1)
                /\ \A j \in 1..Len(queue[q]) : Append(queue[q], k)[j] = queue[q][j]
                /\ Append(queue[q], k)[Len(queue[q]) + 1] = k
                /\ DOMAIN queue[q] = 1..Len(queue[q]) /\ Len(queue[q]) \in Nat
            BY <4>1
          <5> QED  BY <5>1, <5>2
        <4>3. \A j \in DOMAIN queue'[w] : queue'[w][j] = queue'[w][i] => j = i
          BY <1>6, <1>12, <4>2 DEF Inv, QueuesRight
        <4>4. CASE i \in DOMAIN queue[q] /\ queue'[w][i] = queue[q][i]
          BY <1>6, <1>10, <1>12, <3>1, <4>3, <4>4 DEF Inv, QueuesRight
        <4>5. CASE queue'[w][i] = k
          BY <1>5, <1>10, <1>11, <3>1, <4>3, <4>5 DEF q
        <4> QED  BY <4>2, <4>4, <4>5
      <3>2. CASE w # q
        BY <1>10, <1>12, <3>2 DEF Inv, QueuesRight
      <3> QED  BY <3>1, <3>2
    <2> QED  BY <1>2, <2>1 DEF QueuesRight
  <1>17. at'[Main] = place
    BY <1>10, MainIsNoWorker
  <1>18. MadeRight'
    <2>1. ASSUME NEW j \in Tasks, tasks'[j] # NoSuchTask
          PROVE  /\ j[1] <= step
                 /\ j[2] = 0 => KindOf(j) = "reduce"
                 /\ j[1] = step /\ place = "push" => j[2] < pushed'
      <3>1. CASE j = k
        BY <1>3, <1>4, <1>5, <1>9, <3>1
      <3>2. CASE j # k
        <4>1. /\ j[1] <= step /\ (j[2] = 0 => KindOf(j) = "reduce")
              /\ j[1] = step => j[2] < pushed
          BY <1>2, <1>10, <2>1, <3>2 DEF Inv, MadeRight
        <4>2. j[2] \in Int
          BY TasksArePairs
        <4> QED  BY <1>3, <1>9, <4>1, <4>2
      <3> QED  BY <3>1, <3>2
    <2> QED  BY <1>2, <1>9, <1>17, <2>1 DEF MadeRight, Busy
  <1>19. ChildrenRight'
    <2>1. ASSUME NEW j \in Tasks, tasks'[j] \notin {NoSuchTask, Left(TRUE)},
                 KindOf(j) = "parallel"
          PROVE  j[1] = step /\ place \in {"push", "wait"}
      <3>1. j[1] = step
        BY <1>5, <1>10, <2>1 DEF Inv, ChildrenRight
      <3>2. Kind = "parallel"
        BY <2>1, <3>1 DEF KindOf, Kind
      <3> QED  BY <1>9, <3>1, <3>2
    <2> QED  BY <1>2, <1>17, <2>1 DEF ChildrenRight
  <1>20. BegunRight'
    BY <1>2, <1>10, StatesDiffer DEF Inv, BegunRight
  <1>21. MainRight'
    <2>1. \A w \in Workers : /\ w \notin running => at'[w] = "exited"
                             /\ at'[w] \in {"loop", "drain", "exited"} \union Busy
      BY <1>10, MainIsNoWorker DEF Inv, MainRight
    <2>2. place = "push" => pushed' > 0 /\ Kind # "async"
      BY <1>4, <1>9
    <2> QED  BY <1>2, <1>3, <1>9, <1>17, <2>1, <2>2 DEF MainRight, Kind, Busy
  <1> QED  BY <1>13, <1>15, <1>16, <1>18, <1>19, <1>20, <1>21 DEF Inv

(* The children that ParallelReturns deletes have all been left.             *)
LEMMA DeletableIsLeft ==
    ASSUME Inv, NEW k \in Tasks, AllowDelete(k)
    PROVE  tasks[k] \in {Left(TRUE), Left(FALSE)}
  <1>1. tasks[k].execLoopDone = TRUE /\ tasks[k] \in TaskStates
    <2>1. tasks[k] \in TaskStates
      BY DEF Inv, Types
    <2>2. tasks[k].execLoopDone \in BOOLEAN
      BY <2>1, StatesTyped DEF TaskType
    <2> QED  BY <2>1, <2>2 DEF AllowDelete
  <1>2. /\ NoSuchTask.execLoopDone = FALSE /\ FreshTask.execLoopDone = FALSE
        /\ Begun.execLoopDone = FALSE /\ Counted.execLoopDone = FALSE
        /\ Unflagged.execLoopDone = FALSE
    BY DEF NoSuchTask, FreshTask, Begun, Counted, Unflagged, Record
  <1> QED  BY <1>1, <1>2 DEF TaskStates

LEMMA ParallelReturnsInv == ASSUME Inv, ParallelReturns PROVE Inv'
  <1>1. /\ at[Main] = "wait" /\ Kind = "parallel"
        /\ \A n \in 1..NumWorkers : AllowDelete(TaskFor(n))
        /\ tasks' = [k \in Tasks |->
              IF k[1] = step /\ tasks[k].exists
              THEN [tasks[k] EXCEPT !.deleted = TRUE] ELSE tasks[k]]
        /\ at' = [at EXCEPT ![Main] = "script"]
        /\ UNCHANGED <<step, queue, exitFlag, running, task, pushed>>
    BY DEF ParallelReturns, Goto
  <1>2. step \in DOMAIN Script /\ running # {}
    BY <1>1, ThreadPoolTasksAssumption DEF Inv, Types, MainRight
  <1>3. ASSUME NEW k \in Tasks
        PROVE  tasks'[k] = IF k[1] = step /\ k[2] # 0 THEN Left(TRUE) ELSE tasks[k]
    <2>1. CASE k[1] = step /\ k[2] # 0
      <3>1. k = TaskFor(k[2]) /\ k[2] \in 1..NumWorkers
        BY <2>1, TasksArePairs, ThreadPoolTasksAssumption DEF TaskFor
      <3>2. tasks[k] \in {Left(TRUE), Left(FALSE)}
        BY <1>1, <3>1, DeletableIsLeft
      <3>3. tasks[k].exists = TRUE
        BY <3>2 DEF Left
      <3>4. [tasks[k] EXCEPT !.deleted = TRUE] = Left(TRUE)
        BY <3>2, Steps
      <3> QED  BY <1>1, <2>1, <3>3, <3>4
    <2>2. CASE k[1] = step /\ k[2] = 0
      <3>1. tasks[k] = NoSuchTask
        BY <1>1, <2>2 DEF Inv, MadeRight, KindOf, Kind
      <3>2. tasks[k].exists = FALSE
        BY <3>1 DEF NoSuchTask, FreshTask
      <3> QED  BY <1>1, <2>2, <3>2
    <2>3. CASE k[1] # step
      BY <1>1, <2>3
    <2> QED  BY <2>1, <2>2, <2>3
  <1>4. ASSUME NEW k \in Tasks, k[1] = step, k[2] # 0
        PROVE  tasks[k] \in {Left(TRUE), Left(FALSE)}
    <2>1. k = TaskFor(k[2]) /\ k[2] \in 1..NumWorkers
      BY <1>4, TasksArePairs, ThreadPoolTasksAssumption DEF TaskFor
    <2> QED  BY <1>1, <2>1, DeletableIsLeft
  <1>5. \A u \in Threads : at'[u] = IF u = Main THEN "script" ELSE at[u]
    BY <1>1, MainIsNoWorker DEF Inv, Types
  <1>6. at'[Main] = "script" /\ task[Main] = NoTask
    BY <1>1, <1>5, MainIsNoWorker DEF Inv, HeldRight, Busy
  <1>7. Types'
    <2>1. \A k \in Tasks : tasks'[k] \in TaskStates
      BY <1>3 DEF Inv, Types, TaskStates
    <2>2. tasks' \in [Tasks -> TaskStates]
      BY <1>1, <2>1
    <2> QED  BY <1>1, <2>2 DEF Inv, Types
  <1>8. ASSUME NEW k \in Tasks, tasks[k] \in {FreshTask, Begun, Counted, Unflagged}
        PROVE  tasks'[k] = tasks[k]
    BY <1>3, <1>4, <1>8, StatesDiffer
  <1>9. HeldRight'
    <2>1. ASSUME NEW u \in Threads
          PROVE  /\ task[u] # NoTask <=> at'[u] \in Busy
                 /\ task[u] # NoTask => tasks'[task[u]] = PhaseOf(at'[u])
      <3>1. CASE u = Main
        BY <1>6, <3>1 DEF Busy
      <3>2. CASE u # Main
        <4>1. task[u] # NoTask <=> at'[u] \in Busy
          BY <1>5, <3>2 DEF Inv, HeldRight
        <4>2. ASSUME task[u] # NoTask PROVE tasks'[task[u]] = PhaseOf(at'[u])
          <5>1. at'[u] = at[u] /\ at[u] \in Busy /\ task[u] \in Tasks
                /\ tasks[task[u]] = PhaseOf(at[u])
            BY <1>5, <3>2, <4>2 DEF Inv, HeldRight, Types
          <5>2. PhaseOf(at[u]) \in {FreshTask, Begun, Counted, Unflagged}
            BY <5>1, PhasesAre DEF Busy
          <5> QED  BY <1>8, <5>1, <5>2
        <4> QED  BY <4>1, <4>2
      <3> QED  BY <3>1, <3>2
    <2> QED  BY <1>1, <1>6, <2>1 DEF Inv, HeldRight
  <1>10. QueuesRight'
    <2>1. ASSUME NEW w \in Workers, NEW i \in DOMAIN queue[w]
          PROVE  tasks'[queue[w][i]] = FreshTask
      <3>1. queue[w][i] \in Tasks /\ tasks[queue[w][i]] = FreshTask
        BY DEF Inv, QueuesRight, Types
      <3> QED  BY <1>8, <3>1
    <2>2. ASSUME NEW w \in Workers, NEW i \in DOMAIN queue[w]
          PROVE  /\ QueueOf(queue[w][i]) = w
                 /\ \A t \in Threads : task[t] # queue[w][i]
                 /\ \A j \in DOMAIN queue[w] : queue[w][j] = queue[w][i] => j = i
      BY DEF Inv, QueuesRight
    <2>3. queue' = queue /\ task' = task
      BY <1>1
    <2> QED  BY <2>1, <2>2, <2>3 DEF QueuesRight
  <1>11. MadeRight'
    <2>1. ASSUME NEW k \in Tasks, tasks'[k] # NoSuchTask PROVE tasks[k] # NoSuchTask
      BY <1>3, <1>4, <2>1, StatesDiffer
    <2> QED  BY <1>1, <1>6, <2>1 DEF Inv, MadeRight, Busy
  <1>12. ChildrenRight'
    <2>1. ASSUME NEW k \in Tasks, tasks'[k] \notin {NoSuchTask, Left(TRUE)},
                 KindOf(k) = "parallel" PROVE FALSE
      <3>1. tasks[k] \notin {NoSuchTask, Left(TRUE)} /\ (k[1] = step => k[2] = 0)
        BY <1>3, <2>1
      <3>2. k[1] = step
        BY <2>1, <3>1 DEF Inv, ChildrenRight
      <3> QED  BY <2>1, <3>1, <3>2 DEF Inv, MadeRight
    <2> QED  BY <2>1 DEF ChildrenRight
  <1>13. BegunRight'
    <2>1. ASSUME NEW k \in Tasks, tasks'[k] \in {Begun, Counted, Unflagged, Left(FALSE)}
          PROVE  tasks'[k] = tasks[k]
      BY <1>3, <2>1, StatesDiffer
    <2> QED  BY <1>1, <2>1 DEF Inv, BegunRight
  <1>14. MainRight'
    <2>1. \A w \in Workers : /\ w \notin running => at'[w] = "exited"
                             /\ at'[w] \in {"loop", "drain", "exited"} \union Busy
      BY <1>5, MainIsNoWorker DEF Inv, MainRight
    <2> QED  BY <1>1, <1>2, <1>6, <2>1 DEF MainRight, Busy
  <1> QED  BY <1>7, <1>9, <1>10, <1>11, <1>12, <1>13, <1>14 DEF Inv

-----------------------------------------------------------------------------
LEMMA InitInv == Init => Inv
  <1> SUFFICES ASSUME Init PROVE Inv
    OBVIOUS
  <1>1. /\ step = 0 /\ \A k \in Tasks : tasks[k] = NoSuchTask
        /\ \A w \in Workers : queue[w] = <<>> /\ at[w] = "loop"
        /\ \A t \in Threads : task[t] = NoTask /\ at[t] \notin Busy
        /\ at[Main] = "script" /\ running = Workers
    BY MainIsNoWorker DEF Init, Busy
  <1>2. Types
    <2>1. 0 \in 0..Len(Script) /\ 0 \in 0..NumWorkers
      BY ThreadPoolTasksAssumption
    <2>2. NoSuchTask \in TaskStates
      BY DEF TaskStates
    <2>3. <<>> \in Seq(Tasks)
      OBVIOUS
    <2> QED  BY <2>1, <2>2, <2>3 DEF Init, Types
  <1>3. HeldRight
    BY <1>1, MainIsNoWorker DEF HeldRight
  <1>4. QueuesRight
    BY <1>1 DEF QueuesRight
  <1>5. MadeRight /\ ChildrenRight
    BY <1>1 DEF MadeRight, ChildrenRight
  <1>6. BegunRight
    BY <1>1, StatesDiffer DEF BegunRight
  <1>7. MainRight
    <2>1. Workers # {}
      <3>1. 1 \in 1..NumWorkers
        BY ThreadPoolTasksAssumption
      <3>2. <<"sync", 1>> \in Workers
        BY <3>1 DEF Workers, Kinds
      <3> QED  BY <3>2
    <2> QED  BY <1>1, <2>1 DEF MainRight, Busy
  <1> QED  BY <1>2, <1>3, <1>4, <1>5, <1>6, <1>7 DEF Inv

LEMMA InvInductive == Inv /\ [Next]_vars => Inv'
  <1> SUFFICES ASSUME Inv, [Next]_vars PROVE Inv'
    OBVIOUS
  <1>1. CASE Program
    BY <1>1, CallFunctionInv, SubmitInv, PushInv, ParallelReturnsInv, ReduceReturnsInv,
       KillInv, JoinInv, DropQueuesInv, SpawnInv DEF Program
  <1>2. ASSUME NEW t \in Threads, Run(t) PROVE Inv'
    BY <1>2, ExecuteInv, CountDownInv, ClearFlagInv, LeaveLoopInv DEF Run
  <1>3. ASSUME NEW w \in Workers, Work(w) PROVE Inv'
    BY <1>3, WorkInv
  <1>4. CASE UNCHANGED vars
    <2>1. UNCHANGED <<step, tasks, queue, exitFlag, running, at, task, pushed>>
      BY <1>4 DEF vars
    <2>2. Types' /\ QueuesRight' /\ BegunRight'
      BY <2>1, SameQueues, SameBegun DEF Inv, Types
    <2>3. HeldRight' /\ MadeRight' /\ ChildrenRight'
      BY <2>1 DEF Inv, HeldRight, MadeRight, ChildrenRight, TaskFor, Kind
    <2>4. MainRight'
      BY <2>1 DEF Inv, MainRight, Kind
    <2> QED  BY <2>2, <2>3, <2>4 DEF Inv
  <1> QED  BY <1>1, <1>2, <1>3, <1>4 DEF Next, Finished

LEMMA InvAlways == Spec => []Inv
  BY InitInv, InvInductive, PTL DEF Spec

(* The variables have their types, and the tasks run through their states in *)
(* order.                                                                    *)
THEOREM TypeCorrect == Spec => []TypeOK
  <1>1. Inv => TypeOK
    <2>1. Inv => tasks \in [Tasks -> TaskType]
      BY StatesTyped DEF Inv, Types
    <2> QED  BY <2>1 DEF Inv, Types, TypeOK, TaskType, Busy
  <1> QED  BY <1>1, InvAlways, PTL

(* Nobody touches a task that was deleted, neither through a queue nor while *)
(* it executes it: a task in somebody's hands is not deleted, and what the   *)
(* end of a parallel deletes is in nobody's hands and in no queue.           *)
THEOREM NobodyUsesTheDead == Spec => []NoUseAfterDelete
  <1>1. ASSUME Inv PROVE NoUseAfterDelete
    <2>1. /\ FreshTask.deleted = FALSE /\ Begun.deleted = FALSE
          /\ Counted.deleted = FALSE /\ Unflagged.deleted = FALSE
      BY DEF FreshTask, Begun, Counted, Unflagged, Record
    <2>2. ASSUME NEW t \in Threads, task[t] # NoTask PROVE ~tasks[task[t]].deleted
      <3>1. tasks[task[t]] = PhaseOf(at[t]) /\ at[t] \in Busy
        BY <1>1, <2>2 DEF Inv, HeldRight
      <3> QED  BY <2>1, <3>1, PhasesAre DEF Busy
    <2>3. ASSUME NEW w \in Workers, NEW i \in DOMAIN queue[w]
          PROVE  ~tasks[queue[w][i]].deleted
      <3>1. tasks[queue[w][i]] = FreshTask
        BY <1>1 DEF Inv, QueuesRight
      <3> QED  BY <2>1, <3>1
    <2> QED  BY <2>2, <2>3 DEF NoUseAfterDelete
  <1> QED  BY <1>1, InvAlways, PTL

(* No task is executed twice or by another worker than it was meant for.     *)
THEOREM EachOnce == Spec => []OncePerWorker
  <1>1. ASSUME Inv PROVE OncePerWorker
    <2>1. ASSUME NEW k \in Tasks
          PROVE  /\ tasks[k].runs <= 1
                 /\ tasks[k].runs > 0 => tasks[k] # NoSuchTask
      <3>1. /\ NoSuchTask.runs = 0 /\ FreshTask.runs = 0 /\ Begun.runs = 1
            /\ Counted.runs = 1 /\ Unflagged.runs = 1
        BY DEF NoSuchTask, FreshTask, Begun, Counted, Unflagged, Record
      <3>2. Left(TRUE).runs = 1 /\ Left(FALSE).runs = 1
        BY DEF Left
      <3>3. tasks[k] \in TaskStates
        BY <1>1 DEF Inv, Types
      <3>4. \A r \in TaskStates : r.runs \in {0, 1}
        BY <3>1, <3>2 DEF TaskStates
      <3>5. tasks[k] = NoSuchTask => tasks[k].runs = 0
        BY <3>1
      <3>6. tasks[k].runs \in {0, 1}
        BY <3>3, <3>4
      <3> QED  BY <3>5, <3>6
    <2>2. \A w \in Workers : task[w] # NoTask => QueueOf(task[w]) = w
      BY <1>1 DEF Inv, HeldRight
    <2>3. ASSUME NEW k \in Tasks, tasks[k].runs > 0, WantedThread(k) = 0
          PROVE  KindOf(k) = "reduce"
      BY <1>1, <2>1, <2>3 DEF Inv, MadeRight, WantedThread
    <2> QED  BY <2>1, <2>2, <2>3 DEF OncePerWorker
  <1> QED  BY <1>1, InvAlways, PTL

(* After KillThreads no task is half executed and no queue remembers one.    *)
THEOREM KilledCleanly == Spec => []CleanlyKilled
  <1>1. ASSUME Inv, running = {}, at[Main] = "script"
        PROVE  /\ \A w \in Workers : queue[w] = <<>> /\ task[w] = NoTask
               /\ \A k \in Tasks : tasks[k].exists /\ ~tasks[k].deleted => tasks[k].runs = 0
    <2>1. \A w \in Workers : queue[w] = <<>> /\ at[w] = "exited"
      BY <1>1 DEF Inv, MainRight
    <2>2. \A t \in Threads : task[t] = NoTask
      <3>1. \A w \in Workers : task[w] = NoTask
        BY <1>1, <2>1, MainIsNoWorker DEF Inv, HeldRight, Busy
      <3>2. task[Main] = NoTask
        BY <1>1, MainIsNoWorker DEF Inv, HeldRight, Busy
      <3> QED  BY <3>1, <3>2 DEF Threads
    <2>3. ASSUME NEW k \in Tasks, tasks[k].exists, ~tasks[k].deleted
          PROVE  tasks[k].runs = 0
      <3>1. tasks[k] \notin {Begun, Counted, Unflagged}
        <4>1. k # NoTask
          BY TasksArePairs
        <4>2. \A t \in Threads : task[t] # k
          BY <2>2, <4>1
        <4> QED  BY <1>1, <4>2 DEF Inv, BegunRight
      <3>2. tasks[k] # Left(TRUE)
        BY <2>3 DEF Left
      <3>3. tasks[k] # Left(FALSE)
        BY <1>1, <3>2, StatesDiffer DEF Inv, BegunRight, ChildrenRight
      <3>4. tasks[k] \in {NoSuchTask, FreshTask}
        BY <1>1, <3>1, <3>2, <3>3 DEF Inv, Types, TaskStates
      <3>5. NoSuchTask.runs = 0 /\ FreshTask.runs = 0
        BY DEF NoSuchTask, FreshTask
      <3> QED  BY <3>4, <3>5
    <2> QED  BY <2>1, <2>2, <2>3, MainIsNoWorker
  <1>2. Inv => CleanlyKilled
    BY <1>1 DEF CleanlyKilled
  <1> QED  BY <1>2, InvAlways, PTL
=============================================================================
