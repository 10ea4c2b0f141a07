----------------------------- MODULE ThreadPool -----------------------------
(***************************************************************************)
(* for_mt, for_mt_background and wait_for_mt_background over the workers of *)
(* System/Threading/ThreadPool: the groups recycled by TaskPool, the queues *)
(* of the workers, ExecuteLoop by the caller and by the workers, and        *)
(* WaitForFinished, which executes other groups while it waits.  Every      *)
(* access to an atomic of a group that another thread can notice is a step  *)
(* of its own; a thread has a stack of frames because the body of a loop    *)
(* may contain another for_mt.                                              *)
(*                                                                         *)
(* The indices of a loop are 0 .. n-1 (step 1).  Sleeping on the signal is  *)
(* not modelled: it is a timed wait of at most 30 ms, so that a worker      *)
(* always comes back to look at its queues.                                 *)
(***************************************************************************)
EXTENDS Naturals, Sequences, SequencesExt, FiniteSets

CONSTANTS
    NumWorkers,  \* the worker threads are 1 .. NumWorkers, the caller is 0
    PoolSize,    \* groups in each TaskPool (256 in the code)
    Outer,       \* iterations of a loop started by thread 0
    Inner,       \* iterations of the loop in the body of a "nest"
    Programs     \* what thread 0 may do: sequences of "for" (for_mt), "nest"
                 \* (for_mt with a for_mt in its body), "background" and "wait"

ASSUME ThreadPoolAssumption ==
    /\ NumWorkers \in Nat \ {0}
    /\ PoolSize \in Nat \ {0}
    /\ Outer \in Nat \ {0}
    /\ Inner \in Nat \ {0}
    /\ Programs \subseteq Seq({"for", "nest", "background", "wait"})

Workers == 1..NumWorkers
Threads == {0} \union Workers

(* A call is named by its place in the program: <<k>> is step k of it,      *)
(* <<k, i>> the for_mt in the body of its iteration i.                      *)
Steps == UNION {DOMAIN p : p \in Programs}
Calls == {<<k>> : k \in Steps} \union (Steps \X (0..(Outer - 1)))
Size(c) == IF Len(c) = 1 THEN Outer ELSE Inner
Items(c) == {<<c, i>> : i \in 0..(Size(c) - 1)}
AllItems == UNION {Items(c) : c \in Calls}
Nested(w) == Append(w[1], w[2])    \* the call that the body of item w makes

Groups == {0, 1, 2} \X (0..(PoolSize - 1))
NoGroup == <<>>
NoCall == <<>>

VARIABLES
    program,     \* what thread 0 does in this run of it
    step,        \* steps of the script that thread 0 has begun
    held,        \* the background group to wait for (comp.backgroundTask)
    pos,         \* TaskPool::pos
    group,       \* the groups of the pools
    queue,       \* taskQueues[false] and taskQueuesSyncBackground[false]
    stack,       \* the frames of each thread, innermost first
    begun,       \* history: how often each item was begun
    ended,       \* history: the items completed
    returned     \* history: the calls that have returned

vars == <<program, step, held, pos, group, queue, stack, begun, ended, returned>>

-----------------------------------------------------------------------------
(* Each function type has a TaskPool of its own.                            *)
Background(c) == Len(c) = 1 /\ program[c[1]] = "background"
Nests(w) == Len(w[1]) = 1 /\ program[w[1][1]] = "nest"
PoolOf(c) == IF Background(c) THEN 0 ELSE Len(c)

(* A group: `func' is the call whose function, bounds and step it holds.    *)
FreshGroup ==
    [remaining |-> 0, ctr |-> 0, func |-> NoCall, inTaskQueue |-> FALSE, inUse |-> FALSE]

IsFinished(g) == group[g].remaining = 0
LimitOf(g) == IF group[g].func = NoCall THEN 0 ELSE Size(group[g].func)
IsHighPriority(g) == g[1] # 0

(* A frame: `at' is the place in the code, `g' the group, `c' the call that *)
(* is being made, `i' the index claimed or the worker to push to next.      *)
Frame(at, g, c, i, wff, again) ==
    [at |-> at, g |-> g, c |-> c, i |-> i, wff |-> wff, again |-> again]
WorkerLoop == Frame("drain", NoGroup, NoCall, 0, FALSE, FALSE)

Init ==
    /\ program \in Programs
    /\ step = 0
    /\ held = NoGroup
    /\ pos = [p \in {0, 1, 2} |-> 0]
    /\ group = [g \in Groups |-> FreshGroup]
    /\ queue = [w \in Workers |-> <<>>]
    /\ stack = [t \in Threads |-> IF t = 0 THEN <<>> ELSE <<WorkerLoop>>]
    /\ begun = [w \in AllItems |-> 0]
    /\ ended = {}
    /\ returned = {}

At(t, at) == stack[t] # <<>> /\ Head(stack[t]).at = at
Top(t) == Head(stack[t])
Goto(t, frame) == stack' = [stack EXCEPT ![t] = <<frame>> \o Tail(@)]
Push(t, frame) == stack' = [stack EXCEPT ![t] = <<frame>> \o @]
Pop(t) == stack' = [stack EXCEPT ![t] = Tail(@)]

-----------------------------------------------------------------------------
(* TaskPool::GetTaskGroup for call c: the next group of the pool, reset.    *)
NextGroup(c) == <<PoolOf(c), pos[PoolOf(c)] % PoolSize>>
GetTaskGroup(c) ==
    /\ pos' = [pos EXCEPT ![PoolOf(c)] = @ + 1]
    /\ group' = [group EXCEPT ![NextGroup(c)].remaining = 0,
                              ![NextGroup(c)].inTaskQueue = TRUE,
                              ![NextGroup(c)].inUse = TRUE]

(* The frame of a call that has its group and goes on to Enqueue.           *)
Entered(c) == Frame("counters", NextGroup(c), c, 1, FALSE, FALSE)

(* Thread 0 starts the next loop of its script: for_mt, for_mt_background.  *)
Start ==
    /\ stack[0] = <<>>
    /\ step < Len(program)
    /\ program[step + 1] # "wait"
    /\ step' = step + 1
    /\ GetTaskGroup(<<step + 1>>)
    /\ Push(0, Entered(<<step + 1>>))
    /\ UNCHANGED <<program, held, queue, begun, ended, returned>>

(* wait_for_mt_background of the group that is held, if there is one        *)
(* (SyncUpdatedPathsSystem::Update).                                        *)
Wait ==
    /\ stack[0] = <<>>
    /\ step < Len(program)
    /\ program[step + 1] = "wait"
    /\ step' = step + 1
    /\ IF held = NoGroup THEN UNCHANGED stack
       ELSE Push(0, Frame("claim", held, NoCall, 0, TRUE, FALSE))
    /\ UNCHANGED <<program, held, pos, group, queue, begun, ended, returned>>

(* Mutants: the number of iterations is one too large, one too small.       *)
EnqueueCountersMore(t) ==
    /\ At(t, "counters")
    /\ group' = [group EXCEPT ![Top(t).g].remaining = Size(Top(t).c) + 1,
                              ![Top(t).g].ctr = 0]
    /\ Goto(t, [Top(t) EXCEPT !.at = "fields"])
    /\ UNCHANGED <<program, step, held, pos, queue, begun, ended, returned>>
EnqueueCountersFewer(t) ==
    /\ At(t, "counters")
    /\ group' = [group EXCEPT ![Top(t).g].remaining = Size(Top(t).c) - 1,
                              ![Top(t).g].ctr = 0]
    /\ Goto(t, [Top(t) EXCEPT !.at = "fields"])
    /\ UNCHANGED <<program, step, held, pos, queue, begun, ended, returned>>

(* ForTaskGroup::Enqueue, first the counters ...                            *)
EnqueueCounters(t) ==
    /\ At(t, "counters")
    /\ group' = [group EXCEPT ![Top(t).g].remaining = Size(Top(t).c),
                              ![Top(t).g].ctr = 0]
    /\ Goto(t, [Top(t) EXCEPT !.at = "fields"])
    /\ UNCHANGED <<program, step, held, pos, queue, begun, ended, returned>>

(* ... then, without any synchronisation, from, to, step and func.          *)
EnqueueFields(t) ==
    /\ At(t, "fields")
    /\ group' = [group EXCEPT ![Top(t).g].func = Top(t).c]
    /\ Goto(t, [Top(t) EXCEPT !.at = "push"])
    /\ UNCHANGED <<program, step, held, pos, queue, begun, ended, returned>>

(* PushTaskGroup to the worker whose turn it is; after the last one for_mt  *)
(* goes on to WaitForFinished and for_mt_background returns the group.      *)
PushTaskGroup(t) ==
    /\ At(t, "push")
    /\ queue' = [queue EXCEPT ![Top(t).i] = Append(@, [g |-> Top(t).g, by |-> t])]
    /\ IF Top(t).i < NumWorkers
       THEN Goto(t, [Top(t) EXCEPT !.i = @ + 1]) /\ UNCHANGED held
       ELSE IF IsHighPriority(Top(t).g)
       THEN Goto(t, [Top(t) EXCEPT !.at = "claim", !.wff = TRUE]) /\ UNCHANGED held
       ELSE Pop(t) /\ held' = Top(t).g
    /\ UNCHANGED <<program, step, pos, group, begun, ended, returned>>

-----------------------------------------------------------------------------
(* ExecuteStep: claim the next index.                                       *)
Claim(t) ==
    LET f == Top(t) IN
    /\ At(t, "claim")
    /\ group[f.g].ctr < LimitOf(f.g)
    /\ group' = [group EXCEPT ![f.g].ctr = @ + 1]
    /\ Goto(t, [f EXCEPT !.at = "body", !.i = group[f.g].ctr])
    /\ UNCHANGED <<program, step, held, pos, queue, begun, ended, returned>>

(* A worker in ExecuteLoop of a high-priority group, and WaitForFinished in *)
(* any group, take the next step; a worker takes one of a background group. *)
KeepsGoing(t, f) == IsHighPriority(f.g) \/ t = 0

(* What follows ExecuteLoop: WaitForFinished looks at the group again, a    *)
(* worker returns to DoTask and first reschedules a background group.       *)
LeaveLoop(t, f) ==
    IF f.wff THEN Goto(t, [f EXCEPT !.at = "check"])
    ELSE IF f.again THEN Goto(t, [f EXCEPT !.at = "reschedule"])
    ELSE Pop(t)

(* Mutant: the flag of the group is left set.                               *)
NothingLeftKeepsFlag(t) ==
    LET f == Top(t) IN
    /\ At(t, "claim")
    /\ group[f.g].ctr >= LimitOf(f.g)
    /\ LeaveLoop(t, f)
    /\ UNCHANGED <<program, step, held, pos, group, queue, begun, ended, returned>>

(* ExecuteStep when every index is claimed; ExecuteLoop then clears the     *)
(* flag of the group if it was called by WaitForFinished.  The counter is   *)
(* capped: how far it went past the last index is never asked.              *)
NothingLeft(t) ==
    LET f == Top(t) IN
    /\ At(t, "claim")
    /\ group[f.g].ctr >= LimitOf(f.g)
    /\ group' = [group EXCEPT ![f.g].inTaskQueue = @ /\ ~f.wff]
    /\ LeaveLoop(t, f)
    /\ UNCHANGED <<program, step, held, pos, queue, begun, ended, returned>>

(* func(i): the function that the group holds at this moment.  The body of  *)
(* a "nest" contains another for_mt.                            *)
Body(t) ==
    LET f == Top(t)
        w == <<group[f.g].func, f.i>>
    IN
    /\ At(t, "body")
    /\ begun' = [begun EXCEPT ![w] = @ + 1]
    /\ IF Nests(w)
       THEN /\ GetTaskGroup(Nested(w))
            /\ stack' = [stack EXCEPT ![t] =
                  <<Entered(Nested(w)), [f EXCEPT !.at = "done", !.c = w[1]]>> \o Tail(@)]
       ELSE /\ Goto(t, [f EXCEPT !.at = "done", !.c = w[1]])
            /\ UNCHANGED <<pos, group>>
    /\ UNCHANGED <<program, step, held, queue, ended, returned>>

(* func has returned: remainingTasks -= 1.                                  *)
Done(t) ==
    LET f == Top(t) IN
    /\ At(t, "done")
    /\ ended' = ended \union {<<f.c, f.i>>}
    /\ group' = [group EXCEPT ![f.g].remaining = @ - 1]
    /\ IF KeepsGoing(t, f)
       THEN Goto(t, [f EXCEPT !.at = "claim", !.c = NoCall])
       ELSE LeaveLoop(t, [f EXCEPT !.c = NoCall])
    /\ UNCHANGED <<program, step, held, pos, queue, begun, returned>>

-----------------------------------------------------------------------------
(* The queues keep the order of each producer, not the order between them.  *)
Dequeuable(w) ==
    {k \in DOMAIN queue[w] : \A j \in 1..(k - 1) :
        \/ queue[w][j].by # queue[w][k].by
        \/ IsHighPriority(queue[w][j].g) # IsHighPriority(queue[w][k].g)}

(* DoTask: a thread takes a group from its own queue; whether a background  *)
(* group goes first depends on InSyncedCode.  ShouldReschedule is asked     *)
(* before the group is executed.                                            *)
Dequeue(t) ==
    \E k \in Dequeuable(t) :
        LET g == queue[t][k].g IN
        /\ At(t, "drain")
        /\ queue' = [queue EXCEPT ![t] = RemoveAt(@, k)]
        /\ Push(t, Frame("claim", g, NoCall, 0, FALSE,
                         ~IsHighPriority(g) /\ ~IsFinished(g)))
        /\ UNCHANGED <<program, step, held, pos, group, begun, ended, returned>>

(* DoTask finds nothing (more) to do and returns to WaitForFinished.        *)
Drained(t) ==
    /\ At(t, "drain")
    /\ queue[t] = <<>>
    /\ Len(stack[t]) > 1
    /\ Pop(t)
    /\ UNCHANGED <<program, step, held, pos, group, queue, begun, ended, returned>>

Reschedule(t) ==
    /\ At(t, "reschedule")
    /\ queue' = [queue EXCEPT ![t] = Append(@, [g |-> Top(t).g, by |-> t])]
    /\ Pop(t)
    /\ UNCHANGED <<program, step, held, pos, group, begun, ended, returned>>

(* WaitForFinished, the group not finished: execute other groups meanwhile. *)
(* Thread 0 only looks at the queue no worker loop ever uses, and spins.    *)
HelpOthers(t) ==
    /\ At(t, "check")
    /\ ~IsFinished(Top(t).g)
    /\ t # 0
    /\ Push(t, WorkerLoop)
    /\ UNCHANGED <<program, step, held, pos, group, queue, begun, ended, returned>>

(* Mutant: WaitForFinished returns when all indices are claimed.            *)
FinishWhenClaimed(t) ==
    LET g == Top(t).g IN
    /\ At(t, "check")
    /\ ~group[g].inTaskQueue
    /\ group' = [group EXCEPT ![g].remaining = 0, ![g].inUse = FALSE]
    /\ returned' = returned \union {group[g].func}
    /\ IF IsHighPriority(g) THEN UNCHANGED held ELSE held' = NoGroup
    /\ Pop(t)
    /\ UNCHANGED <<program, step, pos, queue, begun, ended>>

(* WaitForFinished, the group finished: wait until it is in no queue, as    *)
(* far as the flag tells, then ResetState and return.                       *)
Finish(t) ==
    LET g == Top(t).g IN
    /\ At(t, "check")
    /\ IsFinished(g)
    /\ ~group[g].inTaskQueue
    /\ group' = [group EXCEPT ![g].remaining = 0, ![g].inUse = FALSE]
    /\ returned' = returned \union {group[g].func}
    /\ IF IsHighPriority(g) THEN UNCHANGED held ELSE held' = NoGroup
    /\ Pop(t)
    /\ UNCHANGED <<program, step, pos, queue, begun, ended>>

(* The script is at its end and nothing is left to do.                      *)
Finished ==
    /\ step = Len(program)
    /\ stack[0] = <<>>
    /\ \A w \in Workers : stack[w] = <<WorkerLoop>> /\ queue[w] = <<>>
    /\ UNCHANGED vars

Execute(t) ==
    \/ EnqueueCounters(t) \/ EnqueueFields(t) \/ PushTaskGroup(t)
    \/ Claim(t) \/ NothingLeft(t) \/ Body(t) \/ Done(t)
    \/ Reschedule(t) \/ HelpOthers(t) \/ Finish(t)

Serve(w) == Dequeue(w) \/ Drained(w)

Next ==
    \/ Start \/ Wait \/ Finished
    \/ \E t \in Threads : Execute(t)
    \/ \E w \in Workers : Serve(w)

Spec == Init /\ [][Next]_vars

(* Somebody may still reach the group g: as the background group to wait    *)
(* for, from a frame of his stack, or through his queue.                    *)
Referenced(g) ==
    \/ held = g
    \/ \E t \in Threads : \E k \in DOMAIN stack[t] : stack[t][k].g = g
    \/ \E w \in Workers : \E k \in DOMAIN queue[w] : queue[w][k].g = g

(* What GetTaskGroup takes for granted: the group whose turn it is in the   *)
(* pool is free.  Its asserts look at the group's own fields, which do not  *)
(* tell.  Under Spec a pool that comes round may break it.                  *)
GroupsFree ==
    \A p \in {0, 1, 2} :
        pos'[p] # pos[p] => ~Referenced(<<p, pos[p] % PoolSize>>)
FreeSpec == Init /\ [][Next /\ GroupsFree]_vars

(* The scheduler runs every thread.                                         *)
FairSpec ==
    /\ FreeSpec
    /\ WF_vars(Start \/ Wait)
    /\ \A t \in Threads : WF_vars(Execute(t))
    /\ \A w \in Workers : WF_vars(Serve(w))

-----------------------------------------------------------------------------
(* Every variable has its type.                                             *)
Frames ==
    [at : {"counters", "fields", "push", "claim", "body", "done",
           "drain", "reschedule", "check"},
     g : Groups \union {NoGroup}, c : Calls \union {NoCall}, i : Nat,
     wff : BOOLEAN, again : BOOLEAN]
TypeOK ==
    /\ program \in Programs
    /\ step \in 0..Len(program)
    /\ held \in Groups \union {NoGroup}
    /\ pos \in [{0, 1, 2} -> Nat]
    /\ group \in [Groups -> [remaining : Nat, ctr : Nat, func : Calls \union {NoCall},
                             inTaskQueue : BOOLEAN, inUse : BOOLEAN]]
    /\ queue \in [Workers -> Seq([g : Groups, by : Threads])]
    /\ stack \in [Threads -> Seq(Frames)]
    /\ begun \in [AllItems -> Nat]
    /\ ended \subseteq AllItems
    /\ returned \subseteq Calls

(* The calls that thread 0 has reached in its script and those made by the  *)
(* bodies that were begun.                                                  *)
Called ==
    {<<k>> : k \in {j \in 1..step : program[j] # "wait"}}
        \union {Nested(w) : w \in {v \in AllItems : begun[v] > 0 /\ Nests(v)}}

(* for_mt, for_mt_background and the wait for it keep what ParallelFor      *)
(* promises their caller: each index is executed once, none outside the     *)
(* time between the call and its return, and the call returns with all      *)
(* indices executed - whichever threads execute them in whichever order.    *)
Loop == INSTANCE ParallelFor WITH called <- Called
LoopSpec == Loop!Spec

(* remainingTasks counts the indices of the group's call that have not been *)
(* completed, from the moment its fields are written until the call         *)
(* returns: no decrement of a worker is lost or meant for another call.     *)
RemainingIsRight ==
    \A g \in Groups :
        (/\ group[g].func # NoCall
         /\ \A t \in Threads : \A k \in DOMAIN stack[t] :
                stack[t][k].at \notin {"counters", "fields"} \/ stack[t][k].g # g)
        => group[g].remaining = Cardinality(Items(group[g].func) \ ended)

(* Every loop returns to its caller, although a thread that waits for one   *)
(* may be executing another loop's body meanwhile, and every loop's body    *)
(* may wait for a loop of its own.                                          *)
EveryCallReturns == []<>(Called \subseteq returned)

(* WaitForFinished (ThreadPool.cpp:288) waits because returning too early   *)
(* "could cause the group to be deleted or reassigned prematurely": a group *)
(* that was reassigned still runs every index before its call returns.      *)
ReassignedGroupIsComplete ==
    \A c \in returned : Items(c) \subseteq ended

=============================================================================
