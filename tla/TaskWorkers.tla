------------------------------ MODULE TaskWorkers ------------------------------
(***************************************************************************)
(* The task manager of engine/core: producers hand tasks to TaskQueues,    *)
(* TaskWorkerThreads pop and run them, TaskSchedulers hand over timed      *)
(* tasks when they fall due, a save blocks every thread of the manager     *)
(* (TaskManagerImpl::blockTaskManager ... unblockTaskManager), and         *)
(* shutdown stops them.                                                    *)
(*                                                                         *)
(* Every critical section of a queue's condMutex is one step; a thread in  *)
(* Condition::wait is in the sets of cond[q].  blockMutex[t] is the mutex  *)
(* a thread holds while it runs a task.  What a scheduler's get() returns  *)
(* is left open here (TimedTasks models it).  One save runs at a time: the *)
(* caller holds the lock of ObjectBrokerDirector (SaveRequests models it). *)
(***************************************************************************)
EXTENDS Integers, Sequences, FiniteSets, Conditions

CONSTANTS
    Workers,        \* the TaskWorkerThreads
    Schedulers,     \* the TaskSchedulers, those of the network tasks included
    Vectors,        \* the vectors workers, schedulers and ioSchedulers
    NonBlocking,    \* the workers of queues made with blockDuringSaveEvent false
    QueueOf,        \* the queue a worker pops from
    Tasks,
    SaveTasks,      \* the tasks whose run() starts a save
    Main,           \* a thread that is none of the manager's
    NoTask,         \* nullptr
    Free,           \* no thread
    MaxPushes,      \* bound: tasks handed to the queues in a behaviour
    MaxSaves        \* bound: saves in a behaviour

Threads == Workers \cup Schedulers
Queues  == {QueueOf[w] : w \in Workers}

ASSUME ThreadAssumption ==
    /\ NonBlocking \subseteq Workers
    /\ Workers \cap Schedulers = {}
    /\ Vectors \in [1..3 -> Seq(Threads)]
    /\ \A t \in Threads : \E g \in 1..3 : \E i \in 1..Len(Vectors[g]) : Vectors[g][i] = t
    /\ \A i \in 1..Len(Vectors[1]) : Vectors[1][i] \in Workers
    /\ \A g \in 2..3 : \A i \in 1..Len(Vectors[g]) : Vectors[g][i] \in Schedulers
    /\ Main \notin Threads /\ Free \notin Threads \cup {Main}
    /\ SaveTasks \subseteq Tasks /\ NoTask \notin Tasks
    /\ MaxPushes \in Nat /\ MaxSaves \in Nat

VARIABLES
    queue,        \* TaskQueue: the tasks waiting
    blocked,      \* TaskQueue: flush() was called
    cond,         \* TaskQueue: the condition of the queue
    pc,           \* where a thread is in its run() loop
    cur,          \* the task it popped
    blockMutex,   \* the owner of the thread's blockMutex
    pause,        \* pauseWorker of a worker, pause of a scheduler
    doRun,        \* cleared by stop()
    spc,          \* where the save is in blockTaskManager / unblockTaskManager
    group,        \* the vector it is working on
    idx,          \* its position in that vector, from 1
    saver,        \* the thread that runs the save
    saves,        \* saves so far
    lockers,      \* the threads whose blockMutex a Locker of the save owns
    vectors,      \* the vectors of threads; shutdown empties them
    shutdownPc,   \* where TaskManagerImpl::shutdown is
    joining,      \* the thread that shutdown is joining
    refs,         \* the references the task manager holds on a task
    pushes        \* executeTask calls so far

taskVars  == <<queue, blocked, cond, refs, pushes>>
threadVars == <<pc, cur, doRun>>
saveVars  == <<spc, group, idx, saver, saves, lockers>>
stopVars  == <<vectors, shutdownPc, joining>>
vars == <<queue, blocked, cond, refs, pushes, pc, cur, doRun, blockMutex, pause,
          spc, group, idx, saver, saves, lockers, vectors, shutdownPc, joining>>

\* Every thread a save has to stop.
Stoppable == Threads \ NonBlocking

TypeOK ==
    /\ queue \in [Queues -> Seq(Tasks)]
    /\ blocked \in [Queues -> BOOLEAN]
    /\ cond \in [Queues -> ConditionType(Workers)]
    /\ pc \in [Threads -> {"loop", "wait", "lock", "null", "nullpause",
                           "run", "pause", "stopped"}]
    /\ cur \in [Threads -> Tasks \cup {NoTask}]
    /\ blockMutex \in [Threads -> Threads \cup {Main, Free}]
    /\ pause \in [Threads -> BOOLEAN]
    /\ doRun \in [Threads -> BOOLEAN]
    /\ spc \in {"idle", "pausing", "locking", "blocked", "unblocking"}
    /\ group \in 1..3
    /\ idx \in Nat \ {0}
    /\ saver \in Threads \cup {Main, Free}
    /\ saves \in 0..MaxSaves
    /\ lockers \subseteq Stoppable
    /\ vectors \in [1..3 -> Seq(Threads)]
    /\ shutdownPc \in {"running", "schedulers", "flush", "workers", "done"}
    /\ joining \in Threads \cup {Free}
    /\ refs \in [Tasks -> Nat]
    /\ pushes \in 0..MaxPushes

Init ==
    /\ queue = [q \in Queues |-> <<>>]
    /\ blocked = [q \in Queues |-> FALSE]
    /\ cond = [q \in Queues |-> NewCondition]
    /\ pc = [t \in Threads |-> "loop"]
    /\ cur = [t \in Threads |-> NoTask]
    /\ blockMutex = [t \in Threads |-> Free]
    /\ pause = [t \in Threads |-> FALSE]
    /\ doRun = [t \in Threads |-> TRUE]
    /\ spc = "idle" /\ group = 1 /\ idx = 1 /\ saver = Free
    /\ saves = 0 /\ lockers = {}
    /\ vectors = Vectors /\ shutdownPc = "running" /\ joining = Free
    /\ refs = [t \in Tasks |-> 0]
    /\ pushes = 0
--------------------------------------------------------------------------------
(***************************************************************************)
(* Pushing: TaskManagerImpl::executeTask and TaskQueue::push.  The round   *)
(* robin over the queues and the custom queues are a choice of q.          *)
(***************************************************************************)

\* Variant: push adds the task without Task::acquire, as pushAll does.
PushWithoutAcquire(q, task) ==
    /\ queue' = [queue EXCEPT ![q] = Append(@, task)]
    /\ \E c \in Signal(cond[q]) : cond' = [cond EXCEPT ![q] = c]
    /\ UNCHANGED refs

\* Variant: push does not signal.
PushWithoutSignal(q, task) ==
    /\ queue' = [queue EXCEPT ![q] = Append(@, task)]
    /\ refs' = [refs EXCEPT ![task] = @ + 1]
    /\ UNCHANGED cond

\* A queue with a task put in at place i.
PutAt(s, i, task) ==
    [j \in 1..(Len(s) + 1) |-> IF j < i THEN s[j] ELSE IF j = i THEN task ELSE s[j - 1]]

\* TaskQueue::push, pushFront and pushRandom differ in where the task goes.
Push(q, task) ==
    IF blocked[q] \/ shutdownPc # "running"
      THEN UNCHANGED <<queue, cond, refs>>
      ELSE /\ \E i \in 1..(Len(queue[q]) + 1) :
                  queue' = [queue EXCEPT ![q] = PutAt(@, i, task)]
           /\ refs' = [refs EXCEPT ![task] = @ + 1]
           /\ \E c \in Signal(cond[q]) : cond' = [cond EXCEPT ![q] = c]

\* A thread outside the manager calls executeTask.
ExecuteTask(q, task) ==
    /\ pushes < MaxPushes /\ pushes' = pushes + 1
    /\ Push(q, task)
    /\ UNCHANGED <<blocked, blockMutex, pause, threadVars, saveVars, stopVars>>
--------------------------------------------------------------------------------
(***************************************************************************)
(* TaskWorkerThread::run.                                                  *)
(***************************************************************************)

\* The loop condition fails after stop().
Stop(t) ==
    /\ pc[t] = "loop" /\ ~doRun[t]
    /\ pc' = [pc EXCEPT ![t] = "stopped"]
    /\ UNCHANGED <<taskVars, cur, doRun, blockMutex, pause, saveVars, stopVars>>

\* pop() leaves the critical section with the head of the queue, or with nullptr.
TakeHead(w, q) ==
    /\ IF queue[q] = <<>>
         THEN /\ cur' = [cur EXCEPT ![w] = NoTask]
              /\ UNCHANGED queue
         ELSE /\ cur' = [cur EXCEPT ![w] = Head(queue[q])]
              /\ queue' = [queue EXCEPT ![q] = Tail(@)]
    /\ pc' = [pc EXCEPT ![w] = "lock"]

\* TaskQueue::pop up to the wait.
Pop(w) ==
    LET q == QueueOf[w] IN
    /\ pc[w] = "loop" /\ doRun[w]
    /\ IF queue[q] # <<>> \/ blocked[q] \/ WaitReturns(cond[q])
         THEN /\ TakeHead(w, q)
              /\ cond' = IF queue[q] = <<>> /\ ~blocked[q]
                           THEN [cond EXCEPT ![q] = ConsumeSignal(@)] ELSE cond
         ELSE /\ cond' = [cond EXCEPT ![q] = Sleep(@, w)]
              /\ pc' = [pc EXCEPT ![w] = "wait"]
              /\ UNCHANGED <<queue, cur>>
    /\ UNCHANGED <<blocked, refs, pushes, doRun, blockMutex, pause, saveVars, stopVars>>

\* TaskQueue::pop from the return of the wait.
PopWoken(w) ==
    LET q == QueueOf[w] IN
    /\ pc[w] = "wait" /\ w \in cond[q].woken
    /\ cond' = [cond EXCEPT ![q] = Return(@, w)]
    /\ TakeHead(w, q)
    /\ UNCHANGED <<blocked, refs, pushes, doRun, blockMutex, pause, saveVars, stopVars>>

\* pthread_cond_wait may return without a signal.
SpuriousWakeup(w) ==
    LET q == QueueOf[w] IN
    /\ w \in cond[q].asleep
    /\ cond' = [cond EXCEPT ![q] = TimeOut(@, w)]
    /\ UNCHANGED <<queue, blocked, refs, pushes, threadVars, blockMutex, pause,
                   saveVars, stopVars>>

\* blockMutex.lock() after the pop.
LockBlockMutex(t) ==
    /\ pc[t] = "lock" /\ blockMutex[t] = Free
    /\ blockMutex' = [blockMutex EXCEPT ![t] = t]
    /\ pc' = [pc EXCEPT ![t] = IF cur[t] = NoTask THEN "null" ELSE "run"]
    /\ UNCHANGED <<taskVars, cur, doRun, pause, saveVars, stopVars>>

\* No task: unlock at once.
UnlockNull(t) ==
    /\ pc[t] = "null"
    /\ blockMutex' = [blockMutex EXCEPT ![t] = Free]
    /\ pc' = [pc EXCEPT ![t] = "nullpause"]
    /\ UNCHANGED <<taskVars, cur, doRun, pause, saveVars, stopVars>>

\* The task has run: unlock and release it.
EndTask(w) ==
    /\ pc[w] = "run" /\ saver # w
    /\ blockMutex' = [blockMutex EXCEPT ![w] = Free]
    /\ refs' = [refs EXCEPT ![cur[w]] = @ - 1]
    /\ cur' = [cur EXCEPT ![w] = NoTask]
    /\ pc' = [pc EXCEPT ![w] = "pause"]
    /\ UNCHANGED <<queue, blocked, cond, pushes, doRun, pause, saveVars, stopVars>>

\* The loops that sleep while the thread is paused.
Resume(t) ==
    /\ pc[t] \in {"pause", "nullpause"} /\ ~pause[t]
    /\ pc' = [pc EXCEPT ![t] = "loop"]
    /\ UNCHANGED <<taskVars, cur, doRun, blockMutex, pause, saveVars, stopVars>>
--------------------------------------------------------------------------------
(***************************************************************************)
(* TaskScheduler::run: get() and, under blockMutex, Task::execute.         *)
(***************************************************************************)

\* tasks.get() returned a due task or nullptr.
SchedulerGet(s, task) ==
    /\ pc[s] = "loop" /\ doRun[s]
    /\ IF task = NoTask THEN UNCHANGED pushes
                        ELSE pushes < MaxPushes /\ pushes' = pushes + 1
    /\ cur' = [cur EXCEPT ![s] = task]
    /\ pc' = [pc EXCEPT ![s] = "lock"]
    /\ UNCHANGED <<queue, blocked, cond, refs, doRun, blockMutex, pause, saveVars, stopVars>>

\* Task::execute: the task goes to a queue, the scheduler unlocks.
SchedulerRun(s, q) ==
    /\ pc[s] = "run"
    /\ Push(q, cur[s])
    /\ blockMutex' = [blockMutex EXCEPT ![s] = Free]
    /\ cur' = [cur EXCEPT ![s] = NoTask]
    /\ pc' = [pc EXCEPT ![s] = "pause"]
    /\ UNCHANGED <<blocked, pushes, doRun, pause, saveVars, stopVars>>
--------------------------------------------------------------------------------
(***************************************************************************)
(* TaskManagerImpl::blockTaskManager: for each vector of threads, pause    *)
(* all of them, then lock all of them; unblockTaskManager unlocks them.    *)
(***************************************************************************)

\* A save starts on a worker that runs such a task, or on another thread.
StartSave(t) ==
    /\ spc = "idle" /\ saves < MaxSaves /\ saves' = saves + 1
    /\ t = Main \/ (t \in Workers /\ pc[t] = "run" /\ cur[t] \in SaveTasks)
    /\ saver' = t /\ spc' = "pausing" /\ group' = 1 /\ idx' = 1
    /\ UNCHANGED <<taskVars, threadVars, blockMutex, pause, lockers, stopVars>>

\* Variant: the loops stop one element early.
InVectorOffByOne == idx < Len(vectors[group])

\* The loops over a vector test the index against the size the vector has now.
InVector == idx <= Len(vectors[group])

\* Workers that do not block during a save are passed over.
SkipThread ==
    /\ spc \in {"pausing", "locking"} /\ InVector
    /\ vectors[group][idx] \in NonBlocking
    /\ idx' = idx + 1
    /\ UNCHANGED <<taskVars, threadVars, blockMutex, pause, spc, group, saver, saves, lockers, stopVars>>

\* Variant: setPause(true) wakes the queue and does not set the flag.
SetPauseLost(t) ==
    /\ spc = "pausing" /\ InVector
    /\ t = vectors[group][idx] /\ t \notin NonBlocking
    /\ cond' = IF t \in Workers THEN [cond EXCEPT ![QueueOf[t]] = Broadcast(@)] ELSE cond
    /\ idx' = idx + 1
    /\ UNCHANGED <<queue, blocked, refs, pushes, threadVars, blockMutex, pause, spc, group,
                   saver, saves, lockers, stopVars>>

\* setPause(true), with the wake-up of the queue.
SetPause(t) ==
    /\ spc = "pausing" /\ InVector
    /\ t = vectors[group][idx] /\ t \notin NonBlocking
    /\ pause' = [pause EXCEPT ![t] = TRUE]
    /\ cond' = IF t \in Workers THEN [cond EXCEPT ![QueueOf[t]] = Broadcast(@)] ELSE cond
    /\ idx' = idx + 1
    /\ UNCHANGED <<queue, blocked, refs, pushes, threadVars, blockMutex, spc, group, saver,
                   saves, lockers, stopVars>>

\* new Locker(blockMutex), which does nothing when this very thread holds it,
\* then setPause(false).
LockThread(t) ==
    /\ spc = "locking" /\ InVector
    /\ t = vectors[group][idx] /\ t \notin NonBlocking
    /\ blockMutex[t] \in {Free, saver}
    /\ blockMutex' = [blockMutex EXCEPT ![t] = saver]
    /\ lockers' = IF blockMutex[t] = Free THEN lockers \cup {t} ELSE lockers
    /\ pause' = [pause EXCEPT ![t] = FALSE]
    /\ idx' = idx + 1
    /\ UNCHANGED <<taskVars, threadVars, spc, group, saver, saves, stopVars>>

\* The end of a loop: the other loop over the same vector, the next vector, or
\* the return of blockTaskManager.
NextLoop ==
    /\ spc \in {"pausing", "locking"} /\ ~InVector
    /\ idx' = 1
    /\ IF spc = "pausing" THEN spc' = "locking" /\ UNCHANGED group
       ELSE IF group < 3 THEN spc' = "pausing" /\ group' = group + 1
       ELSE spc' = "blocked" /\ group' = 1
    /\ UNCHANGED <<taskVars, threadVars, blockMutex, pause, saver, saves, lockers, stopVars>>

\* The save has copied what it needs and calls unblockTaskManager.
Unblock ==
    /\ spc = "blocked"
    /\ spc' = "unblocking"
    /\ UNCHANGED <<taskVars, threadVars, blockMutex, pause, group, idx, saver, saves, lockers, stopVars>>

\* delete of one Locker.
UnlockThread(t) ==
    /\ spc = "unblocking" /\ t \in lockers
    /\ blockMutex' = [blockMutex EXCEPT ![t] = Free]
    /\ lockers' = lockers \ {t}
    /\ UNCHANGED <<taskVars, threadVars, pause, spc, group, idx, saver, saves, stopVars>>

\* unblockTaskManager returns and so does the save.
EndSave ==
    /\ spc = "unblocking" /\ lockers = {}
    /\ spc' = "idle" /\ saver' = Free
    /\ UNCHANGED <<taskVars, threadVars, blockMutex, pause, group, idx, saves, lockers, stopVars>>
--------------------------------------------------------------------------------
(***************************************************************************)
(* TaskManagerImpl::shutdown: stop and join the schedulers one by one,     *)
(* flush the queues, stop and join the workers.                            *)
(***************************************************************************)

Shutdown ==
    /\ shutdownPc = "running"
    /\ shutdownPc' = "schedulers"
    /\ UNCHANGED <<taskVars, threadVars, blockMutex, pause, saveVars, vectors, joining>>

\* The thread at the front of a vector is removed; its stop() clears doRun.
StopThread(g) ==
    /\ joining = Free /\ vectors[g] # <<>>
    /\ \/ shutdownPc = "schedulers" /\ (g = 2 \/ (g = 3 /\ vectors[2] = <<>>))
       \/ shutdownPc = "workers" /\ g = 1
    /\ joining' = Head(vectors[g])
    /\ vectors' = [vectors EXCEPT ![g] = Tail(@)]
    /\ doRun' = [doRun EXCEPT ![Head(vectors[g])] = FALSE]
    /\ UNCHANGED <<taskVars, pc, cur, blockMutex, pause, saveVars, shutdownPc>>

\* join() returns.
Joined ==
    /\ joining # Free /\ pc[joining] = "stopped"
    /\ joining' = Free
    /\ UNCHANGED <<taskVars, threadVars, blockMutex, pause, saveVars, vectors, shutdownPc>>

\* Variant: flush wakes nobody.
FlushWithoutBroadcast(q) ==
    /\ shutdownPc = "flush" /\ ~blocked[q]
    /\ blocked' = [blocked EXCEPT ![q] = TRUE]
    /\ refs' = [t \in Tasks |->
                   refs[t] - Cardinality({i \in DOMAIN queue[q] : queue[q][i] = t})]
    /\ queue' = [queue EXCEPT ![q] = <<>>]
    /\ UNCHANGED <<cond, pushes, threadVars, blockMutex, pause, saveVars, stopVars>>

\* TaskQueue::flush: block the queue, wake its workers, release its tasks.
Flush(q) ==
    /\ shutdownPc = "flush" /\ ~blocked[q]
    /\ blocked' = [blocked EXCEPT ![q] = TRUE]
    /\ cond' = [cond EXCEPT ![q] = Broadcast(@)]
    /\ refs' = [t \in Tasks |->
                   refs[t] - Cardinality({i \in DOMAIN queue[q] : queue[q][i] = t})]
    /\ queue' = [queue EXCEPT ![q] = <<>>]
    /\ UNCHANGED <<pushes, threadVars, blockMutex, pause, saveVars, stopVars>>

\* The end of the loops of shutdown.
NextStage ==
    /\ joining = Free
    /\ \/ /\ shutdownPc = "schedulers" /\ vectors[2] = <<>> /\ vectors[3] = <<>>
          /\ shutdownPc' = "flush"
       \/ /\ shutdownPc = "flush" /\ \A q \in Queues : blocked[q]
          /\ shutdownPc' = "workers"
       \/ /\ shutdownPc = "workers" /\ vectors[1] = <<>>
          /\ shutdownPc' = "done"
    /\ UNCHANGED <<taskVars, threadVars, blockMutex, pause, saveVars, vectors, joining>>
--------------------------------------------------------------------------------
WorkerStep(w) == Pop(w) \/ PopWoken(w) \/ EndTask(w)
SchedulerStep(s) == \E task \in Tasks \cup {NoTask} : SchedulerGet(s, task)
ThreadStep(t) == LockBlockMutex(t) \/ UnlockNull(t) \/ Resume(t) \/ Stop(t)

SaveStep ==
    \/ SkipThread \/ NextLoop \/ Unblock \/ EndSave
    \/ \E t \in Threads : SetPause(t) \/ LockThread(t) \/ UnlockThread(t)

ShutdownStep ==
    Joined \/ NextStage \/ (\E g \in 1..3 : StopThread(g)) \/ (\E q \in Queues : Flush(q))

Next ==
    \/ \E q \in Queues, task \in Tasks : ExecuteTask(q, task)
    \/ \E t \in Threads : ThreadStep(t)
    \/ \E w \in Workers : WorkerStep(w) \/ SpuriousWakeup(w)
    \/ \E s \in Schedulers : SchedulerStep(s) \/ (\E q \in Queues : SchedulerRun(s, q))
    \/ \E t \in Workers \cup {Main} : StartSave(t)
    \/ SaveStep
    \/ Shutdown \/ ShutdownStep

Spec == Init /\ [][Next]_vars

(***************************************************************************)
(* Every thread keeps taking steps, tasks return, and so do a save and a   *)
(* shutdown that began.  Nothing obliges anyone to push, to save, to shut  *)
(* down or to be woken for no reason.  A mutex need not be fair: weak      *)
(* fairness of LockThread and LockBlockMutex only says that a mutex that   *)
(* stays free is taken.                                                    *)
(***************************************************************************)
Fairness ==
    /\ \A t \in Threads : WF_vars(ThreadStep(t))
    /\ \A w \in Workers : WF_vars(WorkerStep(w))
    /\ \A s \in Schedulers : WF_vars(\E q \in Queues : SchedulerRun(s, q))
    /\ \A s \in Schedulers : WF_vars(SchedulerGet(s, NoTask))
    /\ WF_vars(SaveStep)
    /\ WF_vars(ShutdownStep)

FairSpec == Spec /\ Fairness
--------------------------------------------------------------------------------
(***************************************************************************)
(* The inductive invariant behind SaveExclusion.                           *)
(***************************************************************************)

\* A thread owns its own blockMutex exactly between lock() and unlock().
OwnerRuns == \A t \in Threads : pc[t] \in {"null", "run"} <=> blockMutex[t] = t

\* A save runs on a worker in the middle of a task or on a foreign thread, and
\* owns through its Lockers only the mutexes of other threads.
SaverHolds ==
    /\ saver \in Workers \cup {Main, Free}
    /\ spc = "idle" <=> saver = Free
    /\ saver \in Workers => pc[saver] = "run"
    /\ \A t \in lockers : t # saver /\ blockMutex[t] = saver /\ spc # "idle"

\* The position (g, i) of the vectors has been passed by a loop that locks.
Passed(g, i) ==
    spc = "blocked" \/ g < group \/ (g = group /\ spc = "locking" /\ i < idx)

\* Until a shutdown begins, the save owns the mutexes it has passed.
PassedHeld ==
    shutdownPc = "running" =>
        /\ vectors = Vectors
        /\ spc \in {"pausing", "locking", "blocked"} =>
             \A g \in 1..3 : \A i \in 1..Len(Vectors[g]) :
                Passed(g, i) /\ Vectors[g][i] \notin NonBlocking
                    => blockMutex[Vectors[g][i]] = saver

BlockInv == OwnerRuns /\ SaverHolds /\ PassedHeld

\* While the manager is blocked for a save (blockTaskManager has returned,
\* unblockTaskManager has not been called), no thread that a save has to stop
\* is between blockMutex.lock() and blockMutex.unlock() of its run() loop,
\* except the worker that runs the save.  The save reads objects that tasks
\* modify, without their locks.
SaveExclusion ==
    spc = "blocked" /\ shutdownPc = "running" =>
        \A t \in Stoppable : t # saver => pc[t] \notin {"null", "run"}

\* The places of a task in the queues.
Entries(task) == UNION {{<<q, i>> : i \in {j \in DOMAIN queue[q] : queue[q][j] = task}} :
                           q \in Queues}

\* Every variable has its type, and the references the manager holds on a task
\* (Task::acquire in push, release in run and flush) are those of the queue entries
\* and of the workers that hold it: none leaks, none is released twice.
RefsBalanced ==
    /\ TypeOK
    /\ \A task \in Tasks :
        refs[task] = Cardinality(Entries(task))
                         + Cardinality({w \in Workers : cur[w] = task})

\* No wake-up is lost: a task that waits in a queue is popped, although a
\* signal is dropped while a woken worker has not yet returned from wait and
\* pop() does not wait again when it finds the queue empty.
QueuesDrain == \A q \in Queues : queue[q] # <<>> ~> queue[q] = <<>>

\* A save gets hold of all the threads, whatever the producers do, because a
\* paused thread no longer competes for its blockMutex; then it finishes.
\* (A shutdown that overlaps it may make it pass over a thread.)
SaveCompletes == spc = "pausing" ~> spc = "idle" \/ shutdownPc # "running"

\* shutdown() returns: no worker or scheduler sleeps through its stop().  (A save
\* that overlaps it may leave a thread paused, which then never stops.)
ShutdownCompletes ==
    shutdownPc = "schedulers" /\ spc = "idle" /\ (\A t \in Threads : ~pause[t])
        ~> shutdownPc = "done" \/ spc # "idle"
================================================================================
