------------------------------- MODULE TimedTasks -------------------------------
(***************************************************************************)
(* Timed tasks: engine/core/TimedTaskQueue, the TaskScheduler threads that *)
(* take tasks from such queues when they are due, and the schedule and     *)
(* cancel operations of TaskManagerImpl.  What a scheduler does with a     *)
(* task it took, and pausing and stopping all threads, is in TaskWorkers.  *)
(*                                                                         *)
(* A queue is a set of tasks whose earliest member is its peak             *)
(* (PriorityQueue).  mutex[s] is the condMutex of the queue of scheduler s. *)
(* A task is used by one caller, which schedules a periodic task again     *)
(* only when its rounds have ended; then nobody changes a task while       *)
(* another thread is adding it, and add is one step (QueueInv).            *)
(***************************************************************************)
EXTENDS Integers, FiniteSets, Conditions

CONSTANTS
    NumSchedulers, NumTasks, NumCallers,
    Owner,          \* the caller that uses a task
    Delays,         \* the delays of a schedule
    Periods,        \* the periods of a schedule, 0 for a task that runs once
    Tolerance,      \* 10 ms: how early get() may return a task
    MaxTime,        \* bound: the clock
    MaxSchedules,   \* bound: schedule operations
    Stops           \* whether schedulers are stopped

Schedulers == 1..NumSchedulers
Tasks == 1..NumTasks
Callers == (NumSchedulers + 1)..(NumSchedulers + NumCallers)
Threads == Schedulers \cup Callers
None == 0

ASSUME TimedTasksAssumption ==
    /\ NumSchedulers \in Nat \ {0} /\ NumTasks \in Nat /\ NumCallers \in Nat
    /\ Owner \in [Tasks -> Callers]
    /\ Delays \subseteq Nat /\ Periods \subseteq Nat /\ Tolerance \in Nat
    /\ MaxTime \in Nat /\ MaxSchedules \in Nat /\ Stops \in BOOLEAN

VARIABLES
    now,            \* the clock
    time,           \* Task: nextExecutionTime
    period,         \* Task: period
    taskScheduler,  \* Task: taskScheduler
    refs,           \* Task: references held by queues and threads
    heap,           \* TimedTaskQueue: the tasks in it
    cond,           \* TimedTaskQueue: the condition
    mutex,          \* TimedTaskQueue: the thread that holds condMutex
    blocked, waitingForTask, changePlan,
    doRun,          \* TaskScheduler
    pc, cur,        \* where a thread is, and the task it handles
    until,          \* get(): the time it waits for
    dest, delay,    \* the queue a thread operates on, the delay it asked for
    cancelled,      \* the last cancel of a task returned true
    schedules

taskVars == <<time, period, taskScheduler, refs>>
queueVars == <<heap, cond, mutex, blocked, waitingForTask, changePlan>>
threadVars == <<pc, cur, until, dest, delay>>
restVars == <<doRun, cancelled, schedules>>
vars == <<now, taskVars, queueVars, threadVars, restVars>>

Init ==
    /\ now = 0
    /\ time = [t \in Tasks |-> 0] /\ period = [t \in Tasks |-> 0]
    /\ taskScheduler = [t \in Tasks |-> None] /\ refs = [t \in Tasks |-> 0]
    /\ heap = [s \in Schedulers |-> {}]
    /\ cond = [s \in Schedulers |-> NewCondition]
    /\ mutex = [s \in Schedulers |-> None]
    /\ blocked = [s \in Schedulers |-> FALSE]
    /\ waitingForTask = [s \in Schedulers |-> FALSE]
    /\ changePlan = [s \in Schedulers |-> FALSE]
    /\ doRun = [s \in Schedulers |-> TRUE]
    /\ pc = [x \in Threads |-> IF x \in Schedulers THEN "get" ELSE "idle"]
    /\ cur = [x \in Threads |-> None]
    /\ until = [s \in Schedulers |-> 0]
    /\ dest = [x \in Threads |-> None] /\ delay = [x \in Threads |-> 0]
    /\ cancelled = [t \in Tasks |-> FALSE]
    /\ schedules = 0

\* PriorityQueue::peak with Task::compareTo: the earliest task, and of several
\* with the same time the one at the lowest address.
Before(t, u) == time[t] < time[u] \/ (time[t] = time[u] /\ t <= u)

Peak(s) == CHOOSE t \in heap[s] : \A u \in heap[s] : Before(t, u)

\* A thread goes on at another place.
Goto(x, place) == pc' = [pc EXCEPT ![x] = place]

Unlock(s) == mutex' = [mutex EXCEPT ![s] = None]

\* The time passes, beyond the bound only for a task that is to run once.
Tick ==
    /\ now < MaxTime \/ \E t \in Tasks :
          taskScheduler[t] # None /\ period[t] = 0 /\ time[t] > now
    /\ now' = now + 1
    /\ UNCHANGED <<taskVars, queueVars, threadVars, restVars>>

-----------------------------------------------------------------------------
(* TimedTaskQueue::get, in the thread of the scheduler.  What it does while *)
(* it holds condMutex is one step, except that it may be given a task or   *)
(* wait again after a timed wait that a remembered signal ended at once.   *)

\* get() returns nullptr, and run() sleeps for a moment.
ReturnNull(s) ==
    /\ Unlock(s) /\ Goto(s, "pause")
    /\ cur' = [cur EXCEPT ![s] = None]
    /\ until' = [until EXCEPT ![s] = 0]
    /\ waitingForTask' = [waitingForTask EXCEPT ![s] = TRUE]
    /\ UNCHANGED <<heap, taskScheduler>>

\* get() returns the first task.
Poll(s) ==
    /\ heap' = [heap EXCEPT ![s] = @ \ {Peak(s)}]
    /\ taskScheduler' = [taskScheduler EXCEPT ![Peak(s)] = None]
    /\ cur' = [cur EXCEPT ![s] = Peak(s)]
    /\ waitingForTask' = [waitingForTask EXCEPT ![s] = FALSE]
    /\ until' = [until EXCEPT ![s] = 0]
    /\ Unlock(s) /\ Goto(s, "run")

\* wait, or timedWait until a time, for the task that is the peak now.
Wait(s, place) ==
    /\ cond' = [cond EXCEPT ![s] = Sleep(@, s)]
    /\ Unlock(s) /\ Goto(s, place)
    /\ waitingForTask' = [waitingForTask EXCEPT ![s] = TRUE]
    /\ UNCHANGED <<heap, taskScheduler>>

\* timedWait, which a remembered signal ends at once.
Plan(s) ==
    /\ cur' = [cur EXCEPT ![s] = Peak(s)]
    /\ until' = [until EXCEPT ![s] = time[Peak(s)]]
    /\ IF WaitReturns(cond[s])
         THEN /\ cond' = [cond EXCEPT ![s] = ConsumeSignal(@)]
              /\ mutex' = [mutex EXCEPT ![s] = s] /\ Goto(s, "timed")
              /\ waitingForTask' = [waitingForTask EXCEPT ![s] = TRUE]
              /\ UNCHANGED <<heap, taskScheduler>>
         ELSE Wait(s, "timedWait")

\* The loop of get() from the top: the scheduler enters, or its plan changed.
GetTop(s) ==
    /\ \/ pc[s] = "get" /\ doRun[s] /\ mutex[s] = None
       \/ pc[s] = "top"
    /\ \/ /\ heap[s] = {} /\ blocked[s]
          /\ ReturnNull(s) /\ UNCHANGED cond
       \/ /\ heap[s] = {} /\ ~blocked[s] /\ WaitReturns(cond[s])
          /\ ReturnNull(s) /\ cond' = [cond EXCEPT ![s] = ConsumeSignal(@)]
       \/ /\ heap[s] = {} /\ ~blocked[s] /\ ~WaitReturns(cond[s])
          /\ Wait(s, "wait") /\ UNCHANGED <<cur, until>>
       \/ /\ heap[s] # {} /\ (blocked[s] \/ time[Peak(s)] <= now)
          /\ Poll(s) /\ UNCHANGED cond
       \/ /\ heap[s] # {} /\ ~blocked[s] /\ time[Peak(s)] > now
          /\ Plan(s)
    /\ UNCHANGED <<now, time, period, refs, blocked, changePlan, dest, delay, restVars>>

\* The wait on the empty queue returns.
WaitReturn(s) ==
    /\ pc[s] = "wait" /\ s \in cond[s].woken /\ mutex[s] = None
    /\ \/ /\ heap[s] = {}
          /\ ReturnNull(s) /\ cond' = [cond EXCEPT ![s] = Return(@, s)]
       \/ /\ heap[s] # {} /\ (blocked[s] \/ time[Peak(s)] <= now)
          /\ Poll(s) /\ cond' = [cond EXCEPT ![s] = Return(@, s)]
       \/ /\ heap[s] # {} /\ ~blocked[s] /\ time[Peak(s)] > now
          /\ cond' = [cond EXCEPT ![s] = Sleep(Return(@, s), s)]
          /\ Unlock(s) /\ Goto(s, "timedWait")
          /\ cur' = [cur EXCEPT ![s] = Peak(s)]
          /\ until' = [until EXCEPT ![s] = time[Peak(s)]]
          /\ UNCHANGED <<heap, taskScheduler, waitingForTask>>
    /\ UNCHANGED <<now, time, period, refs, blocked, changePlan, dest, delay, restVars>>

\* The timed wait ends because the time has come.
Expire(s) ==
    /\ pc[s] = "timedWait" /\ s \in cond[s].asleep /\ until[s] <= now
    /\ cond' = [cond EXCEPT ![s] = TimeOut(@, s)]
    /\ UNCHANGED <<now, taskVars, heap, mutex, blocked, waitingForTask, changePlan, threadVars,
                   restVars>>

\* Mutant: a wait that ends without a change of plan is taken for the timeout.
TimedWaitReturnTrusting(s) ==
    /\ \/ /\ pc[s] = "timedWait" /\ s \in cond[s].woken /\ mutex[s] = None
          /\ cond' = [cond EXCEPT ![s] = Return(@, s)]
       \/ pc[s] = "timed" /\ UNCHANGED cond
    /\ changePlan' = [changePlan EXCEPT ![s] = FALSE]
    /\ IF changePlan[s]
         THEN /\ mutex' = [mutex EXCEPT ![s] = s] /\ Goto(s, "top")
              /\ cur' = [cur EXCEPT ![s] = None]
              /\ until' = [until EXCEPT ![s] = 0]
              /\ UNCHANGED <<heap, taskScheduler, waitingForTask>>
         ELSE Poll(s)
    /\ UNCHANGED <<now, time, period, refs, blocked, dest, delay, restVars>>

\* After timedWait: the task that was the peak before is cur[s].
TimedWaitReturn(s) ==
    /\ \/ /\ pc[s] = "timedWait" /\ s \in cond[s].woken /\ mutex[s] = None
          /\ cond' = [cond EXCEPT ![s] = Return(@, s)]
       \/ pc[s] = "timed" /\ UNCHANGED cond
    /\ changePlan' = [changePlan EXCEPT ![s] = FALSE]
    /\ IF changePlan[s]
         THEN /\ mutex' = [mutex EXCEPT ![s] = s] /\ Goto(s, "top")
              /\ cur' = [cur EXCEPT ![s] = None]
              /\ until' = [until EXCEPT ![s] = 0]
              /\ UNCHANGED <<heap, taskScheduler, waitingForTask>>
       ELSE IF until[s] > now /\ time[cur[s]] - now > Tolerance
         THEN ReturnNull(s)
         ELSE Poll(s)
    /\ UNCHANGED <<now, time, period, refs, blocked, dest, delay, restVars>>

-----------------------------------------------------------------------------
(* TaskScheduler::run around get().                                        *)

\* Thread::sleep after get() returned nullptr.
Resume(s) ==
    /\ pc[s] = "pause"
    /\ Goto(s, "get")
    /\ UNCHANGED <<now, taskVars, queueVars, cur, until, dest, delay, restVars>>

\* The end of a round: the reference that came with the task is given back.
Release(s) ==
    /\ refs' = [refs EXCEPT ![cur[s]] = @ - 1]
    /\ cur' = [cur EXCEPT ![s] = None]
    /\ Goto(s, "get")

\* The task is executed, and isPeriodic() read when it was.
Run(s) ==
    /\ pc[s] = "run"
    /\ IF period[cur[s]] # 0
         THEN Goto(s, "periodic") /\ UNCHANGED <<refs, cur>>
         ELSE Release(s)
    /\ UNCHANGED <<now, time, period, taskScheduler, queueVars, until, dest, delay, restVars>>

\* TaskManagerImpl::scheduleTask: the task goes to some scheduler; a task that is
\* scheduled is refused with an exception.
Choose(x, t, d) ==
    \E q \in Schedulers :
        /\ dest' = [dest EXCEPT ![x] = q]
        /\ delay' = [delay EXCEPT ![x] = d]
        /\ cur' = [cur EXCEPT ![x] = t]
        /\ Goto(x, "add")

SchedulePeriod(s) ==
    /\ pc[s] = "periodic"
    /\ IF taskScheduler[cur[s]] # None
         THEN Release(s) /\ UNCHANGED <<dest, delay>>
         ELSE Choose(s, cur[s], period[cur[s]]) /\ UNCHANGED refs
    /\ UNCHANGED <<now, time, period, taskScheduler, queueVars, until, restVars>>

\* The loop ends after TaskScheduler::stop.
EndRun(s) ==
    /\ pc[s] = "get" /\ ~doRun[s]
    /\ Goto(s, "done")
    /\ UNCHANGED <<now, taskVars, queueVars, cur, until, dest, delay, restVars>>

-----------------------------------------------------------------------------
(* TimedTaskQueue::add, remove, flush and wake, in any thread.             *)

\* Mutant: the plan is changed and the scheduler left asleep.
ReplanWithoutSignal(s, changed) ==
    /\ changePlan' = [changePlan EXCEPT ![s] = @ \/ (changed /\ waitingForTask[s])]
    /\ UNCHANGED cond

\* changePlan and the signal when the peak of a waiting queue changes.
Replan(s, changed) ==
    IF changed /\ waitingForTask[s]
      THEN /\ changePlan' = [changePlan EXCEPT ![s] = TRUE]
           /\ \E c \in Signal(cond[s]) : cond' = [cond EXCEPT ![s] = c]
      ELSE UNCHANGED <<changePlan, cond>>

\* add(task, delay) between lock and unlock.  delay 0 leaves the time as it is.
Insert(q, t, d) ==
    LET at == IF d = 0 THEN time[t] ELSE now + d
        peak == \A u \in heap[q] : at < time[u] \/ (at = time[u] /\ t <= u)
    IN  /\ time' = [time EXCEPT ![t] = at]
        /\ IF blocked[q]
             THEN UNCHANGED <<heap, taskScheduler, changePlan, cond>>
             ELSE /\ heap' = [heap EXCEPT ![q] = @ \cup {t}]
                  /\ taskScheduler' = [taskScheduler EXCEPT ![t] = q]
                  /\ Replan(q, peak)

\* Mutant: the scheduler keeps its own reference.
AddAgainKept(s) ==
    LET q == dest[s]  t == cur[s] IN
    /\ pc[s] = "add" /\ mutex[q] = None
    /\ Insert(q, t, delay[s])
    /\ refs' = [refs EXCEPT ![t] = @ + (IF blocked[q] THEN 0 ELSE 1)]
    /\ cur' = [cur EXCEPT ![s] = None]
    /\ dest' = [dest EXCEPT ![s] = None] /\ delay' = [delay EXCEPT ![s] = 0]
    /\ Goto(s, "get")
    /\ UNCHANGED <<now, period, mutex, blocked, waitingForTask, until, restVars>>

\* A scheduler adds the task it ran, and gives its own reference back.
AddAgain(s) ==
    LET q == dest[s]  t == cur[s] IN
    /\ pc[s] = "add" /\ mutex[q] = None
    /\ Insert(q, t, delay[s])
    /\ refs' = [refs EXCEPT ![t] = @ - (IF blocked[q] THEN 1 ELSE 0)]
    /\ cur' = [cur EXCEPT ![s] = None]
    /\ dest' = [dest EXCEPT ![s] = None] /\ delay' = [delay EXCEPT ![s] = 0]
    /\ Goto(s, "get")
    /\ UNCHANGED <<now, period, mutex, blocked, waitingForTask, until, restVars>>

\* A caller adds a task.
Add(c) ==
    LET q == dest[c]  t == cur[c] IN
    /\ c \in Callers /\ pc[c] = "add" /\ mutex[q] = None
    /\ Insert(q, t, delay[c])
    /\ refs' = [refs EXCEPT ![t] = @ + (IF blocked[q] THEN 0 ELSE 1)]
    /\ cur' = [cur EXCEPT ![c] = None]
    /\ dest' = [dest EXCEPT ![c] = None] /\ delay' = [delay EXCEPT ![c] = 0]
    /\ Goto(c, "idle")
    /\ UNCHANGED <<now, period, mutex, blocked, waitingForTask, until, restVars>>

\* Mutant: the scheduler is not told that its first task is gone.
DeleteQuietly(q, t) ==
    /\ heap' = [heap EXCEPT ![q] = @ \ {t}]
    /\ taskScheduler' = [taskScheduler EXCEPT ![t] = None]
    /\ refs' = [refs EXCEPT ![t] = @ - 1]
    /\ UNCHANGED <<changePlan, cond>>

\* remove(task) of the task's own queue between lock and unlock.
Delete(q, t) ==
    /\ heap' = [heap EXCEPT ![q] = @ \ {t}]
    /\ taskScheduler' = [taskScheduler EXCEPT ![t] = None]
    /\ refs' = [refs EXCEPT ![t] = @ - 1]
    /\ Replan(q, t = Peak(q))

\* Mutant: the queue is blocked and the scheduler left asleep.
StopQuietly(s) ==
    /\ Stops /\ doRun[s] /\ mutex[s] = None
    /\ doRun' = [doRun EXCEPT ![s] = FALSE]
    /\ blocked' = [blocked EXCEPT ![s] = TRUE]
    /\ UNCHANGED <<now, taskVars, heap, cond, mutex, waitingForTask, changePlan, threadVars,
                   cancelled, schedules>>

\* TaskScheduler::stop, up to the join.
Stop(s) ==
    /\ Stops /\ doRun[s] /\ mutex[s] = None
    /\ doRun' = [doRun EXCEPT ![s] = FALSE]
    /\ blocked' = [blocked EXCEPT ![s] = TRUE]
    /\ cond' = IF waitingForTask[s] THEN [cond EXCEPT ![s] = Broadcast(@)] ELSE cond
    /\ UNCHANGED <<now, taskVars, heap, mutex, waitingForTask, changePlan, threadVars,
                   cancelled, schedules>>

\* TimedTaskQueue::wake, from TaskScheduler::setPause.
Wake(s) ==
    /\ mutex[s] = None
    /\ cond[s].signalCount = 0
    /\ \E c \in Signal(cond[s]) : cond' = [cond EXCEPT ![s] = c]
    /\ UNCHANGED <<now, taskVars, heap, mutex, blocked, waitingForTask, changePlan, threadVars,
                   restVars>>

-----------------------------------------------------------------------------
(* The callers.                                                            *)

\* No scheduler is going to add the task for a period.
Quiet(t, p) ==
    \A s \in Schedulers : cur[s] = t =>
        pc[s] \notin {"periodic", "add"} /\ (pc[s] = "run" => p = 0 /\ period[t] = 0)

\* Task::schedule and Task::schedulePeriodic.
Schedule(c, t, d, p) ==
    /\ pc[c] = "idle" /\ Owner[t] = c /\ Quiet(t, p) /\ schedules < MaxSchedules
    /\ taskScheduler[t] = None
    /\ schedules' = schedules + 1
    /\ period' = [period EXCEPT ![t] = p]
    /\ cancelled' = [cancelled EXCEPT ![t] = FALSE]
    /\ Choose(c, t, d)
    /\ UNCHANGED <<now, time, taskScheduler, refs, queueVars, until, doRun>>

\* Task::schedulePeriodic of a task that is scheduled: the exception comes after
\* the period was set.
ScheduleRefused(c, t, p) ==
    /\ pc[c] = "idle" /\ Owner[t] = c /\ Quiet(t, p) /\ schedules < MaxSchedules
    /\ taskScheduler[t] # None /\ p # 0
    /\ schedules' = schedules + 1
    /\ period' = [period EXCEPT ![t] = p]
    /\ UNCHANGED <<now, time, taskScheduler, refs, queueVars, threadVars, doRun, cancelled>>

\* A caller that holds the mutexes of some queues is in calls of
\* TimedTaskQueue::remove for tasks of other queues: those calls return true.
Held(c) == {s \in Schedulers : mutex[s] = c}

\* The end of Task::cancel, and of the calls it was made from.
EndCancel(c, t, result) ==
    /\ cancelled' = [cancelled EXCEPT ![t] = result \/ Held(c) # {}]
    /\ mutex' = [s \in Schedulers |-> IF mutex[s] = c THEN None ELSE mutex[s]]
    /\ cur' = [cur EXCEPT ![c] = None] /\ dest' = [dest EXCEPT ![c] = None]
    /\ Goto(c, "idle")

\* TaskManagerImpl::cancelTask: reads the scheduler of the task.
Cancel(c, t) ==
    /\ \/ pc[c] = "idle" /\ Owner[t] = c
       \/ pc[c] = "cancel" /\ cur[c] = t
    /\ IF taskScheduler[t] = None
         THEN EndCancel(c, t, FALSE)
         ELSE /\ dest' = [dest EXCEPT ![c] = taskScheduler[t]]
              /\ cur' = [cur EXCEPT ![c] = t]
              /\ Goto(c, "setPeriod")
              /\ UNCHANGED <<cancelled, mutex>>
    /\ UNCHANGED <<now, taskVars, heap, cond, blocked, waitingForTask, changePlan, until, delay,
                   doRun, schedules>>

\* Mutant: the period is left as it is.
SetPeriodNot(c) ==
    /\ pc[c] = "setPeriod"
    /\ Goto(c, "remove")
    /\ UNCHANGED <<now, taskVars, queueVars, cur, until, dest, delay, restVars>>

\* TaskScheduler::cancelTask, up to the lock of the queue.
SetPeriod(c) ==
    /\ pc[c] = "setPeriod"
    /\ period' = [period EXCEPT ![cur[c]] = 0]
    /\ Goto(c, "remove")
    /\ UNCHANGED <<now, time, taskScheduler, refs, queueVars, cur, until, dest, delay, restVars>>

\* TimedTaskQueue::remove: the task may have left the queue, and be in another.
Remove(c) ==
    LET q == dest[c]  t == cur[c] IN
    /\ pc[c] = "remove" /\ mutex[q] = None
    /\ IF taskScheduler[t] = None
         THEN /\ EndCancel(c, t, FALSE)
              /\ UNCHANGED <<heap, taskScheduler, refs, changePlan, cond>>
       ELSE IF taskScheduler[t] # q
         THEN /\ mutex' = [mutex EXCEPT ![q] = c]
              /\ Goto(c, "cancel")
              /\ UNCHANGED <<heap, taskScheduler, refs, changePlan, cond, cancelled, cur, dest>>
         ELSE Delete(q, t) /\ EndCancel(c, t, TRUE)
    /\ UNCHANGED <<now, time, period, blocked, waitingForTask, until, delay, doRun, schedules>>

SchedulerStep(s) ==
    \/ GetTop(s) \/ WaitReturn(s) \/ Expire(s) \/ TimedWaitReturn(s)
    \/ Resume(s) \/ Run(s) \/ SchedulePeriod(s) \/ AddAgain(s) \/ EndRun(s)

CallerStep(c) ==
    Add(c) \/ SetPeriod(c) \/ Remove(c) \/ \E t \in Tasks : pc[c] = "cancel" /\ Cancel(c, t)

Next ==
    \/ Tick
    \/ \E s \in Schedulers : SchedulerStep(s) \/ Stop(s) \/ Wake(s)
    \/ \E c \in Callers : CallerStep(c)
    \/ \E c \in Callers, t \in Tasks :
        \/ pc[c] = "idle" /\ Cancel(c, t)
        \/ \E d \in Delays, p \in Periods : Schedule(c, t, d, p)
        \/ \E p \in Periods : ScheduleRefused(c, t, p)

Spec == Init /\ [][Next]_vars

\* Time passes, and a thread that can go on does.
Fairness ==
    /\ WF_vars(Tick)
    /\ \A s \in Schedulers : WF_vars(SchedulerStep(s))
    /\ \A c \in Callers : WF_vars(CallerStep(c))

FairSpec == Spec /\ Fairness

-----------------------------------------------------------------------------
(* Properties.                                                             *)

\* Every variable has its type.
TypeOK ==
    /\ now \in Nat /\ time \in [Tasks -> Nat] /\ period \in [Tasks -> Nat]
    /\ taskScheduler \in [Tasks -> Schedulers \cup {None}] /\ refs \in [Tasks -> Nat]
    /\ heap \in [Schedulers -> SUBSET Tasks]
    /\ cond \in [Schedulers -> ConditionType(Schedulers)]
    /\ mutex \in [Schedulers -> Threads \cup {None}]
    /\ blocked \in [Schedulers -> BOOLEAN] /\ waitingForTask \in [Schedulers -> BOOLEAN]
    /\ changePlan \in [Schedulers -> BOOLEAN] /\ doRun \in [Schedulers -> BOOLEAN]
    /\ pc \in [Threads -> {"get", "top", "wait", "timedWait", "timed", "pause", "run", "periodic",
                           "add", "done", "idle", "cancel", "setPeriod", "remove"}]
    /\ cur \in [Threads -> Tasks \cup {None}]
    /\ until \in [Schedulers -> Nat]
    /\ dest \in [Threads -> Schedulers \cup {None}] /\ delay \in [Threads -> Nat]
    /\ cancelled \in [Tasks -> BOOLEAN] /\ schedules \in 0..MaxSchedules

\* When TimedTaskQueue::get comes back from its timed wait and its plan was not
\* changed, the task it peeked at before the wait is still the first of the
\* queue: the pointer is valid and poll returns that task.
PeekStands ==
    \A s \in Schedulers : pc[s] \in {"timed", "timedWait"} /\ ~changePlan[s] =>
        heap[s] # {} /\ cur[s] = Peak(s) /\ time[cur[s]] = until[s]

\* Every variable has its type, and the tasks are accounted for:
\* a task is in the queue of its taskScheduler and in no other (the assertions on
\* clearTaskScheduler in get and remove), in none while a thread is about to add it,
\* so that add never takes it out of one, and it has one reference for the queue it
\* is in and one for each scheduler that took it out and has not finished with it.
QueueInv ==
    /\ TypeOK
    /\ \A t \in Tasks :
        /\ \A s \in Schedulers : t \in heap[s] <=> taskScheduler[t] = s
        /\ \A x \in Threads : pc[x] = "add" /\ cur[x] = t => taskScheduler[t] = None
        /\ refs[t] = Cardinality({s \in Schedulers : t \in heap[s]})
                     + Cardinality({s \in Schedulers :
                                      cur[s] = t /\ pc[s] \in {"run", "periodic", "add"}})

\* get never returns a task more than the tolerance before its time, unless the
\* queue is being flushed: the "future task happenend" error does not occur,
\* whatever signals arrive while it waits.
NeverFuture ==
    [][\A s \in Schedulers :
          pc[s] # "run" /\ pc'[s] = "run" /\ ~blocked[s] => time[cur'[s]] - now <= Tolerance]_vars

\* A scheduled task does not stay in its queue forever: no signal is lost that
\* makes a scheduler sleep past the time of its first task.
DueTaskLeaves ==
    \A t \in Tasks, s \in Schedulers :
        taskScheduler[t] = s ~> taskScheduler[t] # s \/ ~doRun[s]

\* Task::cancel returns, although it may hold the mutex of one queue while it
\* waits for that of another, to which the task has moved; and a task whose cancel
\* returned true comes to rest, a periodic one included, although a round may be on
\* its way when it is cancelled.
CancelEnds ==
    /\ \A c \in Callers : pc[c] \in {"setPeriod", "remove", "cancel"} ~> pc[c] = "idle"
    /\ \A t \in Tasks :
          <>[]cancelled[t] =>
              <>[](taskScheduler[t] = None /\ \A s \in Schedulers : cur[s] # t)

\* A stopped scheduler leaves its loop although it slept or had tasks.
StopEnds == \A s \in Schedulers : ~doRun[s] ~> pc[s] = "done"
================================================================================
