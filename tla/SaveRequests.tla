------------------------------ MODULE SaveRequests ------------------------------
(***************************************************************************)
(* Who may save, and when: DOBObjectManager::createBackup goes through     *)
(* ObjectBrokerDirector and ObjectBrokerAgent to                           *)
(* updateModifiedObjectsToDatabase, which refuses a save while another one *)
(* is running, and CommitMasterTransactionThread ends the save and         *)
(* schedules the next.  This module keeps the locks and who waits for      *)
(* which; TaskWorkers has the block of the task manager and UpdateThreads  *)
(* the copy and the commit in detail.                                      *)
(*                                                                         *)
(* A worker holds its blockMutex while it runs a task.  The mutexes are    *)
(* taken again by the thread that holds them, as Locker lets it.           *)
(***************************************************************************)
EXTENDS Integers

CONSTANTS
    NumWorkers,     \* workers that a save blocks
    NumOthers,      \* threads outside the task manager that ask for saves
    JSON,           \* whether a save that is asked for may have SAVE_JSON
    Spaced          \* whether a save is asked for only when none is under way

Workers == 1..NumWorkers
Threads == 1..(NumWorkers + NumOthers)
None == 0
Master == -1

ASSUME SaveRequestsAssumption ==
    NumWorkers \in Nat /\ NumOthers \in Nat /\ JSON \in BOOLEAN /\ Spaced \in BOOLEAN

VARIABLES
    pc,                     \* where a thread is
    flag,                   \* whether the save it asks for has SAVE_JSON
    director,               \* who holds the mutex of ObjectBrokerDirector
    blockMutex,             \* who holds the blockMutex of each worker
    next,                   \* the next worker that its blockTaskManager locks
    objectManager,          \* who holds the mutex of DOBObjectManager
    objectUpdateInProgress, dumpRunning,
    scheduled,              \* updateModifiedObjectsTask->isScheduled()
    mpc                     \* where the master is

vars == <<pc, flag, director, blockMutex, next, objectManager, objectUpdateInProgress,
          dumpRunning, scheduled, mpc>>

TypeOK ==
    /\ pc \in [Threads -> {"idle", "task", "director", "check", "block", "manager", "copy",
                           "return"}]
    /\ flag \in [Threads -> BOOLEAN]
    /\ director \in Threads \cup {None}
    /\ blockMutex \in [Workers -> Threads \cup {None}]
    /\ next \in [Threads -> 1..(NumWorkers + 1)]
    /\ objectManager \in Threads \cup {None, Master}
    /\ objectUpdateInProgress \in BOOLEAN /\ dumpRunning \in BOOLEAN /\ scheduled \in BOOLEAN
    /\ mpc \in {"idle", "commit", "finish", "backup"}

\* The program calls scheduleUpdateToDatabase when it starts.
Init ==
    /\ pc = [t \in Threads |-> "idle"] /\ flag = [t \in Threads |-> FALSE]
    /\ director = None
    /\ blockMutex = [w \in Workers |-> None]
    /\ next = [t \in Threads |-> 1]
    /\ objectManager = None
    /\ objectUpdateInProgress = FALSE /\ dumpRunning = FALSE
    /\ scheduled = TRUE
    /\ mpc = "idle"
--------------------------------------------------------------------------------
\* TaskWorkerThread::run takes the blockMutex for a task.  A worker that was paused
\* after it popped its task still does; that it then pops no other is left out.
Lock(t) ==
    IF t \in Workers
      THEN blockMutex[t] = None /\ blockMutex' = [blockMutex EXCEPT ![t] = t]
      ELSE UNCHANGED blockMutex

Unlock(t) == blockMutex' = [w \in Workers |-> IF w = t THEN None ELSE blockMutex[w]]

RunTask(w) ==
    /\ pc[w] = "idle" /\ Lock(w)
    /\ pc' = [pc EXCEPT ![w] = "task"]
    /\ UNCHANGED <<flag, director, next, objectManager, objectUpdateInProgress, dumpRunning,
                   scheduled, mpc>>

EndTask(w) ==
    /\ pc[w] = "task" /\ Unlock(w)
    /\ pc' = [pc EXCEPT ![w] = "idle"]
    /\ UNCHANGED <<flag, director, next, objectManager, objectUpdateInProgress, dumpRunning,
                   scheduled, mpc>>

\* No save is under way.
Quiet == mpc = "idle" /\ \A t \in Threads : pc[t] \in {"idle", "task"}

\* updateModifiedObjectsTask runs on a worker, UPDATETODATABASETIME after the last
\* save: the default flags have no SAVE_JSON.
Periodic(w) ==
    /\ scheduled /\ pc[w] = "idle" /\ Lock(w)
    /\ Spaced => Quiet
    /\ scheduled' = FALSE
    /\ flag' = [flag EXCEPT ![w] = FALSE]
    /\ pc' = [pc EXCEPT ![w] = "director"]
    /\ UNCHANGED <<director, next, objectManager, objectUpdateInProgress, dumpRunning, mpc>>

\* A task or another thread calls createBackup.
CreateBackup(t) ==
    /\ pc[t] = "idle" /\ Lock(t)
    /\ Spaced => Quiet
    /\ \E json \in {FALSE, JSON} : flag' = [flag EXCEPT ![t] = json]
    /\ pc' = [pc EXCEPT ![t] = "director"]
    /\ UNCHANGED <<director, next, objectManager, objectUpdateInProgress, dumpRunning,
                   scheduled, mpc>>
--------------------------------------------------------------------------------
\* Variant: the director is not locked.
SendCommandUnlocked(t) ==
    /\ pc[t] = "director"
    /\ pc' = [pc EXCEPT ![t] = "check"]
    /\ UNCHANGED <<flag, director, blockMutex, next, objectManager, objectUpdateInProgress,
                   dumpRunning, scheduled, mpc>>

\* ObjectBrokerDirector::sendCommand locks the director until the save returns.
SendCommand(t) ==
    /\ pc[t] = "director" /\ director = None
    /\ director' = t
    /\ pc' = [pc EXCEPT ![t] = "check"]
    /\ UNCHANGED <<flag, blockMutex, next, objectManager, objectUpdateInProgress, dumpRunning,
                   scheduled, mpc>>

\* A save that is running, or a dump, refuses this one.
Check(t) ==
    /\ pc[t] = "check"
    /\ pc' = [pc EXCEPT ![t] =
                IF objectUpdateInProgress \/ dumpRunning THEN "return"
                ELSE IF NumWorkers = 0 THEN "manager" ELSE "block"]
    /\ next' = [next EXCEPT ![t] = 1]
    /\ UNCHANGED <<flag, director, blockMutex, objectManager, objectUpdateInProgress,
                   dumpRunning, scheduled, mpc>>

\* blockTaskManager locks the workers one after the other.
Block(t) ==
    /\ pc[t] = "block" /\ blockMutex[next[t]] \in {None, t}
    /\ blockMutex' = [blockMutex EXCEPT ![next[t]] = t]
    /\ next' = [next EXCEPT ![t] = @ + 1]
    /\ pc' = [pc EXCEPT ![t] = IF next[t] = NumWorkers THEN "manager" ELSE "block"]
    /\ UNCHANGED <<flag, director, objectManager, objectUpdateInProgress, dumpRunning,
                   scheduled, mpc>>

\* The save begins: the periodic one is cancelled.
Begin(t) ==
    /\ pc[t] = "manager" /\ objectManager = None
    /\ objectManager' = t
    /\ objectUpdateInProgress' = TRUE
    /\ scheduled' = FALSE
    /\ pc' = [pc EXCEPT ![t] = "copy"]
    /\ UNCHANGED <<flag, director, blockMutex, next, dumpRunning, mpc>>

\* Variant: the workers are not let go.
CopiedBlocked(t) ==
    /\ pc[t] = "copy"
    /\ dumpRunning' = (dumpRunning \/ flag[t])
    /\ mpc' = "commit"
    /\ objectManager' = None
    /\ pc' = [pc EXCEPT ![t] = "return"]
    /\ UNCHANGED <<flag, director, blockMutex, next, objectUpdateInProgress, scheduled>>

\* The objects are copied, the workers let go, a dump is started if it was asked
\* for, and the master told to commit.
Copied(t) ==
    /\ pc[t] = "copy"
    /\ blockMutex' = [w \in Workers |-> IF w = t THEN t ELSE None]
    /\ dumpRunning' = (dumpRunning \/ flag[t])
    /\ mpc' = "commit"
    /\ objectManager' = None
    /\ pc' = [pc EXCEPT ![t] = "return"]
    /\ UNCHANGED <<flag, director, next, objectUpdateInProgress, scheduled>>

\* createBackup returns, and so does the task that called it.
CommandDone(t) ==
    /\ pc[t] = "return"
    /\ director' = IF director = t THEN None ELSE director
    /\ Unlock(t)
    /\ flag' = [flag EXCEPT ![t] = FALSE]
    /\ pc' = [pc EXCEPT ![t] = "idle"]
    /\ UNCHANGED <<next, objectManager, objectUpdateInProgress, dumpRunning, scheduled, mpc>>
--------------------------------------------------------------------------------
\* commitData: the transaction is committed, and garbageCollect takes the object
\* manager for every object.
Commit ==
    /\ mpc = "commit" /\ objectManager = None
    /\ mpc' = "finish"
    /\ UNCHANGED <<pc, flag, director, blockMutex, next, objectManager, objectUpdateInProgress,
                   dumpRunning, scheduled>>

\* Variant: the next save is not scheduled.
FinishOnce ==
    /\ mpc = "finish" /\ objectManager = None
    /\ objectManager' = Master
    /\ objectUpdateInProgress' = FALSE
    /\ mpc' = "backup"
    /\ UNCHANGED <<pc, flag, director, blockMutex, next, dumpRunning, scheduled>>

\* finishObjectUpdate locks the object manager, lets the next save in and
\* schedules it,
FinishObjectUpdate ==
    /\ mpc = "finish" /\ objectManager = None
    /\ objectManager' = Master
    /\ objectUpdateInProgress' = FALSE
    /\ scheduled' = TRUE
    /\ mpc' = "backup"
    /\ UNCHANGED <<pc, flag, director, blockMutex, next, dumpRunning>>

\* and then tells the director, whose mutex handleStateUpdate takes.
FinishBackup ==
    /\ mpc = "backup" /\ director = None
    /\ objectManager' = None
    /\ mpc' = "idle"
    /\ UNCHANGED <<pc, flag, director, blockMutex, next, objectUpdateInProgress, dumpRunning,
                   scheduled>>

\* The last task of the dump has run.
DumpEnds ==
    /\ dumpRunning
    /\ dumpRunning' = FALSE
    /\ UNCHANGED <<pc, flag, director, blockMutex, next, objectManager, objectUpdateInProgress,
                   scheduled, mpc>>

Save(t) ==
    \/ SendCommand(t) \/ Check(t) \/ Block(t) \/ Begin(t) \/ Copied(t) \/ CommandDone(t)

MasterStep == Commit \/ FinishObjectUpdate \/ FinishBackup

Next ==
    \/ \E w \in Workers : RunTask(w) \/ EndTask(w) \/ Periodic(w)
    \/ \E t \in Threads : CreateBackup(t) \/ Save(t)
    \/ MasterStep
    \/ DumpEnds

Spec == Init /\ [][Next]_vars

\* Every thread that holds what it needs goes on, a mutex comes round to each of
\* those that wait for it, tasks and dumps end, and the timer of a scheduled task
\* runs out.
Fairness ==
    /\ \A t \in Threads : SF_vars(Save(t))
    /\ \A w \in Workers : WF_vars(EndTask(w))
    /\ SF_vars(MasterStep) /\ WF_vars(DumpEnds)
    /\ SF_vars(\E w \in Workers : Periodic(w))

FairSpec == Spec /\ Fairness
--------------------------------------------------------------------------------
\* What the check of objectUpdateInProgress found still holds when the save that
\* passed it begins, although it waits for every worker and for the object manager
\* in between: no save begins on top of another (updateModifiedObjectsToDatabase).
DecisionStands ==
    \A t \in Threads :
        pc[t] \in {"block", "manager"} => ~objectUpdateInProgress /\ mpc \in {"idle", "backup"}

\* There is always a next save to come: one is scheduled, or is running and will
\* schedule it, or is on its way to run (finishObjectUpdate schedules the next).
SaveToCome ==
    \/ scheduled \/ objectUpdateInProgress
    \/ \E t \in Threads : pc[t] \in {"director", "check", "block", "manager"}

\* createBackup returns, with the save made or refused (the message of
\* updateModifiedObjectsToDatabase: "try again later").
Answered == \A t \in Threads : pc[t] = "director" ~> pc[t] = "idle"

\* Saves are made for ever (the task that finishObjectUpdate schedules).
SavesGoOn == []<>objectUpdateInProgress
================================================================================
