------------------------------ MODULE UpdateThreads ------------------------------
(***************************************************************************)
(* The copy and commit of a save, engine/orb/db: the thread that saves     *)
(* deals batches of modified objects to UpdateModifiedObjectsThreads,      *)
(* waits until they are copied, and lets CommitMasterTransactionThread     *)
(* commit the transaction once every thread has committed its part.        *)
(*                                                                         *)
(* A thread holds its blockMutex from the moment it wakes until it waits   *)
(* again, which is while threadPc is "working" or "commit"; the critical   *)
(* sections of the other two are single steps.  A batch is a number, of    *)
(* objects to update or of objects to delete; one of both is like the      *)
(* first, as its two vectors are set and cleared together.  dispatched,    *)
(* written and committed say where the batches of this save have got to.   *)
(***************************************************************************)
EXTENDS Integers, FiniteSets, Conditions

CONSTANTS
    MaxThreads,     \* MAX_UPDATE_THREADS
    InitialThreads, \* INITIALUPDATEMODIFIEDOBJECTSTHREADS
    MaxBatches,     \* bound: batches of one save
    MaxSaves,       \* bound: saves
    Watcher         \* CommitMasterTransactionThread

ASSUME UpdateAssumption ==
    /\ MaxThreads \in Nat \ {0} /\ InitialThreads \in 0..MaxThreads
    /\ MaxBatches \in Nat /\ MaxSaves \in Nat

Updaters == 1..MaxThreads
Batches == 1..MaxBatches
NoBatch == 0           \* nullptr

VARIABLES
    threadPc,            \* where a thread is in run()
    waitingToStart, working, finishedCommiting, copyRAMFinished,
    objectsToUpdate, objectsToDelete, transaction,
    range,               \* the batch that startOffset and endOffset are of
    size,                \* updateModifiedObjectsThreads.size()
    updateInProgress,    \* objectUpdateInProgress
    spc,                 \* where the thread that saves is
    stage,               \* whether it deals batches or ends the copy
    current,             \* currentThread: batches dealt so far
    left,                \* batches still to deal
    thread,              \* the thread it is busy with
    deleteOnly,          \* the batch at hand has objects to delete and none to update
    masterPc,            \* where the master is
    waitCondition,       \* the condition it waits on
    threads,             \* whether its threads pointer is set
    index,               \* the thread it looks at
    dispatched, written, committed,
    late,                \* a thread had still to take the end of the last copy
    saves

threadVars == <<threadPc, waitingToStart, working, finishedCommiting, copyRAMFinished>>
workVars == <<objectsToUpdate, objectsToDelete, range, transaction>>
dealVars == <<stage, current, left, thread, deleteOnly, size>>
saverVars == <<spc, dealVars>>
masterVars == <<masterPc, waitCondition, threads, index>>
ghostVars == <<dispatched, written, committed, late, saves>>
updateVars == <<threadVars, workVars, saverVars, masterVars, ghostVars, updateInProgress>>

ThreadPlaces ==
    {"unborn", "top", "waiting", "woken", "working", "commit", "waitMaster", "wokenMaster"}
SaverPlaces ==
    {"idle", "dispatch", "await", "asleep", "woken", "setRest", "signal", "copied", "startWatch",
     "signalWatch"}
MasterPlaces == {"top", "waiting", "check", "commit", "finish", "clear"}

UpdateTypeOK ==
    /\ threadPc \in [Updaters -> ThreadPlaces]
    /\ waitingToStart \in [Updaters -> BOOLEAN] /\ working \in [Updaters -> BOOLEAN]
    /\ finishedCommiting \in [Updaters -> BOOLEAN] /\ copyRAMFinished \in [Updaters -> BOOLEAN]
    /\ objectsToUpdate \in [Updaters -> Batches \cup {NoBatch}]
    /\ objectsToDelete \in [Updaters -> Batches \cup {NoBatch}]
    /\ range \in [Updaters -> Batches \cup {NoBatch}]
    /\ transaction \in [Updaters -> BOOLEAN]
    /\ size \in InitialThreads..MaxThreads
    /\ updateInProgress \in BOOLEAN
    /\ spc \in SaverPlaces
    /\ stage \in {"deal", "end"}
    /\ current \in 0..MaxBatches /\ left \in 0..MaxBatches
    /\ thread \in Updaters /\ deleteOnly \in BOOLEAN
    /\ masterPc \in MasterPlaces
    /\ waitCondition \in ConditionType({Watcher})
    /\ threads \in BOOLEAN /\ index \in 1..(MaxThreads + 1)
    /\ dispatched \subseteq Batches /\ committed \subseteq Batches
    /\ written \in [Updaters -> SUBSET Batches]
    /\ late \in BOOLEAN /\ saves \in 0..MaxSaves

\* The constructor starts the first threads and the master.
UpdateInit ==
    /\ threadPc = [t \in Updaters |-> IF t <= InitialThreads THEN "top" ELSE "unborn"]
    /\ waitingToStart = [t \in Updaters |-> TRUE]
    /\ working = [t \in Updaters |-> FALSE]
    /\ finishedCommiting = [t \in Updaters |-> FALSE]
    /\ copyRAMFinished = [t \in Updaters |-> FALSE]
    /\ objectsToUpdate = [t \in Updaters |-> NoBatch]
    /\ objectsToDelete = [t \in Updaters |-> NoBatch]
    /\ range = [t \in Updaters |-> NoBatch]
    /\ transaction = [t \in Updaters |-> FALSE]
    /\ size = InitialThreads
    /\ updateInProgress = FALSE
    /\ spc = "idle" /\ stage = "deal" /\ current = 0 /\ left = 0 /\ thread = 1
    /\ deleteOnly = FALSE
    /\ masterPc = "top" /\ waitCondition = NewCondition /\ threads = FALSE /\ index = 1
    /\ dispatched = {} /\ written = [t \in Updaters |-> {}] /\ committed = {}
    /\ late = FALSE /\ saves = 0

\* The thread's blockMutex is free.
BlockMutexFree(t) == threadPc[t] \notin {"working", "commit"}

\* waitCondition.broadcast: threadPc after it.
Roused(t) == [threadPc EXCEPT ![t] = IF @ = "waiting" THEN "woken" ELSE @]
--------------------------------------------------------------------------------
(***************************************************************************)
(* UpdateModifiedObjectsThread::run.                                       *)
(***************************************************************************)

\* At the top of the loop, with the mutex: wait for work, or commit.
Enter(t) ==
    /\ IF copyRAMFinished[t]
         THEN threadPc' = [threadPc EXCEPT ![t] = "commit"] /\ UNCHANGED waitingToStart
         ELSE /\ threadPc' = [threadPc EXCEPT ![t] = "waiting"]
              /\ waitingToStart' = [waitingToStart EXCEPT ![t] = TRUE]
    /\ UNCHANGED copyRAMFinished

LockTop(t) ==
    /\ threadPc[t] = "top"
    /\ Enter(t)
    /\ UNCHANGED <<working, finishedCommiting, workVars, saverVars, masterVars, ghostVars,
                   updateInProgress>>

\* Variant: finishedCommiting keeps its value from the last save.
WakeStale(t) ==
    /\ threadPc[t] = "woken"
    /\ threadPc' = [threadPc EXCEPT ![t] = "working"]
    /\ waitingToStart' = [waitingToStart EXCEPT ![t] = FALSE]
    /\ working' = [working EXCEPT ![t] = TRUE]
    /\ UNCHANGED <<finishedCommiting, copyRAMFinished, workVars, saverVars, masterVars, ghostVars,
                   updateInProgress>>

\* The wait for work returns.
Wake(t) ==
    /\ threadPc[t] = "woken"
    /\ threadPc' = [threadPc EXCEPT ![t] = "working"]
    /\ waitingToStart' = [waitingToStart EXCEPT ![t] = FALSE]
    /\ working' = [working EXCEPT ![t] = TRUE]
    /\ finishedCommiting' = [finishedCommiting EXCEPT ![t] = FALSE]
    /\ UNCHANGED <<copyRAMFinished, workVars, saverVars, masterVars, ghostVars, updateInProgress>>

\* finishedWorkCondition.broadcast: the saver, if it waits for this thread.
FinishedWork(t) == IF spc = "asleep" /\ thread = t THEN "woken" ELSE spc

\* What commitObjectsToDatabase finds: the objects in its range of the vector it
\* was given, and the objects to delete.
Work(t) ==
    {b \in Batches : b = objectsToDelete[t] \/ (b = objectsToUpdate[t] /\ b = range[t])}

\* commitObjectsToDatabase, and back to the top with the mutex held.
CommitObjects(t) ==
    /\ threadPc[t] = "working"
    /\ written' = [written EXCEPT ![t] = @ \cup Work(t)]
    /\ working' = [working EXCEPT ![t] = FALSE]
    /\ objectsToUpdate' = [objectsToUpdate EXCEPT ![t] = NoBatch]
    /\ objectsToDelete' = [objectsToDelete EXCEPT ![t] = NoBatch]
    /\ spc' = FinishedWork(t)
    /\ Enter(t)
    /\ UNCHANGED <<finishedCommiting, range, transaction, dealVars, masterVars, dispatched,
                   committed, late, saves, updateInProgress>>

\* The local transaction is committed: the thread is ready for the next save.
Committed(t) ==
    /\ threadPc' = [threadPc EXCEPT ![t] = "top"]
    /\ copyRAMFinished' = [copyRAMFinished EXCEPT ![t] = FALSE]
    /\ finishedCommiting' = [finishedCommiting EXCEPT ![t] = TRUE]
    /\ committed' = committed \cup written[t]
    /\ written' = [written EXCEPT ![t] = {}]
    /\ transaction' = [transaction EXCEPT ![t] = FALSE]
    /\ UNCHANGED <<waitingToStart, working, objectsToUpdate, objectsToDelete, range, saverVars,
                   masterVars, dispatched, late, saves, updateInProgress>>

\* commitTransaction: a thread with a transaction waits for the master.
AwaitMaster(t) ==
    /\ threadPc[t] = "commit" /\ transaction[t]
    /\ threadPc' = [threadPc EXCEPT ![t] = "waitMaster"]
    /\ UNCHANGED <<waitingToStart, working, finishedCommiting, copyRAMFinished, workVars,
                   saverVars, masterVars, ghostVars, updateInProgress>>

CommitTransaction(t) ==
    /\ threadPc[t] = "wokenMaster" \/ (threadPc[t] = "commit" /\ ~transaction[t])
    /\ Committed(t)
--------------------------------------------------------------------------------
(***************************************************************************)
(* The thread that saves: updateModifiedObjectsToDatabase.                 *)
(***************************************************************************)

\* The save is let in; n batches are going to be dealt.  The next periodic save
\* is five minutes after the last one, one that is asked for may come at once.
\* The offsets that the threads still have are not of a batch of this save.  A
\* thread may be late: commitData passes one that got no batch on the
\* finishedCommiting of an earlier save, though signalCopyFinished was for it too.
BeginSave(n) ==
    /\ spc = "idle" /\ ~updateInProgress /\ saves < MaxSaves
    /\ updateInProgress' = TRUE
    /\ saves' = saves + 1
    /\ current' = 0 /\ left' = n
    /\ dispatched' = {} /\ committed' = {}
    /\ range' = [t \in Updaters |-> NoBatch]
    /\ late' = \E t \in Updaters : copyRAMFinished[t]
    /\ spc' = "dispatch" /\ stage' = "deal"
    /\ UNCHANGED <<threadVars, objectsToUpdate, objectsToDelete, transaction, thread, deleteOnly,
                   size, masterVars, written>>

\* Variant: the batches beyond MAX_UPDATE_THREADS do not go round the threads again.
DispatchOn ==
    /\ spc = "dispatch" /\ left > 0
    /\ thread' = current + 1
    /\ deleteOnly' \in BOOLEAN
    /\ IF thread' > size
         THEN size' = size + 1 /\ threadPc' = [threadPc EXCEPT ![thread'] = "top"]
         ELSE UNCHANGED <<size, threadPc>>
    /\ current' = current + 1
    /\ spc' = "await"
    /\ UNCHANGED <<waitingToStart, working, finishedCommiting, copyRAMFinished, workVars, stage,
                   left, masterVars, ghostVars, updateInProgress>>

\* dispatchUpdateModifiedObjectsThread takes the next thread, a new one while
\* there are less than MAX_UPDATE_THREADS.
Dispatch ==
    /\ spc = "dispatch" /\ left > 0
    /\ thread' = IF current >= MaxThreads THEN (current % size) + 1 ELSE current + 1
    /\ deleteOnly' \in BOOLEAN
    /\ IF thread' > size
         THEN size' = size + 1 /\ threadPc' = [threadPc EXCEPT ![thread'] = "top"]
         ELSE UNCHANGED <<size, threadPc>>
    /\ current' = current + 1
    /\ spc' = "await"
    /\ UNCHANGED <<waitingToStart, working, finishedCommiting, copyRAMFinished, workVars, stage,
                   left, masterVars, ghostVars, updateInProgress>>

\* waitFinishedWork, the loop: the thread has work and has not begun it.
Nudge ==
    /\ spc = "await" /\ BlockMutexFree(thread)
    /\ waitingToStart[thread] /\ objectsToUpdate[thread] # NoBatch
    /\ threadPc' = Roused(thread)
    /\ UNCHANGED <<waitingToStart, working, finishedCommiting, copyRAMFinished, workVars,
                   saverVars, masterVars, ghostVars, updateInProgress>>

\* waitFinishedWork, after the loop: wait once if the thread is working.
Await ==
    /\ spc = "await" /\ BlockMutexFree(thread)
    /\ ~(waitingToStart[thread] /\ objectsToUpdate[thread] # NoBatch)
    /\ working[thread]
    /\ spc' = "asleep"
    /\ UNCHANGED <<threadVars, workVars, dealVars, masterVars, ghostVars, updateInProgress>>

\* waitFinishedWork returns.
WorkFinished ==
    \/ /\ spc = "await" /\ BlockMutexFree(thread)
       /\ ~(waitingToStart[thread] /\ objectsToUpdate[thread] # NoBatch)
       /\ ~working[thread]
    \/ spc = "woken" /\ BlockMutexFree(thread)

\* The batch is set without the mutex: setObjectsToUpdateVector, or nothing if it
\* only has objects to delete,
SetVector ==
    /\ stage = "deal" /\ WorkFinished
    /\ objectsToUpdate' = [objectsToUpdate EXCEPT ![thread] =
                             IF deleteOnly THEN NoBatch ELSE current]
    /\ dispatched' = dispatched \cup {current}
    /\ spc' = "setRest"
    /\ UNCHANGED <<threadVars, objectsToDelete, range, transaction, dealVars, masterVars, written,
                   committed, late, saves, updateInProgress>>

\* and then the offsets, the transaction and the objects to delete.
SetRest ==
    /\ spc = "setRest"
    /\ range' = [range EXCEPT ![thread] = current]
    /\ transaction' = [transaction EXCEPT ![thread] = TRUE]
    /\ objectsToDelete' = [objectsToDelete EXCEPT ![thread] =
                             IF deleteOnly THEN current ELSE NoBatch]
    /\ spc' = "signal"
    /\ UNCHANGED <<threadVars, objectsToUpdate, dealVars, masterVars, ghostVars,
                   updateInProgress>>

SignalActivity ==
    /\ spc = "signal" /\ BlockMutexFree(thread)
    /\ working' = [working EXCEPT ![thread] = TRUE]
    /\ threadPc' = Roused(thread)
    /\ left' = left - 1
    /\ spc' = "dispatch"
    /\ UNCHANGED <<waitingToStart, finishedCommiting, copyRAMFinished, workVars, stage, current,
                   thread, deleteOnly, size, masterVars, ghostVars, updateInProgress>>

\* Every batch is dealt: each thread in turn is told that the copy ends.
EndDeal ==
    /\ spc = "dispatch" /\ left = 0
    /\ stage' = "end"
    /\ thread' = 1
    /\ spc' = IF size = 0 THEN "startWatch" ELSE "copied"
    /\ UNCHANGED <<threadVars, workVars, current, left, deleteOnly, size, masterVars, ghostVars,
                   updateInProgress>>

\* Variant: the flag is set and the thread is not woken.
SignalCopyFinishedQuietly ==
    /\ spc = "copied" /\ BlockMutexFree(thread)
    /\ copyRAMFinished' = [copyRAMFinished EXCEPT ![thread] = TRUE]
    /\ spc' = "await"
    /\ UNCHANGED <<threadPc, waitingToStart, working, finishedCommiting, workVars, dealVars,
                   masterVars, ghostVars, updateInProgress>>

SignalCopyFinished ==
    /\ spc = "copied" /\ BlockMutexFree(thread)
    /\ copyRAMFinished' = [copyRAMFinished EXCEPT ![thread] = TRUE]
    /\ threadPc' = Roused(thread)
    /\ spc' = "await"
    /\ UNCHANGED <<waitingToStart, working, finishedCommiting, workVars, dealVars, masterVars,
                   ghostVars, updateInProgress>>

NextThread ==
    /\ stage = "end" /\ WorkFinished
    /\ IF thread < size
         THEN spc' = "copied" /\ thread' = thread + 1
         ELSE spc' = "startWatch" /\ UNCHANGED thread
    /\ UNCHANGED <<threadVars, workVars, stage, current, left, deleteOnly, size, masterVars,
                   ghostVars, updateInProgress>>

\* startWatch writes the master's fields without its mutex,
StartWatch ==
    /\ spc = "startWatch"
    /\ threads' = TRUE
    /\ spc' = "signalWatch"
    /\ UNCHANGED <<threadVars, workVars, dealVars, masterPc, waitCondition, index, ghostVars,
                   updateInProgress>>

\* and then signals the master.
SignalWatch ==
    /\ spc = "signalWatch" /\ masterPc \in {"top", "waiting"}
    /\ waitCondition' \in Signal(waitCondition)
    /\ spc' = "idle"
    /\ UNCHANGED <<threadVars, workVars, dealVars, masterPc, threads, index, ghostVars,
                   updateInProgress>>
--------------------------------------------------------------------------------
(***************************************************************************)
(* CommitMasterTransactionThread::run.  It holds its mutex from the wait    *)
(* to the end of the loop.                                                 *)
(***************************************************************************)

MasterWait ==
    /\ masterPc = "top"
    /\ index' = 1
    /\ IF WaitReturns(waitCondition)
         THEN masterPc' = "check" /\ waitCondition' = ConsumeSignal(waitCondition)
         ELSE masterPc' = "waiting" /\ waitCondition' = Sleep(waitCondition, Watcher)
    /\ UNCHANGED <<threadVars, workVars, saverVars, threads, ghostVars, updateInProgress>>

MasterWoken ==
    /\ masterPc = "waiting" /\ Watcher \in waitCondition.woken
    /\ waitCondition' = Return(waitCondition, Watcher)
    /\ masterPc' = "check"
    /\ UNCHANGED <<threadVars, workVars, saverVars, threads, index, ghostVars, updateInProgress>>

\* commitData: a thread that has committed is passed.
PassThread ==
    /\ masterPc = "check" /\ threads
    /\ IF index <= size
         THEN finishedCommiting[index] /\ index' = index + 1 /\ UNCHANGED masterPc
         ELSE masterPc' = "commit" /\ UNCHANGED index
    /\ UNCHANGED <<threadVars, workVars, saverVars, waitCondition, threads, ghostVars,
                   updateInProgress>>

\* signalMasterTransactionFinish, every 500 ms until the thread has committed.
SignalMasterTransactionFinish ==
    /\ masterPc = "check" /\ threads /\ index <= size
    /\ ~finishedCommiting[index] /\ BlockMutexFree(index)
    /\ threadPc' = [threadPc EXCEPT ![index] = IF @ = "waitMaster" THEN "wokenMaster" ELSE @]
    /\ UNCHANGED <<waitingToStart, working, finishedCommiting, copyRAMFinished, workVars,
                   saverVars, masterVars, ghostVars, updateInProgress>>

\* The transaction of the save is committed.
CommitMaster ==
    /\ masterPc = "commit"
    /\ masterPc' = "finish"
    /\ UNCHANGED <<threadVars, workVars, saverVars, waitCondition, threads, index, ghostVars,
                   updateInProgress>>

FinishUpdate ==
    /\ masterPc = "finish"
    /\ updateInProgress' = FALSE
    /\ masterPc' = "clear"
    /\ UNCHANGED <<threadVars, workVars, saverVars, waitCondition, threads, index, ghostVars>>

\* The fields that startWatch wrote are cleared.
Clear ==
    /\ masterPc = "clear"
    /\ threads' = FALSE
    /\ masterPc' = "top"
    /\ UNCHANGED <<threadVars, workVars, saverVars, waitCondition, index, ghostVars,
                   updateInProgress>>
--------------------------------------------------------------------------------
ThreadStep(t) ==
    LockTop(t) \/ Wake(t) \/ CommitObjects(t) \/ AwaitMaster(t) \/ CommitTransaction(t)

SaverStep ==
    \/ Dispatch \/ Nudge \/ Await \/ SetVector \/ SetRest \/ SignalActivity
    \/ EndDeal \/ SignalCopyFinished \/ NextThread \/ StartWatch \/ SignalWatch

WatcherStep ==
    \/ MasterWait \/ MasterWoken \/ PassThread \/ SignalMasterTransactionFinish
    \/ CommitMaster \/ FinishUpdate \/ Clear

UpdateNext ==
    \/ \E n \in 0..MaxBatches : BeginSave(n)
    \/ SaverStep
    \/ WatcherStep
    \/ \E t \in Updaters : ThreadStep(t)

UpdateSpec == UpdateInit /\ [][UpdateNext]_updateVars

\* Every thread runs, and gets the mutex that another one takes again and again.
UpdateFairness ==
    /\ WF_updateVars(SaverStep) /\ WF_updateVars(WatcherStep)
    /\ \A t \in Updaters : WF_updateVars(ThreadStep(t))

FairUpdate == UpdateSpec /\ UpdateFairness
--------------------------------------------------------------------------------
\* When the master commits the transaction of a save, every batch of modified
\* objects that was dealt has been copied and committed by its thread: none was
\* overwritten, skipped or left for later (waitFinishedWork, finishedCommiting).
\* The exception is a save that finds a thread late: it may wake while its batch is
\* being set, copy nothing by the old offsets and clear the vector.
NothingLost == masterPc = "commit" /\ ~late => committed = dispatched

\* A thread was dealt a batch before it had come to its wait, so that the broadcast
\* was lost, or, being late, took it before signalActivity: it goes on to commit
\* without the batch, or the saver waits for a thread that waits itself.
Missed(t) ==
    \/ /\ objectsToUpdate[t] # NoBatch \/ objectsToDelete[t] # NoBatch
       /\ copyRAMFinished[t] /\ threadPc[t] \in {"top", "commit", "waitMaster", "wokenMaster"}
    \/ spc = "asleep" /\ thread = t /\ threadPc[t] \in {"waiting", "waitMaster"}

\* The save came so soon after the last one that the master, at the end of its
\* loop, cleared what startWatch had written for it.
Overwritten == spc = "idle" /\ masterPc \in {"top", "waiting", "check"} /\ ~threads

\* A save ends, whatever the order in which the saver, the threads and the master
\* get their mutexes, but for two states that the unlocked writes can lead to: a
\* thread missed its batch, or the master lost its fields (waitFinishedWork,
\* startWatch, commitData).
SaveFinishes ==
    updateInProgress ~>
        ~updateInProgress \/ Overwritten \/ \E t \in Updaters : Missed(t)
================================================================================
