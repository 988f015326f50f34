------------------------------ MODULE SavesProofs ------------------------------
(***************************************************************************)
(* Proofs about a save, from the request to the commit of its transaction, *)
(* for any number of threads, batches and saves.                           *)
(*                                                                         *)
(* SaveRequests: DecisionStands needs to know why nothing changes between  *)
(* the check and the start of a save: the thread holds the director all    *)
(* along, so no other thread starts a save, and the master, which could    *)
(* end one, has none to end.                                               *)
(*                                                                         *)
(* UpdateThreads: NothingLost needs to know where a batch is on its way    *)
(* from the saver to the master.  A thread that has a batch is working, so *)
(* that waitFinishedWork does not return before the batch is copied; one   *)
(* that has copied a batch has finishedCommiting reset, so that the master *)
(* does not pass it before the batch is committed; and the master works    *)
(* once for a save, after the last batch.  If a thread is late, it may     *)
(* take a batch while its fields are set, and the invariant says nothing   *)
(* of what becomes of the batch.                                           *)
(***************************************************************************)
EXTENDS SaveRequests, UpdateThreads, TLAPS

\* From sendCommand to its return a thread holds the director.
Held == \A t \in Threads :
    pc[t] \in {"check", "block", "manager", "copy", "return"} => director = t

\* The master works only for a save that is in progress, and finishObjectUpdate
\* keeps the object manager until the director has been told.
MasterInv ==
    /\ mpc \in {"commit", "finish"} => objectUpdateInProgress
    /\ mpc = "backup" => objectManager = Master

\* A thread that copies has marked its save, and the master has not begun it.
CopyInv == \A t \in Threads :
    pc[t] = "copy" => objectManager = t /\ objectUpdateInProgress /\ mpc = "idle"

\* blockTaskManager stays within the vector of workers.
LoopInv == \A t \in Threads : pc[t] = "block" => next[t] \in Workers

IInv == TypeOK /\ Held /\ MasterInv /\ CopyInv /\ LoopInv /\ DecisionStands

\* No dump runs and none is asked for.
NoDump == dumpRunning = FALSE /\ flag = [t \in Threads |-> FALSE]
--------------------------------------------------------------------------------
\* Threads are told apart from the two other values a lock may have.
LEMMA ThreadsPositive == /\ Workers \subseteq Threads /\ None # Master
                         /\ \A t \in Threads : t # None /\ t # Master
  BY SaveRequestsAssumption DEF Threads, Workers, None, Master

\* The initial state satisfies the invariant.
LEMMA InitIInv == Init => IInv
<1> SUFFICES ASSUME Init PROVE IInv
  OBVIOUS
<1>1. 1 \in 1..(NumWorkers + 1)
  BY SaveRequestsAssumption
<1>2. TypeOK
  BY <1>1 DEF Init, TypeOK
<1>3. Held /\ MasterInv /\ CopyInv /\ LoopInv /\ DecisionStands
  BY DEF Init, Held, MasterInv, CopyInv, LoopInv, DecisionStands
<1> QED BY <1>2, <1>3 DEF IInv

\* The steps of the workers that begin and end tasks, and the requests.
LEMMA TasksIInv ==
    ASSUME IInv, NEW t \in Threads,
           \/ t \in Workers /\ (RunTask(t) \/ EndTask(t) \/ Periodic(t))
           \/ CreateBackup(t)
    PROVE  IInv'
<1>1. t \in Workers => blockMutex' \in [Workers -> Threads \cup {None}]
  BY ThreadsPositive DEF IInv, TypeOK, RunTask, EndTask, Periodic, CreateBackup, Lock, Unlock
<1>2. blockMutex' \in [Workers -> Threads \cup {None}]
  BY <1>1 DEF IInv, TypeOK, CreateBackup, Lock, Unlock
<1>3. flag' \in [Threads -> BOOLEAN]
  BY SaveRequestsAssumption DEF IInv, TypeOK, RunTask, EndTask, Periodic, CreateBackup
<1>4. /\ pc' = [pc EXCEPT ![t] = pc'[t]] /\ pc'[t] \in {"idle", "task", "director"}
      /\ scheduled' \in BOOLEAN
      /\ UNCHANGED <<director, next, objectManager, objectUpdateInProgress, dumpRunning, mpc>>
  BY DEF IInv, TypeOK, RunTask, EndTask, Periodic, CreateBackup
<1>5. TypeOK'
  BY <1>2, <1>3, <1>4 DEF IInv, TypeOK
<1>6. (Held /\ MasterInv /\ CopyInv /\ LoopInv /\ DecisionStands)'
  BY <1>4 DEF IInv, TypeOK, Held, MasterInv, CopyInv, LoopInv, DecisionStands
<1> QED BY <1>5, <1>6 DEF IInv

\* The steps of a thread that saves.
LEMMA SaveIInv ==
    ASSUME IInv, NEW t \in Threads, Save(t)
    PROVE  IInv'
<1> USE ThreadsPositive DEF IInv, TypeOK, Held, MasterInv, CopyInv, LoopInv, DecisionStands
<1>1. CASE SendCommand(t) BY <1>1 DEF SendCommand
<1>2. CASE Check(t)
  <2>1. NumWorkers # 0 => 1 \in Workers
    BY SaveRequestsAssumption DEF Workers
  <2>2. 1 \in 1..(NumWorkers + 1)
    BY SaveRequestsAssumption
  <2> QED BY <1>2, <2>1, <2>2 DEF Check
<1>3. CASE Block(t)
  <2>1. next[t] \in Workers
    BY <1>3 DEF Block
  <2>2. next[t] + 1 \in 1..(NumWorkers + 1) /\ (next[t] # NumWorkers => next[t] + 1 \in Workers)
    BY <2>1, SaveRequestsAssumption DEF Workers
  <2> QED BY <1>3, <2>1, <2>2 DEF Block
<1>4. CASE Begin(t) BY <1>4 DEF Begin
<1>5. CASE Copied(t) BY <1>5 DEF Copied
<1>6. CASE CommandDone(t) BY <1>6 DEF CommandDone, Unlock
<1> QED BY <1>1, <1>2, <1>3, <1>4, <1>5, <1>6 DEF Save

\* The steps of the master, and the end of a dump.
LEMMA MasterIInv ==
    ASSUME IInv, MasterStep \/ DumpEnds
    PROVE  IInv'
<1> USE ThreadsPositive DEF IInv, TypeOK, Held, MasterInv, CopyInv, LoopInv, DecisionStands
<1>1. CASE Commit BY <1>1 DEF Commit
<1>2. CASE FinishObjectUpdate BY <1>2 DEF FinishObjectUpdate
<1>3. CASE FinishBackup BY <1>3 DEF FinishBackup
<1>4. CASE DumpEnds BY <1>4 DEF DumpEnds
<1> QED BY <1>1, <1>2, <1>3, <1>4 DEF MasterStep

\* Every step preserves the invariant.
LEMMA NextIInv == IInv /\ [Next]_vars => IInv'
<1> SUFFICES ASSUME IInv, [Next]_vars PROVE IInv'
  OBVIOUS
<1>1. ASSUME NEW t \in Workers, RunTask(t) \/ EndTask(t) \/ Periodic(t) PROVE IInv'
  BY <1>1, TasksIInv, ThreadsPositive
<1>2. ASSUME NEW t \in Threads, CreateBackup(t) PROVE IInv'
  BY <1>2, TasksIInv
<1>3. ASSUME NEW t \in Threads, Save(t) PROVE IInv'
  BY <1>3, SaveIInv
<1>4. CASE MasterStep \/ DumpEnds
  BY <1>4, MasterIInv
<1>5. CASE UNCHANGED vars
  BY <1>5 DEF vars, IInv, TypeOK, Held, MasterInv, CopyInv, LoopInv, DecisionStands
<1> QED BY <1>1, <1>2, <1>3, <1>4, <1>5 DEF Next

\* The invariant holds in every reachable state.
THEOREM SpecIInv == Spec => []IInv
  BY InitIInv, NextIInv, PTL DEF Spec

\* The refusal of a second save (updateModifiedObjectsToDatabase) is sound: a save
\* that passed the check of objectUpdateInProgress begins with no other in progress.
THEOREM DecisionStandsHolds == Spec => []DecisionStands
<1>1. IInv => DecisionStands
  BY DEF IInv
<1> QED BY <1>1, SpecIInv, PTL

\* Without SAVE_JSON there is always a next save to come: the one refusal that
\* schedules nothing is the one for a dump.
THEOREM SaveToComeHolds ==
    ASSUME JSON = FALSE
    PROVE  Spec => []SaveToCome
<1> DEFINE Inv == IInv /\ NoDump /\ SaveToCome
<1>1. Init => Inv
  BY InitIInv DEF Init, NoDump, SaveToCome
<1>2. Inv /\ [Next]_vars => Inv'
  <2> SUFFICES ASSUME Inv, [Next]_vars PROVE NoDump' /\ SaveToCome'
    BY NextIInv
  <2> USE DEF NoDump, SaveToCome
  <2>1. ASSUME NEW t \in Workers, RunTask(t) \/ EndTask(t) \/ Periodic(t)
        PROVE  NoDump' /\ SaveToCome'
    BY <2>1, ThreadsPositive DEF IInv, TypeOK, RunTask, EndTask, Periodic
  <2>2. ASSUME NEW t \in Threads, CreateBackup(t) PROVE NoDump' /\ SaveToCome'
    BY <2>2 DEF IInv, TypeOK, CreateBackup
  <2>3. ASSUME NEW t \in Threads, Save(t) PROVE NoDump' /\ SaveToCome'
    <3>1. CASE SendCommand(t) BY <3>1 DEF SendCommand, IInv, TypeOK
    <3>2. CASE Check(t) BY <3>2 DEF Check, IInv, TypeOK
    <3>3. CASE Block(t) BY <3>3 DEF Block, IInv, TypeOK
    <3>4. CASE Begin(t) BY <3>4 DEF Begin, IInv, TypeOK
    <3>5. CASE Copied(t) BY <3>5 DEF Copied, IInv, TypeOK, CopyInv
    <3>6. CASE CommandDone(t) BY <3>6 DEF CommandDone, IInv, TypeOK
    <3> QED BY <2>3, <3>1, <3>2, <3>3, <3>4, <3>5, <3>6 DEF Save
  <2>4. CASE MasterStep \/ DumpEnds
    BY <2>4 DEF MasterStep, Commit, FinishObjectUpdate, FinishBackup, DumpEnds
  <2>5. CASE UNCHANGED vars
    BY <2>5 DEF vars
  <2> QED BY <2>1, <2>2, <2>3, <2>4, <2>5 DEF Next
<1>3. Inv => SaveToCome
  OBVIOUS
<1> QED BY <1>1, <1>2, <1>3, PTL DEF Spec
--------------------------------------------------------------------------------
(***************************************************************************)
(* UpdateThreads.                                                          *)
(***************************************************************************)

\* The thread has a batch that it has not copied yet.
Pending(t) == objectsToUpdate[t] # NoBatch \/ objectsToDelete[t] # NoBatch

\* Where the thread that saves is, and how far it has come with dealing the batches.
SaverInv ==
    /\ spc \in {"dispatch", "setRest", "signal"} => stage = "deal"
    /\ spc = "copied" => stage = "end"
    /\ spc \in {"await", "asleep", "woken", "setRest", "signal", "copied"} => thread <= size
    /\ ~updateInProgress => spc = "idle"
    /\ spc = "dispatch" => current + left <= MaxBatches
    /\ spc \in {"await", "asleep", "woken", "setRest", "signal"} /\ stage = "deal" =>
          left > 0 /\ current > 0 /\ current + left <= MaxBatches + 1
    /\ spc # "idle" /\ stage = "deal" => current <= size \/ size = MaxThreads

\* A batch that was dealt keeps working set until it is copied, and what was copied
\* keeps finishedCommiting reset until it is committed.
WorkInv == \A t \in Updaters :
    /\ Pending(t) => working[t] \/ (t = thread /\ spc \in {"setRest", "signal"})
    /\ threadPc[t] = "working" => working[t] /\ ~finishedCommiting[t]
    /\ written[t] # {} => ~finishedCommiting[t]
    /\ threadPc[t] = "woken" => working[t] \/ copyRAMFinished[t]
    /\ t > size => threadPc[t] = "unborn" /\ ~Pending(t) /\ written[t] = {}

\* waitFinishedWork does not return before the thread has copied its batch.
CopyDoneInv ==
    /\ spc = "woken" => ~working[thread] /\ threadPc[thread] \notin {"woken", "working"}
    /\ spc \in {"startWatch", "signalWatch", "idle"} => \A t \in Updaters : ~Pending(t)
    /\ stage = "end" => \A t \in Updaters : t < thread => ~Pending(t)

\* The master works for the save that is in progress, once, and passes a thread when
\* all it has copied is committed.
WatchInv ==
    /\ masterPc # "waiting" => waitCondition.asleep = {} /\ waitCondition.woken = {}
    /\ masterPc = "waiting" =>
          index = 1 /\ waitCondition.signalCount = 0
          /\ waitCondition.asleep \cup waitCondition.woken # {}
    /\ waitCondition.woken # {} => waitCondition.asleep = {}
    /\ \/ waitCondition.signalCount > 0 \/ waitCondition.woken # {}
       \/ masterPc \in {"check", "commit", "finish"}
       => spc = "idle" /\ updateInProgress
    /\ masterPc \in {"check", "commit", "finish"} => waitCondition.signalCount = 0
    /\ waitCondition.signalCount <= 1
    /\ masterPc = "check" => \A t \in Updaters : t < index => written[t] = {}
    /\ masterPc \in {"commit", "finish"} \/ ~updateInProgress =>
          \A t \in Updaters : written[t] = {}

\* Nothing is copied or committed that was not dealt in this save.
DealtInv ==
    /\ committed \subseteq dispatched
    /\ \A t \in Updaters :
          /\ written[t] \subseteq dispatched
          /\ objectsToUpdate[t] \in dispatched \cup {NoBatch}
          /\ objectsToDelete[t] \in dispatched \cup {NoBatch}
    /\ spc = "setRest" => current \in dispatched

\* A batch that was dealt is committed, copied, still to be copied, or being set.
Kept(b) ==
    \/ b \in committed \/ (spc = "setRest" /\ b = current)
    \/ \E t \in Updaters : b \in written[t] \/ b \in Work(t)

\* If no thread is late, the end of the copy reaches none before the batches are
\* dealt, so that none wakes while its fields are set; and no batch gets lost.
KeptInv ==
    ~late =>
    /\ spc # "idle" /\ stage = "deal" => \A t \in Updaters : ~copyRAMFinished[t]
    /\ spc = "setRest" =>
          /\ threadPc[thread] \notin {"woken", "working"}
          /\ objectsToDelete[thread] = NoBatch
          /\ objectsToUpdate[thread] = IF deleteOnly THEN NoBatch ELSE current
    /\ \A b \in dispatched : Kept(b)

\* The types, by who has the variables.
ThreadTypes ==
    /\ threadPc \in [Updaters -> ThreadPlaces] /\ waitingToStart \in [Updaters -> BOOLEAN]
    /\ working \in [Updaters -> BOOLEAN] /\ finishedCommiting \in [Updaters -> BOOLEAN]
    /\ copyRAMFinished \in [Updaters -> BOOLEAN]

WorkTypes ==
    /\ objectsToUpdate \in [Updaters -> Batches \cup {NoBatch}]
    /\ objectsToDelete \in [Updaters -> Batches \cup {NoBatch}]
    /\ range \in [Updaters -> Batches \cup {NoBatch}]
    /\ transaction \in [Updaters -> BOOLEAN]

SaverTypes ==
    /\ spc \in SaverPlaces /\ stage \in {"deal", "end"}
    /\ current \in 0..MaxBatches /\ left \in 0..MaxBatches
    /\ thread \in Updaters /\ deleteOnly \in BOOLEAN /\ size \in InitialThreads..MaxThreads

MasterTypes ==
    /\ masterPc \in MasterPlaces /\ waitCondition \in ConditionType({Watcher})
    /\ threads \in BOOLEAN /\ index \in 1..(MaxThreads + 1)

GhostTypes ==
    /\ dispatched \subseteq Batches /\ committed \subseteq Batches
    /\ written \in [Updaters -> SUBSET Batches]
    /\ late \in BOOLEAN /\ saves \in 0..MaxSaves /\ updateInProgress \in BOOLEAN

UpdateInv ==
    /\ ThreadTypes /\ WorkTypes /\ SaverTypes /\ MasterTypes /\ GhostTypes
    /\ SaverInv /\ WorkInv /\ CopyDoneInv /\ WatchInv /\ DealtInv /\ KeptInv
--------------------------------------------------------------------------------
(***************************************************************************)
(* The condition of the master, which alone waits on it.                   *)
(***************************************************************************)

\* A signal wakes the waiter, or is remembered if there is none.
LEMMA SignalOne ==
    ASSUME NEW w, NEW c \in ConditionType({w}), NEW d \in Signal(c)
    PROVE  /\ d \in ConditionType({w})
           /\ c.asleep \cup c.woken = {} =>
                 d.signalCount = c.signalCount + 1 /\ d.asleep = {} /\ d.woken = {}
           /\ c.asleep \cup c.woken # {} =>
                 d.signalCount = c.signalCount /\ d.asleep = {} /\ d.woken # {}
<1>1. CASE c.asleep \cup c.woken = {}
  <2>1. d = [c EXCEPT !.signalCount = @ + 1]
    BY <1>1 DEF Signal
  <2> QED
    BY <1>1, <2>1 DEF ConditionType
<1>2. CASE c.asleep \cup c.woken # {} /\ c.asleep = {}
  <2>1. d = c
    BY <1>2 DEF Signal
  <2> QED
    BY <1>2, <2>1
<1>3. CASE c.asleep # {}
  <2>1. d \in {TimeOut(c, t) : t \in c.asleep}
    BY <1>3 DEF Signal
  <2>2. PICK t \in c.asleep : d = TimeOut(c, t)
    BY <2>1
  <2> QED
    BY <1>3, <2>2 DEF TimeOut, ConditionType
<1> QED
  BY <1>1, <1>2, <1>3
--------------------------------------------------------------------------------
(***************************************************************************)
(* A step that leaves the variables of a conjunct alone preserves it.      *)
(***************************************************************************)

\* Types of thread variables.
LEMMA SameThreadTypes ==
    ASSUME ThreadTypes,
           UNCHANGED <<threadPc, waitingToStart, working, finishedCommiting, copyRAMFinished>>
    PROVE  ThreadTypes'
  BY Zenon DEF ThreadTypes

\* Types of work variables.
LEMMA SameWorkTypes ==
    ASSUME WorkTypes,
           UNCHANGED <<objectsToUpdate, objectsToDelete, range, transaction>>
    PROVE  WorkTypes'
  BY Zenon DEF WorkTypes

\* Types of saver variables.
LEMMA SameSaverTypes ==
    ASSUME SaverTypes,
           UNCHANGED <<spc, stage, current, left, thread, deleteOnly, size>>
    PROVE  SaverTypes'
  BY Zenon DEF SaverTypes

\* Types of master variables.
LEMMA SameMasterTypes ==
    ASSUME MasterTypes,
           UNCHANGED <<masterPc, waitCondition, threads, index>>
    PROVE  MasterTypes'
  BY Zenon DEF MasterTypes

\* Types of ghost variables.
LEMMA SameGhostTypes ==
    ASSUME GhostTypes,
           UNCHANGED <<dispatched, written, committed, late, saves, updateInProgress>>
    PROVE  GhostTypes'
  BY Zenon DEF GhostTypes

\* SaverInv.
LEMMA SameSaverInv ==
    ASSUME SaverInv,
           UNCHANGED <<spc, stage, thread, size, updateInProgress, current, left>>
    PROVE  SaverInv'
  BY Zenon DEF SaverInv

\* WorkInv.
LEMMA SameWorkInv ==
    ASSUME WorkInv,
           UNCHANGED <<objectsToUpdate, objectsToDelete, working, thread, spc, threadPc,
                       finishedCommiting, written, copyRAMFinished, size>>
    PROVE  WorkInv'
  BY Zenon DEF WorkInv, Pending

\* CopyDoneInv.
LEMMA SameCopyDoneInv ==
    ASSUME CopyDoneInv,
           UNCHANGED <<spc, working, thread, threadPc, stage, objectsToUpdate, objectsToDelete>>
    PROVE  CopyDoneInv'
  BY Zenon DEF CopyDoneInv, Pending

\* WatchInv.
LEMMA SameWatchInv ==
    ASSUME WatchInv,
           UNCHANGED <<masterPc, waitCondition, index, spc, updateInProgress, written>>
    PROVE  WatchInv'
  BY Zenon DEF WatchInv

\* DealtInv.
LEMMA SameDealtInv ==
    ASSUME DealtInv,
           UNCHANGED <<committed, dispatched, written, objectsToUpdate, objectsToDelete, spc,
                       current>>
    PROVE  DealtInv'
  BY Zenon DEF DealtInv

\* KeptInv.
LEMMA SameKeptInv ==
    ASSUME KeptInv,
           UNCHANGED <<late, spc, stage, copyRAMFinished, threadPc, thread, objectsToUpdate,
                       objectsToDelete, deleteOnly, current, dispatched, committed, written,
                       range>>
    PROVE  KeptInv'
  BY Zenon DEF KeptInv, Kept, Work
--------------------------------------------------------------------------------
(***************************************************************************)
(* Every step of the threads, the saver and the master.                    *)
(***************************************************************************)

\* A thread locks its mutex at the top of run.
LEMMA LockTopInv ==
    ASSUME UpdateInv, NEW t \in Updaters, LockTop(t)
    PROVE  UpdateInv'
<1>1. /\ threadPc[t] = "top"
      /\ \E v \in {"commit", "waiting"} : threadPc' = [threadPc EXCEPT ![t] = v]
      /\ waitingToStart' \in {waitingToStart, [waitingToStart EXCEPT ![t] = TRUE]}
      /\ UNCHANGED <<working, finishedCommiting, copyRAMFinished, objectsToUpdate,
                     objectsToDelete, range, transaction, spc, stage, current, left, thread,
                     deleteOnly, size, masterPc, waitCondition, threads, index, dispatched,
                     written, committed, late, saves, updateInProgress>>
  BY Zenon DEF LockTop, Enter, threadVars, workVars, saverVars, dealVars, masterVars, ghostVars
<1>2. ThreadTypes /\ WorkTypes /\ SaverTypes /\ MasterTypes /\ GhostTypes /\ SaverInv /\ WorkInv
      /\ CopyDoneInv /\ WatchInv /\ DealtInv /\ KeptInv
  BY Zenon DEF UpdateInv
<1>3. (WorkTypes /\ SaverTypes /\ MasterTypes /\ GhostTypes /\ SaverInv /\ WatchInv /\
       DealtInv)'
  BY <1>1, <1>2, SameWorkTypes, SameSaverTypes, SameMasterTypes, SameGhostTypes, SameSaverInv,
     SameWatchInv, SameDealtInv, Zenon
<1>4. ThreadTypes'
  BY <1>1, <1>2, Zenon DEF ThreadTypes, ThreadPlaces
<1>5. WorkInv'
  BY <1>1, <1>2, ZenonT(30) DEF WorkInv, ThreadTypes, Pending
<1>6. CopyDoneInv'
  BY <1>1, <1>2, Zenon DEF CopyDoneInv, ThreadTypes, SaverTypes, Pending
<1>7. KeptInv'
  <2>1. \A u \in Updaters : threadPc'[u] \in {"woken", "working"} => threadPc[u] = threadPc'[u]
    BY <1>1, <1>2, Zenon DEF ThreadTypes
  <2> QED
    BY <1>1, <1>2, <2>1, ZenonT(30) DEF KeptInv, Kept, Work, SaverTypes
<1> QED BY <1>3, <1>4, <1>5, <1>6, <1>7, Zenon DEF UpdateInv

\* The wait for work returns: finishedCommiting is reset.
LEMMA WakeInv ==
    ASSUME UpdateInv, NEW t \in Updaters, Wake(t)
    PROVE  UpdateInv'
<1>1. /\ threadPc[t] = "woken"
      /\ threadPc' = [threadPc EXCEPT ![t] = "working"]
      /\ waitingToStart' = [waitingToStart EXCEPT ![t] = FALSE]
      /\ working' = [working EXCEPT ![t] = TRUE]
      /\ finishedCommiting' = [finishedCommiting EXCEPT ![t] = FALSE]
      /\ UNCHANGED <<copyRAMFinished, objectsToUpdate, objectsToDelete, range, transaction, spc,
                     stage, current, left, thread, deleteOnly, size, masterPc, waitCondition,
                     threads, index, dispatched, written, committed, late, saves,
                     updateInProgress>>
  BY Zenon DEF Wake, threadVars, workVars, saverVars, dealVars, masterVars, ghostVars
<1>2. ThreadTypes /\ WorkTypes /\ SaverTypes /\ MasterTypes /\ GhostTypes /\ SaverInv /\ WorkInv
      /\ CopyDoneInv /\ WatchInv /\ DealtInv /\ KeptInv
  BY Zenon DEF UpdateInv
<1>3. (WorkTypes /\ SaverTypes /\ MasterTypes /\ GhostTypes /\ SaverInv /\ WatchInv /\
       DealtInv)'
  BY <1>1, <1>2, SameWorkTypes, SameSaverTypes, SameMasterTypes, SameGhostTypes, SameSaverInv,
     SameWatchInv, SameDealtInv, Zenon
<1>4. ThreadTypes'
  BY <1>1, <1>2, Zenon DEF ThreadTypes, ThreadPlaces
<1>5. WorkInv'
  BY <1>1, <1>2, Zenon DEF WorkInv, ThreadTypes, Pending
<1>6. CopyDoneInv'
  BY <1>1, <1>2, Zenon DEF CopyDoneInv, ThreadTypes, SaverTypes, Pending
<1>7. KeptInv'
  <2>1. /\ \A u \in Updaters \ {t} : threadPc'[u] = threadPc[u]
        /\ threadPc[thread] \notin {"woken", "working"} => thread # t
    BY <1>1, <1>2, Zenon DEF ThreadTypes
  <2> QED
    BY <1>1, <1>2, <2>1, ZenonT(30) DEF KeptInv, Kept, Work, SaverTypes
<1> QED BY <1>3, <1>4, <1>5, <1>6, <1>7, Zenon DEF UpdateInv

\* commitObjectsToDatabase copies what it finds, and the fields are cleared.
LEMMA CommitObjectsInv ==
    ASSUME UpdateInv, NEW t \in Updaters, CommitObjects(t)
    PROVE  UpdateInv'
<1>1. /\ threadPc[t] = "working"
      /\ written' = [written EXCEPT ![t] = @ \cup Work(t)]
      /\ working' = [working EXCEPT ![t] = FALSE]
      /\ objectsToUpdate' = [objectsToUpdate EXCEPT ![t] = NoBatch]
      /\ objectsToDelete' = [objectsToDelete EXCEPT ![t] = NoBatch]
      /\ \/ spc' = spc
         \/ spc = "asleep" /\ thread = t /\ spc' = "woken"
      /\ \E v \in {"commit", "waiting"} : threadPc' = [threadPc EXCEPT ![t] = v]
      /\ waitingToStart' \in {waitingToStart, [waitingToStart EXCEPT ![t] = TRUE]}
      /\ UNCHANGED <<finishedCommiting, copyRAMFinished, range, transaction, stage, current,
                     left, thread, deleteOnly, size, masterPc, waitCondition, threads, index,
                     dispatched, committed, late, saves, updateInProgress>>
  BY DEF CommitObjects, Enter, FinishedWork, threadVars, workVars, saverVars, dealVars,
     masterVars, ghostVars
<1>2. ThreadTypes /\ WorkTypes /\ SaverTypes /\ MasterTypes /\ GhostTypes /\ SaverInv /\ WorkInv
      /\ CopyDoneInv /\ WatchInv /\ DealtInv /\ KeptInv
  BY Zenon DEF UpdateInv
<1>3. (MasterTypes)'
  BY <1>1, <1>2, SameMasterTypes, Zenon
<1>4. ThreadTypes'
  BY <1>1, <1>2, Zenon DEF ThreadTypes, ThreadPlaces
<1>5. WorkTypes'
  BY <1>1, <1>2, Zenon DEF WorkTypes
<1>6. SaverTypes'
  BY <1>1, <1>2, Zenon DEF SaverTypes, SaverPlaces
<1>7. GhostTypes'
  BY <1>1, <1>2, Zenon DEF GhostTypes, Work
<1>8. SaverInv'
  BY <1>1, <1>2, Zenon DEF SaverInv
<1>9. WorkInv'
  BY <1>1, <1>2, ZenonT(30) DEF WorkInv, ThreadTypes, WorkTypes, GhostTypes, Pending, Work
<1>10. CopyDoneInv'
  BY <1>1, <1>2, ZenonT(30) DEF CopyDoneInv, ThreadTypes, SaverTypes, WorkTypes, Pending
<1>11. WatchInv'
  <2>1. spc = "idle" => Work(t) = {}
    BY <1>2 DEF CopyDoneInv, Pending, Work, Batches, NoBatch
  <2>2. \A u \in Updaters : u # t \/ spc = "idle" => written'[u] = written[u]
    BY <1>1, <1>2, <2>1, Zenon DEF GhostTypes
  <2>3. spc = "idle" => spc' = "idle"
    BY <1>1, Zenon
  <2>4. updateInProgress' = updateInProgress /\ (~updateInProgress => spc = "idle")
    BY <1>1, <1>2, Zenon DEF SaverInv
  <2> QED
    BY <1>1, <1>2, <2>2, <2>3, <2>4 DEF WatchInv
<1>12. DealtInv'
  <2>1. Work(t) \subseteq dispatched
    BY <1>2 DEF DealtInv, Work, Batches, NoBatch
  <2>2. \A u \in Updaters : written'[u] \in {written[u], written[u] \cup Work(t)}
    BY <1>1, <1>2, Zenon DEF GhostTypes
  <2>3. \A u \in Updaters : objectsToUpdate'[u] \in {objectsToUpdate[u], NoBatch}
    BY <1>1, <1>2, Zenon DEF WorkTypes
  <2>4. \A u \in Updaters : objectsToDelete'[u] \in {objectsToDelete[u], NoBatch}
    BY <1>1, <1>2, Zenon DEF WorkTypes
  <2>5. spc' = "setRest" => spc = "setRest"
    BY <1>1, Zenon
  <2> QED
    BY <1>1, <1>2, <2>1, <2>2, <2>3, <2>4, <2>5, ZenonT(30) DEF DealtInv
<1>13. KeptInv'
  <2>1. \A u \in Updaters \ {t} : Work(u)' = Work(u)
    BY <1>1, <1>2, Zenon DEF Work, WorkTypes
  <2>2. /\ written'[t] = written[t] \cup Work(t)
        /\ \A u \in Updaters \ {t} : written'[u] = written[u]
    BY <1>1, <1>2, Zenon DEF GhostTypes
  <2>3. /\ spc = "setRest" <=> spc' = "setRest"
        /\ spc = "idle" <=> spc' = "idle"
    BY <1>1, Zenon
  <2>4. \A b \in dispatched : Kept(b) => Kept(b)'
    BY <1>1, <2>1, <2>2, <2>3, Zenon DEF Kept
  <2>5. threadPc[thread] \notin {"woken", "working"} =>
           /\ threadPc'[thread] = threadPc[thread]
           /\ objectsToUpdate'[thread] = objectsToUpdate[thread]
           /\ objectsToDelete'[thread] = objectsToDelete[thread]
    BY <1>1, <1>2, Zenon DEF ThreadTypes, WorkTypes, SaverTypes
  <2> QED
    BY <1>1, <1>2, <2>3, <2>4, <2>5, Zenon DEF KeptInv
<1> QED BY <1>3, <1>4, <1>5, <1>6, <1>7, <1>8, <1>9, <1>10, <1>11, <1>12, <1>13, Zenon DEF UpdateInv

\* A thread with a transaction waits for the master.
LEMMA AwaitMasterInv ==
    ASSUME UpdateInv, NEW t \in Updaters, AwaitMaster(t)
    PROVE  UpdateInv'
<1>1. /\ threadPc[t] = "commit"
      /\ threadPc' = [threadPc EXCEPT ![t] = "waitMaster"]
      /\ UNCHANGED <<waitingToStart, working, finishedCommiting, copyRAMFinished,
                     objectsToUpdate, objectsToDelete, range, transaction, spc, stage, current,
                     left, thread, deleteOnly, size, masterPc, waitCondition, threads, index,
                     dispatched, written, committed, late, saves, updateInProgress>>
  BY Zenon DEF AwaitMaster, threadVars, workVars, saverVars, dealVars, masterVars, ghostVars
<1>2. ThreadTypes /\ WorkTypes /\ SaverTypes /\ MasterTypes /\ GhostTypes /\ SaverInv /\ WorkInv
      /\ CopyDoneInv /\ WatchInv /\ DealtInv /\ KeptInv
  BY Zenon DEF UpdateInv
<1>3. (WorkTypes /\ SaverTypes /\ MasterTypes /\ GhostTypes /\ SaverInv /\ WatchInv /\
       DealtInv)'
  BY <1>1, <1>2, SameWorkTypes, SameSaverTypes, SameMasterTypes, SameGhostTypes, SameSaverInv,
     SameWatchInv, SameDealtInv, Zenon
<1>4. ThreadTypes'
  BY <1>1, <1>2, Zenon DEF ThreadTypes, ThreadPlaces
<1>5. WorkInv'
  BY <1>1, <1>2, Zenon DEF WorkInv, ThreadTypes, Pending
<1>6. CopyDoneInv'
  BY <1>1, <1>2, Zenon DEF CopyDoneInv, ThreadTypes, SaverTypes, Pending
<1>7. KeptInv'
  <2>1. \A u \in Updaters : threadPc'[u] \in {"woken", "working"} => threadPc[u] = threadPc'[u]
    BY <1>1, <1>2, Zenon DEF ThreadTypes
  <2> QED
    BY <1>1, <1>2, <2>1, ZenonT(30) DEF KeptInv, Kept, Work, SaverTypes
<1> QED BY <1>3, <1>4, <1>5, <1>6, <1>7, Zenon DEF UpdateInv

\* A thread commits what it has copied.
LEMMA CommitTransactionInv ==
    ASSUME UpdateInv, NEW t \in Updaters, CommitTransaction(t)
    PROVE  UpdateInv'
<1>1. /\ threadPc[t] \in {"wokenMaster", "commit"}
      /\ threadPc' = [threadPc EXCEPT ![t] = "top"]
      /\ copyRAMFinished' = [copyRAMFinished EXCEPT ![t] = FALSE]
      /\ finishedCommiting' = [finishedCommiting EXCEPT ![t] = TRUE]
      /\ committed' = committed \cup written[t]
      /\ written' = [written EXCEPT ![t] = {}]
      /\ transaction' = [transaction EXCEPT ![t] = FALSE]
      /\ UNCHANGED <<waitingToStart, working, objectsToUpdate, objectsToDelete, range, spc,
                     stage, current, left, thread, deleteOnly, size, masterPc, waitCondition,
                     threads, index, dispatched, late, saves, updateInProgress>>
  BY DEF CommitTransaction, Committed, threadVars, workVars, saverVars, dealVars, masterVars,
     ghostVars
<1>2. ThreadTypes /\ WorkTypes /\ SaverTypes /\ MasterTypes /\ GhostTypes /\ SaverInv /\ WorkInv
      /\ CopyDoneInv /\ WatchInv /\ DealtInv /\ KeptInv
  BY Zenon DEF UpdateInv
<1>3. (SaverTypes /\ MasterTypes /\ SaverInv)'
  BY <1>1, <1>2, SameSaverTypes, SameMasterTypes, SameSaverInv, Zenon
<1>4. ThreadTypes'
  BY <1>1, <1>2, Zenon DEF ThreadTypes, ThreadPlaces
<1>5. WorkTypes'
  BY <1>1, <1>2, Zenon DEF WorkTypes
<1>6. GhostTypes'
  BY <1>1, <1>2, Zenon DEF GhostTypes
<1>7. WorkInv'
  BY <1>1, <1>2, Zenon DEF WorkInv, ThreadTypes, GhostTypes, Pending
<1>8. CopyDoneInv'
  BY <1>1, <1>2, Zenon DEF CopyDoneInv, ThreadTypes, SaverTypes, Pending
<1>9. WatchInv'
  BY <1>1, <1>2, Zenon DEF WatchInv, GhostTypes
<1>10. DealtInv'
  BY <1>1, <1>2, Zenon DEF DealtInv, GhostTypes
<1>11. KeptInv'
  <2>1. \A u \in Updaters : /\ threadPc'[u] \in {"woken", "working"} => threadPc[u] = threadPc'[u]
                            /\ copyRAMFinished'[u] => copyRAMFinished[u]
    BY <1>1, <1>2, Zenon DEF ThreadTypes
  <2>2. \A u \in Updaters \ {t} : written'[u] = written[u]
    BY <1>1, <1>2, Zenon DEF GhostTypes
  <2>3. \A b \in dispatched : Kept(b) => Kept(b)'
    BY <1>1, <2>2, Zenon DEF Kept, Work
  <2> QED
    BY <1>1, <1>2, <2>1, <2>3, Zenon DEF KeptInv, SaverTypes
<1> QED BY <1>3, <1>4, <1>5, <1>6, <1>7, <1>8, <1>9, <1>10, <1>11, Zenon DEF UpdateInv

\* A save begins: nothing is left of the last one.
LEMMA BeginSaveInv ==
    ASSUME UpdateInv, NEW n \in 0..MaxBatches, BeginSave(n)
    PROVE  UpdateInv'
<1>1. /\ spc = "idle" /\ spc' = "dispatch" /\ stage' = "deal"
      /\ ~updateInProgress /\ updateInProgress' = TRUE
      /\ saves < MaxSaves /\ saves' = saves + 1 /\ current' = 0 /\ left' = n
      /\ dispatched' = {} /\ committed' = {}
      /\ range' = [t \in Updaters |-> NoBatch]
      /\ late' = \E t \in Updaters : copyRAMFinished[t]
      /\ UNCHANGED <<threadPc, waitingToStart, working, finishedCommiting, copyRAMFinished,
                     objectsToUpdate, objectsToDelete, transaction, thread, deleteOnly, size,
                     masterPc, waitCondition, threads, index, written>>
  BY Zenon DEF BeginSave, threadVars, workVars, saverVars, dealVars, masterVars, ghostVars
<1>2. ThreadTypes /\ WorkTypes /\ SaverTypes /\ MasterTypes /\ GhostTypes /\ SaverInv /\ WorkInv
      /\ CopyDoneInv /\ WatchInv /\ DealtInv /\ KeptInv
  BY Zenon DEF UpdateInv
<1>3. (ThreadTypes /\ MasterTypes)'
  BY <1>1, <1>2, SameThreadTypes, SameMasterTypes, Zenon
<1>4. WorkTypes'
  BY <1>1, <1>2, Zenon DEF WorkTypes
<1>5. SaverTypes'
  BY <1>1, <1>2, UpdateAssumption DEF SaverTypes, SaverPlaces
<1>6. GhostTypes'
  BY <1>1, <1>2, UpdateAssumption DEF GhostTypes
<1>7. SaverInv'
  BY <1>1, <1>2, UpdateAssumption DEF SaverInv, SaverTypes
<1>8. WorkInv'
  BY <1>1, <1>2, Zenon DEF WorkInv, Pending
<1>9. CopyDoneInv'
  BY <1>1, <1>2, Zenon DEF CopyDoneInv, Pending
<1>10. WatchInv'
  BY <1>1, <1>2, Zenon DEF WatchInv
<1>11. DealtInv'
  BY <1>1, <1>2, Zenon DEF DealtInv, WatchInv, CopyDoneInv, Pending
<1>12. KeptInv'
  BY <1>1, <1>2, Zenon DEF KeptInv
<1> QED BY <1>3, <1>4, <1>5, <1>6, <1>7, <1>8, <1>9, <1>10, <1>11, <1>12, Zenon DEF UpdateInv

\* dispatchUpdateModifiedObjectsThread takes a thread.
LEMMA DispatchInv ==
    ASSUME UpdateInv, Dispatch
    PROVE  UpdateInv'
<1>1. /\ spc = "dispatch" /\ spc' = "await" /\ left > 0
      /\ thread' = IF current >= MaxThreads THEN (current % size) + 1 ELSE current + 1
      /\ deleteOnly' \in BOOLEAN /\ current' = current + 1
      /\ IF thread' > size
           THEN size' = size + 1 /\ threadPc' = [threadPc EXCEPT ![thread'] = "top"]
           ELSE size' = size /\ threadPc' = threadPc
      /\ UNCHANGED <<waitingToStart, working, finishedCommiting, copyRAMFinished,
                     objectsToUpdate, objectsToDelete, range, transaction, stage, left,
                     masterPc, waitCondition, threads, index, dispatched, written, committed,
                     late, saves, updateInProgress>>
  BY Zenon DEF Dispatch, threadVars, workVars, saverVars, dealVars, masterVars, ghostVars
<1>2. ThreadTypes /\ WorkTypes /\ SaverTypes /\ MasterTypes /\ GhostTypes /\ SaverInv /\ WorkInv
      /\ CopyDoneInv /\ WatchInv /\ DealtInv /\ KeptInv
  BY Zenon DEF UpdateInv
<1>3. (WorkTypes /\ MasterTypes /\ GhostTypes)'
  BY <1>1, <1>2, SameWorkTypes, SameMasterTypes, SameGhostTypes, Zenon
<1>4. ThreadTypes'
  BY <1>1, <1>2, Zenon DEF ThreadTypes, ThreadPlaces
<1>5. SaverTypes'
  <2>1. /\ current \in Nat /\ left \in Nat /\ size \in Nat /\ size <= MaxThreads
        /\ current + left <= MaxBatches /\ (current <= size \/ size = MaxThreads)
        /\ InitialThreads <= size
    BY <1>1, <1>2, UpdateAssumption DEF SaverTypes, SaverInv
  <2>2. thread' \in Updaters /\ current' \in 0..MaxBatches /\ size' \in InitialThreads..MaxThreads
    BY <1>1, <2>1, UpdateAssumption DEF Updaters
  <2> QED
    BY <1>1, <1>2, <2>2, Zenon DEF SaverTypes, SaverPlaces
<1>6. SaverInv'
  BY <1>1, <1>2, UpdateAssumption DEF SaverInv, SaverTypes, Updaters
<1>7. WorkInv'
  <2>1. \A u \in Updaters : /\ threadPc'[u] = threadPc[u] \/ threadPc'[u] = "top"
                            /\ u > size' => u > size /\ threadPc'[u] = threadPc[u]
    <3>1. /\ size \in Nat /\ current \in Nat /\ size <= MaxThreads
          /\ current <= size \/ size = MaxThreads
      BY <1>1, <1>2, UpdateAssumption DEF SaverTypes, SaverInv
    <3>2. CASE thread' > size
      <4>1. thread' = size + 1
        BY <1>1, <3>1, <3>2, UpdateAssumption
      <4>2. size' = size + 1 /\ threadPc' = [threadPc EXCEPT ![size + 1] = "top"]
        BY <1>1, <3>2, <4>1, Zenon
      <4>3. \A u \in Updaters : threadPc'[u] = IF u = size + 1 THEN "top" ELSE threadPc[u]
        BY <1>2, <4>2, Zenon DEF ThreadTypes
      <4>4. \A u \in Updaters : u > size + 1 => u > size /\ u # size + 1
        BY <3>1 DEF Updaters
      <4> QED
        BY <4>2, <4>3, <4>4, Zenon
    <3>3. CASE ~(thread' > size)
      BY <1>1, <3>3, Zenon
    <3> QED
      BY <3>2, <3>3, Zenon
  <2>2. \A u \in Updaters : Pending(u)' = Pending(u) /\ spc \notin {"setRest", "signal"}
    BY <1>1, Zenon DEF Pending
  <2> QED
    BY <1>1, <1>2, <2>1, <2>2, Zenon DEF WorkInv
<1>8. CopyDoneInv'
  BY <1>1, <1>2, Zenon DEF CopyDoneInv, Pending, SaverInv
<1>9. WatchInv'
  BY <1>1, <1>2, Zenon DEF WatchInv
<1>10. DealtInv'
  BY <1>1, <1>2, Zenon DEF DealtInv
<1>11. KeptInv'
  BY <1>1, <1>2, Zenon DEF KeptInv, Kept, Work, SaverInv
<1> QED BY <1>3, <1>4, <1>5, <1>6, <1>7, <1>8, <1>9, <1>10, <1>11, Zenon DEF UpdateInv

\* waitFinishedWork wakes a thread that has work.
LEMMA NudgeInv ==
    ASSUME UpdateInv, Nudge
    PROVE  UpdateInv'
<1>1. /\ spc = "await" /\ objectsToUpdate[thread] # NoBatch
      /\ \E v \in {threadPc[thread], "woken"} :
            /\ v = "woken" /\ threadPc[thread] # "woken" => threadPc[thread] = "waiting"
            /\ threadPc' = [threadPc EXCEPT ![thread] = v]
      /\ UNCHANGED <<waitingToStart, working, finishedCommiting, copyRAMFinished,
                     objectsToUpdate, objectsToDelete, range, transaction, spc, stage, current,
                     left, thread, deleteOnly, size, masterPc, waitCondition, threads, index,
                     dispatched, written, committed, late, saves, updateInProgress>>
  BY Zenon DEF Nudge, Roused, threadVars, workVars, saverVars, dealVars, masterVars, ghostVars
<1>2. ThreadTypes /\ WorkTypes /\ SaverTypes /\ MasterTypes /\ GhostTypes /\ SaverInv /\ WorkInv
      /\ CopyDoneInv /\ WatchInv /\ DealtInv /\ KeptInv
  BY Zenon DEF UpdateInv
<1>3. (WorkTypes /\ SaverTypes /\ MasterTypes /\ GhostTypes /\ SaverInv /\ WatchInv /\
       DealtInv)'
  BY <1>1, <1>2, SameWorkTypes, SameSaverTypes, SameMasterTypes, SameGhostTypes, SameSaverInv,
     SameWatchInv, SameDealtInv, Zenon
<1>4. ThreadTypes'
  BY <1>1, <1>2, Zenon DEF ThreadTypes, ThreadPlaces, SaverTypes
<1>5. WorkInv'
  BY <1>1, <1>2, ZenonT(30) DEF WorkInv, ThreadTypes, SaverTypes, Pending
<1>6. CopyDoneInv'
  BY <1>1, <1>2, Zenon DEF CopyDoneInv, Pending
<1>7. KeptInv'
  BY <1>1, <1>2, Zenon DEF KeptInv, Kept, Work
<1> QED BY <1>3, <1>4, <1>5, <1>6, <1>7, Zenon DEF UpdateInv

\* waitFinishedWork waits for the thread.
LEMMA AwaitInv ==
    ASSUME UpdateInv, Await
    PROVE  UpdateInv'
<1>1. /\ spc = "await" /\ spc' = "asleep"
      /\ UNCHANGED <<threadPc, waitingToStart, working, finishedCommiting, copyRAMFinished,
                     objectsToUpdate, objectsToDelete, range, transaction, stage, current, left,
                     thread, deleteOnly, size, masterPc, waitCondition, threads, index,
                     dispatched, written, committed, late, saves, updateInProgress>>
  BY Zenon DEF Await, threadVars, workVars, saverVars, dealVars, masterVars, ghostVars
<1>2. ThreadTypes /\ WorkTypes /\ SaverTypes /\ MasterTypes /\ GhostTypes /\ SaverInv /\ WorkInv
      /\ CopyDoneInv /\ WatchInv /\ DealtInv /\ KeptInv
  BY Zenon DEF UpdateInv
<1>3. (ThreadTypes /\ WorkTypes /\ MasterTypes /\ GhostTypes)'
  BY <1>1, <1>2, SameThreadTypes, SameWorkTypes, SameMasterTypes, SameGhostTypes, Zenon
<1>4. SaverTypes'
  BY <1>1, <1>2, Zenon DEF SaverTypes, SaverPlaces
<1>5. SaverInv'
  BY <1>1, <1>2, Zenon DEF SaverInv
<1>6. WorkInv'
  BY <1>1, <1>2, Zenon DEF WorkInv, Pending
<1>7. CopyDoneInv'
  BY <1>1, <1>2, Zenon DEF CopyDoneInv, Pending
<1>8. WatchInv'
  BY <1>1, <1>2, Zenon DEF WatchInv
<1>9. DealtInv'
  BY <1>1, <1>2, Zenon DEF DealtInv
<1>10. KeptInv'
  BY <1>1, <1>2, Zenon DEF KeptInv, Kept, Work
<1> QED BY <1>3, <1>4, <1>5, <1>6, <1>7, <1>8, <1>9, <1>10, Zenon DEF UpdateInv

\* The vector of a batch is set: the thread has copied the batch before it.
LEMMA SetVectorInv ==
    ASSUME UpdateInv, SetVector
    PROVE  UpdateInv'
<1>1. /\ stage = "deal" /\ spc' = "setRest"
      /\ \/ spc = "await" /\ ~working[thread]
         \/ spc = "woken"
      /\ objectsToUpdate' =
            [objectsToUpdate EXCEPT ![thread] = IF deleteOnly THEN NoBatch ELSE current]
      /\ dispatched' = dispatched \cup {current}
      /\ UNCHANGED <<threadPc, waitingToStart, working, finishedCommiting, copyRAMFinished,
                     objectsToDelete, range, transaction, stage, current, left, thread,
                     deleteOnly, size, masterPc, waitCondition, threads, index, written,
                     committed, late, saves, updateInProgress>>
  BY DEF SetVector, WorkFinished, threadVars, workVars, saverVars, dealVars, masterVars,
     ghostVars
<1>2. ThreadTypes /\ WorkTypes /\ SaverTypes /\ MasterTypes /\ GhostTypes /\ SaverInv /\ WorkInv
      /\ CopyDoneInv /\ WatchInv /\ DealtInv /\ KeptInv
  BY Zenon DEF UpdateInv
<1>3. (ThreadTypes /\ MasterTypes)'
  BY <1>1, <1>2, SameThreadTypes, SameMasterTypes, Zenon
<1>4. WorkTypes'
  BY <1>1, <1>2 DEF WorkTypes, SaverTypes, SaverInv, Batches, NoBatch
<1>5. SaverTypes'
  BY <1>1, <1>2, Zenon DEF SaverTypes, SaverPlaces
<1>6. GhostTypes'
  BY <1>1, <1>2 DEF GhostTypes, SaverTypes, SaverInv, Batches
<1>7. SaverInv'
  BY <1>1, <1>2, Zenon DEF SaverInv
<1>8. WorkInv'
  <2>1. \A u \in Updaters : u # thread => Pending(u)' = Pending(u)
    BY <1>1, <1>2, Zenon DEF WorkTypes, Pending
  <2>2. thread <= size /\ thread \in Nat /\ size \in Nat
    BY <1>1, <1>2, UpdateAssumption DEF SaverInv, SaverTypes, Updaters
  <2>3. ~(thread > size) /\ spc \notin {"setRest", "signal"}
    BY <1>1, <2>2
  <2> QED
    BY <1>1, <1>2, <2>1, <2>3, Zenon DEF WorkInv
<1>9. CopyDoneInv'
  BY <1>1, <1>2, Zenon DEF CopyDoneInv, Pending
<1>10. WatchInv'
  BY <1>1, <1>2, Zenon DEF WatchInv
<1>11. DealtInv'
  BY <1>1, <1>2, Zenon DEF DealtInv, WorkTypes, NoBatch
<1>12. KeptInv'
  <2>1. thread \in Updaters /\ ~working[thread]
    BY <1>1, <1>2, Zenon DEF CopyDoneInv, SaverTypes
  <2>2. ~Pending(thread)
    BY <1>1, <1>2, <2>1, Zenon DEF WorkInv
  <2>3. \A u \in Updaters \ {thread} : Work(u)' = Work(u)
    BY <1>1, <1>2, Zenon DEF Work, WorkTypes
  <2>4. Work(thread) = {}
    BY <2>2 DEF Work, Pending, Batches, NoBatch
  <2>5. \A b \in dispatched : Kept(b) => Kept(b)'
    BY <1>1, <2>3, <2>4, Zenon DEF Kept
  <2>6. Kept(current)'
    BY <1>1, Zenon DEF Kept
  <2>7. ~late => threadPc[thread] \notin {"woken", "working"}
    BY <1>1, <1>2, <2>1, Zenon DEF KeptInv, WorkInv
  <2>8. objectsToUpdate'[thread] = IF deleteOnly THEN NoBatch ELSE current
    BY <1>1, <1>2, <2>1, Zenon DEF WorkTypes
  <2> QED
    BY <1>1, <1>2, <2>2, <2>5, <2>6, <2>7, <2>8, Zenon DEF KeptInv, Pending
<1> QED BY <1>3, <1>4, <1>5, <1>6, <1>7, <1>8, <1>9, <1>10, <1>11, <1>12, Zenon DEF UpdateInv

\* The other fields of a batch are set: the thread has slept since the vector was.
LEMMA SetRestInv ==
    ASSUME UpdateInv, SetRest
    PROVE  UpdateInv'
<1>1. /\ spc = "setRest" /\ spc' = "signal"
      /\ range' = [range EXCEPT ![thread] = current]
      /\ transaction' = [transaction EXCEPT ![thread] = TRUE]
      /\ objectsToDelete' =
            [objectsToDelete EXCEPT ![thread] = IF deleteOnly THEN current ELSE NoBatch]
      /\ UNCHANGED <<threadPc, waitingToStart, working, finishedCommiting, copyRAMFinished,
                     objectsToUpdate, stage, current, left, thread, deleteOnly, size, masterPc,
                     waitCondition, threads, index, dispatched, written, committed, late, saves,
                     updateInProgress>>
  BY Zenon DEF SetRest, threadVars, workVars, saverVars, dealVars, masterVars, ghostVars
<1>2. ThreadTypes /\ WorkTypes /\ SaverTypes /\ MasterTypes /\ GhostTypes /\ SaverInv /\ WorkInv
      /\ CopyDoneInv /\ WatchInv /\ DealtInv /\ KeptInv
  BY Zenon DEF UpdateInv
<1>3. (ThreadTypes /\ MasterTypes /\ GhostTypes)'
  BY <1>1, <1>2, SameThreadTypes, SameMasterTypes, SameGhostTypes, Zenon
<1>4. WorkTypes'
  BY <1>1, <1>2 DEF WorkTypes, SaverTypes, SaverInv, Batches, NoBatch
<1>5. SaverTypes'
  BY <1>1, <1>2, Zenon DEF SaverTypes, SaverPlaces
<1>6. SaverInv'
  BY <1>1, <1>2, Zenon DEF SaverInv
<1>7. WorkInv'
  <2>1. \A u \in Updaters : u # thread => Pending(u)' = Pending(u)
    BY <1>1, <1>2, Zenon DEF WorkTypes, Pending
  <2>2. thread <= size /\ thread \in Nat /\ size \in Nat
    BY <1>1, <1>2, UpdateAssumption DEF SaverInv, SaverTypes, Updaters
  <2>3. ~(thread > size)
    BY <2>2
  <2> QED
    BY <1>1, <1>2, <2>1, <2>3, Zenon DEF WorkInv
<1>8. CopyDoneInv'
  BY <1>1, <1>2, Zenon DEF CopyDoneInv, SaverInv
<1>9. WatchInv'
  BY <1>1, <1>2, Zenon DEF WatchInv
<1>10. DealtInv'
  BY <1>1, <1>2, Zenon DEF DealtInv, WorkTypes
<1>11. KeptInv'
  <2> SUFFICES ASSUME ~late PROVE KeptInv'
    BY <1>1, Zenon DEF KeptInv
  <2>1. \A u \in Updaters \ {thread} : Work(u)' = Work(u)
    BY <1>1, <1>2, Zenon DEF Work, WorkTypes
  <2>2. /\ thread \in Updaters /\ current \in Batches /\ objectsToDelete[thread] = NoBatch
        /\ objectsToUpdate[thread] = IF deleteOnly THEN NoBatch ELSE current
        /\ objectsToDelete'[thread] = IF deleteOnly THEN current ELSE NoBatch
        /\ range'[thread] = current
    BY <1>1, <1>2 DEF KeptInv, SaverTypes, SaverInv, WorkTypes, Batches
  <2>3. Work(thread) \subseteq {current}
    BY <2>2 DEF Work, Batches, NoBatch
  <2>4. current \in Work(thread)'
    <3>1. /\ objectsToUpdate'[thread] = objectsToUpdate[thread] /\ current \in Batches'
          /\ current' = current /\ thread' = thread
      BY <1>1, <2>2, Zenon DEF Batches
    <3> QED
      BY <2>2, <3>1, Zenon DEF Work
  <2>5. \A b \in dispatched : Kept(b) => Kept(b)'
    BY <1>1, <2>1, <2>2, <2>3, <2>4, Zenon DEF Kept
  <2> QED
    BY <1>1, <1>2, <2>5, Zenon DEF KeptInv
<1> QED BY <1>3, <1>4, <1>5, <1>6, <1>7, <1>8, <1>9, <1>10, <1>11, Zenon DEF UpdateInv

\* signalActivity.
LEMMA SignalActivityInv ==
    ASSUME UpdateInv, SignalActivity
    PROVE  UpdateInv'
<1>1. /\ spc = "signal" /\ spc' = "dispatch" /\ left' = left - 1
      /\ working' = [working EXCEPT ![thread] = TRUE]
      /\ \E v \in {threadPc[thread], "woken"} :
            /\ v = "woken" /\ threadPc[thread] # "woken" => threadPc[thread] = "waiting"
            /\ threadPc' = [threadPc EXCEPT ![thread] = v]
      /\ UNCHANGED <<waitingToStart, finishedCommiting, copyRAMFinished, objectsToUpdate,
                     objectsToDelete, range, transaction, stage, current, thread, deleteOnly,
                     size, masterPc, waitCondition, threads, index, dispatched, written,
                     committed, late, saves, updateInProgress>>
  BY DEF SignalActivity, Roused, threadVars, workVars, saverVars, dealVars, masterVars,
     ghostVars
<1>2. ThreadTypes /\ WorkTypes /\ SaverTypes /\ MasterTypes /\ GhostTypes /\ SaverInv /\ WorkInv
      /\ CopyDoneInv /\ WatchInv /\ DealtInv /\ KeptInv
  BY Zenon DEF UpdateInv
<1>3. (WorkTypes /\ MasterTypes /\ GhostTypes)'
  BY <1>1, <1>2, SameWorkTypes, SameMasterTypes, SameGhostTypes, Zenon
<1>4. ThreadTypes'
  BY <1>1, <1>2, Zenon DEF ThreadTypes, ThreadPlaces, SaverTypes
<1>5. SaverTypes'
  <2>1. left \in 0..MaxBatches /\ left > 0 /\ MaxBatches \in Nat
    BY <1>1, <1>2, UpdateAssumption, Zenon DEF SaverTypes, SaverInv
  <2>2. left' \in 0..MaxBatches
    BY <1>1, <2>1
  <2> QED
    BY <1>1, <1>2, <2>2, Zenon DEF SaverTypes, SaverPlaces
<1>6. SaverInv'
  BY <1>1, <1>2, UpdateAssumption DEF SaverInv, SaverTypes
<1>7. WorkInv'
  BY <1>1, <1>2, ZenonT(30) DEF WorkInv, ThreadTypes, SaverTypes, Pending
<1>8. CopyDoneInv'
  BY <1>1, <1>2, Zenon DEF CopyDoneInv, SaverInv
<1>9. WatchInv'
  BY <1>1, <1>2, Zenon DEF WatchInv
<1>10. DealtInv'
  BY <1>1, <1>2, Zenon DEF DealtInv
<1>11. KeptInv'
  BY <1>1, <1>2, ZenonT(30) DEF KeptInv, Kept, Work
<1> QED BY <1>3, <1>4, <1>5, <1>6, <1>7, <1>8, <1>9, <1>10, <1>11, Zenon DEF UpdateInv

\* The last batch is dealt.
LEMMA EndDealInv ==
    ASSUME UpdateInv, EndDeal
    PROVE  UpdateInv'
<1>1. /\ spc = "dispatch" /\ stage' = "end" /\ thread' = 1
      /\ spc' = IF size = 0 THEN "startWatch" ELSE "copied"
      /\ UNCHANGED <<threadPc, waitingToStart, working, finishedCommiting, copyRAMFinished,
                     objectsToUpdate, objectsToDelete, range, transaction, current, left,
                     deleteOnly, size, masterPc, waitCondition, threads, index, dispatched,
                     written, committed, late, saves, updateInProgress>>
  BY Zenon DEF EndDeal, threadVars, workVars, saverVars, dealVars, masterVars, ghostVars
<1>2. ThreadTypes /\ WorkTypes /\ SaverTypes /\ MasterTypes /\ GhostTypes /\ SaverInv /\ WorkInv
      /\ CopyDoneInv /\ WatchInv /\ DealtInv /\ KeptInv
  BY Zenon DEF UpdateInv
<1>3. (ThreadTypes /\ WorkTypes /\ MasterTypes /\ GhostTypes)'
  BY <1>1, <1>2, SameThreadTypes, SameWorkTypes, SameMasterTypes, SameGhostTypes, Zenon
<1>4. SaverTypes'
  BY <1>1, <1>2, UpdateAssumption DEF SaverTypes, SaverPlaces, Updaters
<1>5. SaverInv'
  BY <1>1, <1>2, UpdateAssumption DEF SaverInv, SaverTypes
<1>6. WorkInv'
  BY <1>1, <1>2, Zenon DEF WorkInv, Pending
<1>7. CopyDoneInv'
  BY <1>1, <1>2 DEF CopyDoneInv, WorkInv, Updaters, Pending
<1>8. WatchInv'
  BY <1>1, <1>2, Zenon DEF WatchInv
<1>9. DealtInv'
  BY <1>1, <1>2, Zenon DEF DealtInv
<1>10. KeptInv'
  BY <1>1, <1>2, Zenon DEF KeptInv, Kept, Work
<1> QED BY <1>3, <1>4, <1>5, <1>6, <1>7, <1>8, <1>9, <1>10, Zenon DEF UpdateInv

\* signalCopyFinished.
LEMMA SignalCopyFinishedInv ==
    ASSUME UpdateInv, SignalCopyFinished
    PROVE  UpdateInv'
<1>1. /\ spc = "copied" /\ spc' = "await"
      /\ copyRAMFinished' = [copyRAMFinished EXCEPT ![thread] = TRUE]
      /\ \E v \in {threadPc[thread], "woken"} :
            /\ v = "woken" /\ threadPc[thread] # "woken" => threadPc[thread] = "waiting"
            /\ threadPc' = [threadPc EXCEPT ![thread] = v]
      /\ UNCHANGED <<waitingToStart, working, finishedCommiting, objectsToUpdate,
                     objectsToDelete, range, transaction, stage, current, left, thread,
                     deleteOnly, size, masterPc, waitCondition, threads, index, dispatched,
                     written, committed, late, saves, updateInProgress>>
  BY DEF SignalCopyFinished, Roused, threadVars, workVars, saverVars, dealVars, masterVars,
     ghostVars
<1>2. ThreadTypes /\ WorkTypes /\ SaverTypes /\ MasterTypes /\ GhostTypes /\ SaverInv /\ WorkInv
      /\ CopyDoneInv /\ WatchInv /\ DealtInv /\ KeptInv
  BY Zenon DEF UpdateInv
<1>3. (WorkTypes /\ MasterTypes /\ GhostTypes)'
  BY <1>1, <1>2, SameWorkTypes, SameMasterTypes, SameGhostTypes, Zenon
<1>4. ThreadTypes'
  BY <1>1, <1>2, Zenon DEF ThreadTypes, ThreadPlaces, SaverTypes
<1>5. SaverTypes'
  BY <1>1, <1>2, Zenon DEF SaverTypes, SaverPlaces
<1>6. SaverInv'
  BY <1>1, <1>2, Zenon DEF SaverInv
<1>7. WorkInv'
  BY <1>1, <1>2, ZenonT(30) DEF WorkInv, ThreadTypes, SaverTypes, SaverInv, Pending
<1>8. CopyDoneInv'
  BY <1>1, <1>2, Zenon DEF CopyDoneInv, Pending
<1>9. WatchInv'
  BY <1>1, <1>2, Zenon DEF WatchInv
<1>10. DealtInv'
  BY <1>1, <1>2, Zenon DEF DealtInv
<1>11. KeptInv'
  BY <1>1, <1>2, Zenon DEF KeptInv, Kept, Work, SaverInv
<1> QED BY <1>3, <1>4, <1>5, <1>6, <1>7, <1>8, <1>9, <1>10, <1>11, Zenon DEF UpdateInv

\* waitFinishedWork returns after signalCopyFinished: the thread has no batch.
LEMMA NextThreadInv ==
    ASSUME UpdateInv, NextThread
    PROVE  UpdateInv'
<1>1. /\ stage = "end"
      /\ \/ spc = "await" /\ ~working[thread]
         \/ spc = "woken"
      /\ IF thread < size THEN spc' = "copied" /\ thread' = thread + 1
                          ELSE spc' = "startWatch" /\ thread' = thread
      /\ UNCHANGED <<threadPc, waitingToStart, working, finishedCommiting, copyRAMFinished,
                     objectsToUpdate, objectsToDelete, range, transaction, stage, current, left,
                     deleteOnly, size, masterPc, waitCondition, threads, index, dispatched,
                     written, committed, late, saves, updateInProgress>>
  BY DEF NextThread, WorkFinished, threadVars, workVars, saverVars, dealVars, masterVars,
     ghostVars
<1>2. ThreadTypes /\ WorkTypes /\ SaverTypes /\ MasterTypes /\ GhostTypes /\ SaverInv /\ WorkInv
      /\ CopyDoneInv /\ WatchInv /\ DealtInv /\ KeptInv
  BY Zenon DEF UpdateInv
<1>3. (ThreadTypes /\ WorkTypes /\ MasterTypes /\ GhostTypes)'
  BY <1>1, <1>2, SameThreadTypes, SameWorkTypes, SameMasterTypes, SameGhostTypes, Zenon
<1>4. SaverTypes'
  BY <1>1, <1>2, UpdateAssumption DEF SaverTypes, SaverPlaces, Updaters
<1>5. SaverInv'
  BY <1>1, <1>2 DEF SaverInv, SaverTypes, Updaters
<1>6. WorkInv'
  BY <1>1, <1>2, Zenon DEF WorkInv, Pending
<1>7. CopyDoneInv'
  <2>1. thread \in Updaters /\ ~working[thread]
    BY <1>1, <1>2, Zenon DEF CopyDoneInv, SaverTypes
  <2>2. ~Pending(thread)
    BY <1>1, <1>2, <2>1, Zenon DEF WorkInv
  <2>3. \A u \in Updaters : u > size \/ u <= thread => ~Pending(u)
    BY <1>1, <1>2, <2>2 DEF CopyDoneInv, WorkInv, SaverTypes, Updaters
  <2>4. \A u \in Updaters : Pending(u)' = Pending(u)
    BY <1>1, Zenon DEF Pending
  <2>5. \A u \in Updaters : u < thread' => u <= thread
    BY <1>1, <1>2 DEF SaverTypes, Updaters
  <2>6. spc' = "startWatch" => \A u \in Updaters : u > size \/ u <= thread
    BY <1>1, <1>2 DEF SaverInv, SaverTypes, Updaters
  <2> QED
    BY <1>1, <2>3, <2>4, <2>5, <2>6, Zenon DEF CopyDoneInv
<1>8. WatchInv'
  BY <1>1, <1>2, Zenon DEF WatchInv
<1>9. DealtInv'
  BY <1>1, <1>2, Zenon DEF DealtInv
<1>10. KeptInv'
  BY <1>1, <1>2, Zenon DEF KeptInv, Kept, Work
<1> QED BY <1>3, <1>4, <1>5, <1>6, <1>7, <1>8, <1>9, <1>10, Zenon DEF UpdateInv

\* startWatch writes the fields of the master.
LEMMA StartWatchInv ==
    ASSUME UpdateInv, StartWatch
    PROVE  UpdateInv'
<1>1. /\ spc = "startWatch" /\ spc' = "signalWatch" /\ threads' = TRUE
      /\ UNCHANGED <<threadPc, waitingToStart, working, finishedCommiting, copyRAMFinished,
                     objectsToUpdate, objectsToDelete, range, transaction, stage, current, left,
                     thread, deleteOnly, size, masterPc, waitCondition, index, dispatched,
                     written, committed, late, saves, updateInProgress>>
  BY Zenon DEF StartWatch, threadVars, workVars, saverVars, dealVars, masterVars, ghostVars
<1>2. ThreadTypes /\ WorkTypes /\ SaverTypes /\ MasterTypes /\ GhostTypes /\ SaverInv /\ WorkInv
      /\ CopyDoneInv /\ WatchInv /\ DealtInv /\ KeptInv
  BY Zenon DEF UpdateInv
<1>3. (ThreadTypes /\ WorkTypes /\ GhostTypes)'
  BY <1>1, <1>2, SameThreadTypes, SameWorkTypes, SameGhostTypes, Zenon
<1>4. SaverTypes'
  BY <1>1, <1>2, Zenon DEF SaverTypes, SaverPlaces
<1>5. MasterTypes'
  BY <1>1, <1>2, Zenon DEF MasterTypes
<1>6. SaverInv'
  BY <1>1, <1>2, Zenon DEF SaverInv
<1>7. WorkInv'
  BY <1>1, <1>2, Zenon DEF WorkInv, Pending
<1>8. CopyDoneInv'
  BY <1>1, <1>2, Zenon DEF CopyDoneInv, Pending
<1>9. WatchInv'
  BY <1>1, <1>2, Zenon DEF WatchInv
<1>10. DealtInv'
  BY <1>1, <1>2, Zenon DEF DealtInv
<1>11. KeptInv'
  BY <1>1, <1>2, Zenon DEF KeptInv, Kept, Work
<1> QED BY <1>3, <1>4, <1>5, <1>6, <1>7, <1>8, <1>9, <1>10, <1>11, Zenon DEF UpdateInv

\* startWatch signals: the signal before it was consumed.
LEMMA SignalWatchInv ==
    ASSUME UpdateInv, SignalWatch
    PROVE  UpdateInv'
<1>1. /\ spc = "signalWatch" /\ spc' = "idle" /\ masterPc \in {"top", "waiting"}
      /\ waitCondition' \in Signal(waitCondition)
      /\ UNCHANGED <<threadPc, waitingToStart, working, finishedCommiting, copyRAMFinished,
                     objectsToUpdate, objectsToDelete, range, transaction, stage, current, left,
                     thread, deleteOnly, size, masterPc, threads, index, dispatched, written,
                     committed, late, saves, updateInProgress>>
  BY Zenon DEF SignalWatch, threadVars, workVars, saverVars, dealVars, masterVars, ghostVars
<1>2. ThreadTypes /\ WorkTypes /\ SaverTypes /\ MasterTypes /\ GhostTypes /\ SaverInv /\ WorkInv
      /\ CopyDoneInv /\ WatchInv /\ DealtInv /\ KeptInv
  BY Zenon DEF UpdateInv
<1>3. (ThreadTypes /\ WorkTypes /\ GhostTypes)'
  BY <1>1, <1>2, SameThreadTypes, SameWorkTypes, SameGhostTypes, Zenon
<1>4. SaverTypes'
  BY <1>1, <1>2, Zenon DEF SaverTypes, SaverPlaces
<1>5. MasterTypes'
  BY <1>1, <1>2, SignalOne, Zenon DEF MasterTypes
<1>6. SaverInv'
  BY <1>1, <1>2, Zenon DEF SaverInv
<1>7. WorkInv'
  BY <1>1, <1>2, Zenon DEF WorkInv, Pending
<1>8. CopyDoneInv'
  BY <1>1, <1>2, Zenon DEF CopyDoneInv, Pending
<1>9. WatchInv'
  <2>1. waitCondition \in ConditionType({Watcher}) /\ waitCondition.signalCount \in Nat
    BY <1>2, Zenon DEF MasterTypes, ConditionType
  <2>2. /\ waitCondition.asleep \cup waitCondition.woken = {} =>
              /\ waitCondition'.signalCount = waitCondition.signalCount + 1
              /\ waitCondition'.asleep = {} /\ waitCondition'.woken = {}
        /\ waitCondition.asleep \cup waitCondition.woken # {} =>
              /\ waitCondition'.signalCount = waitCondition.signalCount
              /\ waitCondition'.asleep = {} /\ waitCondition'.woken # {}
    BY <1>1, <2>1, SignalOne, Zenon
  <2>3. waitCondition.signalCount = 0
    BY <1>1, <1>2, <2>1 DEF WatchInv
  <2>4. updateInProgress
    BY <1>1, <1>2, Zenon DEF SaverInv
  <2>5. /\ masterPc = "waiting" => waitCondition'.signalCount = 0
        /\ masterPc = "waiting" => waitCondition'.asleep = {} /\ waitCondition'.woken # {}
        /\ masterPc # "waiting" => waitCondition'.asleep = {} /\ waitCondition'.woken = {}
        /\ waitCondition'.signalCount <= 1
    BY <1>2, <2>2, <2>3 DEF WatchInv
  <2> QED
    BY <1>1, <1>2, <2>4, <2>5, Zenon DEF WatchInv
<1>10. DealtInv'
  BY <1>1, <1>2, Zenon DEF DealtInv
<1>11. KeptInv'
  BY <1>1, <1>2, ZenonT(30) DEF KeptInv, Kept, Work
<1> QED BY <1>3, <1>4, <1>5, <1>6, <1>7, <1>8, <1>9, <1>10, <1>11, Zenon DEF UpdateInv

\* The master waits, or takes the signal.
LEMMA MasterWaitInv ==
    ASSUME UpdateInv, MasterWait
    PROVE  UpdateInv'
<1>1. /\ masterPc = "top" /\ index' = 1
      /\ IF waitCondition.signalCount > 0
           THEN masterPc' = "check" /\ waitCondition' = ConsumeSignal(waitCondition)
           ELSE masterPc' = "waiting" /\ waitCondition' = Sleep(waitCondition, Watcher)
      /\ UNCHANGED <<threadPc, waitingToStart, working, finishedCommiting, copyRAMFinished,
                     objectsToUpdate, objectsToDelete, range, transaction, spc, stage, current,
                     left, thread, deleteOnly, size, threads, dispatched, written, committed,
                     late, saves, updateInProgress>>
  BY DEF MasterWait, WaitReturns, threadVars, workVars, saverVars, dealVars, masterVars,
     ghostVars
<1>2. ThreadTypes /\ WorkTypes /\ SaverTypes /\ MasterTypes /\ GhostTypes /\ SaverInv /\ WorkInv
      /\ CopyDoneInv /\ WatchInv /\ DealtInv /\ KeptInv
  BY Zenon DEF UpdateInv
<1>3. (ThreadTypes /\ WorkTypes /\ SaverTypes /\ GhostTypes /\ SaverInv /\ WorkInv /\
       CopyDoneInv /\ DealtInv /\ KeptInv)'
  BY <1>1, <1>2, SameThreadTypes, SameWorkTypes, SameSaverTypes, SameGhostTypes, SameSaverInv,
     SameWorkInv, SameCopyDoneInv, SameDealtInv, SameKeptInv, Zenon
<1>4. MasterTypes'
  <2>1. waitCondition' \in ConditionType({Watcher})
    BY <1>1, <1>2 DEF MasterTypes, ConsumeSignal, Sleep, ConditionType
  <2> QED
    BY <1>1, <1>2, <2>1, UpdateAssumption DEF MasterTypes, MasterPlaces
<1>5. WatchInv'
  <2>1. waitCondition \in ConditionType({Watcher}) /\ waitCondition.signalCount \in Nat
    BY <1>2, Zenon DEF MasterTypes, ConditionType
  <2>2. waitCondition.signalCount <= 1 /\ waitCondition.asleep = {} /\ waitCondition.woken = {}
    BY <1>1, <1>2, Zenon DEF WatchInv
  <2>3. waitCondition'.signalCount = 0 /\ waitCondition'.woken = {} /\ 0 <= 1 /\ ~(0 > 0)
    BY <1>1, <2>1, <2>2 DEF ConsumeSignal, Sleep, ConditionType
  <2>4. masterPc' = "waiting" => waitCondition'.asleep = {Watcher}
    BY <1>1, <2>1, <2>2, Zenon DEF Sleep, ConditionType
  <2>5. masterPc' # "waiting" =>
           /\ waitCondition'.asleep = {} /\ masterPc' = "check"
           /\ spc = "idle" /\ updateInProgress
    BY <1>1, <1>2, <2>1, <2>2, Zenon DEF WatchInv, ConsumeSignal, ConditionType
  <2>6. \A u \in Updaters : ~(u < 1)
    BY UpdateAssumption DEF Updaters
  <2> QED
    BY <1>1, <1>2, <2>3, <2>4, <2>5, <2>6, Zenon DEF WatchInv
<1> QED BY <1>3, <1>4, <1>5, Zenon DEF UpdateInv

\* The wait of the master returns.
LEMMA MasterWokenInv ==
    ASSUME UpdateInv, MasterWoken
    PROVE  UpdateInv'
<1>1. /\ masterPc = "waiting" /\ masterPc' = "check" /\ Watcher \in waitCondition.woken
      /\ waitCondition' = Return(waitCondition, Watcher)
      /\ UNCHANGED <<threadPc, waitingToStart, working, finishedCommiting, copyRAMFinished,
                     objectsToUpdate, objectsToDelete, range, transaction, spc, stage, current,
                     left, thread, deleteOnly, size, threads, index, dispatched, written,
                     committed, late, saves, updateInProgress>>
  BY Zenon DEF MasterWoken, threadVars, workVars, saverVars, dealVars, masterVars, ghostVars
<1>2. ThreadTypes /\ WorkTypes /\ SaverTypes /\ MasterTypes /\ GhostTypes /\ SaverInv /\ WorkInv
      /\ CopyDoneInv /\ WatchInv /\ DealtInv /\ KeptInv
  BY Zenon DEF UpdateInv
<1>3. (ThreadTypes /\ WorkTypes /\ SaverTypes /\ GhostTypes /\ SaverInv /\ WorkInv /\
       CopyDoneInv /\ DealtInv /\ KeptInv)'
  BY <1>1, <1>2, SameThreadTypes, SameWorkTypes, SameSaverTypes, SameGhostTypes, SameSaverInv,
     SameWorkInv, SameCopyDoneInv, SameDealtInv, SameKeptInv, Zenon
<1>4. MasterTypes'
  <2>1. waitCondition' \in ConditionType({Watcher})
    BY <1>1, <1>2, Zenon DEF MasterTypes, Return, ConditionType
  <2> QED
    BY <1>1, <1>2, <2>1, Zenon DEF MasterTypes, MasterPlaces
<1>5. WatchInv'
  <2>1. /\ waitCondition.signalCount = 0 /\ waitCondition.asleep = {}
        /\ index = 1 /\ spc = "idle" /\ updateInProgress
    BY <1>1, <1>2, Zenon DEF WatchInv
  <2>2. /\ waitCondition'.signalCount = 0 /\ waitCondition'.asleep = {}
        /\ waitCondition'.woken = {}
    BY <1>1, <1>2, <2>1, Zenon DEF MasterTypes, Return, ConditionType
  <2>3. \A u \in Updaters : ~(u < 1)
    BY UpdateAssumption DEF Updaters
  <2> QED
    BY <1>1, <1>2, <2>1, <2>2, <2>3, Zenon DEF WatchInv
<1> QED BY <1>3, <1>4, <1>5, Zenon DEF UpdateInv

\* commitData passes a thread that has committed all that it copied.
LEMMA PassThreadInv ==
    ASSUME UpdateInv, PassThread
    PROVE  UpdateInv'
<1>1. /\ masterPc = "check"
      /\ IF index <= size THEN finishedCommiting[index] /\ index' = index + 1 /\ masterPc' = "check"
                          ELSE masterPc' = "commit" /\ index' = index
      /\ UNCHANGED <<threadPc, waitingToStart, working, finishedCommiting, copyRAMFinished,
                     objectsToUpdate, objectsToDelete, range, transaction, spc, stage, current,
                     left, thread, deleteOnly, size, waitCondition, threads, dispatched,
                     written, committed, late, saves, updateInProgress>>
  BY Zenon DEF PassThread, threadVars, workVars, saverVars, dealVars, masterVars, ghostVars
<1>2. ThreadTypes /\ WorkTypes /\ SaverTypes /\ MasterTypes /\ GhostTypes /\ SaverInv /\ WorkInv
      /\ CopyDoneInv /\ WatchInv /\ DealtInv /\ KeptInv
  BY Zenon DEF UpdateInv
<1>3. (ThreadTypes /\ WorkTypes /\ SaverTypes /\ GhostTypes /\ SaverInv /\ WorkInv /\
       CopyDoneInv /\ DealtInv /\ KeptInv)'
  BY <1>1, <1>2, SameThreadTypes, SameWorkTypes, SameSaverTypes, SameGhostTypes, SameSaverInv,
     SameWorkInv, SameCopyDoneInv, SameDealtInv, SameKeptInv, Zenon
<1>4. MasterTypes'
  BY <1>1, <1>2, UpdateAssumption DEF MasterTypes, SaverTypes, MasterPlaces
<1>5. WatchInv'
  <2>1. masterPc' = "commit" => \A u \in Updaters : u < index \/ u > size
    BY <1>1, <1>2 DEF MasterTypes, SaverTypes, Updaters
  <2>2. masterPc' = "check" => index' = index + 1 /\ written[index] = {}
    BY <1>1, <1>2, UpdateAssumption DEF WorkInv, MasterTypes, SaverTypes, Updaters
  <2>3. masterPc' = "commit" => \A u \in Updaters : written[u] = {}
    BY <1>1, <1>2, <2>1, Zenon DEF WatchInv, WorkInv
  <2>4. masterPc' = "check" => \A u \in Updaters : u < index' => written[u] = {}
    BY <1>1, <1>2, <2>2 DEF WatchInv, MasterTypes, Updaters
  <2> QED
    BY <1>1, <1>2, <2>3, <2>4, Zenon DEF WatchInv
<1> QED BY <1>3, <1>4, <1>5, Zenon DEF UpdateInv

\* commitData lets a thread commit.
LEMMA SignalMasterTransactionFinishInv ==
    ASSUME UpdateInv, SignalMasterTransactionFinish
    PROVE  UpdateInv'
<1>1. /\ threadPc' = [threadPc EXCEPT ![index] = IF @ = "waitMaster" THEN "wokenMaster" ELSE @]
      /\ \A u \in Updaters : \/ threadPc'[u] = threadPc[u]
                             \/ threadPc[u] = "waitMaster" /\ threadPc'[u] = "wokenMaster"
      /\ UNCHANGED <<waitingToStart, working, finishedCommiting, copyRAMFinished,
                     objectsToUpdate, objectsToDelete, range, transaction, spc, stage, current,
                     left, thread, deleteOnly, size, masterPc, waitCondition, threads, index,
                     dispatched, written, committed, late, saves, updateInProgress>>
  BY DEF SignalMasterTransactionFinish, UpdateInv, ThreadTypes, threadVars, workVars, saverVars,
     dealVars, masterVars, ghostVars
<1>2. ThreadTypes /\ WorkTypes /\ SaverTypes /\ MasterTypes /\ GhostTypes /\ SaverInv /\ WorkInv
      /\ CopyDoneInv /\ WatchInv /\ DealtInv /\ KeptInv
  BY Zenon DEF UpdateInv
<1>3. (WorkTypes /\ SaverTypes /\ MasterTypes /\ GhostTypes /\ SaverInv /\ WatchInv /\
       DealtInv)'
  BY <1>1, <1>2, SameWorkTypes, SameSaverTypes, SameMasterTypes, SameGhostTypes, SameSaverInv,
     SameWatchInv, SameDealtInv, Zenon
<1>4. ThreadTypes'
  BY <1>1, <1>2, Zenon DEF ThreadTypes, ThreadPlaces
<1>5. WorkInv'
  BY <1>1, <1>2, ZenonT(30) DEF WorkInv, Pending
<1>6. CopyDoneInv'
  BY <1>1, <1>2, Zenon DEF CopyDoneInv, SaverTypes, Pending
<1>7. KeptInv'
  BY <1>1, <1>2, ZenonT(30) DEF KeptInv, SaverTypes, Kept, Work
<1> QED BY <1>3, <1>4, <1>5, <1>6, <1>7, Zenon DEF UpdateInv

\* The transaction of the save is committed.
LEMMA CommitMasterInv ==
    ASSUME UpdateInv, CommitMaster
    PROVE  UpdateInv'
<1>1. /\ masterPc = "commit" /\ masterPc' = "finish"
      /\ UNCHANGED <<threadPc, waitingToStart, working, finishedCommiting, copyRAMFinished,
                     objectsToUpdate, objectsToDelete, range, transaction, spc, stage, current,
                     left, thread, deleteOnly, size, waitCondition, threads, index, dispatched,
                     written, committed, late, saves, updateInProgress>>
  BY Zenon DEF CommitMaster, threadVars, workVars, saverVars, dealVars, masterVars, ghostVars
<1>2. ThreadTypes /\ WorkTypes /\ SaverTypes /\ MasterTypes /\ GhostTypes /\ SaverInv /\ WorkInv
      /\ CopyDoneInv /\ WatchInv /\ DealtInv /\ KeptInv
  BY Zenon DEF UpdateInv
<1>3. (ThreadTypes /\ WorkTypes /\ SaverTypes /\ GhostTypes /\ SaverInv /\ WorkInv /\
       CopyDoneInv /\ DealtInv /\ KeptInv)'
  BY <1>1, <1>2, SameThreadTypes, SameWorkTypes, SameSaverTypes, SameGhostTypes, SameSaverInv,
     SameWorkInv, SameCopyDoneInv, SameDealtInv, SameKeptInv, Zenon
<1>4. MasterTypes'
  BY <1>1, <1>2, Zenon DEF MasterTypes, MasterPlaces
<1>5. WatchInv'
  BY <1>1, <1>2, Zenon DEF WatchInv
<1> QED BY <1>3, <1>4, <1>5, Zenon DEF UpdateInv

\* finishObjectUpdate: the next save may begin.
LEMMA FinishUpdateInv ==
    ASSUME UpdateInv, FinishUpdate
    PROVE  UpdateInv'
<1>1. /\ masterPc = "finish" /\ masterPc' = "clear" /\ updateInProgress' = FALSE
      /\ UNCHANGED <<threadPc, waitingToStart, working, finishedCommiting, copyRAMFinished,
                     objectsToUpdate, objectsToDelete, range, transaction, spc, stage, current,
                     left, thread, deleteOnly, size, waitCondition, threads, index, dispatched,
                     written, committed, late, saves>>
  BY Zenon DEF FinishUpdate, threadVars, workVars, saverVars, dealVars, masterVars, ghostVars
<1>2. ThreadTypes /\ WorkTypes /\ SaverTypes /\ MasterTypes /\ GhostTypes /\ SaverInv /\ WorkInv
      /\ CopyDoneInv /\ WatchInv /\ DealtInv /\ KeptInv
  BY Zenon DEF UpdateInv
<1>3. (ThreadTypes /\ WorkTypes /\ SaverTypes /\ WorkInv /\ CopyDoneInv /\ DealtInv /\ KeptInv)'
  BY <1>1, <1>2, SameThreadTypes, SameWorkTypes, SameSaverTypes, SameWorkInv, SameCopyDoneInv,
     SameDealtInv, SameKeptInv, Zenon
<1>4. MasterTypes'
  BY <1>1, <1>2, Zenon DEF MasterTypes, MasterPlaces
<1>5. GhostTypes'
  BY <1>1, <1>2, Zenon DEF GhostTypes
<1>6. SaverInv'
  BY <1>1, <1>2, Zenon DEF SaverInv, WatchInv
<1>7. WatchInv'
  <2>1. waitCondition.signalCount = 0 /\ waitCondition.woken = {}
    BY <1>1, <1>2, Zenon DEF WatchInv
  <2>2. 0 <= 1 /\ ~(0 > 0)
    OBVIOUS
  <2> QED
    BY <1>1, <1>2, <2>1, <2>2, Zenon DEF WatchInv
<1> QED BY <1>3, <1>4, <1>5, <1>6, <1>7, Zenon DEF UpdateInv

\* The master clears its fields.
LEMMA ClearInv ==
    ASSUME UpdateInv, Clear
    PROVE  UpdateInv'
<1>1. /\ masterPc = "clear" /\ masterPc' = "top" /\ threads' = FALSE
      /\ UNCHANGED <<threadPc, waitingToStart, working, finishedCommiting, copyRAMFinished,
                     objectsToUpdate, objectsToDelete, range, transaction, spc, stage, current,
                     left, thread, deleteOnly, size, waitCondition, index, dispatched, written,
                     committed, late, saves, updateInProgress>>
  BY Zenon DEF Clear, threadVars, workVars, saverVars, dealVars, masterVars, ghostVars
<1>2. ThreadTypes /\ WorkTypes /\ SaverTypes /\ MasterTypes /\ GhostTypes /\ SaverInv /\ WorkInv
      /\ CopyDoneInv /\ WatchInv /\ DealtInv /\ KeptInv
  BY Zenon DEF UpdateInv
<1>3. (ThreadTypes /\ WorkTypes /\ SaverTypes /\ GhostTypes /\ SaverInv /\ WorkInv /\
       CopyDoneInv /\ DealtInv /\ KeptInv)'
  BY <1>1, <1>2, SameThreadTypes, SameWorkTypes, SameSaverTypes, SameGhostTypes, SameSaverInv,
     SameWorkInv, SameCopyDoneInv, SameDealtInv, SameKeptInv, Zenon
<1>4. MasterTypes'
  BY <1>1, <1>2, Zenon DEF MasterTypes, MasterPlaces
<1>5. WatchInv'
  BY <1>1, <1>2, Zenon DEF WatchInv
<1> QED BY <1>3, <1>4, <1>5, Zenon DEF UpdateInv

\* The initial state satisfies the invariant.
LEMMA InitUpdateInv == UpdateInit => UpdateInv
<1> SUFFICES ASSUME UpdateInit PROVE UpdateInv
  BY Zenon
<1> USE UpdateAssumption DEF UpdateInit, Updaters, Batches, NoBatch
<1>1. waitCondition \in ConditionType({Watcher})
  BY Zenon DEF NewCondition, ConditionType
<1>2. ThreadTypes /\ WorkTypes
  BY Zenon DEF ThreadTypes, WorkTypes, ThreadPlaces
<1>3. /\ 0 \in 0..MaxBatches /\ 0 \in 0..MaxSaves
      /\ 1 \in 1..MaxThreads /\ 1 \in 1..(MaxThreads + 1)
  OBVIOUS
<1>4. SaverTypes
  <2>1. InitialThreads \in InitialThreads..MaxThreads
    OBVIOUS
  <2> QED
    BY <1>3, <2>1, Zenon DEF SaverTypes, SaverPlaces
<1>5. MasterTypes /\ GhostTypes
  BY <1>1, <1>3, Zenon DEF MasterTypes, MasterPlaces, GhostTypes
<1>6. SaverInv /\ WorkInv /\ CopyDoneInv
  BY DEF SaverInv, WorkInv, CopyDoneInv, Pending
<1>7. WatchInv
  BY DEF WatchInv, NewCondition
<1>8. DealtInv /\ KeptInv
  BY Zenon DEF DealtInv, KeptInv
<1> QED
  BY <1>2, <1>3, <1>4, <1>5, <1>6, <1>7, <1>8, Zenon DEF UpdateInv

\* Every step preserves it.
LEMMA NextUpdateInv == UpdateInv /\ [UpdateNext]_updateVars => UpdateInv'
<1> SUFFICES ASSUME UpdateInv, [UpdateNext]_updateVars PROVE UpdateInv'
  BY Zenon
<1>1. ASSUME NEW n \in 0..MaxBatches, BeginSave(n) PROVE UpdateInv'
  BY <1>1, BeginSaveInv, Zenon
<1>2. CASE SaverStep
  BY <1>2, DispatchInv, NudgeInv, AwaitInv, SetVectorInv, SetRestInv, SignalActivityInv,
     EndDealInv, SignalCopyFinishedInv, NextThreadInv, StartWatchInv, SignalWatchInv, Zenon
     DEF SaverStep
<1>3. CASE WatcherStep
  BY <1>3, MasterWaitInv, MasterWokenInv, PassThreadInv, SignalMasterTransactionFinishInv,
     CommitMasterInv, FinishUpdateInv, ClearInv, Zenon DEF WatcherStep
<1>4. ASSUME NEW t \in Updaters, ThreadStep(t) PROVE UpdateInv'
  BY <1>4, LockTopInv, WakeInv, CommitObjectsInv, AwaitMasterInv, CommitTransactionInv, Zenon
     DEF ThreadStep
<1>5. CASE UNCHANGED updateVars
  BY <1>5, SameThreadTypes, SameWorkTypes, SameSaverTypes, SameMasterTypes, SameGhostTypes,
     SameSaverInv, SameWorkInv, SameCopyDoneInv, SameWatchInv, SameDealtInv, SameKeptInv
     DEF UpdateInv, updateVars, threadVars, workVars, saverVars, dealVars, masterVars, ghostVars
<1> QED
  BY <1>1, <1>2, <1>3, <1>4, <1>5, Zenon DEF UpdateNext

\* The invariant holds in every reachable state, and with it the types.
THEOREM SpecUpdateInv == UpdateSpec => []UpdateInv
  BY InitUpdateInv, NextUpdateInv, PTL DEF UpdateSpec

\* Every variable of UpdateThreads keeps its type; in particular the thread that
\* dispatchUpdateModifiedObjectsThread takes exists.
THEOREM UpdateTypesHold == UpdateSpec => []UpdateTypeOK
<1>1. UpdateInv => UpdateTypeOK
  BY Zenon DEF UpdateInv, ThreadTypes, WorkTypes, SaverTypes, MasterTypes, GhostTypes, UpdateTypeOK
<1> QED
  BY <1>1, SpecUpdateInv, PTL

\* What the master transaction of a save commits is what was dealt to the threads,
\* however many threads, batches and saves there are (commitData, waitFinishedWork).
THEOREM NothingLostHolds == UpdateSpec => []NothingLost
<1>1. UpdateInv => NothingLost
  <2> SUFFICES ASSUME UpdateInv, masterPc = "commit", ~late PROVE committed = dispatched
    BY Zenon DEF NothingLost
  <2>1. spc = "idle" /\ \A t \in Updaters : written[t] = {}
    BY Zenon DEF UpdateInv, WatchInv
  <2>2. \A t \in Updaters : Work(t) = {}
    BY <2>1 DEF UpdateInv, CopyDoneInv, Pending, Work, Batches, NoBatch
  <2>3. dispatched \subseteq committed
    BY <2>1, <2>2, Zenon DEF UpdateInv, KeptInv, Kept
  <2> QED
    BY <2>3, Zenon DEF UpdateInv, DealtInv
<1> QED
  BY <1>1, SpecUpdateInv, PTL
================================================================================
