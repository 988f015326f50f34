--------------------------- MODULE TaskWorkersProofs ---------------------------
(***************************************************************************)
(* SaveExclusion and RefsBalanced for every number of workers,             *)
(* schedulers, queues and tasks.  BlockInv is inductive together with the  *)
(* types of the variables it mentions; RefsBalanced with what a thread     *)
(* holds at each place of its loop.                                        *)
(***************************************************************************)
EXTENDS TaskWorkers, FiniteSetTheorems, TLAPS

BlockTypes ==
    /\ pc \in [Threads -> {"loop", "wait", "lock", "null", "nullpause",
                           "run", "pause", "stopped"}]
    /\ blockMutex \in [Threads -> Threads \cup {Main, Free}]
    /\ spc \in {"idle", "pausing", "locking", "blocked", "unblocking"}
    /\ group \in 1..3
    /\ idx \in Nat \ {0}
    /\ lockers \subseteq Threads

IInv == BlockTypes /\ BlockInv

\* The variables that IInv mentions.
blockVars == <<pc, blockMutex, spc, group, idx, saver, lockers, vectors, shutdownPc>>

\* The initial state satisfies the invariant: no thread holds its blockMutex.
LEMMA InitIInv == Init => IInv
<1> SUFFICES ASSUME Init PROVE IInv
  OBVIOUS
<1>1. BlockTypes
  BY DEF Init, BlockTypes
<1>2. OwnerRuns
  BY ThreadAssumption DEF Init, OwnerRuns
<1>3. SaverHolds
  BY ThreadAssumption DEF Init, SaverHolds, Threads
<1>4. PassedHeld
  BY DEF Init, PassedHeld
<1> QED
  BY <1>1, <1>2, <1>3, <1>4 DEF IInv, BlockInv

\* A step that changes none of the variables preserves the invariant.
LEMMA StutterIInv == IInv /\ UNCHANGED blockVars => IInv'
BY DEF IInv, BlockTypes, BlockInv, OwnerRuns, SaverHolds, PassedHeld, Passed, blockVars

\* A step of one thread's loop that leaves its blockMutex alone and does not
\* enter or leave the section between lock() and unlock().
LEMMA LoopStepIInv ==
    ASSUME IInv, NEW t \in Threads,
           NEW p \in {"loop", "wait", "lock", "nullpause", "pause", "stopped"},
           pc[t] \notin {"null", "run"}, pc' = [pc EXCEPT ![t] = p],
           UNCHANGED <<blockMutex, saveVars, stopVars>>
    PROVE  IInv'
<1> USE DEF IInv, BlockInv, saveVars, stopVars
<1>1. BlockTypes'
  BY DEF BlockTypes
<1>2. OwnerRuns'
  BY DEF OwnerRuns, BlockTypes
<1>3. SaverHolds'
  BY DEF SaverHolds, BlockTypes
<1>4. PassedHeld'
  BY DEF PassedHeld, Passed
<1> QED
  BY <1>1, <1>2, <1>3, <1>4

\* blockMutex.lock() takes a free mutex, which no save owns.
LEMMA LockIInv ==
    ASSUME IInv, NEW t \in Threads, LockBlockMutex(t) PROVE IInv'
<1> USE DEF IInv, BlockInv, LockBlockMutex, saveVars, stopVars
<1>1. BlockTypes'
  BY DEF BlockTypes
<1>2. OwnerRuns'
  BY ThreadAssumption DEF OwnerRuns, BlockTypes
<1>3. SaverHolds'
  BY ThreadAssumption DEF SaverHolds, BlockTypes, Threads
<1>4. PassedHeld'
  BY ThreadAssumption DEF PassedHeld, Passed, SaverHolds, BlockTypes
<1> QED
  BY <1>1, <1>2, <1>3, <1>4

\* blockMutex.unlock() by its owner, which is not the thread that saves.
LEMMA UnlockIInv ==
    ASSUME IInv, NEW t \in Threads, NEW p \in {"nullpause", "pause"},
           pc[t] \in {"null", "run"}, saver # t,
           blockMutex' = [blockMutex EXCEPT ![t] = Free],
           pc' = [pc EXCEPT ![t] = p], UNCHANGED <<saveVars, stopVars>>
    PROVE  IInv'
<1> USE DEF IInv, BlockInv, saveVars, stopVars
<1>1. BlockTypes'
  BY DEF BlockTypes
<1>2. OwnerRuns'
  BY ThreadAssumption DEF OwnerRuns, BlockTypes
<1>3. SaverHolds'
  BY DEF SaverHolds, BlockTypes, OwnerRuns
<1>4. PassedHeld'
  BY ThreadAssumption DEF PassedHeld, Passed, OwnerRuns, BlockTypes
<1> QED
  BY <1>1, <1>2, <1>3, <1>4

\* The steps of blockTaskManager and unblockTaskManager.
LEMMA StartSaveIInv ==
    ASSUME IInv, NEW t \in Workers \cup {Main}, StartSave(t) PROVE IInv'
<1> USE DEF IInv, BlockInv, StartSave, threadVars, stopVars
<1>1. BlockTypes'
  BY DEF BlockTypes
<1>2. OwnerRuns'
  BY DEF OwnerRuns
<1>3. SaverHolds'
  BY ThreadAssumption DEF SaverHolds, BlockTypes, Threads
<1>4. PassedHeld'
  BY ThreadAssumption DEF PassedHeld, Passed, BlockTypes
<1> QED
  BY <1>1, <1>2, <1>3, <1>4

\* A thread that must not be blocked is passed over.
LEMMA SkipIInv == IInv /\ SkipThread => IInv'
<1> SUFFICES ASSUME IInv, SkipThread PROVE IInv'
  OBVIOUS
<1> USE DEF IInv, BlockInv, SkipThread, threadVars, stopVars
<1>1. BlockTypes'
  BY DEF BlockTypes
<1>2. OwnerRuns'
  BY DEF OwnerRuns
<1>3. SaverHolds'
  BY DEF SaverHolds
<1>4. PassedHeld'
  BY DEF PassedHeld, Passed, BlockTypes
<1> QED
  BY <1>1, <1>2, <1>3, <1>4

\* The save tells a thread to pause.
LEMMA SetPauseIInv ==
    ASSUME IInv, NEW t \in Threads, SetPause(t) PROVE IInv'
<1> USE DEF IInv, BlockInv, SetPause, threadVars, stopVars
<1>1. BlockTypes'
  BY DEF BlockTypes
<1>2. OwnerRuns'
  BY DEF OwnerRuns
<1>3. SaverHolds'
  BY DEF SaverHolds
<1>4. PassedHeld'
  BY DEF PassedHeld, Passed, BlockTypes
<1> QED
  BY <1>1, <1>2, <1>3, <1>4

\* The save gets the Mutex of a thread.
LEMMA LockThreadIInv ==
    ASSUME IInv, NEW t \in Threads, LockThread(t) PROVE IInv'
<1> USE DEF IInv, BlockInv, LockThread, threadVars, stopVars
<1>1. BlockTypes'
  BY DEF BlockTypes, SaverHolds, Threads
<1>2. OwnerRuns'
  <2>1. CASE saver = t
    BY <2>1, ThreadAssumption DEF OwnerRuns, SaverHolds, BlockTypes
  <2>2. CASE saver # t
    BY <2>2, ThreadAssumption DEF OwnerRuns, SaverHolds, BlockTypes
  <2> QED
    BY <2>1, <2>2
<1>3. SaverHolds'
  BY ThreadAssumption DEF SaverHolds, OwnerRuns, BlockTypes, Threads
<1>4. PassedHeld'
  BY DEF PassedHeld, Passed, BlockTypes, InVector
<1> QED
  BY <1>1, <1>2, <1>3, <1>4

\* The save goes on to the next vector of threads.
LEMMA NextLoopIInv == IInv /\ NextLoop => IInv'
<1> SUFFICES ASSUME IInv, NextLoop PROVE IInv'
  OBVIOUS
<1> USE DEF IInv, BlockInv, NextLoop, threadVars, stopVars
<1>1. BlockTypes'
  BY DEF BlockTypes
<1>2. OwnerRuns'
  BY DEF OwnerRuns
<1>3. SaverHolds'
  BY DEF SaverHolds
<1>4. PassedHeld'
  <2> SUFFICES ASSUME shutdownPc = "running",
                      NEW g \in 1..3, NEW i \in 1..Len(Vectors[g]),
                      Passed(g, i)', Vectors[g][i] \notin NonBlocking
               PROVE  blockMutex[Vectors[g][i]] = saver
    BY DEF PassedHeld
  <2>1. spc \in {"pausing", "locking"} /\ vectors = Vectors
    BY DEF PassedHeld
  <2>2. Len(Vectors[g]) \in Nat
    BY ThreadAssumption
  <2>3. Passed(g, i)
    BY <2>1, <2>2 DEF Passed, InVector, BlockTypes
  <2> QED
    BY <2>1, <2>3 DEF PassedHeld
<1> QED
  BY <1>1, <1>2, <1>3, <1>4

\* unblockTaskManager begins.
LEMMA UnblockIInv == IInv /\ Unblock => IInv'
BY DEF IInv, BlockInv, Unblock, threadVars, stopVars, BlockTypes, OwnerRuns, SaverHolds, PassedHeld

\* unblockTaskManager lets one thread go on.
LEMMA UnlockThreadIInv ==
    ASSUME IInv, NEW t \in Threads, UnlockThread(t) PROVE IInv'
<1> USE DEF IInv, BlockInv, UnlockThread, threadVars, stopVars
<1>1. BlockTypes'
  BY DEF BlockTypes
<1>2. OwnerRuns'
  BY ThreadAssumption DEF OwnerRuns, SaverHolds, BlockTypes
<1>3. SaverHolds'
  BY DEF SaverHolds, BlockTypes
<1>4. PassedHeld'
  BY DEF PassedHeld
<1> QED
  BY <1>1, <1>2, <1>3, <1>4

\* The save task is over.
LEMMA EndSaveIInv == IInv /\ EndSave => IInv'
<1> SUFFICES ASSUME IInv, EndSave PROVE IInv'
  OBVIOUS
<1> USE DEF IInv, BlockInv, EndSave, threadVars, stopVars
<1>1. BlockTypes'
  BY DEF BlockTypes
<1>2. OwnerRuns'
  BY DEF OwnerRuns
<1>3. SaverHolds'
  BY ThreadAssumption DEF SaverHolds, Threads
<1>4. PassedHeld'
  BY DEF PassedHeld
<1> QED
  BY <1>1, <1>2, <1>3, <1>4

\* The steps of shutdown: the vectors change only after it began.
LEMMA ShutdownIInv == IInv /\ (Shutdown \/ ShutdownStep) => IInv'
<1> SUFFICES ASSUME IInv, Shutdown \/ ShutdownStep PROVE IInv'
  OBVIOUS
<1>1. UNCHANGED <<pc, blockMutex, saveVars>>
  BY DEF Shutdown, ShutdownStep, Joined, NextStage, StopThread, Flush, threadVars
<1>2. shutdownPc' # "running" \/ UNCHANGED <<vectors, shutdownPc>>
  BY DEF Shutdown, ShutdownStep, Joined, NextStage, StopThread, Flush, stopVars
<1>3. (BlockTypes /\ OwnerRuns /\ SaverHolds)'
  BY <1>1 DEF IInv, BlockInv, BlockTypes, OwnerRuns, SaverHolds, saveVars
<1>4. PassedHeld'
  BY <1>1, <1>2 DEF IInv, BlockInv, PassedHeld, Passed, saveVars
<1> QED
  BY <1>3, <1>4 DEF IInv, BlockInv

\* The invariant is inductive: one step per action of Next.
LEMMA NextIInv == IInv /\ [Next]_vars => IInv'
<1> SUFFICES ASSUME IInv, [Next]_vars PROVE IInv'
  OBVIOUS
<1>1. CASE UNCHANGED vars
  BY <1>1, StutterIInv DEF vars, blockVars
<1>2. ASSUME NEW q \in Queues, NEW task \in Tasks, ExecuteTask(q, task) PROVE IInv'
  BY <1>2, StutterIInv DEF ExecuteTask, blockVars, threadVars, saveVars, stopVars
<1>3. ASSUME NEW t \in Threads, LockBlockMutex(t) PROVE IInv'
  BY <1>3, LockIInv
<1>4. ASSUME NEW t \in Threads, UnlockNull(t) PROVE IInv'
  <2>1. saver # t
    BY <1>4, ThreadAssumption DEF UnlockNull, IInv, BlockInv, SaverHolds, Threads
  <2> QED
    BY <1>4, <2>1, UnlockIInv, Zenon DEF UnlockNull
<1>5. ASSUME NEW t \in Threads, Resume(t) PROVE IInv'
  BY <1>5, LoopStepIInv, Zenon DEF Resume
<1>6. ASSUME NEW t \in Threads, Stop(t) PROVE IInv'
  BY <1>6, LoopStepIInv, Zenon DEF Stop
<1>7. ASSUME NEW w \in Workers, Pop(w) PROVE IInv'
  BY <1>7, LoopStepIInv DEF Pop, TakeHead, Threads
<1>8. ASSUME NEW w \in Workers, PopWoken(w) PROVE IInv'
  BY <1>8, LoopStepIInv, Zenon DEF PopWoken, TakeHead, Threads
<1>9. ASSUME NEW w \in Workers, EndTask(w) PROVE IInv'
  BY <1>9, UnlockIInv, Zenon DEF EndTask, Threads
<1>10. ASSUME NEW w \in Workers, SpuriousWakeup(w) PROVE IInv'
  BY <1>10, StutterIInv DEF SpuriousWakeup, blockVars, threadVars, saveVars, stopVars
<1>11. ASSUME NEW s \in Schedulers, NEW task \in Tasks \cup {NoTask}, SchedulerGet(s, task)
       PROVE IInv'
  BY <1>11, LoopStepIInv, Zenon DEF SchedulerGet, Threads
<1>12. ASSUME NEW s \in Schedulers, NEW q \in Queues, SchedulerRun(s, q) PROVE IInv'
  <2>1. saver # s
    BY ThreadAssumption DEF IInv, BlockInv, SaverHolds, Threads
  <2> QED
    BY <1>12, <2>1, UnlockIInv, Zenon DEF SchedulerRun, Threads
<1>13. ASSUME NEW t \in Workers \cup {Main}, StartSave(t) PROVE IInv'
  BY <1>13, StartSaveIInv
<1>14. CASE SaveStep
  BY <1>14, SkipIInv, NextLoopIInv, UnblockIInv, EndSaveIInv, SetPauseIInv, LockThreadIInv,
     UnlockThreadIInv DEF SaveStep
<1>15. CASE Shutdown \/ ShutdownStep
  BY <1>15, ShutdownIInv
<1> QED
  BY <1>1, <1>2, <1>3, <1>4, <1>5, <1>6, <1>7, <1>8, <1>9, <1>10, <1>11, <1>12, <1>13,
     <1>14, <1>15 DEF Next, ThreadStep, WorkerStep, SchedulerStep

\* What the invariant is for: when every position has been passed, every thread
\* to be stopped has its mutex owned by the save and so is not running.
LEMMA IInvExclusion == IInv => SaveExclusion
<1> SUFFICES ASSUME IInv, spc = "blocked", shutdownPc = "running",
                    NEW t \in Stoppable, t # saver
             PROVE  pc[t] \notin {"null", "run"}
  BY DEF SaveExclusion
<1>1. PICK g \in 1..3 : \E i \in 1..Len(Vectors[g]) : Vectors[g][i] = t
  BY ThreadAssumption DEF Stoppable
<1>2. PICK i \in 1..Len(Vectors[g]) : Vectors[g][i] = t
  BY <1>1
<1>3. blockMutex[t] = saver
  BY <1>2 DEF IInv, BlockInv, PassedHeld, Passed, Stoppable
<1> QED
  BY <1>3 DEF IInv, BlockInv, OwnerRuns, Stoppable

\* No task runs while the manager is blocked for a save, but the save itself
\* (TaskManagerImpl::blockTaskManager, TaskWorkerThread::run,
\* TaskScheduler::run), for every number of threads, queues and tasks.
THEOREM SaveExclusionHolds == Spec => []SaveExclusion
<1>1. Init => IInv
  BY InitIInv
<1>2. IInv /\ [Next]_vars => IInv'
  BY NextIInv
<1>3. IInv => SaveExclusion
  BY IInvExclusion
<1> QED
  BY <1>1, <1>2, <1>3, PTL DEF Spec
--------------------------------------------------------------------------------
(***************************************************************************)
(* The references on the tasks.                                            *)
(***************************************************************************)

\* The places of a task in one queue, the workers that hold it, and what is counted.
Places(s, task) == {i \in DOMAIN s : s[i] = task}
HeldBy(task) == {w \in Workers : cur[w] = task}
Balance == \A task \in Tasks : refs[task] = Cardinality(Entries(task)) + Cardinality(HeldBy(task))

\* A thread holds a task only between pop() or get() and the end of run().
CurInv ==
    \A t \in Threads : /\ pc[t] = "run" => cur[t] \in Tasks
                       /\ pc[t] \notin {"lock", "run"} => cur[t] = NoTask

RefInv == TypeOK /\ CurInv /\ Balance

\* The threads are finitely many, since each is in a vector, and so are the queues.
LEMMA FiniteManager == IsFiniteSet(Workers) /\ IsFiniteSet(Queues)
<1>1. Len(Vectors[1]) \in Nat
  BY ThreadAssumption
<1>2. \A w \in Workers : \E i \in 1..Len(Vectors[1]) : Vectors[1][i] = w
  BY ThreadAssumption DEF Threads
<1>3. Workers = {Vectors[1][i] : i \in 1..Len(Vectors[1])}
  BY <1>2, ThreadAssumption
<1>4. IsFiniteSet(1..Len(Vectors[1]))
  BY <1>1, FS_Interval
<1>5. [i \in 1..Len(Vectors[1]) |-> Vectors[1][i]] \in Surjection(1..Len(Vectors[1]), Workers)
  BY <1>3 DEF Surjection
<1>6. IsFiniteSet(Workers)
  BY <1>4, <1>5, FS_Surjection
<1>7. [w \in Workers |-> QueueOf[w]] \in Surjection(Workers, Queues)
  BY DEF Surjection, Queues
<1> QED
  BY <1>6, <1>7, FS_Surjection

\* The constants that the types speak of.
LEMMA ConstantTypes ==
  /\ MaxPushes \in Nat /\ MaxSaves \in Nat /\ NoTask \notin Tasks
  /\ Vectors \in [1..3 -> Seq(Threads)] /\ Main \notin Threads
BY ThreadAssumption

\* No task is queued or held at first.
LEMMA InitRefInv == Init => RefInv
<1> SUFFICES ASSUME Init PROVE RefInv
  BY Zenon
<1>1. TypeOK /\ CurInv
  <2>1. NewCondition \in ConditionType(Workers)
    BY Zenon DEF NewCondition, ConditionType
  <2> QED
    BY <2>1, ConstantTypes DEF Init, TypeOK, CurInv
<1>2. Balance
  <2> SUFFICES ASSUME NEW task \in Tasks PROVE refs[task] = Cardinality(Entries(task)) + Cardinality(HeldBy(task))
    BY Zenon DEF Balance
  <2>1. Entries(task) = {} /\ refs[task] = 0
    BY DEF Init, Entries
  <2>2. HeldBy(task) = {}
    BY ConstantTypes, Zenon DEF Init, HeldBy, Threads
  <2> QED
    BY <2>1, <2>2, FS_EmptySet
<1> QED
  BY <1>1, <1>2, Zenon DEF RefInv

\* Two sets with a one-to-one correspondence have as many elements.
LEMMA SameCount ==
  ASSUME NEW S, NEW T, IsFiniteSet(S), NEW f \in [S -> T],
         \A a, b \in S : f[a] = f[b] => a = b, \A y \in T : \E x \in S : f[x] = y
  PROVE  IsFiniteSet(T) /\ Cardinality(T) = Cardinality(S)
<1>1. f \in Injection(S, T)
  BY DEF Injection, IsInjective
<1>2. f \in Surjection(S, T)
  BY DEF Surjection
<1>3. ExistsBijection(S, T)
  BY <1>1, <1>2 DEF Bijection, ExistsBijection
<1> QED
  BY <1>3, FS_Bijection

\* A task has finitely many places in a queue.
LEMMA PlacesFinite ==
  ASSUME NEW s \in Seq(Tasks), NEW task
  PROVE  IsFiniteSet(Places(s, task)) /\ Cardinality(Places(s, task)) \in Nat
<1>1. Len(s) \in Nat /\ DOMAIN s = 1..Len(s)
  OBVIOUS
<1>2. IsFiniteSet(1..Len(s))
  BY <1>1, FS_Interval
<1>3. Places(s, task) \in SUBSET (1..Len(s))
  BY <1>1 DEF Places
<1>4. IsFiniteSet(Places(s, task))
  BY <1>2, <1>3, FS_Subset
<1> QED
  BY <1>4, FS_CardinalityType

\* What push, pushFront and pushRandom do to the queue.
LEMMA Inserted ==
  ASSUME NEW s \in Seq(Tasks), NEW i \in 1..(Len(s) + 1), NEW x \in Tasks
  PROVE  PutAt(s, i, x) \in Seq(Tasks)
<1>1. Len(s) \in Nat /\ i \in Nat /\ \A j \in 1..Len(s) : s[j] \in Tasks
  OBVIOUS
<1>2. \A j \in 1..(Len(s) + 1) : (j < i => j \in 1..Len(s)) /\ (j > i => j - 1 \in 1..Len(s))
  BY <1>1
<1>3. \A j \in 1..(Len(s) + 1) : PutAt(s, i, x)[j] \in Tasks
  BY <1>1, <1>2 DEF PutAt
<1>4. PutAt(s, i, x) \in [1..(Len(s) + 1) -> Tasks]
  BY <1>3 DEF PutAt
<1>5. Len(s) + 1 \in Nat
  BY <1>1
<1> QED
  BY <1>4, <1>5

\* A push adds one place of the task pushed and moves the others.
LEMMA PlacesInsert ==
  ASSUME NEW s \in Seq(Tasks), NEW i \in 1..(Len(s) + 1), NEW x \in Tasks, NEW task
  PROVE  Cardinality(Places(PutAt(s, i, x), task)) = Cardinality(Places(s, task)) + (IF x = task THEN 1 ELSE 0)
<1> DEFINE f == [j \in Places(s, task) |-> IF j < i THEN j ELSE j + 1]
<1>0. Len(s) \in Nat /\ i \in Nat /\ DOMAIN s = 1..Len(s)
  OBVIOUS
<1>10. PICK t : t = PutAt(s, i, x)
  OBVIOUS
<1>1. /\ t \in Seq(Tasks) /\ DOMAIN t = 1..(Len(s) + 1)
      /\ \A j \in 1..(Len(s) + 1) : t[j] = IF j < i THEN s[j] ELSE IF j = i THEN x ELSE s[j - 1]
  <2>1. t \in Seq(Tasks)
    BY <1>10, Inserted
  <2> QED
    BY <1>10, <2>1 DEF PutAt
<1>2. f \in [Places(s, task) -> Places(t, task) \ {i}]
  BY <1>0, <1>1 DEF Places
<1>3. \A j, k \in Places(s, task) : f[j] = f[k] => j = k
  BY <1>0 DEF Places
<1>4. ASSUME NEW k \in Places(t, task) \ {i} PROVE \E j \in Places(s, task) : f[j] = k
  <2>1. k \in 1..(Len(s) + 1) /\ k # i /\ t[k] = task
    BY <1>1, <1>4 DEF Places
  <2>2. CASE k < i
    <3>1. k \in Places(s, task)
      BY <2>1, <2>2, <1>0, <1>1 DEF Places
    <3> QED
      BY <3>1, <2>2
  <2>3. CASE k > i
    <3>1. k - 1 \in Places(s, task) /\ ~(k - 1 < i) /\ k - 1 + 1 = k
      BY <2>1, <2>3, <1>0, <1>1 DEF Places
    <3> QED
      BY <3>1
  <2> QED
    BY <2>1, <2>2, <2>3, <1>0
<1>5. IsFiniteSet(Places(s, task))
  BY PlacesFinite
<1> HIDE DEF f
<1>6. Cardinality(Places(t, task) \ {i}) = Cardinality(Places(s, task))
  BY <1>2, <1>3, <1>4, <1>5, SameCount, ZenonT(30)
<1>7. i \in Places(t, task) <=> x = task
  BY <1>0, <1>1 DEF Places
<1>8. IsFiniteSet(Places(t, task)) /\ Cardinality(Places(t, task)) \in Nat /\ Cardinality(Places(s, task)) \in Nat
  BY <1>1, PlacesFinite
<1>9. Cardinality(Places(t, task) \ {i}) = IF i \in Places(t, task) THEN Cardinality(Places(t, task)) - 1 ELSE Cardinality(Places(t, task))
  BY <1>8, FS_RemoveElement, Zenon
<1> QED
  BY <1>6, <1>7, <1>8, <1>9, <1>10

\* A pop takes away one place of the task at the head and moves the others.
LEMMA PlacesTail ==
  ASSUME NEW s \in Seq(Tasks), s # <<>>, NEW task
  PROVE  /\ Tail(s) \in Seq(Tasks) /\ Head(s) \in Tasks
         /\ Cardinality(Places(Tail(s), task)) = Cardinality(Places(s, task)) - (IF Head(s) = task THEN 1 ELSE 0)
<1> DEFINE t == Tail(s)
           f == [j \in Places(t, task) |-> j + 1]
<1>0. Len(s) \in Nat \ {0} /\ DOMAIN s = 1..Len(s) /\ Head(s) = s[1] /\ Head(s) \in Tasks
  OBVIOUS
<1>1. t \in Seq(Tasks) /\ DOMAIN t = 1..(Len(s) - 1) /\ \A j \in 1..(Len(s) - 1) : t[j] = s[j + 1]
  OBVIOUS
<1> HIDE DEF t
<1>2. f \in [Places(t, task) -> Places(s, task) \ {1}]
  BY <1>0, <1>1 DEF Places
<1>3. \A j, k \in Places(t, task) : f[j] = f[k] => j = k
  BY <1>0, <1>1 DEF Places
<1>4. ASSUME NEW k \in Places(s, task) \ {1} PROVE \E j \in Places(t, task) : f[j] = k
  <2>1. k - 1 \in Places(t, task) /\ k - 1 + 1 = k
    BY <1>0, <1>1, <1>4 DEF Places
  <2> QED
    BY <2>1
<1>5. IsFiniteSet(Places(t, task))
  BY <1>1, PlacesFinite
<1> HIDE DEF f
<1>6. Cardinality(Places(s, task) \ {1}) = Cardinality(Places(t, task))
  BY <1>2, <1>3, <1>4, <1>5, SameCount, ZenonT(30)
<1>7. 1 \in Places(s, task) <=> Head(s) = task
  BY <1>0 DEF Places
<1>8. IsFiniteSet(Places(s, task)) /\ Cardinality(Places(t, task)) \in Nat /\ Cardinality(Places(s, task)) \in Nat
  BY <1>1, PlacesFinite
<1>9. Cardinality(Places(s, task) \ {1}) = IF 1 \in Places(s, task) THEN Cardinality(Places(s, task)) - 1 ELSE Cardinality(Places(s, task))
  BY <1>8, FS_RemoveElement, Zenon
<1> QED
  BY <1>0, <1>1, <1>6, <1>7, <1>8, <1>9 DEF t

\* The places in one queue, as entries.
InQueue(q, s, task) == {<<q, i>> : i \in Places(s, task)}
InQueues(f, task) == UNION {InQueue(q, f[q], task) : q \in Queues}

\* They are as many as the places.
LEMMA InQueueCount ==
  ASSUME NEW q, NEW s \in Seq(Tasks), NEW task
  PROVE  /\ IsFiniteSet(InQueue(q, s, task))
         /\ Cardinality(InQueue(q, s, task)) = Cardinality(Places(s, task))
<1> DEFINE f == [i \in Places(s, task) |-> <<q, i>>]
<1>1. f \in [Places(s, task) -> InQueue(q, s, task)]
  BY DEF InQueue
<1>2. \A i, j \in Places(s, task) : f[i] = f[j] => i = j
  OBVIOUS
<1>3. \A e \in InQueue(q, s, task) : \E i \in Places(s, task) : f[i] = e
  BY DEF InQueue
<1>4. IsFiniteSet(Places(s, task))
  BY PlacesFinite
<1> HIDE DEF f
<1> QED
  BY <1>1, <1>2, <1>3, <1>4, SameCount, ZenonT(30)

\* The entries of a task are those of its queues.
LEMMA EntriesOf ==
  ASSUME NEW task
  PROVE  Entries(task) = UNION {InQueue(q, queue[q], task) : q \in Queues}
BY DEF Entries, InQueue, Places

\* They are finitely many.
LEMMA EntriesFinite ==
  ASSUME queue \in [Queues -> Seq(Tasks)], NEW task
  PROVE  IsFiniteSet(Entries(task)) /\ Cardinality(Entries(task)) \in Nat
<1> DEFINE U == {InQueue(q, queue[q], task) : q \in Queues}
           f == [q \in Queues |-> InQueue(q, queue[q], task)]
<1>1. f \in Surjection(Queues, U)
  BY DEF Surjection
<1>2. IsFiniteSet(U)
  BY <1>1, FiniteManager, FS_Surjection
<1>3. \A T \in U : IsFiniteSet(T)
  BY InQueueCount
<1> HIDE DEF U
<1>4. IsFiniteSet(UNION U)
  BY <1>2, <1>3, FS_UNION
<1>5. IsFiniteSet(Entries(task))
  BY <1>4, EntriesOf, Zenon DEF U
<1> QED
  BY <1>5, FS_CardinalityType

\* Two states of the queues differ at most in q.
SameBut(f, g, q) == \A p \in Queues \ {q} : g[p] = f[p]

Exchanged(f, g, q, task) ==
    LET E == InQueues(f, task)
        A == InQueue(q, f[q], task)
        B == InQueue(q, g[q], task)
    IN  InQueues(g, task) = (E \ A) \cup B /\ (E \ A) \cap B = {} /\ E \cap A = A

\* A change of one queue exchanges the entries of that queue.
LEMMA QueueChange ==
  ASSUME NEW f, NEW g, NEW q \in Queues, SameBut(f, g, q), NEW task
  PROVE  Exchanged(f, g, q, task)
<1> DEFINE E == InQueues(f, task)
           G == InQueues(g, task)
           A == InQueue(q, f[q], task)
           B == InQueue(q, g[q], task)
<1>1. \A e : e \in E <=> \E p \in Queues : e \in InQueue(p, f[p], task)
  BY DEF InQueues
<1>2. \A e : e \in G <=> \E p \in Queues : e \in InQueue(p, g[p], task)
  BY DEF InQueues
<1>3. A \subseteq E /\ B \subseteq G
  BY <1>1, <1>2
<1> HIDE DEF E, G
<1>4. ASSUME NEW p \in Queues \ {q}, NEW e, NEW s, e \in InQueue(p, s, task) PROVE e \notin A /\ e \notin B
  BY <1>4 DEF InQueue
<1> HIDE DEF A, B
<1>5. ASSUME NEW e \in G PROVE e \in (E \ A) \cup B
  <2>1. PICK p \in Queues : e \in InQueue(p, g[p], task)
    BY <1>2, <1>5
  <2>2. CASE p = q
    BY <2>1, <2>2 DEF B
  <2>3. CASE p # q
    <3>1. e \in InQueue(p, f[p], task)
      BY <2>1, <2>3 DEF SameBut
    <3> QED
      BY <2>3, <3>1, <1>1, <1>4
  <2> QED
    BY <2>2, <2>3
<1>6. ASSUME NEW e \in E \ A PROVE e \in G /\ e \notin B
  <2>1. PICK p \in Queues : e \in InQueue(p, f[p], task)
    BY <1>1, <1>6
  <2>2. p # q
    BY <1>6, <2>1 DEF A
  <2>3. e \in InQueue(p, g[p], task)
    BY <2>1, <2>2 DEF SameBut
  <2> QED
    BY <2>2, <2>3, <1>2, <1>4
<1>7. G = (E \ A) \cup B
  BY <1>3, <1>5, <1>6
<1>8. (E \ A) \cap B = {} /\ E \cap A = A
  BY <1>3, <1>6
<1> QED
  BY <1>7, <1>8 DEF E, G, A, B, Exchanged

\* So the number of entries changes by that of the places in it.
LEMMA EntriesChange ==
  ASSUME queue \in [Queues -> Seq(Tasks)], NEW q \in Queues, NEW s \in Seq(Tasks),
         queue' = [queue EXCEPT ![q] = s], NEW task
  PROVE  /\ Cardinality(Entries(task)') = Cardinality(Entries(task)) - Cardinality(Places(queue[q], task))
                                              + Cardinality(Places(s, task))
         /\ Cardinality(Places(queue[q], task)) <= Cardinality(Entries(task))
<1> DEFINE E == Entries(task)
           A == InQueue(q, queue[q], task)
           B == InQueue(q, s, task)
<1>0. queue[q] \in Seq(Tasks)
  OBVIOUS
<1>1. E = InQueues(queue, task) /\ Entries(task)' = InQueues(queue', task)
  BY DEF Entries, InQueues, InQueue, Places
<1>2. IsFiniteSet(E) /\ IsFiniteSet(A) /\ IsFiniteSet(B)
  BY <1>0, EntriesFinite, InQueueCount
<1>3. Cardinality(A) = Cardinality(Places(queue[q], task)) /\ Cardinality(B) = Cardinality(Places(s, task))
  BY <1>0, InQueueCount
<1>4. SameBut(queue, queue', q) /\ queue'[q] = s
  BY DEF SameBut
<1>5. Entries(task)' = (E \ A) \cup B /\ (E \ A) \cap B = {} /\ E \cap A = A
  <2>1. Exchanged(queue, queue', q, task)
    BY <1>4, QueueChange, ZenonT(20)
  <2> QED
    BY <1>1, <1>4, <2>1, Zenon DEF Exchanged
<1> HIDE DEF E, A, B
<1>6. IsFiniteSet(E \ A) /\ Cardinality(E \ A) = Cardinality(E) - Cardinality(A)
  BY <1>2, <1>5, FS_Difference, Zenon
<1>7. Cardinality((E \ A) \cup B) = Cardinality(E \ A) + Cardinality(B)
  <2>1. Cardinality((E \ A) \cup B) = Cardinality(E \ A) + Cardinality(B) - Cardinality((E \ A) \cap B)
    BY <1>2, <1>6, FS_Union, Zenon
  <2>2. Cardinality(E \ A) \in Nat /\ Cardinality(B) \in Nat
    BY <1>2, <1>6, FS_CardinalityType
  <2>3. Cardinality((E \ A) \cap B) = 0
    BY <1>5, FS_EmptySet, Zenon
  <2> QED
    BY <2>1, <2>2, <2>3
<1>8. Cardinality(A) <= Cardinality(E)
  BY <1>2, <1>5, FS_Intersection, Zenon
<1> QED
  BY <1>3, <1>5, <1>6, <1>7, <1>8 DEF E

\* The numbers in Balance are natural numbers.
LEMMA CountsType ==
  ASSUME TypeOK, NEW task
  PROVE  /\ Cardinality(Entries(task)) \in Nat
         /\ IsFiniteSet(HeldBy(task)) /\ Cardinality(HeldBy(task)) \in Nat
<1>1. IsFiniteSet(HeldBy(task))
  BY FiniteManager, FS_Subset DEF HeldBy
<1> QED
  BY <1>1, EntriesFinite, FS_CardinalityType DEF TypeOK

\* A step that leaves the queues, the references and what the workers hold alone.
LEMMA QuietBalance ==
  ASSUME Balance, UNCHANGED <<queue, refs>>, \A w \in Workers : cur'[w] = cur[w]
  PROVE  Balance'
<1>1. ASSUME NEW task \in Tasks PROVE Entries(task)' = Entries(task) /\ HeldBy(task)' = HeldBy(task)
  BY DEF Entries, HeldBy
<1> QED
  BY <1>1 DEF Balance

\* The condition variable keeps its type.
LEMMA ConditionTypes ==
  ASSUME NEW c \in ConditionType(Workers), NEW w \in Workers
  PROVE  /\ Broadcast(c) \in ConditionType(Workers) /\ Sleep(c, w) \in ConditionType(Workers)
         /\ TimeOut(c, w) \in ConditionType(Workers) /\ Return(c, w) \in ConditionType(Workers)
         /\ WaitReturns(c) => ConsumeSignal(c) \in ConditionType(Workers)
         /\ Signal(c) \subseteq ConditionType(Workers)
<1> USE DEF ConditionType
<1>1. Broadcast(c) \in ConditionType(Workers) /\ Sleep(c, w) \in ConditionType(Workers)
  BY Zenon DEF Broadcast, Sleep
<1>2. \A v \in Workers : TimeOut(c, v) \in ConditionType(Workers)
  BY Zenon DEF TimeOut
<1>3. Return(c, w) \in ConditionType(Workers)
  BY DEF Return
<1>4. WaitReturns(c) => ConsumeSignal(c) \in ConditionType(Workers)
  BY DEF WaitReturns, ConsumeSignal
<1>5. Signal(c) \subseteq ConditionType(Workers)
  <2>1. c.asleep \subseteq Workers /\ [c EXCEPT !.signalCount = @ + 1] \in ConditionType(Workers)
    OBVIOUS
  <2> HIDE DEF ConditionType
  <2> QED
    BY <1>2, <2>1 DEF Signal
<1> HIDE DEF ConditionType
<1> QED
  BY <1>1, <1>2, <1>3, <1>4, <1>5

\* A push adds one reference for the one entry it adds, or is dropped.
LEMMA PushBalance ==
  ASSUME RefInv, NEW q \in Queues, NEW task \in Tasks, Push(q, task)
  PROVE  /\ queue' \in [Queues -> Seq(Tasks)] /\ refs' \in [Tasks -> Nat]
         /\ cond' \in [Queues -> ConditionType(Workers)]
         /\ \A t \in Tasks : \E d \in {0, 1} : refs'[t] = refs[t] + d /\ Cardinality(Entries(t)') = Cardinality(Entries(t)) + d
<1>0. TypeOK /\ queue \in [Queues -> Seq(Tasks)] /\ refs \in [Tasks -> Nat] /\ cond \in [Queues -> ConditionType(Workers)]
  BY DEF RefInv, TypeOK
<1>1. CASE blocked[q] \/ shutdownPc # "running"
  <2>1. UNCHANGED <<queue, cond, refs>>
    BY <1>1 DEF Push
  <2>2. ASSUME NEW t \in Tasks PROVE Entries(t)' = Entries(t) /\ refs'[t] = refs[t] + 0 /\ Cardinality(Entries(t)) = Cardinality(Entries(t)) + 0
    <3>1. Cardinality(Entries(t)) \in Nat /\ refs[t] \in Nat
      BY <1>0, CountsType
    <3> QED
      BY <2>1, <3>1 DEF Entries
  <2> QED
    BY <1>0, <2>1, <2>2
<1>2. CASE ~(blocked[q] \/ shutdownPc # "running")
  <2>0. queue[q] \in Seq(Tasks)
    BY <1>0
  <2>1. PICK i \in 1..(Len(queue[q]) + 1) : queue' = [queue EXCEPT ![q] = PutAt(queue[q], i, task)]
    BY <1>2 DEF Push
  <2> DEFINE s == PutAt(queue[q], i, task)
  <2>2. s \in Seq(Tasks)
    BY <2>0, Inserted, Zenon
  <2>3. refs' = [refs EXCEPT ![task] = @ + 1]
    BY <1>2, Zenon DEF Push
  <2>4. PICK c \in Signal(cond[q]) : cond' = [cond EXCEPT ![q] = c]
    BY <1>2, Zenon DEF Push
  <2>5. cond' \in [Queues -> ConditionType(Workers)]
    <3>1. \E w \in Workers : TRUE
      BY Zenon DEF Queues
    <3>2. c \in ConditionType(Workers)
      BY <1>0, <3>1, <2>4, ConditionTypes, Zenon
    <3> QED
      BY <1>0, <2>4, <3>2, Zenon
  <2>6. ASSUME NEW t \in Tasks PROVE \E d \in {0, 1} : refs'[t] = refs[t] + d /\ Cardinality(Entries(t)') = Cardinality(Entries(t)) + d
    <3>1. Cardinality(Places(s, t)) = Cardinality(Places(queue[q], t)) + (IF task = t THEN 1 ELSE 0)
      BY <2>0, PlacesInsert, ZenonT(30)
    <3> HIDE DEF s
    <3>2. Cardinality(Entries(t)') = Cardinality(Entries(t)) - Cardinality(Places(queue[q], t)) + Cardinality(Places(s, t))
      BY <1>0, <2>1, <2>2, EntriesChange, ZenonT(20) DEF s
    <3>3. Cardinality(Entries(t)) \in Nat /\ Cardinality(Places(queue[q], t)) \in Nat /\ refs[t] \in Nat
      BY <1>0, <2>0, CountsType, PlacesFinite, Zenon
    <3>4. refs'[t] = refs[t] + (IF task = t THEN 1 ELSE 0)
      BY <1>0, <2>3
    <3>5. Cardinality(Entries(t)') = Cardinality(Entries(t)) + (IF task = t THEN 1 ELSE 0)
      BY <3>1, <3>2, <3>3
    <3> QED
      BY <3>4, <3>5, Zenon
  <2>7. queue' \in [Queues -> Seq(Tasks)] /\ refs' \in [Tasks -> Nat]
    BY <1>0, <2>1, <2>2, <2>3
  <2> QED
    BY <2>5, <2>6, <2>7, Zenon
<1> QED
  BY <1>1, <1>2, Zenon

\* executeTask by a thread outside the manager.
LEMMA ExecuteTaskRefInv ==
  ASSUME RefInv, NEW q \in Queues, NEW task \in Tasks, ExecuteTask(q, task)
  PROVE  RefInv'
<1> USE DEF ExecuteTask, threadVars, saveVars, stopVars
<1>0. TypeOK /\ CurInv /\ Balance
  BY Zenon DEF RefInv
<1>1. /\ queue' \in [Queues -> Seq(Tasks)] /\ refs' \in [Tasks -> Nat] /\ cond' \in [Queues -> ConditionType(Workers)]
      /\ \A t \in Tasks : \E d \in {0, 1} : refs'[t] = refs[t] + d /\ Cardinality(Entries(t)') = Cardinality(Entries(t)) + d
  BY PushBalance, Zenon
<1>2. TypeOK'
  <2>1. pushes \in 0..MaxPushes /\ MaxPushes \in Nat /\ pushes < MaxPushes /\ pushes' = pushes + 1
    BY <1>0, ConstantTypes, Zenon DEF TypeOK
  <2>2. pushes' \in 0..MaxPushes
    BY <2>1
  <2> QED
    BY <1>0, <1>1, <2>2, ZenonT(20) DEF TypeOK
<1>3. CurInv'
  BY <1>0, ZenonT(30) DEF CurInv
<1>4. Balance'
  <2> SUFFICES ASSUME NEW t \in Tasks PROVE refs'[t] = Cardinality(Entries(t)') + Cardinality(HeldBy(t)')
    BY Zenon DEF Balance
  <2>1. HeldBy(t)' = HeldBy(t)
    BY Zenon DEF HeldBy
  <2>2. refs[t] = Cardinality(Entries(t)) + Cardinality(HeldBy(t))
    BY <1>0, Zenon DEF Balance
  <2>3. Cardinality(Entries(t)) \in Nat /\ Cardinality(HeldBy(t)) \in Nat
    BY <1>0, CountsType, Zenon
  <2> QED
    BY <1>1, <2>1, <2>2, <2>3
<1> QED
  BY <1>2, <1>3, <1>4, Zenon DEF RefInv

\* pop() moves the reference from the entry at the head to the worker.
LEMMA TakeHeadBalance ==
  ASSUME RefInv, NEW w \in Workers, NEW q \in Queues, pc[w] \in {"loop", "wait"}, TakeHead(w, q), refs' = refs
  PROVE  /\ queue' \in [Queues -> Seq(Tasks)] /\ cur' \in [Threads -> Tasks \cup {NoTask}]
         /\ pc' = [pc EXCEPT ![w] = "lock"] /\ CurInv' /\ Balance'
<1>0. TypeOK /\ CurInv /\ Balance /\ queue \in [Queues -> Seq(Tasks)] /\ w \in Threads
  BY Zenon DEF RefInv, TypeOK, Threads
<1>1. cur \in [Threads -> Tasks \cup {NoTask}] /\ pc' = [pc EXCEPT ![w] = "lock"] /\ cur[w] = NoTask
  BY <1>0, Zenon DEF TypeOK, CurInv, TakeHead
<1>2. CASE queue[q] = <<>>
  <2>1. cur' = cur /\ queue' = queue
    BY <1>1, <1>2, ZenonT(30) DEF TakeHead
  <2>2. CurInv'
    BY <1>0, <1>1, <2>1, Zenon DEF CurInv, TypeOK
  <2>3. Balance'
    BY <1>0, <2>1, QuietBalance, Zenon
  <2> QED
    BY <1>0, <1>1, <2>1, <2>2, <2>3, Zenon
<1>3. CASE queue[q] # <<>>
  <2> DEFINE x == Head(queue[q])
  <2>0. queue[q] \in Seq(Tasks)
    BY <1>0, Zenon
  <2>1. cur' = [cur EXCEPT ![w] = x] /\ queue' = [queue EXCEPT ![q] = Tail(queue[q])]
    BY <1>3, Zenon DEF TakeHead
  <2>2. x \in Tasks /\ Tail(queue[q]) \in Seq(Tasks)
    BY <1>3, <2>0, PlacesTail, Zenon
  <2>3. ASSUME NEW t \in Tasks
        PROVE  Cardinality(Entries(t)') = Cardinality(Entries(t)) - (IF x = t THEN 1 ELSE 0)
    <3>1. Cardinality(Places(Tail(queue[q]), t)) = Cardinality(Places(queue[q], t)) - (IF x = t THEN 1 ELSE 0)
      BY <1>3, <2>0, PlacesTail, Zenon
    <3>2. Cardinality(Entries(t)') = Cardinality(Entries(t)) - Cardinality(Places(queue[q], t)) + Cardinality(Places(Tail(queue[q]), t))
      BY <1>0, <2>1, <2>2, EntriesChange, ZenonT(20)
    <3>3. Cardinality(Entries(t)) \in Nat /\ Cardinality(Places(queue[q], t)) \in Nat
      BY <1>0, <2>0, CountsType, PlacesFinite, Zenon
    <3> HIDE DEF x
    <3> QED
      BY <3>1, <3>2, <3>3
  <2> HIDE DEF x
  <2>4. ASSUME NEW t \in Tasks
        PROVE  Cardinality(HeldBy(t)') = Cardinality(HeldBy(t)) + (IF x = t THEN 1 ELSE 0)
    <3>1. IsFiniteSet(HeldBy(t)) /\ Cardinality(HeldBy(t)) \in Nat
      BY <1>0, CountsType, Zenon
    <3>2. CASE x = t
      <4>1. HeldBy(t)' = HeldBy(t) \cup {w} /\ w \notin HeldBy(t)
        BY <1>0, <1>1, <2>1, <3>2, ThreadAssumption DEF HeldBy, Threads
      <4> QED
        BY <3>1, <3>2, <4>1, FS_AddElement, ZenonT(20)
    <3>3. CASE x # t
      <4>1. HeldBy(t)' = HeldBy(t)
        BY <1>0, <1>1, <2>1, <3>3, ThreadAssumption DEF HeldBy, Threads
      <4> QED
        BY <3>1, <3>3, <4>1
    <3> QED
      BY <3>2, <3>3, Zenon
  <2>5. Balance'
    <3> SUFFICES ASSUME NEW t \in Tasks PROVE refs'[t] = Cardinality(Entries(t)') + Cardinality(HeldBy(t)')
      BY Zenon DEF Balance
    <3>1. refs[t] = Cardinality(Entries(t)) + Cardinality(HeldBy(t))
      BY <1>0, Zenon DEF Balance
    <3>2. Cardinality(Entries(t)) \in Nat /\ Cardinality(HeldBy(t)) \in Nat
      BY <1>0, CountsType, Zenon
    <3> QED
      BY <2>3, <2>4, <3>1, <3>2
  <2>6. CurInv'
    BY <1>0, <1>1, <2>1, <2>2, Zenon DEF CurInv, TypeOK
  <2>7. queue' \in [Queues -> Seq(Tasks)] /\ cur' \in [Threads -> Tasks \cup {NoTask}]
    BY <1>0, <1>1, <2>1, <2>2, Zenon
  <2> QED
    BY <1>1, <2>5, <2>6, <2>7, Zenon
<1> QED
  BY <1>2, <1>3, ZenonT(30)

\* TaskQueue::pop up to the wait.
LEMMA PopRefInv ==
  ASSUME RefInv, NEW w \in Workers, Pop(w)
  PROVE  RefInv'
<1> DEFINE q == QueueOf[w]
<1>0. TypeOK /\ CurInv /\ Balance /\ q \in Queues /\ w \in Threads /\ cond \in [Queues -> ConditionType(Workers)]
  BY ZenonT(30) DEF RefInv, Queues, Threads, TypeOK
<1>1. /\ pc[w] = "loop" /\ refs' = refs
      /\ UNCHANGED <<blocked, pushes, doRun, blockMutex, pause, saveVars, stopVars>>
  BY Zenon DEF Pop
<1>2. CASE queue[q] # <<>> \/ blocked[q] \/ WaitReturns(cond[q])
  <2>1. TakeHead(w, q) /\ cond' = IF queue[q] = <<>> /\ ~blocked[q] THEN [cond EXCEPT ![q] = ConsumeSignal(@)] ELSE cond
    BY <1>2, ZenonT(30) DEF Pop
  <2>2. /\ queue' \in [Queues -> Seq(Tasks)] /\ cur' \in [Threads -> Tasks \cup {NoTask}]
        /\ pc' = [pc EXCEPT ![w] = "lock"] /\ CurInv' /\ Balance'
    BY <1>0, <1>1, <2>1, TakeHeadBalance, ZenonT(30)
  <2>3. cond' \in [Queues -> ConditionType(Workers)]
    BY <1>0, <1>2, <2>1, ConditionTypes, Zenon
  <2>4. TypeOK'
    BY <1>0, <1>1, <2>2, <2>3, ZenonT(20) DEF TypeOK, saveVars, stopVars
  <2> QED
    BY <2>2, <2>4, Zenon DEF RefInv
<1>3. CASE ~(queue[q] # <<>> \/ blocked[q] \/ WaitReturns(cond[q]))
  <2>1. cond' = [cond EXCEPT ![q] = Sleep(@, w)] /\ pc' = [pc EXCEPT ![w] = "wait"] /\ UNCHANGED <<queue, cur>>
    BY <1>3, ZenonT(30) DEF Pop
  <2>2. cond' \in [Queues -> ConditionType(Workers)]
    BY <1>0, <2>1, ConditionTypes, Zenon
  <2>3. TypeOK'
    BY <1>0, <1>1, <2>1, <2>2, ZenonT(20) DEF TypeOK, saveVars, stopVars
  <2>4. CurInv'
    BY <1>0, <1>1, <2>1, Zenon DEF CurInv, TypeOK
  <2>5. Balance'
    BY <1>0, <1>1, <2>1, QuietBalance, ZenonT(30)
  <2> QED
    BY <2>3, <2>4, <2>5, Zenon DEF RefInv
<1> QED
  BY <1>2, <1>3, Zenon

\* TaskQueue::pop from the return of the wait.
LEMMA PopWokenRefInv ==
  ASSUME RefInv, NEW w \in Workers, PopWoken(w)
  PROVE  RefInv'
<1> DEFINE q == QueueOf[w]
<1>0. TypeOK /\ CurInv /\ Balance /\ q \in Queues /\ w \in Threads /\ cond \in [Queues -> ConditionType(Workers)]
  BY Zenon DEF RefInv, Queues, Threads, TypeOK
<1>1. /\ pc[w] = "wait" /\ refs' = refs /\ TakeHead(w, q) /\ cond' = [cond EXCEPT ![q] = Return(@, w)]
      /\ UNCHANGED <<blocked, pushes, doRun, blockMutex, pause, saveVars, stopVars>>
  BY Zenon DEF PopWoken
<1>2. /\ queue' \in [Queues -> Seq(Tasks)] /\ cur' \in [Threads -> Tasks \cup {NoTask}]
      /\ pc' = [pc EXCEPT ![w] = "lock"] /\ CurInv' /\ Balance'
  BY <1>0, <1>1, TakeHeadBalance, Zenon
<1>3. cond' \in [Queues -> ConditionType(Workers)]
  BY <1>0, <1>1, ConditionTypes, ZenonT(30)
<1>4. TypeOK'
  BY <1>0, <1>1, <1>2, <1>3, ZenonT(20) DEF TypeOK, saveVars, stopVars
<1> QED
  BY <1>2, <1>4, Zenon DEF RefInv

\* A thread that was stopped leaves its loop.
LEMMA StopRefInv ==
  ASSUME RefInv, NEW t \in Threads, Stop(t)
  PROVE  RefInv'
<1>0. TypeOK /\ CurInv /\ Balance
  BY Zenon DEF RefInv
<1>1. TypeOK'
  BY <1>0, ZenonT(20) DEF Stop, TypeOK, taskVars, threadVars, saveVars, stopVars
<1>2. CurInv'
  BY <1>0, Zenon DEF Stop, TypeOK, CurInv, taskVars, threadVars, saveVars, stopVars
<1>3. Balance'
  <2>1. UNCHANGED <<queue, refs, cur>>
    BY Zenon DEF Stop, taskVars, threadVars
  <2> QED
    BY <1>0, <2>1, QuietBalance, Zenon
<1> QED
  BY <1>1, <1>2, <1>3, Zenon DEF RefInv

\* blockMutex.lock() after the pop: with a task the thread goes on to run it.
LEMMA LockBlockMutexRefInv ==
  ASSUME RefInv, NEW t \in Threads, LockBlockMutex(t)
  PROVE  RefInv'
<1>0. TypeOK /\ CurInv /\ Balance
  BY Zenon DEF RefInv
<1>1. TypeOK'
  BY <1>0, ZenonT(20) DEF LockBlockMutex, TypeOK, taskVars, threadVars, saveVars, stopVars
<1>2. CurInv'
  BY <1>0, Zenon DEF LockBlockMutex, TypeOK, CurInv, taskVars, threadVars, saveVars, stopVars
<1>3. Balance'
  <2>1. UNCHANGED <<queue, refs, cur>>
    BY Zenon DEF LockBlockMutex, taskVars, threadVars
  <2> QED
    BY <1>0, <2>1, QuietBalance, Zenon
<1> QED
  BY <1>1, <1>2, <1>3, Zenon DEF RefInv

\* Without one it unlocks at once.
LEMMA UnlockNullRefInv ==
  ASSUME RefInv, NEW t \in Threads, UnlockNull(t)
  PROVE  RefInv'
<1>0. TypeOK /\ CurInv /\ Balance
  BY Zenon DEF RefInv
<1>1. TypeOK'
  BY <1>0, ZenonT(20) DEF UnlockNull, TypeOK, taskVars, threadVars, saveVars, stopVars
<1>2. CurInv'
  BY <1>0, Zenon DEF UnlockNull, TypeOK, CurInv, taskVars, threadVars, saveVars, stopVars
<1>3. Balance'
  <2>1. UNCHANGED <<queue, refs, cur>>
    BY Zenon DEF UnlockNull, taskVars, threadVars
  <2> QED
    BY <1>0, <2>1, QuietBalance, Zenon
<1> QED
  BY <1>1, <1>2, <1>3, Zenon DEF RefInv

\* A thread that is not paused goes on.
LEMMA ResumeRefInv ==
  ASSUME RefInv, NEW t \in Threads, Resume(t)
  PROVE  RefInv'
<1>0. TypeOK /\ CurInv /\ Balance
  BY Zenon DEF RefInv
<1>1. TypeOK'
  BY <1>0, ZenonT(20) DEF Resume, TypeOK, taskVars, threadVars, saveVars, stopVars
<1>2. CurInv'
  BY <1>0, Zenon DEF Resume, TypeOK, CurInv, taskVars, threadVars, saveVars, stopVars
<1>3. Balance'
  <2>1. UNCHANGED <<queue, refs, cur>>
    BY Zenon DEF Resume, taskVars, threadVars
  <2> QED
    BY <1>0, <2>1, QuietBalance, Zenon
<1> QED
  BY <1>1, <1>2, <1>3, Zenon DEF RefInv

\* A wait that returns for no reason.
LEMMA SpuriousWakeupRefInv ==
  ASSUME RefInv, NEW w \in Workers, SpuriousWakeup(w)
  PROVE  RefInv'
<1>0. TypeOK /\ CurInv /\ Balance /\ QueueOf[w] \in Queues /\ cond \in [Queues -> ConditionType(Workers)]
  BY Zenon DEF RefInv, Queues, TypeOK
<1>1. /\ UNCHANGED <<queue, blocked, refs, pushes, threadVars, blockMutex, pause, saveVars, stopVars>>
      /\ cond' = [cond EXCEPT ![QueueOf[w]] = TimeOut(@, w)]
  BY Zenon DEF SpuriousWakeup
<1>2. cond' \in [Queues -> ConditionType(Workers)]
  BY <1>0, <1>1, ConditionTypes, Zenon
<1>3. TypeOK' /\ CurInv'
  <2>1. TypeOK'
    BY <1>0, <1>1, <1>2, ZenonT(20) DEF TypeOK, threadVars, saveVars, stopVars
  <2>2. CurInv'
    BY <1>0, <1>1, <1>2, Zenon DEF TypeOK, CurInv, threadVars, saveVars, stopVars
  <2> QED
    BY <2>1, <2>2, Zenon
<1>4. Balance'
  BY <1>0, <1>1, QuietBalance, Zenon DEF threadVars
<1> QED
  BY <1>3, <1>4, Zenon DEF RefInv

\* The end of a task: its worker releases the reference that the entry had.
LEMMA EndTaskRefInv ==
  ASSUME RefInv, NEW w \in Workers, EndTask(w)
  PROVE  RefInv'
<1>0. TypeOK /\ CurInv /\ Balance /\ w \in Threads
  BY Zenon DEF RefInv, Threads
<1>1. PICK x \in Tasks : x = cur[w]
  BY <1>0, Zenon DEF CurInv, EndTask
<1>2. /\ pc[w] = "run" /\ blockMutex' = [blockMutex EXCEPT ![w] = Free]
      /\ refs' = [refs EXCEPT ![x] = @ - 1] /\ cur' = [cur EXCEPT ![w] = NoTask] /\ pc' = [pc EXCEPT ![w] = "pause"]
      /\ UNCHANGED <<queue, blocked, cond, pushes, doRun, pause, saveVars, stopVars>>
  BY <1>1, Zenon DEF EndTask
<1>3. x \in Tasks /\ w \in HeldBy(x)
  BY <1>1, Zenon DEF HeldBy
<1>4. refs \in [Tasks -> Nat] /\ cur \in [Threads -> Tasks \cup {NoTask}]
  BY <1>0, Zenon DEF TypeOK
<1>5. ASSUME NEW t \in Tasks PROVE Entries(t)' = Entries(t)
  BY <1>2 DEF Entries
<1>6. /\ Cardinality(HeldBy(x)') = Cardinality(HeldBy(x)) - 1
      /\ Cardinality(HeldBy(x)) \in Nat \ {0}
  <2>1. HeldBy(x)' = HeldBy(x) \ {w}
    <3>1. \A v \in Workers : cur'[v] = IF v = w THEN NoTask ELSE cur[v]
      BY <1>2, <1>4, Zenon DEF Threads
    <3> QED
      BY <1>3, <3>1, ThreadAssumption DEF HeldBy
  <2>2. IsFiniteSet(HeldBy(x)) /\ Cardinality(HeldBy(x)) \in Nat
    BY <1>0, CountsType, Zenon
  <2>3. Cardinality(HeldBy(x)) # 0
    BY <1>3, <2>2, FS_EmptySet, Zenon
  <2> QED
    BY <1>3, <2>1, <2>2, <2>3, FS_RemoveElement, ZenonT(30)
<1>7. ASSUME NEW t \in Tasks, t # x PROVE HeldBy(t)' = HeldBy(t)
  <2>1. \A v \in Workers : cur'[v] = IF v = w THEN NoTask ELSE cur[v]
    BY <1>2, <1>4, Zenon DEF Threads
  <2> QED
    BY <1>7, <1>1, <2>1, ThreadAssumption, ZenonT(30) DEF HeldBy
<1>8. \A t \in Tasks : /\ refs[t] = Cardinality(Entries(t)) + Cardinality(HeldBy(t))
                       /\ Cardinality(Entries(t)) \in Nat /\ Cardinality(HeldBy(t)) \in Nat
  BY <1>0, CountsType, Zenon DEF Balance
<1>9. refs[x] - 1 = Cardinality(Entries(x)) + Cardinality(HeldBy(x)') /\ refs[x] - 1 \in Nat
  BY <1>3, <1>6, <1>8
<1>10. refs' \in [Tasks -> Nat]
  BY <1>2, <1>3, <1>4, <1>9, Zenon
<1>11. TypeOK'
  BY <1>0, <1>2, <1>10, ZenonT(20) DEF TypeOK, saveVars, stopVars
<1>12. CurInv'
  BY <1>0, <1>2, Zenon DEF CurInv, TypeOK
<1>13. Balance'
  <2> SUFFICES ASSUME NEW t \in Tasks PROVE refs'[t] = Cardinality(Entries(t)') + Cardinality(HeldBy(t)')
    BY Zenon DEF Balance
  <2>1. CASE t = x
    <3>1. refs'[x] = refs[x] - 1 /\ Entries(x)' = Entries(x)
      BY <1>2, <1>3, <1>4, <1>5, Zenon
    <3> QED
      BY <2>1, <3>1, <1>9, Zenon
  <2>2. CASE t # x
    <3>1. refs'[t] = refs[t] /\ Entries(t)' = Entries(t) /\ HeldBy(t)' = HeldBy(t)
      BY <2>2, <1>2, <1>4, <1>5, <1>7, Zenon
    <3> QED
      BY <3>1, <1>8, Zenon
  <2> QED
    BY <2>1, <2>2, Zenon
<1> QED
  BY <1>11, <1>12, <1>13, Zenon DEF RefInv

\* A scheduler holds a due task without a reference of the manager's own.
LEMMA SchedulerGetRefInv ==
  ASSUME RefInv, NEW c \in Schedulers, NEW task \in Tasks \cup {NoTask}, SchedulerGet(c, task)
  PROVE  RefInv'
<1>0. TypeOK /\ CurInv /\ Balance /\ c \in Threads /\ c \notin Workers
  BY ThreadAssumption, Zenon DEF RefInv, Threads
<1>1. TypeOK'
  <2>0. /\ pushes \in 0..MaxPushes /\ MaxPushes \in Nat
        /\ pushes' = pushes \/ (pushes < MaxPushes /\ pushes' = pushes + 1)
    BY <1>0, ConstantTypes, Zenon DEF SchedulerGet, TypeOK
  <2>1. pushes' \in 0..MaxPushes
    BY <2>0
  <2>2. cur' \in [Threads -> Tasks \cup {NoTask}]
    BY <1>0, Zenon DEF SchedulerGet, TypeOK
  <2> QED
    BY <1>0, <2>1, <2>2, ZenonT(20) DEF SchedulerGet, TypeOK, saveVars, stopVars
<1>2. CurInv'
  BY <1>0, Zenon DEF SchedulerGet, TypeOK, CurInv
<1>3. Balance'
  <2>1. UNCHANGED <<queue, refs>> /\ \A w \in Workers : cur'[w] = cur[w]
    BY <1>0, Zenon DEF SchedulerGet, TypeOK, Threads
  <2> QED
    BY <1>0, <2>1, QuietBalance, Zenon
<1> QED
  BY <1>1, <1>2, <1>3, Zenon DEF RefInv

\* Task::execute by a scheduler is a push.
LEMMA SchedulerRunRefInv ==
  ASSUME RefInv, NEW c \in Schedulers, NEW q \in Queues, SchedulerRun(c, q)
  PROVE  RefInv'
<1>0. TypeOK /\ CurInv /\ Balance /\ c \in Threads /\ c \notin Workers
  BY ThreadAssumption, Zenon DEF RefInv, Threads
<1>1. /\ pc[c] = "run" /\ Push(q, cur[c]) /\ blockMutex' = [blockMutex EXCEPT ![c] = Free]
      /\ cur' = [cur EXCEPT ![c] = NoTask] /\ pc' = [pc EXCEPT ![c] = "pause"]
      /\ UNCHANGED <<blocked, pushes, doRun, pause, saveVars, stopVars>>
  BY Zenon DEF SchedulerRun
<1>2. cur[c] \in Tasks
  BY <1>0, <1>1, Zenon DEF CurInv
<1>3. /\ queue' \in [Queues -> Seq(Tasks)] /\ refs' \in [Tasks -> Nat] /\ cond' \in [Queues -> ConditionType(Workers)]
      /\ \A t \in Tasks : \E d \in {0, 1} : refs'[t] = refs[t] + d /\ Cardinality(Entries(t)') = Cardinality(Entries(t)) + d
  BY <1>1, <1>2, PushBalance, Zenon
<1>4. TypeOK'
  BY <1>0, <1>1, <1>3, ZenonT(20) DEF TypeOK, saveVars, stopVars
<1>5. CurInv'
  BY <1>0, <1>1, Zenon DEF CurInv, TypeOK
<1>6. Balance'
  <2> SUFFICES ASSUME NEW t \in Tasks PROVE refs'[t] = Cardinality(Entries(t)') + Cardinality(HeldBy(t)')
    BY Zenon DEF Balance
  <2>1. HeldBy(t)' = HeldBy(t)
    BY <1>0, <1>1, Zenon DEF HeldBy, TypeOK, Threads
  <2>2. refs[t] = Cardinality(Entries(t)) + Cardinality(HeldBy(t))
    BY <1>0, Zenon DEF Balance
  <2>3. Cardinality(Entries(t)) \in Nat /\ Cardinality(HeldBy(t)) \in Nat
    BY <1>0, CountsType, Zenon
  <2>4. PICK d \in {0, 1} : refs'[t] = refs[t] + d /\ Cardinality(Entries(t)') = Cardinality(Entries(t)) + d
    BY <1>3, Zenon
  <2>5. refs'[t] = Cardinality(Entries(t)) + Cardinality(HeldBy(t)) + d
    BY <2>2, <2>4, Zenon
  <2>6. Cardinality(HeldBy(t)') = Cardinality(HeldBy(t))
    BY <2>1, Zenon
  <2> QED
    BY <2>3, <2>4, <2>5, <2>6
<1> QED
  BY <1>4, <1>5, <1>6, Zenon DEF RefInv

\* Emptying a sequence that holds a task p times leaves e - p of its e entries.
LEMMA Emptied == \A e, p, z, n : (e \in Nat /\ p \in Nat /\ z = 0 /\ n = e - p + z) => n = e - p
  OBVIOUS

\* Giving back p of e + h references leaves the ones of the other entries and holders.
LEMMA Released == \A r, e, h, p, n : (e \in Nat /\ h \in Nat /\ p \in Nat /\ p <= e /\ r = e + h /\ n = r - p) => (n = (e - p) + h /\ n \in Nat)
  OBVIOUS

\* flush releases one reference for each entry of the queue.
LEMMA FlushRefInv ==
  ASSUME RefInv, NEW q \in Queues, Flush(q)
  PROVE  RefInv'
<1>0. TypeOK /\ CurInv /\ Balance /\ queue \in [Queues -> Seq(Tasks)] /\ cond \in [Queues -> ConditionType(Workers)]
  BY Zenon DEF RefInv, TypeOK
<1>1. /\ blocked' = [blocked EXCEPT ![q] = TRUE] /\ cond' = [cond EXCEPT ![q] = Broadcast(@)]
      /\ refs' = [t \in Tasks |-> refs[t] - Cardinality(Places(queue[q], t))]
      /\ queue' = [queue EXCEPT ![q] = <<>>]
      /\ UNCHANGED <<pushes, threadVars, blockMutex, pause, saveVars, stopVars>>
  BY Zenon DEF Flush, Places
<1>2. cond' \in [Queues -> ConditionType(Workers)]
  <2>1. \E w \in Workers : TRUE
    BY Zenon DEF Queues
  <2>2. Broadcast(cond[q]) \in ConditionType(Workers)
    BY <1>0, <2>1, ConditionTypes, Zenon
  <2> QED
    BY <1>0, <1>1, <2>2, Zenon
<1>3. ASSUME NEW t \in Tasks
      PROVE  /\ Cardinality(Entries(t)') = Cardinality(Entries(t)) - Cardinality(Places(queue[q], t))
             /\ Cardinality(Places(queue[q], t)) <= Cardinality(Entries(t))
             /\ Cardinality(Places(queue[q], t)) \in Nat
  <2>1. queue[q] \in Seq(Tasks) /\ <<>> \in Seq(Tasks)
    BY <1>0
  <2>2. /\ Cardinality(Entries(t)') = Cardinality(Entries(t)) - Cardinality(Places(queue[q], t)) + Cardinality(Places(<<>>, t))
        /\ Cardinality(Places(queue[q], t)) <= Cardinality(Entries(t))
    BY <1>0, <1>1, <2>1, EntriesChange, ZenonT(20)
  <2>3. Places(<<>>, t) = {}
    BY DEF Places
  <2>4. Cardinality(Places(<<>>, t)) = 0
    BY <2>3, FS_EmptySet, Zenon
  <2>5. Cardinality(Entries(t)) \in Nat /\ Cardinality(Places(queue[q], t)) \in Nat
    BY <1>0, <2>1, CountsType, PlacesFinite, Zenon
  <2> QED
    BY <2>2, <2>4, <2>5, Emptied, Zenon
<1>4. \A t \in Tasks : /\ refs[t] = Cardinality(Entries(t)) + Cardinality(HeldBy(t))
                       /\ Cardinality(Entries(t)) \in Nat /\ Cardinality(HeldBy(t)) \in Nat /\ HeldBy(t)' = HeldBy(t)
  BY <1>0, <1>1, CountsType, ZenonT(20) DEF Balance, HeldBy, threadVars
<1>5. ASSUME NEW t \in Tasks
      PROVE  refs'[t] = Cardinality(Entries(t)') + Cardinality(HeldBy(t)') /\ refs'[t] \in Nat
  <2>1. refs'[t] = refs[t] - Cardinality(Places(queue[q], t))
    BY <1>1, Zenon
  <2>2. /\ Cardinality(Places(queue[q], t)) \in Nat /\ Cardinality(Places(queue[q], t)) <= Cardinality(Entries(t))
        /\ Cardinality(Entries(t)) \in Nat /\ Cardinality(HeldBy(t)) \in Nat
        /\ refs[t] = Cardinality(Entries(t)) + Cardinality(HeldBy(t))
    BY <1>3, <1>4, Zenon
  <2>3. /\ refs'[t] = (Cardinality(Entries(t)) - Cardinality(Places(queue[q], t))) + Cardinality(HeldBy(t))
        /\ refs'[t] \in Nat
    BY <2>1, <2>2, Released, Zenon
  <2> QED
    BY <2>3, <1>3, <1>4, Zenon
<1>6. queue' \in [Queues -> Seq(Tasks)] /\ refs' \in [Tasks -> Nat]
  BY <1>0, <1>1, <1>5
<1>7. TypeOK'
  BY <1>0, <1>1, <1>2, <1>6, ZenonT(20) DEF TypeOK, threadVars, saveVars, stopVars
<1>8. CurInv'
  BY <1>0, <1>1, Zenon DEF CurInv, threadVars
<1>9. Balance'
  BY <1>5, Zenon DEF Balance
<1> QED
  BY <1>7, <1>8, <1>9, Zenon DEF RefInv

\* The steps of a save do not touch tasks.
LEMMA StartSaveRefInv ==
  ASSUME RefInv, NEW t \in Workers \cup {Main}, StartSave(t)
  PROVE  RefInv'
<1>0. TypeOK /\ CurInv /\ Balance
  BY Zenon DEF RefInv
<1>1. TypeOK'
  <2>1. /\ spc' \in {"idle", "pausing", "locking", "blocked", "unblocking"} /\ group' \in 1..3
        /\ idx' \in Nat \ {0} /\ saves' \in 0..MaxSaves
    BY <1>0, ConstantTypes DEF StartSave, TypeOK
  <2>2. saver' \in Threads \cup {Main, Free}
    BY Zenon DEF StartSave, Threads
  <2> QED
    BY <1>0, <2>1, <2>2, ZenonT(20) DEF StartSave, TypeOK, taskVars, threadVars, stopVars
<1>2. CurInv'
  BY <1>0, Zenon DEF StartSave, TypeOK, CurInv, taskVars, threadVars, saveVars, stopVars
<1>3. Balance'
  <2>1. UNCHANGED <<queue, refs, cur>>
    BY Zenon DEF StartSave, taskVars, threadVars
  <2> QED
    BY <1>0, <2>1, QuietBalance, Zenon
<1> QED
  BY <1>1, <1>2, <1>3, Zenon DEF RefInv

\* A queue's broadcast for a thread told to pause.
LEMMA SetPauseRefInv ==
  ASSUME RefInv, NEW t \in Threads, SetPause(t)
  PROVE  RefInv'
<1>0. TypeOK /\ CurInv /\ Balance /\ cond \in [Queues -> ConditionType(Workers)]
  BY Zenon DEF RefInv, TypeOK
<1>1. /\ pause' = [pause EXCEPT ![t] = TRUE] /\ idx' = idx + 1
      /\ UNCHANGED <<queue, blocked, refs, pushes, threadVars, blockMutex, spc, group, saver, saves, lockers, stopVars>>
  BY Zenon DEF SetPause
<1>2. cond' \in [Queues -> ConditionType(Workers)]
  <2>1. CASE t \notin Workers
    BY <1>0, <2>1, Zenon DEF SetPause
  <2>2. CASE t \in Workers
    <3>1. QueueOf[t] \in Queues /\ cond' = [cond EXCEPT ![QueueOf[t]] = Broadcast(@)]
      BY <2>2, Zenon DEF SetPause, Queues
    <3>2. Broadcast(cond[QueueOf[t]]) \in ConditionType(Workers)
      BY <1>0, <2>2, <3>1, ConditionTypes, Zenon
    <3> QED
      BY <1>0, <3>1, <3>2, Zenon
  <2> QED
    BY <2>1, <2>2, Zenon
<1>3. TypeOK' /\ CurInv'
  <2>1. TypeOK'
    <3>0. idx \in Nat \ {0} /\ idx' = idx + 1
      BY <1>0, <1>1, Zenon DEF TypeOK
    <3>1. idx' \in Nat \ {0}
      BY <3>0
    <3> QED
      BY <1>0, <1>1, <1>2, <3>1, ZenonT(20) DEF TypeOK, threadVars, stopVars
  <2>2. CurInv'
    BY <1>0, <1>1, <1>2, Zenon DEF TypeOK, CurInv, threadVars, stopVars
  <2> QED
    BY <2>1, <2>2, Zenon
<1>4. Balance'
  BY <1>0, <1>1, QuietBalance, Zenon DEF threadVars
<1> QED
  BY <1>3, <1>4, Zenon DEF RefInv

\* The other steps of a save change no queue, no reference and no cur.
LEMMA SaveStepRefInv ==
  ASSUME RefInv, SaveStep
  PROVE  RefInv'
<1>0. TypeOK /\ CurInv /\ Balance
  BY Zenon DEF RefInv
<1>1. ASSUME SkipThread \/ NextLoop \/ Unblock \/ EndSave PROVE RefInv'
  <2>1. TypeOK'
    <3>1. UNCHANGED <<taskVars, threadVars, blockMutex, pause, saves, lockers, stopVars>>
      BY <1>1, ZenonT(30) DEF SkipThread, NextLoop, Unblock, EndSave
    <3>2. /\ spc' \in {"idle", "pausing", "locking", "blocked", "unblocking"} /\ group' \in 1..3
          /\ idx' \in Nat \ {0} /\ saver' \in Threads \cup {Main, Free}
      BY <1>0, <1>1 DEF SkipThread, NextLoop, Unblock, EndSave, TypeOK
    <3> QED
      BY <1>0, <3>1, <3>2, Zenon DEF TypeOK, taskVars, threadVars, stopVars
  <2>2. UNCHANGED <<queue, refs, pc, cur>>
    BY <1>1, Zenon DEF SkipThread, NextLoop, Unblock, EndSave, taskVars, threadVars
  <2>3. CurInv'
    BY <1>0, <2>2, Zenon DEF CurInv
  <2>4. Balance'
    BY <1>0, <2>2, QuietBalance, Zenon
  <2> QED
    BY <2>1, <2>3, <2>4, Zenon DEF RefInv
<1>2. ASSUME NEW t \in Threads, LockThread(t) \/ UnlockThread(t) PROVE RefInv'
  <2>1. TypeOK'
    <3>1. UNCHANGED <<taskVars, threadVars, spc, group, saver, saves, stopVars>>
      BY <1>2, Zenon DEF LockThread, UnlockThread
    <3>2. blockMutex' \in [Threads -> Threads \cup {Main, Free}] /\ pause' \in [Threads -> BOOLEAN]
      <4>1. CASE LockThread(t)
        BY <1>0, <4>1, Zenon DEF LockThread, TypeOK
      <4>2. CASE UnlockThread(t)
        BY <1>0, <4>2, Zenon DEF UnlockThread, TypeOK
      <4> QED
        BY <1>2, <4>1, <4>2, Zenon
    <3>3. idx' \in Nat \ {0}
      BY <1>0, <1>2 DEF LockThread, UnlockThread, TypeOK
    <3>4. lockers' \subseteq Stoppable
      <4>1. CASE LockThread(t)
        <5>1. t \in Stoppable
          BY <4>1, Zenon DEF LockThread, Stoppable
        <5>2. lockers \subseteq Stoppable /\ lockers' \subseteq lockers \cup {t}
          BY <1>0, <4>1, Zenon DEF LockThread, TypeOK
        <5> QED
          BY <5>1, <5>2, Zenon
      <4>2. CASE UnlockThread(t)
        BY <1>0, <4>2, Zenon DEF UnlockThread, TypeOK
      <4> QED
        BY <1>2, <4>1, <4>2, Zenon
    <3> QED
      BY <1>0, <3>1, <3>2, <3>3, <3>4, Zenon DEF TypeOK, taskVars, threadVars, stopVars
  <2>2. UNCHANGED <<queue, refs, pc, cur>>
    BY <1>2, Zenon DEF LockThread, UnlockThread, taskVars, threadVars
  <2>3. CurInv'
    BY <1>0, <2>2, Zenon DEF CurInv
  <2>4. Balance'
    BY <1>0, <2>2, QuietBalance, Zenon
  <2> QED
    BY <2>1, <2>3, <2>4, Zenon DEF RefInv
<1> QED
  BY <1>1, <1>2, SetPauseRefInv, Zenon DEF SaveStep

\* Nor do the steps of a shutdown that are no flush.
LEMMA ShutdownRefInv ==
  ASSUME RefInv, Shutdown \/ ShutdownStep
  PROVE  RefInv'
<1>0. TypeOK /\ CurInv /\ Balance
  BY Zenon DEF RefInv
<1>1. ASSUME Shutdown \/ Joined \/ NextStage PROVE RefInv'
  <2>1. UNCHANGED <<taskVars, threadVars, blockMutex, pause, saveVars, vectors>>
    BY <1>1, Zenon DEF Shutdown, Joined, NextStage
  <2>2. /\ shutdownPc' \in {"running", "schedulers", "flush", "workers", "done"}
        /\ joining' \in Threads \cup {Free}
    BY <1>0, <1>1, Zenon DEF Shutdown, Joined, NextStage, TypeOK
  <2>3. TypeOK' /\ CurInv'
    <3>1. TypeOK'
      BY <1>0, <2>1, <2>2, ZenonT(20) DEF TypeOK, taskVars, threadVars, saveVars
    <3>2. CurInv'
      BY <1>0, <2>1, <2>2, Zenon DEF TypeOK, CurInv, taskVars, threadVars, saveVars
    <3> QED
      BY <3>1, <3>2, Zenon
  <2>4. Balance'
    BY <1>0, <2>1, QuietBalance, Zenon DEF taskVars, threadVars
  <2> QED
    BY <2>3, <2>4, Zenon DEF RefInv
<1>2. ASSUME NEW g \in 1..3, StopThread(g) PROVE RefInv'
  <2>1. UNCHANGED <<taskVars, pc, cur, blockMutex, pause, saveVars, shutdownPc>>
    BY <1>2, Zenon DEF StopThread
  <2>2. vectors[g] \in Seq(Threads) /\ vectors[g] # <<>>
    BY <1>0, <1>2, Zenon DEF TypeOK, StopThread
  <2>3. Head(vectors[g]) \in Threads /\ Tail(vectors[g]) \in Seq(Threads)
    BY <2>2
  <2>4. /\ vectors' \in [1..3 -> Seq(Threads)] /\ joining' \in Threads \cup {Free}
        /\ doRun' \in [Threads -> BOOLEAN]
    BY <1>0, <1>2, <2>3, Zenon DEF TypeOK, StopThread
  <2>5. TypeOK' /\ CurInv'
    <3>1. TypeOK'
      BY <1>0, <2>1, <2>4, ZenonT(20) DEF TypeOK, taskVars, saveVars
    <3>2. CurInv'
      BY <1>0, <2>1, <2>4, Zenon DEF TypeOK, CurInv, taskVars, saveVars
    <3> QED
      BY <3>1, <3>2, Zenon
  <2>6. Balance'
    BY <1>0, <2>1, QuietBalance, Zenon DEF taskVars
  <2> QED
    BY <2>5, <2>6, Zenon DEF RefInv
<1> QED
  BY <1>1, <1>2, FlushRefInv, Zenon DEF ShutdownStep

\* The invariant is inductive: one step per group of actions of Next.
LEMMA NextRefInv == RefInv /\ [Next]_vars => RefInv'
<1> SUFFICES ASSUME RefInv, [Next]_vars PROVE RefInv'
  BY Zenon
<1>1. ASSUME UNCHANGED vars PROVE RefInv'
  <2>1. TypeOK' /\ CurInv'
    <3>1. TypeOK'
      BY <1>1, ZenonT(20) DEF vars, RefInv, TypeOK
    <3>2. CurInv'
      BY <1>1, Zenon DEF vars, RefInv, TypeOK, CurInv
    <3> QED
      BY <3>1, <3>2, Zenon
  <2>2. Balance'
    BY <1>1, QuietBalance, Zenon DEF vars, RefInv
  <2> QED
    BY <2>1, <2>2, Zenon DEF RefInv
<1>2. ASSUME NEW q \in Queues, NEW task \in Tasks, ExecuteTask(q, task) PROVE RefInv'
  BY <1>2, ExecuteTaskRefInv, Zenon
<1>3. ASSUME NEW t \in Threads, ThreadStep(t) PROVE RefInv'
  BY <1>3, LockBlockMutexRefInv, UnlockNullRefInv, ResumeRefInv, StopRefInv, Zenon DEF ThreadStep
<1>4. ASSUME NEW w \in Workers, WorkerStep(w) \/ SpuriousWakeup(w) PROVE RefInv'
  BY <1>4, PopRefInv, PopWokenRefInv, EndTaskRefInv, SpuriousWakeupRefInv, Zenon DEF WorkerStep
<1>5. ASSUME NEW c \in Schedulers, SchedulerStep(c) \/ (\E q \in Queues : SchedulerRun(c, q)) PROVE RefInv'
  BY <1>5, SchedulerGetRefInv, SchedulerRunRefInv, Zenon DEF SchedulerStep
<1>6. ASSUME NEW t \in Workers \cup {Main}, StartSave(t) PROVE RefInv'
  BY <1>6, StartSaveRefInv, Zenon
<1>7. ASSUME SaveStep PROVE RefInv'
  BY <1>7, SaveStepRefInv, Zenon
<1>8. ASSUME Shutdown \/ ShutdownStep PROVE RefInv'
  BY <1>8, ShutdownRefInv, Zenon
<1> QED
  BY <1>1, <1>2, <1>3, <1>4, <1>5, <1>6, <1>7, <1>8, Zenon DEF Next

\* A thread that runs a task has one, and the references the manager holds on a task
\* are those of the queue entries and of the workers.
THEOREM SpecRefInv == Spec => []RefInv
BY InitRefInv, NextRefInv, PTL DEF Spec

\* The references the manager holds on a task (Task::acquire in push, release in run
\* and flush) are, whatever the workers, queues and tasks, exactly those of its queue
\* entries and of the workers that popped it: a push, a pop that races a flush, the end
\* of a task and a shutdown neither leak one nor release one twice.
THEOREM RefsBalancedHolds == Spec => []RefsBalanced
<1>1. RefInv => RefsBalanced
  BY Zenon DEF RefInv, Balance, HeldBy, RefsBalanced
<1> QED
  BY <1>1, SpecRefInv, PTL
================================================================================
