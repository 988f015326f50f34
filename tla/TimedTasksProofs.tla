---------------------------- MODULE TimedTasksProofs ----------------------------
(***************************************************************************)
(* Proofs about TimedTasks, for any number of schedulers, callers and      *)
(* tasks: first that the tasks are accounted for, then that the task get() *)
(* peeked at stands and that get() returns no task before its time.        *)
(***************************************************************************)
EXTENDS TimedTasks, FiniteSetTheorems, TLAPS

\* A scheduler has taken the task out and has not finished with it.
Busy(s, t) == cur[s] = t /\ pc[s] \in {"run", "periodic", "add"}

\* A thread is about to add the task to a queue.
Adding(x, t) == cur[x] = t /\ pc[x] = "add"

\* What a thread handles where it is; a caller handles its own tasks.
SchedulerAt(s) ==
    /\ pc[s] \in {"get", "top", "wait", "timedWait", "timed", "pause", "run", "periodic", "add",
                  "done"}
    /\ pc[s] \in {"run", "periodic", "add", "timed", "timedWait"} => cur[s] \in Tasks
    /\ pc[s] = "add" => dest[s] \in Schedulers
    /\ pc[s] \in {"wait", "timedWait", "timed"} => waitingForTask[s]

CallerAt(c) ==
    /\ pc[c] \in {"idle", "add", "cancel", "setPeriod", "remove"}
    /\ pc[c] # "idle" => cur[c] \in Tasks /\ Owner[cur[c]] = c
    /\ pc[c] \in {"add", "setPeriod", "remove"} => dest[c] \in Schedulers

PlaceInv == (\A s \in Schedulers : SchedulerAt(s)) /\ (\A c \in Callers : CallerAt(c))

\* A task is in the queue of its taskScheduler.
InQueue(t) == \A s \in Schedulers : t \in heap[s] <=> taskScheduler[t] = s

\* A task that is being added is in no queue.  One that a scheduler is going to add again is
\* in nobody else's hands, and neither is one that has a period, since run() reads the period
\* when it has executed the task.
Alone(t) ==
    /\ \A x \in Threads : Adding(x, t) => taskScheduler[t] = None
    /\ \A s \in Schedulers : cur[s] = t /\ pc[s] \in {"periodic", "add"} =>
          /\ taskScheduler[t] = None
          /\ \A r \in Schedulers : Busy(r, t) => r = s
          /\ \A c \in Callers : ~Adding(c, t)
    /\ period[t] # 0 =>
          /\ \A s \in Schedulers : Busy(s, t) =>
                taskScheduler[t] = None /\ \A c \in Callers : ~Adding(c, t)
          /\ \A s, r \in Schedulers : Busy(s, t) /\ Busy(r, t) => s = r

\* The schedulers that have a task in their queue, and those that have it in hand.
Queued(t) == {s \in Schedulers : t \in heap[s]}
Taken(t) == {s \in Schedulers : Busy(s, t)}
Counted(t) == refs[t] = Cardinality(Queued(t)) + Cardinality(Taken(t))

\* The inductive invariant behind QueueInv.
TaskInv == TypeOK /\ PlaceInv /\ \A t \in Tasks : InQueue(t) /\ Alone(t) /\ Counted(t)
--------------------------------------------------------------------------------
(* The constants, and the first task of a queue. *)

LEMMA Constants ==
  /\ \A s \in Schedulers : s \in Nat /\ s # None /\ s \notin Callers /\ s \in Threads
  /\ \A c \in Callers : c \in Nat /\ c # None /\ c \notin Schedulers /\ c \in Threads
  /\ \A x \in Threads : x \in Schedulers \/ x \in Callers
  /\ \A t \in Tasks : t \in Nat /\ t # None /\ Owner[t] \in Callers
  /\ IsFiniteSet(Schedulers)
<1>1. NumSchedulers \in Nat /\ NumCallers \in Nat /\ NumTasks \in Nat /\ Owner \in [Tasks -> Callers]
  BY TimedTasksAssumption, Zenon
<1>2. IsFiniteSet(1..NumSchedulers)
  BY <1>1, FS_Interval
<1> QED
  BY <1>1, <1>2 DEF Schedulers, Callers, Threads, Tasks, None

\* The order of Task::compareTo.
Precedes(f, t, u) == f[t] < f[u] \/ (f[t] = f[u] /\ t <= u)
First(f, H) == CHOOSE t \in H : \A u \in H : Precedes(f, t, u)

LEMMA NatMin ==
  ASSUME NEW T, T \subseteq Nat, T # {}
  PROVE  \E x \in T : \A y \in T : x <= y
<1> DEFINE R == OpToRel(<, Nat)
<1>1. IsWellFoundedOn(R, Nat)
  BY NatLessThanWellFounded, Zenon
<1>2. \A x, y \in Nat : y < x => <<y, x>> \in R
  BY Zenon DEF OpToRel
<1> HIDE DEF R
<1>3. PICK x \in T : \A y \in T : ~(<<y, x>> \in R)
  BY <1>1, WFMin, Zenon
<1>4. ASSUME NEW y \in T PROVE x <= y
  <2>1. x \in Nat /\ y \in Nat
    BY Zenon
  <2>2. ~(y < x)
    BY <1>2, <1>3, <2>1, Zenon
  <2> QED
    BY <2>1, <2>2
<1> QED
  BY <1>4, Zenon

\* A queue that is not empty has a first task.
LEMMA FirstIn ==
  ASSUME NEW f \in [Tasks -> Nat], NEW H, H \subseteq Tasks, H # {}
  PROVE  First(f, H) \in H /\ \A u \in H : Precedes(f, First(f, H), u)
<1>0. Tasks \subseteq Nat
  BY Constants, Zenon
<1> DEFINE T == {f[t] : t \in H}
<1>1. T \subseteq Nat /\ T # {}
  BY Zenon
<1>2. PICK m \in T : \A y \in T : m <= y
  BY <1>1, NatMin, Zenon
<1> DEFINE U == {t \in H : f[t] = m}
<1>3. U \subseteq Nat /\ U # {}
  BY <1>0, Zenon
<1>4. PICK p \in U : \A y \in U : p <= y
  BY <1>3, NatMin, Zenon
<1>5. ASSUME NEW u \in H PROVE Precedes(f, p, u)
  <2>1. m <= f[u] /\ f[p] = m /\ m \in Nat /\ f[u] \in Nat
    BY <1>1, <1>2, <1>4, Zenon
  <2>2. f[u] = m => p <= u
    BY <1>4, Zenon
  <2> QED
    BY <2>1, <2>2 DEF Precedes
<1>6. p \in H
  BY <1>4, Zenon
<1> QED
  BY <1>5, <1>6, Zenon DEF First

\* There is only one.
LEMMA FirstIs ==
  ASSUME NEW f \in [Tasks -> Nat], NEW H, H \subseteq Tasks, NEW p \in H,
         \A u \in H : Precedes(f, p, u)
  PROVE  First(f, H) = p
<1>1. First(f, H) \in H /\ Precedes(f, First(f, H), p)
  BY FirstIn, Zenon
<1>2. PICK q \in H : q = First(f, H)
  BY <1>1, Zenon
<1>3. p \in Nat /\ q \in Nat /\ f[p] \in Nat /\ f[q] \in Nat
  BY Constants, Zenon
<1>4. Precedes(f, p, q) /\ Precedes(f, q, p)
  BY <1>1, <1>2, Zenon
<1>5. p = q
  BY <1>3, <1>4 DEF Precedes
<1> QED
  BY <1>2, <1>5, Zenon

LEMMA PeakIsFirst == \A s \in Schedulers : Peak(s) = First(time, heap[s])
BY Zenon DEF Peak, First, Before, Precedes

\* PriorityQueue::peak of a queue that is not empty.
LEMMA PeakIn ==
  ASSUME TypeOK, NEW s \in Schedulers, heap[s] # {}
  PROVE  Peak(s) \in heap[s] /\ Peak(s) \in Tasks
<1>1. time \in [Tasks -> Nat] /\ heap[s] \subseteq Tasks
  BY Zenon DEF TypeOK
<1> QED
  BY <1>1, FirstIn, PeakIsFirst, Zenon
--------------------------------------------------------------------------------
(* How a step changes who has a task. *)

LEMMA Counts ==
  ASSUME NEW t
  PROVE  /\ IsFiniteSet(Queued(t)) /\ Cardinality(Queued(t)) \in Nat
         /\ IsFiniteSet(Taken(t)) /\ Cardinality(Taken(t)) \in Nat
<1>1. Queued(t) \subseteq Schedulers /\ Taken(t) \subseteq Schedulers
  BY Zenon DEF Queued, Taken
<1> QED
  BY <1>1, Constants, FS_Subset, FS_CardinalityType, Zenon

TaskOK(t) == InQueue(t) /\ Alone(t) /\ Counted(t)

\* A task that a step does not touch.
LEMMA Untouched ==
  ASSUME NEW t, TaskOK(t), \A s \in Schedulers : t \in heap'[s] <=> t \in heap[s],
         taskScheduler'[t] = taskScheduler[t], refs'[t] = refs[t], period'[t] = period[t],
         \A s \in Schedulers :
            \/ pc'[s] = pc[s] /\ cur'[s] = cur[s]
            \/ ~Busy(s, t) /\ ~Busy(s, t)',
         \A c \in Callers :
            \/ pc'[c] = pc[c] /\ cur'[c] = cur[c]
            \/ ~Adding(c, t) /\ ~Adding(c, t)'
  PROVE  TaskOK(t)'
<1>1. InQueue(t)'
  BY Zenon DEF TaskOK, InQueue
<1>2. \A s \in Schedulers : /\ Busy(s, t)' <=> Busy(s, t)
                            /\ Busy(s, t) => pc'[s] = pc[s] /\ cur'[s] = cur[s]
  BY Zenon DEF Busy
<1>3. \A c \in Callers : Adding(c, t)' <=> Adding(c, t)
  BY Zenon DEF Adding
<1>4. \A s \in Schedulers : /\ Adding(s, t)' <=> Adding(s, t)
                            /\ (cur[s] = t /\ pc[s] \in {"periodic", "add"})' <=> (cur[s] = t /\ pc[s] \in {"periodic", "add"})
  BY <1>2, Zenon DEF Busy, Adding
<1>5. \A x \in Threads : Adding(x, t)' <=> Adding(x, t)
  BY <1>3, <1>4, Constants, Zenon
<1>6. Alone(t)'
  <2>1. Alone(t)
    BY Zenon DEF TaskOK
  <2>2. \A x \in Threads : Adding(x, t)' => taskScheduler'[t] = None
    BY <1>5, <2>1, Zenon DEF Alone
  <2>3. ASSUME NEW s \in Schedulers, (cur[s] = t /\ pc[s] \in {"periodic", "add"})'
        PROVE  /\ taskScheduler'[t] = None
               /\ \A r \in Schedulers : Busy(r, t)' => r = s
               /\ \A c \in Callers : ~Adding(c, t)'
    BY <1>2, <1>3, <1>4, <2>1, <2>3, Zenon DEF Alone
  <2>4. ASSUME period'[t] # 0
        PROVE  /\ \A s \in Schedulers : Busy(s, t)' =>
                     taskScheduler'[t] = None /\ \A c \in Callers : ~Adding(c, t)'
               /\ \A s, r \in Schedulers : Busy(s, t)' /\ Busy(r, t)' => s = r
    BY <1>2, <1>3, <2>1, <2>4, Zenon DEF Alone
  <2> QED
    BY <2>2, <2>3, <2>4, Zenon DEF Alone
<1>7. Queued(t)' = Queued(t) /\ Taken(t)' = Taken(t)
  BY <1>2, Zenon DEF Queued, Taken
<1>8. Counted(t)'
  BY <1>7, Zenon DEF Counted, TaskOK
<1> QED
  BY <1>1, <1>6, <1>8, Zenon DEF TaskOK

\* The tasks that a step of thread x on task p leaves alone.
StepOn(x, p) ==
    /\ \A y \in Threads : y # x => pc'[y] = pc[y] /\ cur'[y] = cur[y]
    /\ cur[x] = p \/ pc[x] \notin {"run", "periodic", "add"}
    /\ cur'[x] = p \/ pc'[x] \notin {"run", "periodic", "add"}
    /\ \A t \in Tasks : t # p =>
        /\ \A r \in Schedulers : t \in heap'[r] <=> t \in heap[r]
        /\ taskScheduler'[t] = taskScheduler[t] /\ refs'[t] = refs[t] /\ period'[t] = period[t]

LEMMA Others ==
  ASSUME \A t \in Tasks : TaskOK(t), NEW x \in Threads, NEW p, StepOn(x, p)
  PROVE  \A t \in Tasks : t # p => TaskOK(t)'
<1> TAKE t \in Tasks
<1> HAVE t # p
<1>1. ~Busy(x, t) /\ ~Busy(x, t)' /\ ~Adding(x, t) /\ ~Adding(x, t)'
  BY DEF StepOn, Busy, Adding
<1>2. \A y \in Threads : y # x => pc'[y] = pc[y] /\ cur'[y] = cur[y]
  BY Zenon DEF StepOn
<1>3. ASSUME NEW r \in Schedulers
      PROVE  (pc'[r] = pc[r] /\ cur'[r] = cur[r]) \/ (~Busy(r, t) /\ ~Busy(r, t)')
  <2>1. CASE r = x
    BY <1>1, <2>1, Zenon
  <2>2. CASE r # x
    BY <1>2, <2>2, Constants, Zenon
  <2> QED
    BY <2>1, <2>2, Zenon
<1>4. ASSUME NEW c \in Callers
      PROVE  (pc'[c] = pc[c] /\ cur'[c] = cur[c]) \/ (~Adding(c, t) /\ ~Adding(c, t)')
  <2>1. CASE c = x
    BY <1>1, <2>1, Zenon
  <2>2. CASE c # x
    BY <1>2, <2>2, Constants, Zenon
  <2> QED
    BY <2>1, <2>2, Zenon
<1>5. /\ \A r \in Schedulers : t \in heap'[r] <=> t \in heap[r]
      /\ taskScheduler'[t] = taskScheduler[t] /\ refs'[t] = refs[t] /\ period'[t] = period[t]
  BY Zenon DEF StepOn
<1> QED
  BY <1>3, <1>4, <1>5, Untouched, Zenon

\* A step of a thread that has no task in hand, before and after.
LEMMA NoTask ==
  ASSUME \A t \in Tasks : TaskOK(t), NEW x \in Threads, StepOn(x, None)
  PROVE  \A t \in Tasks : TaskOK(t)'
BY Others, Constants, Zenon

\* poll: the first task goes from the queue into the hands of the scheduler.
LEMMA Polled ==
  ASSUME TypeOK, \A t \in Tasks : TaskOK(t), NEW s \in Schedulers, NEW p \in Tasks, p \in heap[s],
         pc[s] \notin {"run", "periodic", "add"},
         heap' = [heap EXCEPT ![s] = @ \ {p}], taskScheduler' = [taskScheduler EXCEPT ![p] = None],
         cur' = [cur EXCEPT ![s] = p], pc' = [pc EXCEPT ![s] = "run"], UNCHANGED <<refs, period>>
  PROVE  \A t \in Tasks : TaskOK(t)'
<1>0. TaskOK(p) /\ InQueue(p) /\ Alone(p) /\ Counted(p)
  BY Zenon DEF TaskOK
<1>1. /\ \A x \in Threads : pc'[x] = IF x = s THEN "run" ELSE pc[x]
      /\ \A x \in Threads : cur'[x] = IF x = s THEN p ELSE cur[x]
      /\ \A r \in Schedulers : heap'[r] = IF r = s THEN heap[s] \ {p} ELSE heap[r]
      /\ \A t \in Tasks : taskScheduler'[t] = IF t = p THEN None ELSE taskScheduler[t]
  BY Constants, ZenonT(30) DEF TypeOK
<1>2. \A t \in Tasks : t # p => TaskOK(t)'
  <2>1. StepOn(s, p)
    BY <1>1, Constants DEF StepOn
  <2> QED
    BY <2>1, Others, Constants, Zenon
<1>3. taskScheduler[p] = s /\ taskScheduler'[p] = None
  BY <1>0, <1>1, Zenon DEF InQueue
<1>4. \A r \in Schedulers : p \notin heap'[r]
  BY <1>0, <1>1, <1>3 DEF InQueue
<1>5. InQueue(p)'
  BY <1>3, <1>4, Constants, Zenon DEF InQueue
<1>6. Alone(p)'
  <2>1. \A r \in Schedulers : ~(cur'[r] = p /\ pc'[r] \in {"periodic", "add"})
    BY <1>0, <1>1, <1>3, Constants DEF Alone
  <2>2. period[p] # 0 => \A r \in Schedulers : Busy(r, p)' => r = s
    BY <1>0, <1>1, <1>3, Constants DEF Alone, Busy
  <2>3. \A c \in Callers : ~Adding(c, p)'
    BY <1>0, <1>1, <1>3, Constants DEF Alone, Adding
  <2> QED
    BY <1>3, <2>1, <2>2, <2>3, Zenon DEF Alone
<1>7. Counted(p)'
  <2>1. Queued(p)' = Queued(p) \ {s} /\ s \in Queued(p)
    BY <1>0, <1>3, <1>4, ZenonT(30) DEF Queued, InQueue
  <2>2. Taken(p)' = Taken(p) \cup {s} /\ s \notin Taken(p)
    BY <1>1, Constants DEF Taken, Busy
  <2>3. Cardinality(Queued(p) \ {s}) = Cardinality(Queued(p)) - 1
    BY <2>1, Counts, FS_RemoveElement, Zenon
  <2>4. Cardinality(Taken(p) \cup {s}) = Cardinality(Taken(p)) + 1
    BY <2>2, Counts, FS_AddElement, Zenon
  <2>5. refs'[p] = Cardinality(Queued(p)) + Cardinality(Taken(p))
    BY <1>0, Zenon DEF Counted
  <2>6. Cardinality(Queued(p)) \in Nat /\ Cardinality(Taken(p)) \in Nat
    BY Counts, Zenon
  <2> QED
    BY <2>1, <2>2, <2>3, <2>4, <2>5, <2>6 DEF Counted
<1> QED
  BY <1>2, <1>5, <1>6, <1>7, Zenon DEF TaskOK

\* The end of a round: the scheduler gives its reference back.
LEMMA RoundEnds ==
  ASSUME TypeOK, \A t \in Tasks : TaskOK(t), NEW s \in Schedulers, cur[s] \in Tasks,
         pc[s] \in {"run", "periodic"}, Release(s), UNCHANGED <<heap, taskScheduler, period>>
  PROVE  refs' \in [Tasks -> Nat] /\ \A t \in Tasks : TaskOK(t)'
<1>1. PICK p \in Tasks : p = cur[s]
  BY Zenon
<1>0. InQueue(p) /\ Alone(p) /\ Counted(p)
  BY Zenon DEF TaskOK
<1>2. /\ \A x \in Threads : pc'[x] = IF x = s THEN "get" ELSE pc[x]
      /\ \A x \in Threads : cur'[x] = IF x = s THEN None ELSE cur[x]
      /\ refs' = [refs EXCEPT ![p] = refs[p] - 1]
      /\ \A t \in Tasks : refs'[t] = IF t = p THEN refs[p] - 1 ELSE refs[t]
  BY <1>1, Constants, ZenonT(30) DEF TypeOK, Release, Goto
<1>3. \A t \in Tasks : t # p => TaskOK(t)'
  <2>1. StepOn(s, p)
    BY <1>1, <1>2, Constants, Zenon DEF StepOn
  <2> QED
    BY <2>1, Others, Constants, Zenon
<1>4. \A r \in Schedulers : /\ Busy(r, p)' <=> r # s /\ Busy(r, p)
                            /\ r # s => pc'[r] = pc[r] /\ cur'[r] = cur[r]
  BY <1>2, Constants, Zenon DEF Busy
<1>5. \A x \in Threads : Adding(x, p)' => Adding(x, p)
  BY <1>2, Constants, Zenon DEF Adding
<1>6. Alone(p)'
  <2>1. \A r \in Schedulers : cur'[r] = p /\ pc'[r] \in {"periodic", "add"} => r # s /\ cur[r] = p /\ pc[r] \in {"periodic", "add"}
    BY <1>2, Constants, Zenon
  <2>2. \A c \in Callers : Adding(c, p)' => Adding(c, p)
    BY <1>5, Constants, Zenon
  <2> QED
    BY <1>0, <1>4, <1>5, <2>1, <2>2, Zenon DEF Alone
<1>7. InQueue(p)'
  BY <1>0, Zenon DEF InQueue
<1>8. Counted(p)' /\ refs[p] - 1 \in Nat
  <2>1. Taken(p)' = Taken(p) \ {s} /\ s \in Taken(p)
    BY <1>1, <1>4, Zenon DEF Taken, Busy
  <2>2. Queued(p)' = Queued(p)
    BY Zenon DEF Queued
  <2>3. Cardinality(Taken(p) \ {s}) = Cardinality(Taken(p)) - 1
    BY <2>1, Counts, FS_RemoveElement, Zenon
  <2>4. Cardinality(Taken(p)) # 0
    BY <2>1, Counts, FS_EmptySet, Zenon
  <2>5. refs[p] = Cardinality(Queued(p)) + Cardinality(Taken(p))
    BY <1>0, Zenon DEF Counted
  <2>6. Cardinality(Queued(p)) \in Nat /\ Cardinality(Taken(p)) \in Nat
    BY Counts, Zenon
  <2>7. refs'[p] = refs[p] - 1
    BY <1>2, Zenon
  <2> QED
    BY <2>1, <2>2, <2>3, <2>4, <2>5, <2>6, <2>7 DEF Counted
<1>9. refs' \in [Tasks -> Nat]
  BY <1>2, <1>8, Zenon DEF TypeOK
<1> QED
  BY <1>3, <1>6, <1>7, <1>8, <1>9, Zenon DEF TaskOK

\* The task goes into a queue, unless it is blocked, and out of the hands of x.
InsertedBy(x, q, p) ==
    /\ heap' = IF blocked[q] THEN heap ELSE [heap EXCEPT ![q] = @ \cup {p}]
    /\ taskScheduler' = IF blocked[q] THEN taskScheduler ELSE [taskScheduler EXCEPT ![p] = q]
    /\ cur' = [cur EXCEPT ![x] = None] /\ pc'[x] \notin {"run", "periodic", "add"}
    /\ \A y \in Threads : y # x => pc'[y] = pc[y]
    /\ UNCHANGED period

\* Then nobody else has the task.
NowIn(x, q, p) ==
    /\ InQueue(p)' /\ Alone(p)'
    /\ Queued(p) = {} /\ Queued(p)' = IF blocked[q] THEN {} ELSE {q}
    /\ x \in Schedulers => Taken(p) = {x}
    /\ Taken(p)' = Taken(p) \ {x}

LEMMA InsertedAlone ==
  ASSUME TypeOK, PlaceInv, \A t \in Tasks : TaskOK(t), NEW x \in Threads, pc[x] = "add",
         NEW p \in Tasks, p = cur[x], NEW q \in Schedulers, InsertedBy(x, q, p)
  PROVE  NowIn(x, q, p)
<1>0. InQueue(p) /\ Alone(p) /\ Counted(p)
  BY Zenon DEF TaskOK
<1>1. \A y \in Threads : y # x => pc'[y] = pc[y] /\ cur'[y] = cur[y]
  BY Zenon DEF TypeOK, InsertedBy
<1>2. cur'[x] = None /\ pc'[x] \notin {"run", "periodic", "add"} /\ Adding(x, p)
  BY Zenon DEF TypeOK, InsertedBy, Adding
<1>3. taskScheduler[p] = None
  BY <1>0, <1>2, Zenon DEF Alone
<1>4. \A r \in Schedulers : p \notin heap[r]
  BY <1>0, <1>3, Constants, Zenon DEF InQueue
<1>5. /\ \A r \in Schedulers : p \in heap'[r] <=> ~blocked[q] /\ r = q
      /\ taskScheduler'[p] = IF blocked[q] THEN None ELSE q
  BY <1>3, <1>4, Zenon DEF InsertedBy, TypeOK
<1>6. InQueue(p)'
  BY <1>5, Constants, Zenon DEF InQueue
<1>7. \A y \in Threads : Adding(y, p) => y = x
  <2>1. CASE x \in Schedulers
    <3>1. \A r \in Schedulers : Adding(r, p) => r = x
      BY <1>0, <1>2, <2>1, Zenon DEF Alone, Adding, Busy
    <3>2. \A c \in Callers : ~Adding(c, p)
      BY <1>0, <1>2, <2>1, Zenon DEF Alone, Adding
    <3> QED
      BY <3>1, <3>2, Constants, Zenon
  <2>2. CASE x \in Callers
    <3>1. \A r \in Schedulers : ~Adding(r, p)
      BY <1>0, <1>2, <2>2, Zenon DEF Alone, Adding
    <3>2. \A c \in Callers : Adding(c, p) => c = Owner[p]
      BY Zenon DEF PlaceInv, CallerAt, Adding
    <3>3. x = Owner[p]
      BY <1>2, <2>2, <3>2, Zenon
    <3> QED
      BY <3>1, <3>2, <3>3, Constants, Zenon
  <2> QED
    BY <2>1, <2>2, Constants, Zenon
<1>8. \A y \in Threads : ~Adding(y, p)'
  BY <1>1, <1>2, <1>7, Zenon DEF Adding
<1>9. \A r \in Schedulers : Busy(r, p)' <=> r # x /\ Busy(r, p)
  BY <1>1, <1>2, Constants, Zenon DEF Busy
<1>10. \A r \in Schedulers : cur[r] = p /\ pc[r] \in {"periodic", "add"} => r = x
  <2>1. CASE x \in Schedulers
    BY <1>0, <1>2, <2>1, Zenon DEF Alone, Adding, Busy
  <2>2. CASE x \in Callers
    BY <1>0, <1>2, <2>2, Zenon DEF Alone
  <2> QED
    BY <2>1, <2>2, Constants, Zenon
<1>11. \A r \in Schedulers : ~(cur'[r] = p /\ pc'[r] \in {"periodic", "add"})
  BY <1>1, <1>2, <1>10, Constants, ZenonT(30)
<1>12. period[p] # 0 \/ x \in Schedulers => \A r \in Schedulers : Busy(r, p) => r = x
  <2>1. CASE x \in Schedulers
    BY <1>0, <1>2, <2>1, Zenon DEF Alone, Adding
  <2>2. CASE x \in Callers /\ period[p] # 0
    BY <1>0, <1>2, <2>2, Zenon DEF Alone
  <2> QED
    BY <2>1, <2>2, Constants, Zenon
<1>13. Alone(p)'
  <2>1. \A c \in Callers : ~Adding(c, p)'
    BY <1>8, Constants, Zenon
  <2>2. period'[p] # 0 => \A r \in Schedulers : ~Busy(r, p)'
    BY <1>9, <1>12, Zenon DEF InsertedBy
  <2> QED
    BY <1>8, <1>11, <2>2, Zenon DEF Alone
<1>14. Queued(p) = {} /\ Queued(p)' = IF blocked[q] THEN {} ELSE {q}
  BY <1>4, <1>5, ZenonT(30) DEF Queued
<1>15. x \in Schedulers => Taken(p) = {x}
  BY <1>2, <1>12, Zenon DEF Taken, Busy, Adding
<1>16. Taken(p)' = Taken(p) \ {x}
  BY <1>9, Zenon DEF Taken
<1> QED
  BY <1>6, <1>13, <1>14, <1>15, <1>16, Zenon DEF NowIn

\* add in the thread of a scheduler.
LEMMA AddedAgain ==
  ASSUME TypeOK, PlaceInv, \A t \in Tasks : TaskOK(t), NEW s \in Schedulers, AddAgain(s)
  PROVE  refs' \in [Tasks -> Nat] /\ \A t \in Tasks : TaskOK(t)'
<1>1. PICK q \in Schedulers, p \in Tasks : q = dest[s] /\ p = cur[s] /\ pc[s] = "add"
  BY Zenon DEF PlaceInv, SchedulerAt, AddAgain
<1>2. /\ cur' = [cur EXCEPT ![s] = None] /\ pc' = [pc EXCEPT ![s] = "get"] /\ UNCHANGED period
      /\ refs' = [refs EXCEPT ![p] = refs[p] - (IF blocked[q] THEN 1 ELSE 0)]
      /\ heap' = IF blocked[q] THEN heap ELSE [heap EXCEPT ![q] = heap[q] \cup {p}]
      /\ taskScheduler' = IF blocked[q] THEN taskScheduler ELSE [taskScheduler EXCEPT ![p] = q]
  BY <1>1, Zenon DEF AddAgain, Insert, Goto
<1>3. \A y \in Threads : y # s => pc'[y] = pc[y] /\ cur'[y] = cur[y]
  BY <1>2, Zenon DEF TypeOK
<1>4. pc'[s] = "get" /\ cur'[s] = None
  BY <1>2, Constants, Zenon DEF TypeOK
<1>5. InsertedBy(s, q, p)
  BY <1>2, <1>3, <1>4, Zenon DEF InsertedBy
<1>6. /\ InQueue(p)' /\ Alone(p)' /\ Queued(p) = {} /\ Queued(p)' = IF blocked[q] THEN {} ELSE {q}
      /\ Taken(p) = {s} /\ Taken(p)' = {}
  <2>1. s \in Threads
    BY Constants, Zenon
  <2>2. NowIn(s, q, p)
    BY <1>1, <1>5, <2>1, InsertedAlone, Zenon
  <2> QED
    BY <2>2, Zenon DEF NowIn
<1>7. refs[p] = 1
  <2>1. refs[p] = Cardinality(Queued(p)) + Cardinality(Taken(p))
    BY Zenon DEF TaskOK, Counted
  <2>2. Cardinality({}) = 0 /\ Cardinality({s}) = 1
    BY FS_EmptySet, FS_Singleton, Zenon
  <2> QED
    BY <1>6, <2>1, <2>2
<1>8. refs'[p] = (IF blocked[q] THEN 0 ELSE 1) /\ refs' \in [Tasks -> Nat]
  BY <1>2, <1>7 DEF TypeOK
<1>9. Counted(p)'
  <2>1. Cardinality({}) = 0 /\ Cardinality({q}) = 1
    BY FS_EmptySet, FS_Singleton, Zenon
  <2>2. Cardinality(Queued(p)') = refs'[p] /\ Cardinality(Taken(p)') = 0 /\ refs'[p] \in Nat
    BY <1>6, <1>8, <2>1, Zenon
  <2> QED
    BY <2>2 DEF Counted
<1>10. StepOn(s, p)
  <2>1. \A t \in Tasks : t # p =>
          /\ \A r \in Schedulers : t \in heap'[r] <=> t \in heap[r]
          /\ taskScheduler'[t] = taskScheduler[t] /\ refs'[t] = refs[t] /\ period'[t] = period[t]
    BY <1>2, Zenon DEF TypeOK
  <2> QED
    BY <1>1, <1>3, <1>4, <2>1, Zenon DEF StepOn
<1>11. \A t \in Tasks : t # p => TaskOK(t)'
  BY <1>10, Others, Constants, Zenon
<1>12. TaskOK(p)'
  BY <1>6, <1>9, Zenon DEF TaskOK
<1> QED
  BY <1>8, <1>11, <1>12, Zenon

\* add in the thread of a caller.
LEMMA Added ==
  ASSUME TypeOK, PlaceInv, \A t \in Tasks : TaskOK(t), NEW c \in Callers, Add(c)
  PROVE  refs' \in [Tasks -> Nat] /\ \A t \in Tasks : TaskOK(t)'
<1>1. PICK q \in Schedulers, p \in Tasks : q = dest[c] /\ p = cur[c] /\ pc[c] = "add"
  BY Zenon DEF PlaceInv, CallerAt, Add
<1>2. /\ cur' = [cur EXCEPT ![c] = None] /\ pc' = [pc EXCEPT ![c] = "idle"] /\ UNCHANGED period
      /\ refs' = [refs EXCEPT ![p] = refs[p] + (IF blocked[q] THEN 0 ELSE 1)]
      /\ heap' = IF blocked[q] THEN heap ELSE [heap EXCEPT ![q] = heap[q] \cup {p}]
      /\ taskScheduler' = IF blocked[q] THEN taskScheduler ELSE [taskScheduler EXCEPT ![p] = q]
  BY <1>1, Zenon DEF Add, Insert, Goto
<1>3. \A y \in Threads : y # c => pc'[y] = pc[y] /\ cur'[y] = cur[y]
  BY <1>2, Zenon DEF TypeOK
<1>4. pc'[c] = "idle" /\ cur'[c] = None
  BY <1>2, Constants, Zenon DEF TypeOK
<1>5. InsertedBy(c, q, p)
  BY <1>2, <1>3, <1>4, Zenon DEF InsertedBy
<1>6. /\ InQueue(p)' /\ Alone(p)' /\ Queued(p) = {} /\ Queued(p)' = IF blocked[q] THEN {} ELSE {q}
      /\ Taken(p)' = Taken(p) \ {c}
  <2>1. c \in Threads
    BY Constants, Zenon
  <2>2. NowIn(c, q, p)
    BY <1>1, <1>5, <2>1, InsertedAlone, Zenon
  <2> QED
    BY <2>2, Zenon DEF NowIn
<1>7. Taken(p)' = Taken(p)
  BY <1>6, Constants, Zenon DEF Taken
<1>8. refs[p] = Cardinality(Taken(p)) /\ Cardinality(Taken(p)) \in Nat
  <2>1. refs[p] = Cardinality(Queued(p)) + Cardinality(Taken(p))
    BY Zenon DEF TaskOK, Counted
  <2>2. Cardinality(Taken(p)) \in Nat /\ Cardinality({}) = 0
    BY Counts, FS_EmptySet, Zenon
  <2> QED
    BY <1>6, <2>1, <2>2
<1>9. /\ refs'[p] = Cardinality(Taken(p)) + (IF blocked[q] THEN 0 ELSE 1)
      /\ refs' \in [Tasks -> Nat]
  BY <1>2, <1>8 DEF TypeOK
<1>10. Counted(p)'
  <2>1. Cardinality({}) = 0 /\ Cardinality({q}) = 1
    BY FS_EmptySet, FS_Singleton, Zenon
  <2>2. Cardinality(Queued(p)') = (IF blocked[q] THEN 0 ELSE 1) /\ Cardinality(Taken(p)') = Cardinality(Taken(p))
    BY <1>6, <1>7, <2>1, Zenon
  <2> QED
    BY <1>8, <1>9, <2>2 DEF Counted
<1>11. StepOn(c, p)
  <2>1. \A t \in Tasks : t # p =>
          /\ \A r \in Schedulers : t \in heap'[r] <=> t \in heap[r]
          /\ taskScheduler'[t] = taskScheduler[t] /\ refs'[t] = refs[t] /\ period'[t] = period[t]
    BY <1>2, Zenon DEF TypeOK
  <2> QED
    BY <1>1, <1>3, <1>4, <2>1, Zenon DEF StepOn
<1>12. \A t \in Tasks : t # p => TaskOK(t)'
  BY <1>11, Others, Constants, Zenon
<1>13. TaskOK(p)'
  BY <1>6, <1>10, Zenon DEF TaskOK
<1> QED
  BY <1>9, <1>12, <1>13, Zenon

\* remove takes the task out of its queue.
LEMMA Deleted ==
  ASSUME TypeOK, \A t \in Tasks : TaskOK(t), NEW c \in Callers, NEW q \in Schedulers, NEW p \in Tasks,
         pc[c] = "remove", taskScheduler[p] = q, Delete(q, p),
         cur' = [cur EXCEPT ![c] = None], pc' = [pc EXCEPT ![c] = "idle"], UNCHANGED period
  PROVE  refs' \in [Tasks -> Nat] /\ \A t \in Tasks : TaskOK(t)'
<1>0. InQueue(p) /\ Alone(p) /\ Counted(p)
  BY Zenon DEF TaskOK
<1>1. /\ \A y \in Threads : y # c => pc'[y] = pc[y] /\ cur'[y] = cur[y]
      /\ pc'[c] = "idle"
      /\ \A r \in Schedulers : heap'[r] = IF r = q THEN heap[q] \ {p} ELSE heap[r]
      /\ \A t \in Tasks : taskScheduler'[t] = IF t = p THEN None ELSE taskScheduler[t]
      /\ \A t \in Tasks : refs'[t] = IF t = p THEN refs[p] - 1 ELSE refs[t]
      /\ refs' = [refs EXCEPT ![p] = refs[p] - 1]
  BY Constants, ZenonT(30) DEF TypeOK, Delete
<1>2. \A t \in Tasks : t # p => TaskOK(t)'
  <2>1. StepOn(c, p)
    BY <1>1, Constants DEF StepOn
  <2> QED
    BY <2>1, Others, Constants, Zenon
<1>3. \A r \in Schedulers : (Busy(r, p)' <=> Busy(r, p)) /\ pc'[r] = pc[r] /\ cur'[r] = cur[r]
  BY <1>1, Constants, ZenonT(30) DEF Busy
<1>4. InQueue(p)'
  BY <1>0, <1>1, Constants DEF InQueue
<1>5. Alone(p)'
  <2>1. \A r \in Schedulers : ~(cur[r] = p /\ pc[r] \in {"periodic", "add"})
    BY <1>0, Constants, Zenon DEF Alone
  <2>2. \A r \in Schedulers : ~(cur'[r] = p /\ pc'[r] \in {"periodic", "add"})
    BY <1>3, <2>1, Zenon
  <2>3. period[p] # 0 => \A r \in Schedulers : ~Busy(r, p)
    BY <1>0, Constants, Zenon DEF Alone
  <2>4. period'[p] # 0 => \A r \in Schedulers : ~Busy(r, p)'
    BY <1>3, <2>3, Zenon
  <2>5. taskScheduler'[p] = None
    BY <1>1, Zenon
  <2> QED
    BY <2>2, <2>4, <2>5, Zenon DEF Alone
<1>6. Counted(p)' /\ refs[p] - 1 \in Nat
  <2>1. Queued(p)' = {} /\ Queued(p) = {q} /\ Taken(p)' = Taken(p)
    BY <1>0, <1>1, <1>3 DEF Queued, Taken, InQueue
  <2>2. Cardinality({}) = 0 /\ Cardinality({q}) = 1
    BY FS_EmptySet, FS_Singleton, Zenon
  <2>3. refs[p] = Cardinality(Queued(p)) + Cardinality(Taken(p))
    BY <1>0, Zenon DEF Counted
  <2>4. refs[p] = 1 + Cardinality(Taken(p)) /\ Cardinality(Taken(p)) \in Nat
    BY <2>1, <2>2, <2>3, Counts, Zenon
  <2>5. Cardinality(Queued(p)') = 0 /\ Cardinality(Taken(p)') = Cardinality(Taken(p))
    BY <2>1, <2>2, Zenon
  <2> QED
    BY <1>1, <2>4, <2>5 DEF Counted
<1>7. refs' \in [Tasks -> Nat]
  BY <1>1, <1>6, Zenon DEF TypeOK
<1> QED
  BY <1>2, <1>4, <1>5, <1>6, <1>7, Zenon DEF TaskOK

\* A step that leaves the queues and the references as they are.
LEMMA SameHands ==
  ASSUME NEW p \in Tasks, TaskOK(p), UNCHANGED <<heap, taskScheduler, refs>>,
         \A r \in Schedulers : Busy(r, p)' <=> Busy(r, p)
  PROVE  InQueue(p)' /\ Counted(p)'
<1>1. Queued(p)' = Queued(p) /\ Taken(p)' = Taken(p)
  BY Zenon DEF Queued, Taken
<1> QED
  BY <1>1, Zenon DEF TaskOK, InQueue, Counted

\* The task that a caller schedules: it is in no queue and no scheduler will add it.
LEMMA Scheduled ==
  ASSUME TypeOK, \A t \in Tasks : TaskOK(t), NEW c \in Callers, NEW p \in Tasks, NEW d \in Periods,
         pc[c] = "idle", Quiet(p, d), period' = [period EXCEPT ![p] = d],
         UNCHANGED <<heap, taskScheduler, refs>>,
         \A y \in Threads : y # c => pc'[y] = pc[y] /\ cur'[y] = cur[y],
         \/ taskScheduler[p] = None /\ cur'[c] = p
         \/ d # 0 /\ pc'[c] = "idle"
  PROVE  \A t \in Tasks : TaskOK(t)'
<1>1. \A t \in Tasks : t # p => TaskOK(t)'
  <2>1. StepOn(c, p)
    BY Zenon DEF StepOn, TypeOK
  <2> QED
    BY <2>1, Others, Constants, Zenon
<1>2. \A r \in Schedulers : pc'[r] = pc[r] /\ cur'[r] = cur[r]
  BY Constants, Zenon
<1>3. \A r \in Schedulers : (Busy(r, p)' <=> Busy(r, p)) /\ ~(cur'[r] = p /\ pc'[r] \in {"periodic", "add"})
  BY <1>2, Zenon DEF Busy, Quiet
<1>4. InQueue(p)' /\ Counted(p)'
  BY <1>3, SameHands, Zenon
<1>5. Alone(p)'
  <2>1. Alone(p) /\ period'[p] = d
    BY Zenon DEF TaskOK, TypeOK
  <2>2. period'[p] # 0 => \A r \in Schedulers : ~Busy(r, p)
    BY <2>1, Zenon DEF Quiet, Busy
  <2>3. period'[p] # 0 => \A r \in Schedulers : ~Busy(r, p)'
    BY <1>3, <2>2, Zenon
  <2>4. \A x \in Threads : Adding(x, p)' => taskScheduler'[p] = None
    BY <2>1, Zenon DEF Alone, Adding
  <2> QED
    BY <1>3, <2>3, <2>4, Zenon DEF Alone
<1> QED
  BY <1>1, <1>4, <1>5, Zenon DEF TaskOK

\* cancel takes the period from a task.
LEMMA Unscheduled ==
  ASSUME TypeOK, PlaceInv, \A t \in Tasks : TaskOK(t), NEW c \in Callers, SetPeriod(c)
  PROVE  \A t \in Tasks : TaskOK(t)'
<1>0. PICK p \in Tasks : p = cur[c] /\ pc[c] = "setPeriod"
  BY Zenon DEF PlaceInv, CallerAt, SetPeriod
<1>1. /\ \A y \in Threads : y # c => pc'[y] = pc[y] /\ cur'[y] = cur[y]
      /\ pc'[c] = "remove" /\ period' = [period EXCEPT ![p] = 0]
      /\ UNCHANGED <<heap, taskScheduler, refs>>
  BY <1>0, Constants, Zenon DEF SetPeriod, Goto, TypeOK, queueVars
<1>2. \A t \in Tasks : t # p => TaskOK(t)'
  <2>1. StepOn(c, p)
    BY <1>0, <1>1, Zenon DEF StepOn, TypeOK
  <2> QED
    BY <2>1, Others, Constants, Zenon
<1>3. \A r \in Schedulers : (Busy(r, p)' <=> Busy(r, p)) /\ pc'[r] = pc[r] /\ cur'[r] = cur[r]
  BY <1>1, Constants, Zenon DEF Busy
<1>4. InQueue(p)' /\ Counted(p)'
  BY <1>1, <1>3, SameHands, Zenon
<1>5. Alone(p)'
  <2>1. Alone(p) /\ period'[p] = 0
    BY <1>1, Zenon DEF TaskOK, TypeOK
  <2>2. \A x \in Threads : Adding(x, p)' => Adding(x, p)
    BY <1>1, Zenon DEF Adding
  <2>3. \A r \in Callers : Adding(r, p)' => Adding(r, p)
    BY <2>2, Constants, Zenon
  <2>4. \A x \in Threads : Adding(x, p)' => taskScheduler'[p] = None
    BY <1>1, <2>1, <2>2, Zenon DEF Alone
  <2>5. \A r \in Schedulers : cur'[r] = p /\ pc'[r] \in {"periodic", "add"} =>
           /\ taskScheduler'[p] = None
           /\ \A x \in Schedulers : Busy(x, p)' => x = r
           /\ \A x \in Callers : ~Adding(x, p)'
    BY <1>1, <1>3, <2>1, <2>3, Zenon DEF Alone
  <2> QED
    BY <2>1, <2>4, <2>5, Zenon DEF Alone
<1> QED
  BY <1>2, <1>4, <1>5, Zenon DEF TaskOK

\* A task that has a period when it has been executed, and is to be added again then.
LEMMA GoesAgain ==
  ASSUME TypeOK, \A t \in Tasks : TaskOK(t), NEW s \in Schedulers, NEW p \in Tasks, cur[s] = p,
         \/ pc[s] = "run" /\ period[p] # 0 /\ pc'[s] = "periodic"
         \/ pc[s] = "periodic" /\ pc'[s] = "add",
         cur'[s] = p, \A y \in Threads : y # s => pc'[y] = pc[y] /\ cur'[y] = cur[y],
         UNCHANGED <<heap, taskScheduler, refs, period>>
  PROVE  \A t \in Tasks : TaskOK(t)'
<1>1. \A t \in Tasks : t # p => TaskOK(t)'
  <2>1. StepOn(s, p)
    BY Zenon DEF StepOn
  <2> QED
    BY <2>1, Others, Constants, Zenon
<1>2. \A r \in Schedulers : Busy(r, p)' <=> Busy(r, p)
  BY Constants, Zenon DEF Busy
<1>3. InQueue(p)' /\ Counted(p)'
  BY <1>2, SameHands, Zenon
<1>4. \A c \in Callers : Adding(c, p)' <=> Adding(c, p)
  BY Constants, Zenon DEF Adding
<1>5. /\ taskScheduler[p] = None
      /\ \A r \in Schedulers : Busy(r, p) => r = s
      /\ \A c \in Callers : ~Adding(c, p)
  <2>1. Alone(p) /\ Busy(s, p)
    BY Zenon DEF TaskOK, Busy
  <2>2. CASE pc[s] = "periodic"
    BY <2>1, <2>2, Zenon DEF Alone
  <2>3. CASE period[p] # 0
    BY <2>1, <2>3, Zenon DEF Alone
  <2> QED
    BY <2>2, <2>3, Zenon
<1>6. Alone(p)'
  <2>1. /\ taskScheduler'[p] = None
        /\ \A r \in Schedulers : Busy(r, p)' => r = s
        /\ \A c \in Callers : ~Adding(c, p)'
    BY <1>2, <1>4, <1>5, Zenon
  <2>2. \A r \in Schedulers : cur'[r] = p /\ pc'[r] \in {"periodic", "add"} => r = s
    BY <2>1, Zenon DEF Busy
  <2> QED
    BY <2>1, <2>2, Zenon DEF Alone
<1> QED
  BY <1>1, <1>3, <1>6, Zenon DEF TaskOK
--------------------------------------------------------------------------------
(* The steps: types and places. *)

LEMMA ConditionTypes ==
  ASSUME NEW c \in ConditionType(Schedulers), NEW s \in Schedulers
  PROVE  /\ Broadcast(c) \in ConditionType(Schedulers) /\ Sleep(c, s) \in ConditionType(Schedulers)
         /\ TimeOut(c, s) \in ConditionType(Schedulers) /\ Return(c, s) \in ConditionType(Schedulers)
         /\ WaitReturns(c) => ConsumeSignal(c) \in ConditionType(Schedulers)
         /\ Signal(c) \subseteq ConditionType(Schedulers)
<1> USE DEF ConditionType
<1>1. Broadcast(c) \in ConditionType(Schedulers) /\ Sleep(c, s) \in ConditionType(Schedulers)
  BY Zenon DEF Broadcast, Sleep
<1>2. \A v \in Schedulers : TimeOut(c, v) \in ConditionType(Schedulers)
  BY Zenon DEF TimeOut
<1>3. Return(c, s) \in ConditionType(Schedulers)
  BY Zenon DEF Return
<1>4. WaitReturns(c) => ConsumeSignal(c) \in ConditionType(Schedulers)
  BY DEF WaitReturns, ConsumeSignal
<1>5. Signal(c) \subseteq ConditionType(Schedulers)
  <2>1. c.asleep \subseteq Schedulers /\ [c EXCEPT !.signalCount = @ + 1] \in ConditionType(Schedulers)
    OBVIOUS
  <2> HIDE DEF ConditionType
  <2> QED
    BY <1>2, <2>1, Zenon DEF Signal
<1> HIDE DEF ConditionType
<1> QED
  BY <1>1, <1>2, <1>3, <1>4, <1>5, Zenon

LEMMA SchedulerMoves ==
  ASSUME PlaceInv, NEW s \in Schedulers, SchedulerAt(s)',
         \A y \in Threads : y # s => pc'[y] = pc[y] /\ cur'[y] = cur[y] /\ dest'[y] = dest[y],
         \A r \in Schedulers : r # s => waitingForTask'[r] = waitingForTask[r]
  PROVE  PlaceInv'
<1>1. \A r \in Schedulers : r # s => SchedulerAt(r)'
  BY Constants, ZenonT(30) DEF PlaceInv, SchedulerAt
<1>2. \A c \in Callers : CallerAt(c)'
  BY Constants DEF PlaceInv, CallerAt
<1>3. \A r \in Schedulers : SchedulerAt(r)'
  <2> TAKE r \in Schedulers
  <2>1. CASE r = s
    BY <2>1, Zenon
  <2>2. CASE r # s
    BY <1>1, <2>2, Zenon
  <2> QED
    BY <2>1, <2>2, Zenon
<1> QED
  BY <1>2, <1>3, Zenon DEF PlaceInv

LEMMA CallerMoves ==
  ASSUME PlaceInv, NEW c \in Callers, CallerAt(c)',
         \A y \in Threads : y # c => pc'[y] = pc[y] /\ cur'[y] = cur[y] /\ dest'[y] = dest[y],
         UNCHANGED waitingForTask
  PROVE  PlaceInv'
<1>1. \A r \in Callers : r # c => CallerAt(r)'
  BY Constants, ZenonT(30) DEF PlaceInv, CallerAt
<1>2. \A r \in Schedulers : SchedulerAt(r)'
  BY Constants, Zenon DEF PlaceInv, SchedulerAt
<1>3. \A r \in Callers : CallerAt(r)'
  <2> TAKE r \in Callers
  <2>1. CASE r = c
    BY <2>1, Zenon
  <2>2. CASE r # c
    BY <1>1, <2>2, Zenon
  <2> QED
    BY <2>1, <2>2, Zenon
<1> QED
  BY <1>2, <1>3, Zenon DEF PlaceInv

LEMMA TaskInvIs == TaskInv <=> TypeOK /\ PlaceInv /\ \A t \in Tasks : TaskOK(t)
BY Zenon DEF TaskInv, TaskOK

\* A step in which every thread stays where it is.
LEMMA Still ==
  ASSUME TaskInv, TypeOK', UNCHANGED <<pc, cur, dest, waitingForTask, heap, taskScheduler, refs, period>>
  PROVE  TaskInv'
<1>1. \A t \in Tasks : TaskOK(t)'
  BY TaskInvIs, Untouched, Zenon
<1>2. PlaceInv'
  <2>1. PlaceInv
    BY Zenon DEF TaskInv
  <2>2. \A s \in Schedulers : SchedulerAt(s)'
    BY <2>1, Zenon DEF PlaceInv, SchedulerAt
  <2>3. \A c \in Callers : CallerAt(c)'
    BY <2>1, Zenon DEF PlaceInv, CallerAt
  <2> QED
    BY <2>2, <2>3, Zenon DEF PlaceInv
<1> QED
  BY <1>1, <1>2, Zenon DEF TaskInv, TaskOK

\* What no step of a scheduler in run(), but for the task it takes, changes.
InRun(s) ==
    /\ UNCHANGED <<now, time, period, refs, blocked, dest, delay, doRun, cancelled, schedules>>
    /\ cond' \in [Schedulers -> ConditionType(Schedulers)]
    /\ mutex' \in [Schedulers -> Threads \cup {None}]
    /\ changePlan' \in [Schedulers -> BOOLEAN]

\* A step of get() that takes no task: where it goes, what it peeked at, until when it waits,
\* and waitingForTask.
Keeps(s, place, peek, u, w) ==
    /\ pc[s] \notin {"run", "periodic", "add"} /\ InRun(s)
    /\ UNCHANGED <<heap, taskScheduler>>
    /\ pc' = [pc EXCEPT ![s] = place] /\ cur' = [cur EXCEPT ![s] = peek]
    /\ until' = [until EXCEPT ![s] = u] /\ waitingForTask' = [waitingForTask EXCEPT ![s] = w]
    /\ place \in {"get", "top", "wait", "timedWait", "timed", "pause", "done"}
    /\ place \in {"timedWait", "timed"} => peek \in Tasks
    /\ place \in {"wait", "timedWait", "timed"} => w

LEMMA TakesNone ==
  ASSUME TaskInv, NEW s \in Schedulers, NEW place, NEW peek \in Tasks \cup {None}, NEW u \in Nat,
         NEW w \in BOOLEAN, Keeps(s, place, peek, u, w)
  PROVE  TaskInv'
<1>0. TypeOK /\ PlaceInv /\ s \in Threads
  BY Constants, Zenon DEF TaskInv
<1>1. TypeOK'
  BY <1>0, SMTT(20) DEF TypeOK, InRun, Keeps
<1>2. \A y \in Threads : y # s => pc'[y] = pc[y] /\ cur'[y] = cur[y] /\ dest'[y] = dest[y]
  BY <1>0, Zenon DEF TypeOK, InRun, Keeps
<1>3. pc'[s] = place /\ cur'[s] = peek /\ waitingForTask'[s] = w
  BY <1>0, Zenon DEF TypeOK, Keeps
<1>4. SchedulerAt(s)'
  BY <1>3, Zenon DEF SchedulerAt, Keeps
<1>5. \A r \in Schedulers : r # s => waitingForTask'[r] = waitingForTask[r]
  BY <1>0, Zenon DEF TypeOK, Keeps
<1>6. PlaceInv'
  BY <1>0, <1>2, <1>4, <1>5, SchedulerMoves, Zenon
<1>7. StepOn(s, None)
  BY <1>2, <1>3, Zenon DEF StepOn, InRun, Keeps
<1>8. \A t \in Tasks : TaskOK(t)'
  BY <1>0, <1>7, TaskInvIs, NoTask, Zenon
<1> QED
  BY <1>1, <1>6, <1>8, Zenon DEF TaskInv, TaskOK

\* A step of get() that takes the first task.
LEMMA TakesFirst ==
  ASSUME TaskInv, NEW s \in Schedulers, pc[s] \notin {"run", "periodic", "add"}, InRun(s), heap[s] # {}, Poll(s)
  PROVE  TaskInv'
<1>0. TypeOK /\ PlaceInv /\ s \in Threads
  BY Constants, Zenon DEF TaskInv
<1>1. PICK p : p = Peak(s)
  BY Zenon
<1>2. p \in heap[s] /\ p \in Tasks
  BY <1>0, <1>1, PeakIn, Zenon DEF TypeOK
<1>3. /\ heap' = [heap EXCEPT ![s] = heap[s] \ {p}]
      /\ taskScheduler' = [taskScheduler EXCEPT ![p] = None]
      /\ cur' = [cur EXCEPT ![s] = p]
      /\ waitingForTask' = [waitingForTask EXCEPT ![s] = FALSE]
      /\ until' = [until EXCEPT ![s] = 0] /\ pc' = [pc EXCEPT ![s] = "run"]
  BY <1>1, Zenon DEF Poll, Goto
<1>4. TypeOK'
  BY <1>0, <1>2, <1>3, SMTT(20) DEF TypeOK, InRun
<1>5. \A y \in Threads : y # s => pc'[y] = pc[y] /\ cur'[y] = cur[y] /\ dest'[y] = dest[y]
  BY <1>0, <1>3, Zenon DEF TypeOK, InRun
<1>6. SchedulerAt(s)'
  BY <1>0, <1>2, <1>3, Zenon DEF SchedulerAt, TypeOK
<1>7. \A r \in Schedulers : r # s => waitingForTask'[r] = waitingForTask[r]
  BY <1>0, <1>3, Zenon DEF TypeOK
<1>8. PlaceInv'
  BY <1>0, <1>5, <1>6, <1>7, SchedulerMoves, Zenon
<1>9. \A t \in Tasks : TaskOK(t)'
  BY <1>0, <1>2, <1>3, TaskInvIs, Polled, Zenon DEF InRun
<1> QED
  BY <1>4, <1>8, <1>9, Zenon DEF TaskInv, TaskOK

LEMMA GetTopTaskInv ==
  ASSUME TaskInv, NEW s \in Schedulers, GetTop(s)
  PROVE  TaskInv'
<1>0. /\ TypeOK /\ cond[s] \in ConditionType(Schedulers) /\ cond \in [Schedulers -> ConditionType(Schedulers)]
      /\ pc[s] \notin {"run", "periodic", "add"} /\ changePlan' \in [Schedulers -> BOOLEAN]
      /\ mutex \in [Schedulers -> Threads \cup {None}] /\ s \in Threads
  BY Constants, Zenon DEF TaskInv, TypeOK, GetTop
<1>1. ASSUME cond' \in [Schedulers -> ConditionType(Schedulers)], mutex' \in [Schedulers -> Threads \cup {None}]
      PROVE  InRun(s)
  BY <1>0, <1>1, Zenon DEF InRun, GetTop, restVars
<1>2. ASSUME ReturnNull(s), cond' \in [Schedulers -> ConditionType(Schedulers)]
      PROVE  TaskInv'
  <2>1. InRun(s)
    BY <1>0, <1>1, <1>2, Zenon DEF ReturnNull, Unlock
  <2>2. Keeps(s, "pause", None, 0, TRUE)
    BY <1>0, <1>2, <2>1, Zenon DEF Keeps, ReturnNull, Goto
  <2> QED
    BY <2>2, TakesNone, Zenon
<1>3. CASE heap[s] = {} /\ blocked[s] /\ ReturnNull(s) /\ UNCHANGED cond
  BY <1>0, <1>2, <1>3, Zenon
<1>4. CASE heap[s] = {} /\ ~blocked[s] /\ WaitReturns(cond[s]) /\ ReturnNull(s)
           /\ cond' = [cond EXCEPT ![s] = ConsumeSignal(@)]
  <2>1. ConsumeSignal(cond[s]) \in ConditionType(Schedulers)
    BY <1>0, <1>4, ConditionTypes, Zenon
  <2>2. cond' \in [Schedulers -> ConditionType(Schedulers)]
    BY <1>0, <1>4, <2>1, Zenon
  <2> QED
    BY <1>2, <1>4, <2>2, Zenon
<1>5. CASE heap[s] = {} /\ ~blocked[s] /\ ~WaitReturns(cond[s]) /\ Wait(s, "wait") /\ UNCHANGED <<cur, until>>
  <2>1. Sleep(cond[s], s) \in ConditionType(Schedulers)
    BY <1>0, ConditionTypes, Zenon
  <2>2. InRun(s)
    BY <1>0, <1>1, <1>5, <2>1, Zenon DEF Wait, Unlock
  <2>3. /\ cur' = [cur EXCEPT ![s] = cur[s]] /\ cur[s] \in Tasks \cup {None}
        /\ until' = [until EXCEPT ![s] = until[s]] /\ until[s] \in Nat
    BY <1>0, <1>5, Zenon DEF TypeOK
  <2>4. Keeps(s, "wait", cur[s], until[s], TRUE)
    BY <1>0, <1>5, <2>2, <2>3, Zenon DEF Keeps, Wait, Goto
  <2> QED
    BY <2>3, <2>4, TakesNone, Zenon
<1>6. CASE heap[s] # {} /\ Poll(s) /\ UNCHANGED cond
  <2>1. InRun(s)
    BY <1>0, <1>1, <1>6, Zenon DEF Poll, Unlock
  <2> QED
    BY <1>0, <1>6, <2>1, TakesFirst, Zenon
<1>7. CASE heap[s] # {} /\ ~blocked[s] /\ time[Peak(s)] > now /\ Plan(s)
  <2>1. PICK p \in Tasks, u \in Nat : p = Peak(s) /\ u = time[Peak(s)]
    BY <1>0, <1>7, PeakIn, Zenon DEF TypeOK
  <2>2. cur' = [cur EXCEPT ![s] = p] /\ until' = [until EXCEPT ![s] = u]
    BY <1>7, <2>1, Zenon DEF Plan
  <2>3. CASE WaitReturns(cond[s])
    <3>1. /\ cond' = [cond EXCEPT ![s] = ConsumeSignal(cond[s])] /\ mutex' = [mutex EXCEPT ![s] = s]
          /\ pc' = [pc EXCEPT ![s] = "timed"]
          /\ waitingForTask' = [waitingForTask EXCEPT ![s] = TRUE]
          /\ UNCHANGED <<heap, taskScheduler>>
      BY <1>7, <2>3, Zenon DEF Plan, Goto
    <3>2. ConsumeSignal(cond[s]) \in ConditionType(Schedulers)
      BY <1>0, <2>3, ConditionTypes, Zenon
    <3>3. InRun(s)
      BY <1>0, <1>1, <3>1, <3>2, Zenon
    <3>4. Keeps(s, "timed", p, u, TRUE)
      BY <1>0, <2>2, <3>1, <3>3, Zenon DEF Keeps
    <3> QED
      BY <3>4, TakesNone, Zenon
  <2>4. CASE ~WaitReturns(cond[s])
    <3>1. /\ cond' = [cond EXCEPT ![s] = Sleep(cond[s], s)] /\ mutex' = [mutex EXCEPT ![s] = None]
          /\ pc' = [pc EXCEPT ![s] = "timedWait"]
          /\ waitingForTask' = [waitingForTask EXCEPT ![s] = TRUE]
          /\ UNCHANGED <<heap, taskScheduler>>
      BY <1>7, <2>4, Zenon DEF Plan, Wait, Unlock, Goto
    <3>2. Sleep(cond[s], s) \in ConditionType(Schedulers)
      BY <1>0, ConditionTypes, Zenon
    <3>3. InRun(s)
      BY <1>0, <1>1, <3>1, <3>2, Zenon
    <3>4. Keeps(s, "timedWait", p, u, TRUE)
      BY <1>0, <2>2, <3>1, <3>3, Zenon DEF Keeps
    <3> QED
      BY <3>4, TakesNone, Zenon
  <2> QED
    BY <2>3, <2>4, Zenon
<1> QED
  BY <1>3, <1>4, <1>5, <1>6, <1>7, Zenon DEF GetTop

LEMMA WaitReturnTaskInv ==
  ASSUME TaskInv, NEW s \in Schedulers, WaitReturn(s)
  PROVE  TaskInv'
<1>0. /\ TypeOK /\ cond[s] \in ConditionType(Schedulers) /\ cond \in [Schedulers -> ConditionType(Schedulers)]
      /\ pc[s] \notin {"run", "periodic", "add"} /\ changePlan' \in [Schedulers -> BOOLEAN]
      /\ mutex \in [Schedulers -> Threads \cup {None}] /\ s \in Threads
      /\ waitingForTask[s] /\ waitingForTask \in [Schedulers -> BOOLEAN]
  BY Constants, Zenon DEF TaskInv, TypeOK, WaitReturn, PlaceInv, SchedulerAt
<1>1. Return(cond[s], s) \in ConditionType(Schedulers) /\ Sleep(Return(cond[s], s), s) \in ConditionType(Schedulers)
  BY <1>0, ConditionTypes, Zenon
<1>2. /\ cond' \in [Schedulers -> ConditionType(Schedulers)]
      /\ mutex' \in [Schedulers -> Threads \cup {None}]
  BY <1>0, <1>1 DEF WaitReturn, ReturnNull, Poll, Unlock
<1>3. InRun(s)
  BY <1>0, <1>2, Zenon DEF InRun, WaitReturn, restVars
<1>4. CASE ReturnNull(s)
  <2>1. Keeps(s, "pause", None, 0, TRUE)
    BY <1>0, <1>3, <1>4, Zenon DEF Keeps, ReturnNull, Goto
  <2> QED
    BY <2>1, TakesNone, Zenon
<1>5. CASE heap[s] # {} /\ Poll(s)
  BY <1>0, <1>3, <1>5, TakesFirst, Zenon
<1>6. CASE /\ heap[s] # {} /\ Goto(s, "timedWait")
           /\ cur' = [cur EXCEPT ![s] = Peak(s)]
           /\ until' = [until EXCEPT ![s] = time[Peak(s)]]
           /\ UNCHANGED <<heap, taskScheduler, waitingForTask>>
  <2>1. PICK p \in Tasks, u \in Nat : p = Peak(s) /\ u = time[Peak(s)]
    BY <1>0, <1>6, PeakIn, Zenon DEF TypeOK
  <2>2. /\ cur' = [cur EXCEPT ![s] = p] /\ until' = [until EXCEPT ![s] = u]
        /\ waitingForTask' = [waitingForTask EXCEPT ![s] = TRUE]
        /\ pc' = [pc EXCEPT ![s] = "timedWait"]
        /\ UNCHANGED <<heap, taskScheduler>>
    BY <1>0, <1>6, <2>1, Zenon DEF Goto
  <2>3. Keeps(s, "timedWait", p, u, TRUE)
    BY <1>0, <1>3, <2>2, Zenon DEF Keeps
  <2> QED
    BY <2>3, TakesNone, Zenon
<1> QED
  BY <1>4, <1>5, <1>6, Zenon DEF WaitReturn

LEMMA TimedWaitReturnTaskInv ==
  ASSUME TaskInv, PeekStands, NEW s \in Schedulers, TimedWaitReturn(s)
  PROVE  TaskInv'
<1>0. /\ TypeOK /\ cond[s] \in ConditionType(Schedulers) /\ cond \in [Schedulers -> ConditionType(Schedulers)]
      /\ pc[s] \in {"timedWait", "timed"} /\ changePlan \in [Schedulers -> BOOLEAN]
      /\ mutex \in [Schedulers -> Threads \cup {None}] /\ s \in Threads
      /\ waitingForTask[s] /\ waitingForTask \in [Schedulers -> BOOLEAN]
  BY Constants, Zenon DEF TaskInv, TypeOK, TimedWaitReturn, PlaceInv, SchedulerAt
<1>1. Return(cond[s], s) \in ConditionType(Schedulers)
  BY <1>0, ConditionTypes, Zenon
<1>2. /\ cond' \in [Schedulers -> ConditionType(Schedulers)]
      /\ changePlan' \in [Schedulers -> BOOLEAN]
      /\ mutex' \in [Schedulers -> Threads \cup {None}]
  BY <1>0, <1>1, ZenonT(30) DEF TimedWaitReturn, ReturnNull, Poll, Unlock
<1>3. InRun(s)
  BY <1>0, <1>2, Zenon DEF InRun, TimedWaitReturn, restVars
<1>4. CASE ReturnNull(s)
  <2>1. Keeps(s, "pause", None, 0, TRUE)
    BY <1>0, <1>3, <1>4, Zenon DEF Keeps, ReturnNull, Goto
  <2> QED
    BY <2>1, TakesNone, Zenon
<1>5. CASE ~changePlan[s] /\ Poll(s)
  <2>1. heap[s] # {}
    BY <1>0, <1>5, Zenon DEF PeekStands
  <2> QED
    BY <1>0, <1>3, <1>5, <2>1, TakesFirst, Zenon
<1>6. CASE /\ Goto(s, "top") /\ cur' = [cur EXCEPT ![s] = None]
           /\ until' = [until EXCEPT ![s] = 0] /\ UNCHANGED <<heap, taskScheduler, waitingForTask>>
  <2>1. /\ cur' = [cur EXCEPT ![s] = None] /\ until' = [until EXCEPT ![s] = 0]
        /\ waitingForTask' = [waitingForTask EXCEPT ![s] = TRUE]
        /\ pc' = [pc EXCEPT ![s] = "top"]
        /\ UNCHANGED <<heap, taskScheduler>>
    BY <1>0, <1>6, Zenon DEF Goto
  <2>2. Keeps(s, "top", None, 0, TRUE)
    BY <1>0, <1>3, <2>1, Zenon DEF Keeps
  <2> QED
    BY <2>2, TakesNone, Zenon
<1> QED
  BY <1>4, <1>5, <1>6, Zenon DEF TimedWaitReturn

\* The steps in which the threads stay where they are, and the pause between two calls of get().
LEMMA QuietTaskInv ==
  ASSUME TaskInv, NEW s \in Schedulers,
         Tick \/ Expire(s) \/ Stop(s) \/ Wake(s) \/ Resume(s) \/ EndRun(s)
  PROVE  TaskInv'
<1>0. /\ TypeOK /\ cond[s] \in ConditionType(Schedulers) /\ cond \in [Schedulers -> ConditionType(Schedulers)]
      /\ s \in Threads
  BY Constants, Zenon DEF TaskInv, TypeOK
<1>1. /\ TimeOut(cond[s], s) \in ConditionType(Schedulers) /\ Broadcast(cond[s]) \in ConditionType(Schedulers)
      /\ Signal(cond[s]) \subseteq ConditionType(Schedulers)
  BY <1>0, ConditionTypes, Zenon
<1>2. CASE Tick
  <2>1. TypeOK'
    BY <1>0, <1>2, SMTT(20) DEF TypeOK, Tick, taskVars, queueVars, threadVars, restVars
  <2> QED
    BY <1>2, <2>1, Still, Zenon DEF Tick, taskVars, queueVars, threadVars, restVars
<1>3. CASE Expire(s)
  <2>1. cond' \in [Schedulers -> ConditionType(Schedulers)]
    BY <1>0, <1>1, <1>3, Zenon DEF Expire
  <2>2. TypeOK'
    BY <1>0, <1>3, <2>1, SMTT(20) DEF TypeOK, Expire, taskVars, threadVars, restVars
  <2> QED
    BY <1>3, <2>2, Still, Zenon DEF Expire, taskVars, threadVars, restVars
<1>4. CASE Stop(s)
  <2>1. cond' \in [Schedulers -> ConditionType(Schedulers)]
    BY <1>0, <1>1, <1>4, Zenon DEF Stop
  <2>2. TypeOK'
    BY <1>0, <1>4, <2>1, SMTT(20) DEF TypeOK, Stop, taskVars, threadVars
  <2> QED
    BY <1>4, <2>2, Still, Zenon DEF Stop, taskVars, threadVars
<1>5. CASE Wake(s)
  <2>1. cond' \in [Schedulers -> ConditionType(Schedulers)]
    BY <1>0, <1>1, <1>5, Zenon DEF Wake
  <2>2. TypeOK'
    BY <1>0, <1>5, <2>1, SMTT(20) DEF TypeOK, Wake, taskVars, threadVars, restVars
  <2> QED
    BY <1>5, <2>2, Still, Zenon DEF Wake, taskVars, threadVars, restVars
<1>6. CASE Resume(s) \/ EndRun(s)
  <2>1. PICK place \in {"get", "done"} : pc' = [pc EXCEPT ![s] = place]
    BY <1>6, Zenon DEF Resume, EndRun, Goto
  <2>2. /\ cur' = [cur EXCEPT ![s] = cur[s]] /\ cur[s] \in Tasks \cup {None}
        /\ until' = [until EXCEPT ![s] = until[s]] /\ until[s] \in Nat
        /\ waitingForTask' = [waitingForTask EXCEPT ![s] = waitingForTask[s]] /\ waitingForTask[s] \in BOOLEAN
    BY <1>0, <1>6, Zenon DEF TypeOK, Resume, EndRun, queueVars
  <2>3. pc[s] \notin {"run", "periodic", "add"} /\ UNCHANGED <<heap, taskScheduler>>
    BY <1>6, Zenon DEF Resume, EndRun, taskVars, queueVars
  <2>4. InRun(s)
    BY <1>0, <1>6, Zenon DEF InRun, TypeOK, Resume, EndRun, taskVars, queueVars, restVars
  <2>5. Keeps(s, place, cur[s], until[s], waitingForTask[s])
    BY <2>1, <2>2, <2>3, <2>4, Zenon DEF Keeps
  <2> QED
    BY <2>2, <2>5, TakesNone, Zenon
<1> QED
  BY <1>2, <1>3, <1>4, <1>5, <1>6, Zenon

LEMMA RunTaskInv ==
  ASSUME TaskInv, NEW s \in Schedulers, Run(s) \/ SchedulePeriod(s)
  PROVE  TaskInv'
<1>0. TypeOK /\ PlaceInv /\ s \in Threads /\ \A t \in Tasks : TaskOK(t)
  BY Constants, TaskInvIs, Zenon
<1>1. PICK p \in Tasks : p = cur[s] /\ pc[s] \in {"run", "periodic"}
  BY <1>0, Zenon DEF PlaceInv, SchedulerAt, Run, SchedulePeriod
<1>2. /\ UNCHANGED <<now, time, period, taskScheduler, until, doRun, cancelled, schedules>>
      /\ UNCHANGED <<heap, cond, mutex, blocked, waitingForTask, changePlan>>
  BY Zenon DEF Run, SchedulePeriod, queueVars, restVars
<1>3. CASE Release(s) /\ UNCHANGED <<dest, delay>>
  <2>1. refs' \in [Tasks -> Nat] /\ \A t \in Tasks : TaskOK(t)'
    BY <1>0, <1>1, <1>2, <1>3, RoundEnds, Zenon
  <2>2. pc' = [pc EXCEPT ![s] = "get"] /\ cur' = [cur EXCEPT ![s] = None]
    BY <1>3, Zenon DEF Release, Goto
  <2>3. TypeOK'
    BY <1>0, <1>2, <1>3, <2>1, <2>2, SMTT(20) DEF TypeOK
  <2>4. PlaceInv'
    <3>1. SchedulerAt(s)'
      BY <1>0, <2>2, Zenon DEF SchedulerAt, TypeOK
    <3>2. \A y \in Threads : y # s => pc'[y] = pc[y] /\ cur'[y] = cur[y] /\ dest'[y] = dest[y]
      BY <1>0, <1>3, <2>2, Zenon DEF TypeOK
    <3> QED
      BY <1>0, <1>2, <3>1, <3>2, SchedulerMoves, Zenon
  <2> QED
    BY <2>1, <2>3, <2>4, Zenon DEF TaskInv, TaskOK
<1>4. ASSUME NEW place \in {"periodic", "add"}, pc' = [pc EXCEPT ![s] = place],
             cur' = [cur EXCEPT ![s] = p], refs' = refs,
             dest' \in [Threads -> Schedulers \cup {None}], delay' \in [Threads -> Nat],
             \A y \in Threads : y # s => dest'[y] = dest[y],
             place = "add" => dest'[s] \in Schedulers,
             \/ pc[s] = "run" /\ period[p] # 0 /\ place = "periodic"
             \/ pc[s] = "periodic" /\ place = "add"
      PROVE  TaskInv'
  <2>1. TypeOK'
    BY <1>0, <1>2, <1>4, SMTT(20) DEF TypeOK
  <2>2. pc'[s] = place /\ cur'[s] = p
    BY <1>0, <1>4, Zenon DEF TypeOK
  <2>3. \A y \in Threads : y # s => pc'[y] = pc[y] /\ cur'[y] = cur[y] /\ dest'[y] = dest[y]
    BY <1>0, <1>4, Zenon DEF TypeOK
  <2>4. SchedulerAt(s)'
    BY <1>4, <2>2, Zenon DEF SchedulerAt
  <2>5. PlaceInv'
    BY <1>0, <1>2, <2>3, <2>4, SchedulerMoves, Zenon
  <2>6. \A t \in Tasks : TaskOK(t)'
    BY <1>0, <1>1, <1>2, <1>4, <2>2, <2>3, GoesAgain, Zenon
  <2> QED
    BY <2>1, <2>5, <2>6, Zenon DEF TaskInv, TaskOK
<1>5. CASE pc[s] = "run" /\ period[cur[s]] # 0 /\ Goto(s, "periodic") /\ UNCHANGED <<refs, cur, dest, delay>>
  <2>1. cur' = [cur EXCEPT ![s] = p] /\ pc' = [pc EXCEPT ![s] = "periodic"]
    BY <1>0, <1>1, <1>5, Zenon DEF TypeOK, Goto
  <2>2. dest' \in [Threads -> Schedulers \cup {None}] /\ delay' \in [Threads -> Nat]
    BY <1>0, <1>5, Zenon DEF TypeOK
  <2> QED
    BY <1>1, <1>4, <1>5, <2>1, <2>2, Zenon
<1>6. CASE pc[s] = "periodic" /\ Choose(s, cur[s], period[cur[s]]) /\ UNCHANGED refs
  <2>1. PICK q \in Schedulers :
          /\ dest' = [dest EXCEPT ![s] = q] /\ delay' = [delay EXCEPT ![s] = period[p]]
          /\ cur' = [cur EXCEPT ![s] = p] /\ pc' = [pc EXCEPT ![s] = "add"]
    BY <1>1, <1>6, Zenon DEF Choose, Goto
  <2>2. /\ dest' \in [Threads -> Schedulers \cup {None}] /\ delay' \in [Threads -> Nat]
        /\ dest'[s] = q /\ \A y \in Threads : y # s => dest'[y] = dest[y]
    BY <1>0, <2>1, Zenon DEF TypeOK
  <2> QED
    BY <1>4, <1>6, <2>1, <2>2, Zenon
<1>7. CASE Run(s)
  <2>1. \/ Release(s) /\ UNCHANGED <<dest, delay>>
        \/ pc[s] = "run" /\ period[cur[s]] # 0 /\ Goto(s, "periodic") /\ UNCHANGED <<refs, cur, dest, delay>>
    BY <1>7, Zenon DEF Run
  <2> QED
    BY <1>3, <1>5, <2>1, Zenon
<1>8. CASE SchedulePeriod(s)
  <2>1. \/ Release(s) /\ UNCHANGED <<dest, delay>>
        \/ pc[s] = "periodic" /\ Choose(s, cur[s], period[cur[s]]) /\ UNCHANGED refs
    BY <1>8, Zenon DEF SchedulePeriod
  <2> QED
    BY <1>3, <1>6, <2>1, Zenon
<1> QED
  BY <1>7, <1>8, Zenon

\* add between lock and unlock.
LEMMA InsertTypes ==
  ASSUME TypeOK, NEW q \in Schedulers, NEW t \in Tasks, NEW d \in Nat, Insert(q, t, d)
  PROVE  /\ time' \in [Tasks -> Nat] /\ heap' \in [Schedulers -> SUBSET Tasks]
         /\ taskScheduler' \in [Tasks -> Schedulers \cup {None}]
         /\ cond' \in [Schedulers -> ConditionType(Schedulers)] /\ changePlan' \in [Schedulers -> BOOLEAN]
<1>0. cond[q] \in ConditionType(Schedulers) /\ Signal(cond[q]) \subseteq ConditionType(Schedulers)
  BY ConditionTypes, Zenon DEF TypeOK
<1>1. time' \in [Tasks -> Nat]
  BY DEF Insert, TypeOK
<1>2. heap' \in [Schedulers -> SUBSET Tasks] /\ taskScheduler' \in [Tasks -> Schedulers \cup {None}]
  <2>1. \/ UNCHANGED <<heap, taskScheduler>>
        \/ /\ heap' = [heap EXCEPT ![q] = heap[q] \cup {t}]
           /\ taskScheduler' = [taskScheduler EXCEPT ![t] = q]
    BY Zenon DEF Insert
  <2>2. heap \in [Schedulers -> SUBSET Tasks] /\ taskScheduler \in [Tasks -> Schedulers \cup {None}]
    BY Zenon DEF TypeOK
  <2> QED
    BY <2>1, <2>2
<1>3. cond' \in [Schedulers -> ConditionType(Schedulers)] /\ changePlan' \in [Schedulers -> BOOLEAN]
  <2>1. \/ UNCHANGED <<cond, changePlan>>
        \/ /\ changePlan' = [changePlan EXCEPT ![q] = TRUE]
           /\ \E c \in Signal(cond[q]) : cond' = [cond EXCEPT ![q] = c]
    BY Zenon DEF Insert, Replan
  <2> QED
    BY <1>0, <2>1, Zenon DEF TypeOK
<1> QED
  BY <1>1, <1>2, <1>3, Zenon

LEMMA AddAgainTaskInv ==
  ASSUME TaskInv, NEW s \in Schedulers, AddAgain(s)
  PROVE  TaskInv'
<1>0. TypeOK /\ PlaceInv /\ s \in Threads /\ \A t \in Tasks : TaskOK(t)
  BY Constants, TaskInvIs, Zenon
<1>1. dest[s] \in Schedulers /\ cur[s] \in Tasks /\ delay[s] \in Nat
  BY <1>0, Zenon DEF PlaceInv, SchedulerAt, AddAgain, TypeOK
<1>2. refs' \in [Tasks -> Nat] /\ \A t \in Tasks : TaskOK(t)'
  BY <1>0, AddedAgain, Zenon
<1>3. /\ time' \in [Tasks -> Nat] /\ heap' \in [Schedulers -> SUBSET Tasks]
      /\ taskScheduler' \in [Tasks -> Schedulers \cup {None}]
      /\ cond' \in [Schedulers -> ConditionType(Schedulers)] /\ changePlan' \in [Schedulers -> BOOLEAN]
  BY <1>0, <1>1, InsertTypes, Zenon DEF AddAgain
<1>4. /\ cur' = [cur EXCEPT ![s] = None] /\ dest' = [dest EXCEPT ![s] = None]
      /\ delay' = [delay EXCEPT ![s] = 0] /\ pc' = [pc EXCEPT ![s] = "get"]
      /\ UNCHANGED <<now, period, mutex, blocked, waitingForTask, until, doRun, cancelled, schedules>>
  BY Zenon DEF AddAgain, Goto, restVars
<1>5. TypeOK'
  BY <1>0, <1>2, <1>3, <1>4, SMTT(20) DEF TypeOK
<1>6. PlaceInv'
  <2>1. SchedulerAt(s)'
    BY <1>0, <1>4, Zenon DEF SchedulerAt, TypeOK
  <2>2. \A y \in Threads : y # s => pc'[y] = pc[y] /\ cur'[y] = cur[y] /\ dest'[y] = dest[y]
    BY <1>0, <1>4, Zenon DEF TypeOK
  <2> QED
    BY <1>0, <1>4, <2>1, <2>2, SchedulerMoves, Zenon
<1> QED
  BY <1>2, <1>5, <1>6, Zenon DEF TaskInv, TaskOK

LEMMA AddTaskInv ==
  ASSUME TaskInv, NEW c \in Callers, Add(c)
  PROVE  TaskInv'
<1>0. TypeOK /\ PlaceInv /\ c \in Threads /\ \A t \in Tasks : TaskOK(t)
  BY Constants, TaskInvIs, Zenon
<1>1. dest[c] \in Schedulers /\ cur[c] \in Tasks /\ delay[c] \in Nat
  BY <1>0, Zenon DEF PlaceInv, CallerAt, Add, TypeOK
<1>2. refs' \in [Tasks -> Nat] /\ \A t \in Tasks : TaskOK(t)'
  BY <1>0, Added, Zenon
<1>3. /\ time' \in [Tasks -> Nat] /\ heap' \in [Schedulers -> SUBSET Tasks]
      /\ taskScheduler' \in [Tasks -> Schedulers \cup {None}]
      /\ cond' \in [Schedulers -> ConditionType(Schedulers)] /\ changePlan' \in [Schedulers -> BOOLEAN]
  BY <1>0, <1>1, InsertTypes, Zenon DEF Add
<1>4. /\ cur' = [cur EXCEPT ![c] = None] /\ dest' = [dest EXCEPT ![c] = None]
      /\ delay' = [delay EXCEPT ![c] = 0] /\ pc' = [pc EXCEPT ![c] = "idle"]
      /\ UNCHANGED <<now, period, mutex, blocked, waitingForTask, until, doRun, cancelled, schedules>>
  BY Zenon DEF Add, Goto, restVars
<1>5. TypeOK'
  BY <1>0, <1>2, <1>3, <1>4, SMTT(20) DEF TypeOK
<1>6. PlaceInv'
  <2>1. CallerAt(c)'
    BY <1>0, <1>4, Zenon DEF CallerAt, TypeOK
  <2>2. \A y \in Threads : y # c => pc'[y] = pc[y] /\ cur'[y] = cur[y] /\ dest'[y] = dest[y]
    BY <1>0, <1>4, Zenon DEF TypeOK
  <2> QED
    BY <1>0, <1>4, <2>1, <2>2, CallerMoves, Zenon
<1> QED
  BY <1>2, <1>5, <1>6, Zenon DEF TaskInv, TaskOK

LEMMA ScheduleTaskInv ==
  ASSUME TaskInv, NEW c \in Callers, NEW t \in Tasks, NEW p \in Periods,
         (\E d \in Delays : Schedule(c, t, d, p)) \/ ScheduleRefused(c, t, p)
  PROVE  TaskInv'
<1>0. TypeOK /\ PlaceInv /\ c \in Threads /\ (\A x \in Tasks : TaskOK(x)) /\ p \in Nat
  BY Constants, TaskInvIs, TimedTasksAssumption, Zenon
<1>1. /\ pc[c] = "idle" /\ Owner[t] = c /\ Quiet(t, p)
      /\ period' = [period EXCEPT ![t] = p]
      /\ UNCHANGED <<now, time, taskScheduler, refs, heap, cond, mutex, blocked, waitingForTask, changePlan, until, doRun>>
  BY Zenon DEF Schedule, ScheduleRefused, queueVars, threadVars
<1>2. period' \in [Tasks -> Nat] /\ schedules' \in 0..MaxSchedules /\ cancelled' \in [Tasks -> BOOLEAN]
  <2>1. MaxSchedules \in Nat /\ schedules \in 0..MaxSchedules /\ cancelled \in [Tasks -> BOOLEAN] /\ period \in [Tasks -> Nat]
    BY <1>0, TimedTasksAssumption, Zenon DEF TypeOK
  <2>2. schedules < MaxSchedules /\ schedules' = schedules + 1
    BY Zenon DEF Schedule, ScheduleRefused
  <2>3. cancelled' \in [Tasks -> BOOLEAN]
    BY <2>1, Zenon DEF Schedule, ScheduleRefused
  <2> QED
    BY <1>0, <1>1, <2>1, <2>2, <2>3
<1>3. ASSUME NEW d \in Delays, taskScheduler[t] = None, Choose(c, t, d) PROVE TaskInv'
  <2>1. PICK q \in Schedulers :
          /\ dest' = [dest EXCEPT ![c] = q] /\ delay' = [delay EXCEPT ![c] = d]
          /\ cur' = [cur EXCEPT ![c] = t] /\ pc' = [pc EXCEPT ![c] = "add"]
    BY <1>3, Zenon DEF Choose, Goto
  <2>2. TypeOK'
    <3>1. d \in Nat
      BY TimedTasksAssumption, Zenon
    <3> QED
      BY <1>0, <1>1, <1>2, <2>1, <3>1, SMTT(20) DEF TypeOK
  <2>3. /\ \A y \in Threads : y # c => pc'[y] = pc[y] /\ cur'[y] = cur[y] /\ dest'[y] = dest[y]
        /\ pc'[c] = "add" /\ cur'[c] = t /\ dest'[c] = q
    BY <1>0, <2>1, Zenon DEF TypeOK
  <2>4. CallerAt(c)'
    BY <1>1, <2>3, Zenon DEF CallerAt
  <2>5. PlaceInv'
    BY <1>0, <1>1, <2>3, <2>4, CallerMoves, Zenon
  <2>6. \A x \in Tasks : TaskOK(x)'
    BY <1>0, <1>1, <1>3, <2>3, Scheduled, Zenon
  <2> QED
    BY <2>2, <2>5, <2>6, Zenon DEF TaskInv, TaskOK
<1>4. CASE p # 0 /\ UNCHANGED <<pc, cur, dest, delay>>
  <2>1. TypeOK'
    BY <1>0, <1>1, <1>2, <1>4, SMTT(20) DEF TypeOK
  <2>2. CallerAt(c)'
    BY <1>0, <1>4, Zenon DEF CallerAt, PlaceInv
  <2>3. PlaceInv'
    BY <1>0, <1>1, <1>4, <2>2, CallerMoves, Zenon
  <2>4. pc'[c] = "idle" /\ \A y \in Threads : y # c => pc'[y] = pc[y] /\ cur'[y] = cur[y]
    BY <1>1, <1>4, Zenon
  <2>5. \A x \in Tasks : TaskOK(x)'
    BY <1>0, <1>1, <1>4, <2>4, Scheduled, Zenon
  <2> QED
    BY <2>1, <2>3, <2>5, Zenon DEF TaskInv, TaskOK
<1> QED
  BY <1>3, <1>4, Zenon DEF Schedule, ScheduleRefused, threadVars

LEMMA SetPeriodTaskInv ==
  ASSUME TaskInv, NEW c \in Callers, SetPeriod(c)
  PROVE  TaskInv'
<1>0. TypeOK /\ PlaceInv /\ c \in Threads /\ (\A x \in Tasks : TaskOK(x)) /\ pc[c] = "setPeriod"
  BY Constants, TaskInvIs, Zenon DEF SetPeriod
<1>1. /\ pc' = [pc EXCEPT ![c] = "remove"] /\ period' = [period EXCEPT ![cur[c]] = 0]
      /\ UNCHANGED <<now, time, taskScheduler, refs, cur, until, dest, delay, doRun, cancelled, schedules>>
      /\ UNCHANGED <<heap, cond, mutex, blocked, waitingForTask, changePlan>>
  BY Zenon DEF SetPeriod, Goto, queueVars, restVars
<1>2. TypeOK'
  <2>1. period' \in [Tasks -> Nat] /\ pc' \in [Threads -> {"get", "top", "wait", "timedWait", "timed", "pause", "run", "periodic",
                           "add", "done", "idle", "cancel", "setPeriod", "remove"}]
    BY <1>0, <1>1, Zenon DEF TypeOK
  <2> QED
    BY <1>0, <1>1, <2>1, SMTT(20) DEF TypeOK
<1>3. /\ \A y \in Threads : y # c => pc'[y] = pc[y] /\ cur'[y] = cur[y] /\ dest'[y] = dest[y]
      /\ pc'[c] = "remove" /\ cur'[c] = cur[c] /\ dest'[c] = dest[c]
  BY <1>0, <1>1, Zenon DEF TypeOK
<1>4. CallerAt(c)'
  BY <1>0, <1>3, Zenon DEF PlaceInv, CallerAt
<1>5. PlaceInv'
  BY <1>0, <1>1, <1>3, <1>4, CallerMoves, Zenon
<1>6. \A x \in Tasks : TaskOK(x)'
  BY <1>0, Unscheduled, Zenon
<1> QED
  BY <1>2, <1>5, <1>6, Zenon DEF TaskInv, TaskOK

\* A step of cancel that takes no task out of a queue: where it goes, for which task and queue.
CancelStep(c, place, t, q) ==
    /\ UNCHANGED <<now, time, period, taskScheduler, refs, heap, cond, blocked, waitingForTask,
                   changePlan, until, delay, doRun, schedules>>
    /\ cancelled' \in [Tasks -> BOOLEAN] /\ mutex' \in [Schedulers -> Threads \cup {None}]
    /\ pc' = [pc EXCEPT ![c] = place] /\ cur' = [cur EXCEPT ![c] = t] /\ dest' = [dest EXCEPT ![c] = q]
    /\ place \in {"idle", "cancel", "setPeriod"}
    /\ place # "idle" => t \in Tasks /\ Owner[t] = c
    /\ place = "setPeriod" => q \in Schedulers

LEMMA CancelMoves ==
  ASSUME TaskInv, NEW c \in Callers, pc[c] # "add", NEW place, NEW t \in Tasks \cup {None},
         NEW q \in Schedulers \cup {None}, CancelStep(c, place, t, q)
  PROVE  TaskInv'
<1>0. TypeOK /\ PlaceInv /\ c \in Threads /\ (\A x \in Tasks : TaskOK(x)) /\ pc[c] \notin {"run", "periodic", "add"}
  BY Constants, TaskInvIs, Zenon DEF PlaceInv, CallerAt
<1>1. TypeOK'
  BY <1>0, SMTT(20) DEF TypeOK, CancelStep
<1>2. /\ \A y \in Threads : y # c => pc'[y] = pc[y] /\ cur'[y] = cur[y] /\ dest'[y] = dest[y]
      /\ pc'[c] = place /\ cur'[c] = t /\ dest'[c] = q
  BY <1>0, Zenon DEF TypeOK, CancelStep
<1>3. CallerAt(c)'
  BY <1>2, Zenon DEF CallerAt, CancelStep
<1>4. PlaceInv'
  BY <1>0, <1>2, <1>3, CallerMoves, Zenon DEF CancelStep
<1>5. StepOn(c, None)
  BY <1>0, <1>2, Zenon DEF StepOn, CancelStep
<1>6. \A x \in Tasks : TaskOK(x)'
  BY <1>0, <1>5, NoTask, Zenon
<1> QED
  BY <1>1, <1>4, <1>6, Zenon DEF TaskInv, TaskOK

LEMMA EndCancelTypes ==
  ASSUME TypeOK, NEW c \in Callers, NEW t \in Tasks, NEW result \in BOOLEAN, EndCancel(c, t, result)
  PROVE  cancelled' \in [Tasks -> BOOLEAN] /\ mutex' \in [Schedulers -> Threads \cup {None}]
BY Zenon DEF TypeOK, EndCancel

LEMMA CancelTaskInv ==
  ASSUME TaskInv, NEW c \in Callers, NEW t \in Tasks, Cancel(c, t)
  PROVE  TaskInv'
<1>0. TypeOK /\ PlaceInv /\ pc[c] # "add" /\ Owner[t] = c
  BY Zenon DEF TaskInv, Cancel, PlaceInv, CallerAt
<1>1. UNCHANGED <<now, time, period, taskScheduler, refs, heap, cond, blocked, waitingForTask,
                  changePlan, until, delay, doRun, schedules>>
  BY Zenon DEF Cancel, taskVars
<1>2. CASE taskScheduler[t] = None
  <2>1. EndCancel(c, t, FALSE)
    BY <1>2, Zenon DEF Cancel
  <2>2. cancelled' \in [Tasks -> BOOLEAN] /\ mutex' \in [Schedulers -> Threads \cup {None}]
    BY <1>0, <2>1, EndCancelTypes, Zenon
  <2>3. pc' = [pc EXCEPT ![c] = "idle"] /\ cur' = [cur EXCEPT ![c] = None] /\ dest' = [dest EXCEPT ![c] = None]
    BY <2>1, Zenon DEF EndCancel, Goto
  <2>4. CancelStep(c, "idle", None, None)
    BY <1>1, <2>2, <2>3, Zenon DEF CancelStep
  <2> QED
    BY <1>0, <2>4, CancelMoves, Zenon
<1>3. CASE taskScheduler[t] # None
  <2>1. PICK q \in Schedulers : q = taskScheduler[t]
    BY <1>0, <1>3, Zenon DEF TypeOK
  <2>2. /\ pc' = [pc EXCEPT ![c] = "setPeriod"] /\ cur' = [cur EXCEPT ![c] = t] /\ dest' = [dest EXCEPT ![c] = q]
        /\ UNCHANGED <<cancelled, mutex>>
    BY <1>3, <2>1, Zenon DEF Cancel, Goto
  <2>3. cancelled' \in [Tasks -> BOOLEAN] /\ mutex' \in [Schedulers -> Threads \cup {None}]
    BY <1>0, <2>2, Zenon DEF TypeOK
  <2>4. CancelStep(c, "setPeriod", t, q)
    BY <1>0, <1>1, <2>2, <2>3, Zenon DEF CancelStep
  <2> QED
    BY <1>0, <2>4, CancelMoves, Zenon
<1> QED
  BY <1>2, <1>3, Zenon

LEMMA RemoveTaskInv ==
  ASSUME TaskInv, NEW c \in Callers, Remove(c)
  PROVE  TaskInv'
<1>0. TypeOK /\ PlaceInv /\ c \in Threads /\ pc[c] = "remove" /\ \A x \in Tasks : TaskOK(x)
  BY Constants, TaskInvIs, Zenon DEF Remove
<1>1. PICK q \in Schedulers, t \in Tasks : q = dest[c] /\ t = cur[c] /\ Owner[t] = c
  BY <1>0, Zenon DEF PlaceInv, CallerAt
<1>2. UNCHANGED <<now, time, period, blocked, waitingForTask, until, delay, doRun, schedules>>
  BY Zenon DEF Remove
<1>3. CASE taskScheduler[t] = None
  <2>1. EndCancel(c, t, FALSE) /\ UNCHANGED <<heap, taskScheduler, refs, changePlan, cond>>
    BY <1>1, <1>3, Zenon DEF Remove
  <2>2. cancelled' \in [Tasks -> BOOLEAN] /\ mutex' \in [Schedulers -> Threads \cup {None}]
    BY <1>0, <2>1, EndCancelTypes, Zenon
  <2>3. pc' = [pc EXCEPT ![c] = "idle"] /\ cur' = [cur EXCEPT ![c] = None] /\ dest' = [dest EXCEPT ![c] = None]
    BY <2>1, Zenon DEF EndCancel, Goto
  <2>4. CancelStep(c, "idle", None, None)
    BY <1>2, <2>1, <2>2, <2>3, Zenon DEF CancelStep
  <2> QED
    BY <1>0, <2>4, CancelMoves, Zenon
<1>4. CASE taskScheduler[t] # None /\ taskScheduler[t] # q
  <2>1. /\ mutex' = [mutex EXCEPT ![q] = c] /\ pc' = [pc EXCEPT ![c] = "cancel"]
        /\ UNCHANGED <<heap, taskScheduler, refs, changePlan, cond, cancelled, cur, dest>>
    BY <1>1, <1>4, Zenon DEF Remove, Goto
  <2>2. cancelled' \in [Tasks -> BOOLEAN] /\ mutex' \in [Schedulers -> Threads \cup {None}]
    BY <1>0, <2>1, Zenon DEF TypeOK
  <2>3. cur' = [cur EXCEPT ![c] = t] /\ dest' = [dest EXCEPT ![c] = q]
    BY <1>0, <1>1, <2>1, Zenon DEF TypeOK
  <2>4. CancelStep(c, "cancel", t, q)
    BY <1>1, <1>2, <2>1, <2>2, <2>3, Zenon DEF CancelStep
  <2> QED
    BY <1>0, <2>4, CancelMoves, Zenon
<1>5. CASE taskScheduler[t] = q
  <2>1. Delete(q, t) /\ EndCancel(c, t, TRUE)
    BY <1>1, <1>5, Constants, Zenon DEF Remove
  <2>2. cancelled' \in [Tasks -> BOOLEAN] /\ mutex' \in [Schedulers -> Threads \cup {None}]
    BY <1>0, <2>1, EndCancelTypes, Zenon
  <2>3. pc' = [pc EXCEPT ![c] = "idle"] /\ cur' = [cur EXCEPT ![c] = None] /\ dest' = [dest EXCEPT ![c] = None]
    BY <2>1, Zenon DEF EndCancel, Goto
  <2>4. refs' \in [Tasks -> Nat] /\ \A x \in Tasks : TaskOK(x)'
    BY <1>0, <1>2, <1>5, <2>1, <2>3, Deleted, Zenon
  <2>5. cond' \in [Schedulers -> ConditionType(Schedulers)] /\ changePlan' \in [Schedulers -> BOOLEAN]
    <3>1. cond[q] \in ConditionType(Schedulers) /\ Signal(cond[q]) \subseteq ConditionType(Schedulers)
      BY <1>0, ConditionTypes, Zenon DEF TypeOK
    <3>2. \/ UNCHANGED <<cond, changePlan>>
          \/ /\ changePlan' = [changePlan EXCEPT ![q] = TRUE]
             /\ \E x \in Signal(cond[q]) : cond' = [cond EXCEPT ![q] = x]
      BY <2>1, Zenon DEF Delete, Replan
    <3> QED
      BY <1>0, <3>1, <3>2, Zenon DEF TypeOK
  <2>6. heap' = [heap EXCEPT ![q] = heap[q] \ {t}] /\ taskScheduler' = [taskScheduler EXCEPT ![t] = None]
    BY <2>1, Zenon DEF Delete
  <2>7. TypeOK'
    BY <1>0, <1>2, <2>2, <2>3, <2>4, <2>5, <2>6, SMTT(20) DEF TypeOK
  <2>8. /\ \A y \in Threads : y # c => pc'[y] = pc[y] /\ cur'[y] = cur[y] /\ dest'[y] = dest[y]
        /\ pc'[c] = "idle"
    BY <1>0, <2>3, Zenon DEF TypeOK
  <2>9. CallerAt(c)'
    BY <2>8, Zenon DEF CallerAt
  <2>10. PlaceInv'
    BY <1>0, <1>2, <2>8, <2>9, CallerMoves, Zenon
  <2> QED
    BY <2>4, <2>7, <2>10, Zenon DEF TaskInv, TaskOK
<1> QED
  BY <1>3, <1>4, <1>5, Zenon
--------------------------------------------------------------------------------
(* PeekStands. *)

\* The task p, of time u, is the first of the queue H.
IsFirst(f, H, p, u) == H # {} /\ p = First(f, H) /\ f[p] = u

Stands(s) == pc[s] \in {"timed", "timedWait"} /\ ~changePlan[s] => IsFirst(time, heap[s], cur[s], until[s])

LEMMA StandsIs == /\ PeekStands <=> \A s \in Schedulers : Stands(s)
                  /\ PeekStands' <=> \A s \in Schedulers : Stands(s)'
<1>1. \A s \in Schedulers : Peak(s) = First(time, heap[s])
  BY PeakIsFirst, Zenon
<1>2. \A s \in Schedulers : Peak(s)' = First(time', heap'[s])
  BY Zenon DEF Peak, First, Before, Precedes
<1>3. PeekStands <=> \A s \in Schedulers : Stands(s)
  BY <1>1, Zenon DEF PeekStands, Stands, IsFirst
<1>4. PeekStands' <=> \A s \in Schedulers : Stands(s)'
  BY <1>2, Zenon DEF PeekStands, Stands, IsFirst
<1> QED
  BY <1>3, <1>4, Zenon

\* A step of scheduler s that concerns no other scheduler.
LEMMA SchedulerStands ==
  ASSUME PeekStands, NEW s \in Schedulers, Stands(s)', UNCHANGED time,
         \A r \in Schedulers : r # s =>
            /\ pc'[r] = pc[r] /\ cur'[r] = cur[r] /\ until'[r] = until[r]
            /\ heap'[r] = heap[r] /\ changePlan'[r] = changePlan[r]
  PROVE  PeekStands'
<1>1. \A r \in Schedulers : r # s => Stands(r)'
  BY StandsIs, Zenon DEF Stands
<1>2. \A r \in Schedulers : Stands(r)'
  <2> TAKE r \in Schedulers
  <2>1. CASE r = s
    BY <2>1, Zenon
  <2>2. CASE r # s
    BY <1>1, <2>2, Zenon
  <2> QED
    BY <2>1, <2>2, Zenon
<1> QED
  BY <1>2, StandsIs, Zenon

\* A step in which no scheduler and no queue takes part.
LEMMA OthersStand ==
  ASSUME PeekStands, \A r \in Schedulers : pc'[r] = pc[r] /\ cur'[r] = cur[r],
         UNCHANGED <<time, until, heap, changePlan>>
  PROVE  PeekStands'
<1>1. \A r \in Schedulers : Stands(r)'
  BY StandsIs, Zenon DEF Stands
<1> QED
  BY <1>1, StandsIs, Zenon

\* The first task stays first when a task is added behind it, and when another is removed.
LEMMA AddedBehind ==
  ASSUME NEW f \in [Tasks -> Nat], NEW H, H \subseteq Tasks, NEW p, NEW u, IsFirst(f, H, p, u),
         NEW t \in Tasks, t \notin H, NEW at \in Nat,
         \E x \in H : ~(at < f[x] \/ (at = f[x] /\ t <= x))
  PROVE  IsFirst([f EXCEPT ![t] = at], H \cup {t}, p, u)
<1>1. p \in H /\ f[p] = u /\ \A x \in H : Precedes(f, p, x)
  BY FirstIn, Zenon DEF IsFirst
<1>2. PICK x \in H : ~(at < f[x] \/ (at = f[x] /\ t <= x))
  BY Zenon
<1>3. PICK g : g = [f EXCEPT ![t] = at]
  BY Zenon
<1>4. g \in [Tasks -> Nat] /\ g[t] = at /\ \A y \in H : g[y] = f[y]
  BY <1>3, Zenon
<1>5. Precedes(g, p, t)
  <2>1. p \in Nat /\ x \in Nat /\ t \in Nat /\ f[p] \in Nat /\ f[x] \in Nat
    BY <1>1, Constants, Zenon
  <2>2. g[p] = f[p] /\ Precedes(f, p, x)
    BY <1>1, <1>4, Zenon
  <2> QED
    BY <1>2, <1>4, <2>1, <2>2 DEF Precedes
<1>6. \A y \in H : Precedes(g, p, y)
  BY <1>1, <1>4, Zenon DEF Precedes
<1>7. First(g, H \cup {t}) = p
  <2>1. H \cup {t} \subseteq Tasks /\ p \in H \cup {t} /\ \A y \in H \cup {t} : Precedes(g, p, y)
    BY <1>1, <1>5, <1>6, Zenon
  <2> QED
    BY <1>4, <2>1, FirstIs, Zenon
<1>8. g[p] = u
  BY <1>1, <1>4, Zenon
<1> QED
  BY <1>3, <1>7, <1>8, Zenon DEF IsFirst

LEMMA RemovedBehind ==
  ASSUME NEW f \in [Tasks -> Nat], NEW H, H \subseteq Tasks, NEW p, NEW u, IsFirst(f, H, p, u),
         NEW t, t # p
  PROVE  IsFirst(f, H \ {t}, p, u)
<1>1. p \in H /\ f[p] = u /\ \A x \in H : Precedes(f, p, x)
  BY FirstIn, Zenon DEF IsFirst
<1>2. H \ {t} \subseteq Tasks /\ p \in H \ {t} /\ \A x \in H \ {t} : Precedes(f, p, x)
  BY <1>1, Zenon
<1>3. First(f, H \ {t}) = p
  BY <1>2, FirstIs, Zenon
<1> QED
  BY <1>1, <1>2, <1>3, Zenon DEF IsFirst

\* A task that is in none of the queues changes its time.
LEMMA OtherTime ==
  ASSUME NEW f \in [Tasks -> Nat], NEW H, H \subseteq Tasks, NEW p, NEW u, IsFirst(f, H, p, u),
         NEW t \in Tasks, t \notin H, NEW at \in Nat
  PROVE  IsFirst([f EXCEPT ![t] = at], H, p, u)
<1>1. p \in H /\ f[p] = u /\ \A x \in H : Precedes(f, p, x)
  BY FirstIn, Zenon DEF IsFirst
<1>2. PICK g : g = [f EXCEPT ![t] = at]
  BY Zenon
<1>3. g \in [Tasks -> Nat] /\ \A y \in H : g[y] = f[y]
  BY <1>2, Zenon
<1>4. \A y \in H : Precedes(g, p, y)
  BY <1>1, <1>3, Zenon DEF Precedes
<1>5. First(g, H) = p /\ g[p] = u
  BY <1>1, <1>3, <1>4, FirstIs, Zenon
<1> QED
  BY <1>1, <1>2, <1>5, Zenon DEF IsFirst

\* add: the task is in no queue, and a scheduler that waits is told when it comes first.
LEMMA InsertStands ==
  ASSUME TaskInv, PeekStands, NEW q \in Schedulers, NEW t \in Tasks, NEW d \in Nat, Insert(q, t, d),
         taskScheduler[t] = None, UNCHANGED until,
         \A r \in Schedulers : (pc'[r] = pc[r] /\ cur'[r] = cur[r]) \/ pc'[r] = "get"
  PROVE  PeekStands'
<1>0. TypeOK /\ time \in [Tasks -> Nat] /\ \A r \in Schedulers : heap[r] \subseteq Tasks /\ t \notin heap[r]
  BY Constants, Zenon DEF TaskInv, TypeOK, InQueue
<1>1. PICK at \in Nat : at = IF d = 0 THEN time[t] ELSE now + d
  <2>1. time[t] \in Nat /\ now + d \in Nat
    BY <1>0 DEF TypeOK
  <2> QED
    BY <2>1, Zenon
<1>2. time' = [time EXCEPT ![t] = at]
  BY <1>1, Zenon DEF Insert
<1>3. ASSUME NEW r \in Schedulers, pc'[r] \in {"timed", "timedWait"}, ~changePlan'[r]
      PROVE  IsFirst(time', heap'[r], cur'[r], until'[r])
  <2>1. pc'[r] = pc[r] /\ cur'[r] = cur[r] /\ until'[r] = until[r]
    BY <1>3, Zenon
  <2>2. ~changePlan[r]
    BY <1>0, <1>3, ZenonT(30) DEF Insert, Replan, TypeOK
  <2>3. IsFirst(time, heap[r], cur[r], until[r])
    BY <1>3, <2>1, <2>2, StandsIs, Zenon DEF Stands
  <2>4. waitingForTask[r]
    BY <1>3, <2>1, Zenon DEF TaskInv, PlaceInv, SchedulerAt
  <2>5. CASE heap'[r] = heap[r]
    <3>1. IsFirst([time EXCEPT ![t] = at], heap[r], cur[r], until[r])
      BY <1>0, <2>3, OtherTime, Zenon
    <3> QED
      BY <1>2, <2>1, <2>5, <3>1, Zenon
  <2>6. CASE heap'[r] # heap[r]
    <3>1. r = q /\ ~blocked[q] /\ heap'[q] = heap[q] \cup {t}
      BY <1>0, <2>6, Zenon DEF Insert, TypeOK
    <3>2. \E x \in heap[q] : ~(at < time[x] \/ (at = time[x] /\ t <= x))
      <4>1. Replan(q, \A x \in heap[q] : at < time[x] \/ (at = time[x] /\ t <= x))
        BY <1>1, <3>1, Zenon DEF Insert
      <4>2. changePlan \in [Schedulers -> BOOLEAN]
        BY <1>0, Zenon DEF TypeOK
      <4> QED
        BY <1>3, <2>4, <3>1, <4>1, <4>2, Zenon DEF Replan
    <3>3. IsFirst([time EXCEPT ![t] = at], heap[q] \cup {t}, cur[r], until[r])
      BY <1>0, <2>3, <3>1, <3>2, AddedBehind, Zenon
    <3> QED
      BY <1>2, <2>1, <3>1, <3>3, Zenon
  <2> QED
    BY <2>5, <2>6, Zenon
<1>4. \A r \in Schedulers : Stands(r)'
  BY <1>3, Zenon DEF Stands
<1> QED
  BY <1>4, StandsIs, Zenon

\* remove: a scheduler that waits is told when its first task goes.
LEMMA DeleteStands ==
  ASSUME TaskInv, PeekStands, NEW q \in Schedulers, NEW t \in Tasks, Delete(q, t),
         UNCHANGED <<time, until>>, \A r \in Schedulers : pc'[r] = pc[r] /\ cur'[r] = cur[r]
  PROVE  PeekStands'
<1>0. TypeOK /\ time \in [Tasks -> Nat] /\ \A r \in Schedulers : heap[r] \subseteq Tasks
  BY Zenon DEF TaskInv, TypeOK
<1>1. ASSUME NEW r \in Schedulers, pc'[r] \in {"timed", "timedWait"}, ~changePlan'[r]
      PROVE  IsFirst(time', heap'[r], cur'[r], until'[r])
  <2>1. pc'[r] = pc[r] /\ cur'[r] = cur[r] /\ until'[r] = until[r]
    BY <1>1, Zenon
  <2>2. ~changePlan[r]
    BY <1>0, <1>1, Zenon DEF Delete, Replan, TypeOK
  <2>3. IsFirst(time, heap[r], cur[r], until[r])
    BY <1>1, <2>1, <2>2, StandsIs, Zenon DEF Stands
  <2>4. waitingForTask[r]
    BY <1>1, <2>1, Zenon DEF TaskInv, PlaceInv, SchedulerAt
  <2>5. CASE r # q
    <3>1. heap'[r] = heap[r]
      BY <1>0, <2>5, Zenon DEF Delete, TypeOK
    <3> QED
      BY <2>1, <2>3, <3>1, Zenon
  <2>6. CASE r = q
    <3>1. heap'[q] = heap[q] \ {t} /\ changePlan \in [Schedulers -> BOOLEAN] /\ Replan(q, t = Peak(q))
      BY <1>0, Zenon DEF Delete, TypeOK
    <3>2. t # Peak(q)
      BY <1>1, <2>4, <2>6, <3>1, Zenon DEF Replan
    <3>3. t # cur[q]
      BY <2>3, <2>6, <3>2, PeakIsFirst, Zenon DEF IsFirst
    <3>4. IsFirst(time, heap[q] \ {t}, cur[q], until[q])
      BY <1>0, <2>3, <2>6, <3>3, RemovedBehind, Zenon
    <3> QED
      BY <2>1, <2>6, <3>1, <3>4, Zenon
  <2> QED
    BY <2>5, <2>6, Zenon
<1>2. \A r \in Schedulers : Stands(r)'
  BY <1>1, Zenon DEF Stands
<1> QED
  BY <1>2, StandsIs, Zenon

\* The steps of get().
LEMMA GetStands ==
  ASSUME TaskInv, PeekStands, NEW s \in Schedulers, GetTop(s) \/ WaitReturn(s) \/ TimedWaitReturn(s)
  PROVE  PeekStands'
<1>0. TypeOK /\ s \in Threads /\ UNCHANGED time
  BY Constants, Zenon DEF TaskInv, GetTop, WaitReturn, TimedWaitReturn
<1>1. \A r \in Schedulers : r # s =>
         /\ pc'[r] = pc[r] /\ cur'[r] = cur[r] /\ until'[r] = until[r]
         /\ heap'[r] = heap[r] /\ changePlan'[r] = changePlan[r]
  <2>1. \E place : pc' = [pc EXCEPT ![s] = place]
    BY Zenon DEF GetTop, WaitReturn, TimedWaitReturn, ReturnNull, Poll, Wait, Plan, Goto
  <2>2. UNCHANGED cur \/ \E t : cur' = [cur EXCEPT ![s] = t]
    BY Zenon DEF GetTop, WaitReturn, TimedWaitReturn, ReturnNull, Poll, Wait, Plan
  <2>3. UNCHANGED until \/ \E u : until' = [until EXCEPT ![s] = u]
    BY Zenon DEF GetTop, WaitReturn, TimedWaitReturn, ReturnNull, Poll, Wait, Plan
  <2>4. UNCHANGED heap \/ \E h : heap' = [heap EXCEPT ![s] = h]
    BY Zenon DEF GetTop, WaitReturn, TimedWaitReturn, ReturnNull, Poll, Wait, Plan
  <2>5. UNCHANGED changePlan \/ changePlan' = [changePlan EXCEPT ![s] = FALSE]
    BY Zenon DEF GetTop, WaitReturn, TimedWaitReturn
  <2>6. \A r \in Schedulers : r \in Threads
    BY Constants, Zenon
  <2> QED
    BY <1>0, <2>1, <2>2, <2>3, <2>4, <2>5, <2>6, ZenonT(30) DEF TypeOK
<1>2. ASSUME heap[s] # {}, UNCHANGED heap, cur' = [cur EXCEPT ![s] = Peak(s)],
             until' = [until EXCEPT ![s] = time[Peak(s)]]
      PROVE  Stands(s)'
  <2>1. cur'[s] = First(time', heap'[s]) /\ until'[s] = time'[cur'[s]] /\ heap'[s] # {}
    BY <1>0, <1>2, PeakIsFirst, Zenon DEF TypeOK
  <2> QED
    BY <2>1, Zenon DEF Stands, IsFirst
<1>3. ASSUME NEW place, place \notin {"timed", "timedWait"}, pc' = [pc EXCEPT ![s] = place]
      PROVE  Stands(s)'
  BY <1>0, <1>3, Zenon DEF Stands, TypeOK
<1>4. \/ \E place : place \notin {"timed", "timedWait"} /\ pc' = [pc EXCEPT ![s] = place]
      \/ heap[s] # {} /\ UNCHANGED heap /\ cur' = [cur EXCEPT ![s] = Peak(s)]
         /\ until' = [until EXCEPT ![s] = time[Peak(s)]]
  <2>1. ReturnNull(s) \/ Poll(s) => \E place : place \notin {"timed", "timedWait"} /\ pc' = [pc EXCEPT ![s] = place]
    BY Zenon DEF ReturnNull, Poll, Goto
  <2>2. Plan(s) => UNCHANGED heap /\ cur' = [cur EXCEPT ![s] = Peak(s)] /\ until' = [until EXCEPT ![s] = time[Peak(s)]]
    BY Zenon DEF Plan, Wait
  <2>3. CASE GetTop(s)
    <3>1. \/ ReturnNull(s) \/ Poll(s) \/ Wait(s, "wait")
          \/ heap[s] # {} /\ Plan(s)
      BY <2>3, Zenon DEF GetTop
    <3>2. Wait(s, "wait") => \E place : place \notin {"timed", "timedWait"} /\ pc' = [pc EXCEPT ![s] = place]
      BY Zenon DEF Wait, Goto
    <3> QED
      BY <2>1, <2>2, <3>1, <3>2, Zenon
  <2>4. CASE WaitReturn(s)
    <3>1. \/ ReturnNull(s) \/ Poll(s)
          \/ /\ heap[s] # {} /\ UNCHANGED heap /\ cur' = [cur EXCEPT ![s] = Peak(s)]
             /\ until' = [until EXCEPT ![s] = time[Peak(s)]]
      BY <2>4, Zenon DEF WaitReturn
    <3> QED
      BY <2>1, <3>1, Zenon
  <2>5. CASE TimedWaitReturn(s)
    <3>1. ReturnNull(s) \/ Poll(s) \/ pc' = [pc EXCEPT ![s] = "top"]
      BY <2>5, Zenon DEF TimedWaitReturn, Goto
    <3> QED
      BY <2>1, <3>1, Zenon
  <2> QED
    BY <2>3, <2>4, <2>5, Zenon
<1>5. Stands(s)'
  BY <1>2, <1>3, <1>4, Zenon
<1> QED
  BY <1>0, <1>1, <1>5, SchedulerStands, Zenon

\* The steps of run() around get().
LEMMA RunStands ==
  ASSUME TaskInv, PeekStands, NEW s \in Schedulers,
         Resume(s) \/ EndRun(s) \/ Run(s) \/ SchedulePeriod(s)
  PROVE  PeekStands'
<1>0. TypeOK /\ s \in Threads /\ \A r \in Schedulers : r \in Threads
  BY Constants, Zenon DEF TaskInv
<1>1. UNCHANGED <<time, until, heap, changePlan>>
  BY Zenon DEF Resume, EndRun, Run, SchedulePeriod, taskVars, queueVars
<1>2. PICK place \in {"get", "done", "periodic", "add"} : pc' = [pc EXCEPT ![s] = place]
  BY Zenon DEF Resume, EndRun, Run, SchedulePeriod, Release, Choose, Goto
<1>3. UNCHANGED cur \/ \E t : cur' = [cur EXCEPT ![s] = t]
  BY Zenon DEF Resume, EndRun, Run, SchedulePeriod, Release, Choose
<1>4. \A r \in Schedulers : r # s => pc'[r] = pc[r] /\ cur'[r] = cur[r]
  BY <1>0, <1>2, <1>3, Zenon DEF TypeOK
<1>5. pc'[s] \notin {"timed", "timedWait"}
  BY <1>0, <1>2, Zenon DEF TypeOK
<1>6. Stands(s)'
  BY <1>5, Zenon DEF Stands
<1> QED
  BY <1>1, <1>4, <1>6, SchedulerStands, Zenon

\* add, by a scheduler and by a caller.
LEMMA AddStands ==
  ASSUME TaskInv, PeekStands, NEW x \in Threads,
         (x \in Schedulers /\ AddAgain(x)) \/ (x \in Callers /\ Add(x))
  PROVE  PeekStands'
<1>0. TypeOK /\ PlaceInv /\ \A t \in Tasks : TaskOK(t)
  BY TaskInvIs, Zenon
<1>1. pc[x] = "add" /\ Insert(dest[x], cur[x], delay[x]) /\ UNCHANGED until /\ cur' = [cur EXCEPT ![x] = None]
  BY Zenon DEF AddAgain, Add
<1>2. pc' = [pc EXCEPT ![x] = "get"] \/ (x \in Callers /\ pc' = [pc EXCEPT ![x] = "idle"])
  BY Zenon DEF AddAgain, Add, Goto
<1>3. dest[x] \in Schedulers /\ cur[x] \in Tasks /\ delay[x] \in Nat
  BY <1>0, <1>1, Constants, Zenon DEF PlaceInv, SchedulerAt, CallerAt, TypeOK
<1>4. taskScheduler[cur[x]] = None
  BY <1>0, <1>1, <1>3, Zenon DEF TaskOK, Alone, Adding
<1>5. \A r \in Schedulers : (pc'[r] = pc[r] /\ cur'[r] = cur[r]) \/ pc'[r] = "get"
  BY <1>0, <1>1, <1>2, Constants DEF TypeOK
<1> QED
  BY <1>1, <1>3, <1>4, <1>5, InsertStands, Zenon

\* The steps of a caller but for add.
LEMMA CallerStands ==
  ASSUME TaskInv, PeekStands, NEW c \in Callers,
         \/ SetPeriod(c) \/ Remove(c)
         \/ \E t \in Tasks : \/ Cancel(c, t)
                             \/ \E d \in Delays, p \in Periods : Schedule(c, t, d, p)
                             \/ \E p \in Periods : ScheduleRefused(c, t, p)
  PROVE  PeekStands'
<1>0. TypeOK /\ PlaceInv /\ c \in Threads
  BY Constants, Zenon DEF TaskInv
<1>1. UNCHANGED time /\ UNCHANGED until
  BY Zenon DEF SetPeriod, Remove, Cancel, Schedule, ScheduleRefused, taskVars, threadVars
<1>2. UNCHANGED pc \/ \E place : pc' = [pc EXCEPT ![c] = place]
  BY ZenonT(30) DEF SetPeriod, Remove, Cancel, Schedule, ScheduleRefused, Choose, EndCancel, Goto, threadVars
<1>3. UNCHANGED cur \/ \E t : cur' = [cur EXCEPT ![c] = t]
  BY Zenon DEF SetPeriod, Remove, Cancel, Schedule, ScheduleRefused, Choose, EndCancel, threadVars
<1>4. \A r \in Schedulers : pc'[r] = pc[r] /\ cur'[r] = cur[r]
  BY <1>0, <1>2, <1>3, Constants DEF TypeOK
<1>5. CASE UNCHANGED <<heap, changePlan>>
  BY <1>1, <1>4, <1>5, OthersStand, Zenon
<1>6. CASE Remove(c) /\ Delete(dest[c], cur[c])
  <2>1. dest[c] \in Schedulers /\ cur[c] \in Tasks
    BY <1>0, <1>6, Zenon DEF Remove, PlaceInv, CallerAt
  <2> QED
    BY <1>1, <1>4, <1>6, <2>1, DeleteStands, Zenon
<1>7. UNCHANGED <<heap, changePlan>> \/ (Remove(c) /\ Delete(dest[c], cur[c]))
  BY ZenonT(30) DEF SetPeriod, Remove, Cancel, Schedule, ScheduleRefused, queueVars
<1> QED
  BY <1>5, <1>6, <1>7, Zenon
--------------------------------------------------------------------------------
(* The theorems. *)

\* The inductive invariant of the timed tasks.
IInv == TaskInv /\ PeekStands

LEMMA InitIInv == Init => IInv
<1> SUFFICES ASSUME Init PROVE IInv
  BY Zenon
<1>1. TypeOK
  <2>1. NewCondition \in ConditionType(Schedulers)
    BY Zenon DEF NewCondition, ConditionType
  <2>2. MaxSchedules \in Nat
    BY TimedTasksAssumption, Zenon
  <2> QED
    BY <2>1, <2>2, Constants, SMTT(20) DEF Init, TypeOK
<1>2. PlaceInv
  <2>1. \A x \in Schedulers : SchedulerAt(x)
    BY Constants, Zenon DEF Init, SchedulerAt
  <2>2. \A c \in Callers : CallerAt(c)
    BY Constants, Zenon DEF Init, CallerAt
  <2> QED
    BY <2>1, <2>2, Zenon DEF PlaceInv
<1>3. ASSUME NEW t \in Tasks PROVE TaskOK(t)
  <2>1. /\ \A x \in Schedulers : heap[x] = {}
        /\ taskScheduler[t] = None /\ refs[t] = 0 /\ \A x \in Threads : cur[x] = None
    BY Zenon DEF Init
  <2>2. InQueue(t) /\ Alone(t)
    BY <2>1, Constants, Zenon DEF InQueue, Alone, Adding, Busy
  <2>3. Queued(t) = {} /\ Taken(t) = {}
    BY <2>1, Constants, Zenon DEF Queued, Taken, Busy
  <2>4. Counted(t)
    BY <2>1, <2>3, FS_EmptySet DEF Counted
  <2> QED
    BY <2>2, <2>4, Zenon DEF TaskOK
<1>4. PeekStands
  BY Constants, Zenon DEF Init, PeekStands
<1> QED
  BY <1>1, <1>2, <1>3, <1>4, Zenon DEF IInv, TaskInv, TaskOK

LEMMA NextIInv == IInv /\ [Next]_vars => IInv'
<1> SUFFICES ASSUME IInv, [Next]_vars PROVE IInv'
  BY Zenon
<1>0. TaskInv /\ PeekStands
  BY Zenon DEF IInv
<1>1. ASSUME NEW s \in Schedulers, GetTop(s) \/ WaitReturn(s) \/ TimedWaitReturn(s) PROVE IInv'
  BY <1>0, <1>1, GetTopTaskInv, WaitReturnTaskInv, TimedWaitReturnTaskInv, GetStands, Zenon DEF IInv
<1>2. ASSUME NEW s \in Schedulers, Resume(s) \/ EndRun(s) \/ Run(s) \/ SchedulePeriod(s) PROVE IInv'
  BY <1>0, <1>2, QuietTaskInv, RunTaskInv, RunStands, Zenon DEF IInv
<1>3. ASSUME NEW s \in Schedulers, AddAgain(s) PROVE IInv'
  BY <1>0, <1>3, AddAgainTaskInv, AddStands, Constants, Zenon DEF IInv
<1>4. ASSUME NEW s \in Schedulers, Expire(s) \/ Stop(s) \/ Wake(s) PROVE IInv'
  <2>1. PeekStands'
    BY <1>0, <1>4, OthersStand, Zenon DEF Expire, Stop, Wake, taskVars, threadVars
  <2>2. TaskInv'
    BY <1>0, <1>4, QuietTaskInv, Zenon
  <2> QED
    BY <2>1, <2>2, Zenon DEF IInv
<1>5. CASE Tick
  <2>1. PeekStands'
    BY <1>0, <1>5, OthersStand, Zenon DEF Tick, taskVars, queueVars, threadVars
  <2>2. \E s \in Schedulers : TRUE
    BY TimedTasksAssumption DEF Schedulers
  <2>3. TaskInv'
    BY <1>0, <1>5, <2>2, QuietTaskInv, Zenon
  <2> QED
    BY <2>1, <2>3, Zenon DEF IInv
<1>6. ASSUME NEW c \in Callers, Add(c) PROVE IInv'
  BY <1>0, <1>6, AddTaskInv, AddStands, Constants, Zenon DEF IInv
<1>7. ASSUME NEW c \in Callers, SetPeriod(c) \/ Remove(c) PROVE IInv'
  BY <1>0, <1>7, SetPeriodTaskInv, RemoveTaskInv, CallerStands, Zenon DEF IInv
<1>8. ASSUME NEW c \in Callers, NEW t \in Tasks, Cancel(c, t) PROVE IInv'
  BY <1>0, <1>8, CancelTaskInv, CallerStands, Zenon DEF IInv
<1>9. ASSUME NEW c \in Callers, NEW t \in Tasks, NEW d \in Delays, NEW p \in Periods, Schedule(c, t, d, p)
      PROVE  IInv'
  BY <1>0, <1>9, ScheduleTaskInv, CallerStands, Zenon DEF IInv
<1>10. ASSUME NEW c \in Callers, NEW t \in Tasks, NEW p \in Periods, ScheduleRefused(c, t, p)
       PROVE  IInv'
  BY <1>0, <1>10, ScheduleTaskInv, CallerStands, Zenon DEF IInv
<1>11. CASE UNCHANGED vars
  <2>1. UNCHANGED <<now, time, period, taskScheduler, refs, heap, cond, mutex, blocked, waitingForTask,
                    changePlan, pc, cur, until, dest, delay, doRun, cancelled, schedules>>
    BY <1>11, Zenon DEF vars, taskVars, queueVars, threadVars, restVars
  <2>2. TypeOK'
    BY <1>0, <2>1, SMTT(20) DEF TaskInv, TypeOK
  <2>3. TaskInv'
    BY <1>0, <2>1, <2>2, Still, Zenon
  <2>4. PeekStands'
    BY <1>0, <2>1, OthersStand, Zenon
  <2> QED
    BY <2>3, <2>4, Zenon DEF IInv
<1>12. ASSUME NEW s \in Schedulers, SchedulerStep(s) PROVE IInv'
  BY <1>1, <1>2, <1>3, <1>4, <1>12, Zenon DEF SchedulerStep
<1>13. ASSUME NEW c \in Callers, CallerStep(c) PROVE IInv'
  BY <1>6, <1>7, <1>8, <1>13, Zenon DEF CallerStep
<1> QED
  BY <1>4, <1>5, <1>8, <1>9, <1>10, <1>11, <1>12, <1>13, Zenon DEF Next

\* The inductive invariant holds, for any number of schedulers, callers and tasks.
THEOREM SpecIInv == Spec => []IInv
BY InitIInv, NextIInv, PTL DEF Spec

\* A task is in the queue of its taskScheduler and in no other, in none while a thread is about
\* to add it, and has one reference for the queue and one for each scheduler that has it in hand:
\* the assertions on clearTaskScheduler in TimedTaskQueue::get and remove hold.
THEOREM QueueInvHolds == Spec => []QueueInv
<1>1. IInv => QueueInv
  BY Zenon DEF IInv, TaskInv, InQueue, Alone, Adding, Counted, Queued, Taken, Busy, QueueInv
<1> QED
  BY <1>1, SpecIInv, PTL

\* When the timed wait of TimedTaskQueue::get ends and the plan was not changed, the task it
\* peeked at before the wait is still the first of the queue and has the same time.
THEOREM PeekStandsHolds == Spec => []PeekStands
BY SpecIInv, PTL DEF IInv

\* A scheduler that takes a task does so in get().
LEMMA OnlyGetTakes ==
  ASSUME TypeOK, Next, NEW s \in Schedulers, pc[s] # "run", pc'[s] = "run"
  PROVE  GetTop(s) \/ WaitReturn(s) \/ TimedWaitReturn(s)
<1>0. \A x \in Schedulers : x \in Threads
  BY Constants, Zenon
<1>1. ASSUME UNCHANGED pc \/ \E x \in Threads : \E place : place # "run" /\ pc' = [pc EXCEPT ![x] = place]
      PROVE  FALSE
  BY <1>0, <1>1, Zenon DEF TypeOK
<1>2. ASSUME NEW r \in Schedulers, r # s, GetTop(r) \/ WaitReturn(r) \/ TimedWaitReturn(r)
      PROVE  FALSE
  <2>1. \E place : pc' = [pc EXCEPT ![r] = place]
    BY <1>2, Zenon DEF GetTop, WaitReturn, TimedWaitReturn, ReturnNull, Poll, Wait, Plan, Goto
  <2> QED
    BY <1>0, <1>2, <2>1, Zenon DEF TypeOK
<1>3. ASSUME NEW r \in Schedulers,
             Resume(r) \/ EndRun(r) \/ Run(r) \/ SchedulePeriod(r) \/ AddAgain(r)
      PROVE  FALSE
  <2>1. \E place \in {"get", "done", "periodic", "add"} : pc' = [pc EXCEPT ![r] = place]
    BY <1>3, Zenon DEF Resume, EndRun, Run, SchedulePeriod, AddAgain, Release, Choose, Goto
  <2> QED
    BY <1>0, <1>1, <2>1, Zenon
<1>4. ASSUME NEW r \in Schedulers, Tick \/ Expire(r) \/ Stop(r) \/ Wake(r)
      PROVE  FALSE
  BY <1>1, <1>4, Zenon DEF Tick, Expire, Stop, Wake, threadVars
<1>5. ASSUME NEW c \in Callers,
             \/ Add(c) \/ SetPeriod(c) \/ Remove(c)
             \/ \E t \in Tasks : \/ Cancel(c, t)
                                 \/ \E d \in Delays, p \in Periods : Schedule(c, t, d, p)
                                 \/ \E p \in Periods : ScheduleRefused(c, t, p)
      PROVE  FALSE
  <2>1. UNCHANGED pc \/ \E place : pc' = [pc EXCEPT ![c] = place]
    BY <1>5, Zenon DEF Add, SetPeriod, Remove, Cancel, Schedule, ScheduleRefused, Choose, EndCancel, Goto, threadVars
  <2>2. c \in Threads /\ c # s
    BY Constants, Zenon
  <2> QED
    BY <1>0, <2>1, <2>2, Zenon DEF TypeOK
<1>6. \E r \in Schedulers : TRUE
  BY Zenon
<1>7. ASSUME NEW r \in Schedulers, SchedulerStep(r) \/ Stop(r) \/ Wake(r)
      PROVE  r = s /\ (GetTop(s) \/ WaitReturn(s) \/ TimedWaitReturn(s))
  <2>1. GetTop(r) \/ WaitReturn(r) \/ TimedWaitReturn(r)
    BY <1>3, <1>4, <1>7, Zenon DEF SchedulerStep
  <2>2. r = s
    BY <1>2, <2>1, Zenon
  <2> QED
    BY <2>1, <2>2, Zenon
<1>8. ASSUME NEW c \in Callers, CallerStep(c) PROVE FALSE
  BY <1>5, <1>8, Zenon DEF CallerStep
<1> QED
  BY <1>4, <1>5, <1>7, <1>8, Zenon DEF Next

\* get() takes the first task when it is due, or was due when its wait began to end.
LEMMA NotBeforeItsTime ==
  ASSUME IInv, Next, NEW s \in Schedulers, pc[s] # "run", pc'[s] = "run", ~blocked[s]
  PROVE  time[cur'[s]] - now <= Tolerance
<1>0. TypeOK /\ PeekStands /\ s \in Threads /\ Tolerance \in Nat /\ now \in Nat /\ time \in [Tasks -> Nat]
  BY Constants, TimedTasksAssumption, Zenon DEF IInv, TaskInv, TypeOK
<1>1. ASSUME Poll(s), heap[s] # {}, time[Peak(s)] <= now \/ time[Peak(s)] - now <= Tolerance
      PROVE  time[cur'[s]] - now <= Tolerance
  <2>1. cur'[s] = Peak(s) /\ time[Peak(s)] \in Nat
    BY <1>0, <1>1, PeakIn, Zenon DEF Poll, TypeOK
  <2> QED
    BY <1>0, <1>1, <2>1
<1>2. GetTop(s) \/ WaitReturn(s) \/ TimedWaitReturn(s)
  BY <1>0, OnlyGetTakes, Zenon
<1>3. ASSUME NEW place, place # "run", pc' = [pc EXCEPT ![s] = place] PROVE FALSE
  BY <1>0, <1>3, Zenon DEF TypeOK
<1>4. ~ReturnNull(s) /\ ~Plan(s) /\ ~Goto(s, "top") /\ ~Goto(s, "timedWait") /\ ~Wait(s, "wait")
  BY <1>3, Zenon DEF ReturnNull, Plan, Wait, Goto
<1>5. CASE GetTop(s)
  <2>1. Poll(s) /\ heap[s] # {} /\ time[Peak(s)] <= now
    BY <1>4, <1>5, Zenon DEF GetTop
  <2> QED
    BY <1>1, <2>1, Zenon
<1>6. CASE WaitReturn(s)
  <2>1. Poll(s) /\ heap[s] # {} /\ time[Peak(s)] <= now
    BY <1>4, <1>6, Zenon DEF WaitReturn
  <2> QED
    BY <1>1, <2>1, Zenon
<1>7. CASE TimedWaitReturn(s)
  <2>1. pc[s] \in {"timed", "timedWait"} /\ ~changePlan[s] /\ Poll(s)
    BY <1>4, <1>7, Zenon DEF TimedWaitReturn
  <2>2. ~(until[s] > now /\ time[cur[s]] - now > Tolerance)
    BY <1>4, <1>7, <2>1, Zenon DEF TimedWaitReturn
  <2>3. heap[s] # {} /\ cur[s] = Peak(s) /\ time[cur[s]] = until[s]
    BY <1>0, <2>1, Zenon DEF PeekStands
  <2>4. time[Peak(s)] \in Nat
    BY <1>0, <2>3, PeakIn, Zenon
  <2> QED
    BY <1>0, <1>1, <2>1, <2>2, <2>3, <2>4
<1> QED
  BY <1>2, <1>5, <1>6, <1>7, Zenon

\* TimedTaskQueue::get returns no task more than the tolerance before its time, unless the queue
\* is being flushed, whatever wakes it up.
THEOREM NeverFutureHolds == Spec => NeverFuture
<1>1. IInv /\ [Next]_vars =>
        [\A s \in Schedulers :
            pc[s] # "run" /\ pc'[s] = "run" /\ ~blocked[s] => time[cur'[s]] - now <= Tolerance]_vars
  BY NotBeforeItsTime, Zenon
<1> QED
  BY <1>1, SpecIInv, PTL DEF Spec, NeverFuture
================================================================================
