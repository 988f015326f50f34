------------------------------ MODULE MCTimedTasks ------------------------------
(***************************************************************************)
(* Instances for TLC.  Part says what a behaviour is about; the rest       *)
(* stands still.                                                           *)
(*   "tasks": TimedTasks, in which a queue is a set with a first member.   *)
(*   "heap": PriorityQueue, the heap that stands for that set.             *)
(***************************************************************************)
EXTENDS TimedTasks

CONSTANTS Parts, NumEntries, Keys, MaxAdds

VARIABLES part, root, link, key, queued, count, adds

heapVars == <<root, link, key, queued, count, adds>>

Queue == INSTANCE PriorityQueue

\* One caller uses every task.
OneOwner == [t \in Tasks |-> NumSchedulers + 1]

MCInit == Init /\ Queue!Init /\ part \in Parts

\* No more entries are added.
HeapEnds == root = Queue!Nil /\ adds = MaxAdds /\ UNCHANGED heapVars

MCNext ==
    \/ part = "tasks" /\ Next /\ UNCHANGED <<part, heapVars>>
    \/ part = "heap" /\ (Queue!Next \/ HeapEnds) /\ UNCHANGED <<part, vars>>

\* The fairness of TimedTasks, for the part that is under way.
Scheduling == part = "tasks"

MCFairness ==
    /\ WF_vars(Scheduling /\ Tick)
    /\ \A s \in Schedulers : WF_vars(Scheduling /\ SchedulerStep(s))
    /\ \A c \in Callers : WF_vars(Scheduling /\ CallerStep(c))

MCSpec == MCInit /\ [][MCNext]_<<part, vars, heapVars>> /\ MCFairness
--------------------------------------------------------------------------------
\* PriorityQueue is the queue that TimedTasks takes it for: what can be reached from the root
\* is what is queued, the root is the earliest task, and the parent links that remove follows
\* are exact, whatever add, poll and remove did before.
HeapIsQueue == Queue!HeapIsQueue
================================================================================
