--------------------------- MODULE LocalTransactions ---------------------------
(***************************************************************************)
(* engine/db: a thread's writes are kept in its CurrentTransaction and     *)
(* commitLocalTransaction carries them out as one Berkeley DB transaction, *)
(* again and again if it is the victim of a deadlock.  A worker commits    *)
(* after every task, on its own; the update threads of a save commit as    *)
(* children of the save's master transaction.                              *)
(*                                                                         *)
(* Berkeley DB is modelled as it is used: a transaction writes in place    *)
(* and keeps what was there before (undo), it has the lock of every key    *)
(* it wrote until it ends, a child's locks and undo pass to its parent,    *)
(* and one of those who wait in a circle gets DB_LOCK_DEADLOCK.            *)
(* DatabaseManager.maxCacheSize is its default, which is no limit.         *)
(* DB_LOCK_DEADLOCK is the only error of a put or delete; any other is     *)
(* logged by the code, which goes on with the next operation.              *)
(***************************************************************************)
EXTENDS Integers, Sequences, Functions

CONSTANTS
    Workers,     \* threads that run tasks
    Updaters,    \* UpdateModifiedObjectsThreads
    Master,      \* the master transaction
    Objects,     \* keys of objects
    Destroyed,   \* the objects among them that may be deleted
    LastID,      \* LASTOBJECTIDKEY
    MaxRetries,  \* DEADLOCK_MAX_RETRIES
    MaxWrites, MaxCopies, MaxSaves   \* bounds: writes of tasks, of an update thread; saves

\* An update thread, which stands for what it copied, is not the mark of an absent write.
ASSUME TransactionsAssumption ==
    /\ Workers \cap Updaters = {} /\ Master \notin Workers \cup Updaters
    /\ -1 \notin Updaters
    /\ MaxWrites \in Nat /\ MaxSaves \in Nat /\ MaxCopies \in Nat

Committers == Workers \cup Updaters
Keys == Objects \cup {LastID}

\* No record, what a task wrote, what an update thread copied, a last id.
Values == (0..(MaxWrites + MaxSaves)) \cup Updaters

VARIABLES
    vector,     \* updateObjects of a thread: keys with values, 0 for a delete
    commitPc,   \* where a thread is in commitLocalTransaction
    index,      \* i
    iteration,
    undo,       \* what a transaction has overwritten: its locks
    page,       \* the values in the cache
    database,   \* the values that a recovery finds
    phase,      \* where the save is
    saver,      \* the worker that makes it
    done,       \* the update threads that have copied, then those that have committed
    writes, saves

commitVars == <<vector, commitPc, index, iteration>>
storeVars == <<undo, page, database>>
saveVars == <<phase, saver, done>>
bounds == <<writes, saves>>
transactionVars == <<commitVars, storeVars, saveVars, bounds>>

NoWrites == [k \in {} |-> 0]

TransactionsInit ==
    /\ vector = [t \in Committers |-> <<>>] /\ commitPc = [t \in Committers |-> "run"]
    /\ index = [t \in Committers |-> 1] /\ iteration = [t \in Committers |-> 0]
    /\ undo = [x \in Committers \cup {Master} |-> NoWrites]
    /\ page = [k \in Keys |-> 0] /\ database = [k \in Keys |-> 0]
    /\ phase = "none" /\ saver \in Workers /\ done = {}
    /\ writes = 0 /\ saves = 0
--------------------------------------------------------------------------------
(***************************************************************************)
(* Berkeley DB.                                                            *)
(***************************************************************************)

\* Update threads commit inside the master transaction.
Child(t) == t \in Updaters

HasLock(x, k) == k \in DOMAIN undo[x]

\* The call returns at once: nobody else has the lock, or only the parent has.
MayTake(t, k) == \A x \in (Committers \cup {Master}) \ {t} : HasLock(x, k) => x = Master /\ Child(t)

\* The operation that a thread has come to.
Operation(t) == vector[t][index[t]]

\* One thread waits for another: for its lock, or for a lock that the master keeps until
\* the other has committed too.
Waits(t, u) ==
    /\ commitPc[t] = "loop" /\ t # u
    /\ \/ HasLock(u, Operation(t).key)
       \/ HasLock(Master, Operation(t).key) /\ ~Child(t) /\ u \in Updaters \ done

Deadlocked(t) == \E S \in SUBSET Committers : t \in S /\ \A u \in S : \E w \in S : Waits(u, w)

\* What a write, the end of a transaction and its abort do to locks and pages.
Keep(f, g) == [k \in DOMAIN f \cup DOMAIN g |-> IF k \in DOMAIN f THEN f[k] ELSE g[k]]
Undone(t) == [k \in Keys |-> IF HasLock(t, k) THEN undo[t][k] ELSE page[k]]
Durable(x) == [k \in Keys |-> IF HasLock(x, k) THEN page[k] ELSE database[k]]
--------------------------------------------------------------------------------
(***************************************************************************)
(* putData, deleteData and commitLocalTransaction.                         *)
(***************************************************************************)

\* blockTaskManager has stopped the workers, all but the one that saves.
Stopped(t) == phase \in {"begin", "copy"} /\ t \in Workers

\* addUpdateObject, addDeleteObject: putData and deleteData of a task.
Write(t, k, v) ==
    /\ commitPc[t] = "run" /\ writes < MaxWrites /\ ~Stopped(t)
    /\ v = 0 => k \in Destroyed
    /\ vector' = [vector EXCEPT ![t] = Append(@, [key |-> k, val |-> v])]
    /\ writes' = writes + 1
    /\ UNCHANGED <<commitPc, index, iteration, storeVars, saveVars, saves>>

\* commitObjectsToDatabase: an update thread puts or deletes the objects it was given, each
\* once.  Only the thread itself has its vector.
Copy(u) ==
    /\ phase = "copy" /\ u \notin done /\ done' = done \cup {u}
    /\ \E n \in 0..MaxCopies : \E ks \in Injection(1..n, Objects) :
       \E deleted \in SUBSET (Range(ks) \cap Destroyed) :
          vector' = [vector EXCEPT ![u] =
              [i \in DOMAIN ks |-> [key |-> ks[i], val |-> IF ks[i] \in deleted THEN 0 ELSE u]]]
    /\ UNCHANGED <<commitPc, index, iteration, storeVars, phase, saver, bounds>>

\* Variant: a thread that has nothing to commit does not say so.
CommitLocalSilent(t) ==
    /\ commitPc[t] = "run" /\ vector[t] # <<>>
    /\ IF Child(t) THEN phase = "commit" /\ t \notin done ELSE ~Stopped(t)
    /\ commitPc' = [commitPc EXCEPT ![t] = "loop"]
    /\ index' = [index EXCEPT ![t] = 1] /\ iteration' = [iteration EXCEPT ![t] = 0]
    /\ UNCHANGED <<vector, storeVars, saveVars, bounds>>

\* commitLocalTransaction: nothing to do, or the loop begins.
CommitLocal(t) ==
    /\ commitPc[t] = "run"
    /\ IF Child(t) THEN phase = "commit" /\ t \notin done ELSE ~Stopped(t) /\ vector[t] # <<>>
    /\ IF vector[t] = <<>> THEN done' = done \cup {t} /\ UNCHANGED commitVars
       ELSE /\ commitPc' = [commitPc EXCEPT ![t] = "loop"]
            /\ index' = [index EXCEPT ![t] = 1] /\ iteration' = [iteration EXCEPT ![t] = 0]
            /\ UNCHANGED <<vector, done>>
    /\ UNCHANGED <<storeVars, phase, saver, bounds>>

\* tryPutData, tryDeleteData.
TryPut(t) ==
    /\ commitPc[t] = "loop" /\ MayTake(t, Operation(t).key)
    /\ LET op == Operation(t) IN
       /\ page' = [page EXCEPT ![op.key] = op.val]
       /\ undo' = [undo EXCEPT ![t] = Keep(@, [k \in {op.key} |-> page[op.key]])]
    /\ IF index[t] = Len(vector[t])
         THEN /\ commitPc' = [commitPc EXCEPT ![t] = "end"] /\ UNCHANGED index
              /\ iteration' = [iteration EXCEPT ![t] = @ + 1]
         ELSE index' = [index EXCEPT ![t] = @ + 1] /\ UNCHANGED <<commitPc, iteration>>
    /\ UNCHANGED <<vector, database, saveVars, bounds>>

\* Variant: the next attempt goes on where this one ended.
DeadlockResumes(t) ==
    /\ commitPc[t] = "loop" /\ Deadlocked(t)
    /\ page' = Undone(t) /\ undo' = [undo EXCEPT ![t] = NoWrites]
    /\ iteration' = [iteration EXCEPT ![t] = @ + 1]
    /\ commitPc' = [commitPc EXCEPT ![t] = IF iteration[t] + 1 < MaxRetries THEN "loop" ELSE "fatal"]
    /\ UNCHANGED <<vector, index, database, saveVars, bounds>>

\* DB_LOCK_DEADLOCK: the transaction is aborted, and there is another attempt or none.
Deadlock(t) ==
    /\ commitPc[t] = "loop" /\ Deadlocked(t)
    /\ page' = Undone(t) /\ undo' = [undo EXCEPT ![t] = NoWrites]
    /\ index' = [index EXCEPT ![t] = 1] /\ iteration' = [iteration EXCEPT ![t] = @ + 1]
    /\ commitPc' = [commitPc EXCEPT ![t] = IF iteration[t] + 1 < MaxRetries THEN "loop" ELSE "fatal"]
    /\ UNCHANGED <<vector, database, saveVars, bounds>>

\* commitSync: durable, or the parent's.  The vector is cleared, and the one that saves
\* goes on with startTransaction.
Commit(t) ==
    /\ commitPc[t] = "end" /\ iteration[t] < MaxRetries
    /\ IF Child(t)
         THEN /\ undo' = [undo EXCEPT ![Master] = Keep(@, undo[t]), ![t] = NoWrites]
              /\ UNCHANGED database
         ELSE database' = Durable(t) /\ undo' = [undo EXCEPT ![t] = NoWrites]
    /\ vector' = [vector EXCEPT ![t] = <<>>] /\ commitPc' = [commitPc EXCEPT ![t] = "run"]
    /\ phase' = IF phase = "begin" THEN "copy" ELSE phase
    /\ done' = IF Child(t) THEN done \cup {t} ELSE done
    /\ UNCHANGED <<index, iteration, page, saver, bounds>>

\* The process ends and starts again; opening the environment recovers it.
Restart ==
    /\ vector' = [t \in Committers |-> <<>>] /\ commitPc' = [t \in Committers |-> "run"]
    /\ index' = [t \in Committers |-> 1] /\ iteration' = [t \in Committers |-> 0]
    /\ undo' = [x \in Committers \cup {Master} |-> NoWrites] /\ page' = database
    /\ phase' = "none" /\ done' = {}
    /\ UNCHANGED <<database, saver, writes, saves>>

\* fatal(iteration < MAX && transaction): the last attempt counts as failed.
Fatal(t) ==
    /\ commitPc[t] = "fatal" \/ (commitPc[t] = "end" /\ iteration[t] >= MaxRetries)
    /\ Restart

Crash == Restart
--------------------------------------------------------------------------------
(***************************************************************************)
(* A save.                                                                 *)
(***************************************************************************)

\* updateLastUsedObjectID and commitLocalTransaction, with the other workers stopped
\* between two tasks.
BeginSave(t) ==
    /\ phase = "none" /\ saves < MaxSaves /\ commitPc[t] = "run"
    /\ \A w \in Workers \ {t} : commitPc[w] = "run" /\ vector[w] = <<>>
    /\ vector' = [vector EXCEPT ![t] = Append(@, [key |-> LastID, val |-> MaxWrites + saves + 1])]
    /\ commitPc' = [commitPc EXCEPT ![t] = "loop"]
    /\ index' = [index EXCEPT ![t] = 1] /\ iteration' = [iteration EXCEPT ![t] = 0]
    /\ phase' = "begin" /\ saver' = t /\ done' = {} /\ saves' = saves + 1
    /\ UNCHANGED <<storeVars, writes>>

\* The objects are copied and the workers go on.
EndCopy ==
    /\ phase = "copy" /\ done = Updaters
    /\ phase' = "commit" /\ done' = {}
    /\ UNCHANGED <<commitVars, storeVars, saver, bounds>>

\* CommitMasterTransactionThread: commitTransaction when every thread has committed.
CommitMaster ==
    /\ phase = "commit" /\ done = Updaters
    /\ database' = Durable(Master) /\ undo' = [undo EXCEPT ![Master] = NoWrites]
    /\ phase' = "none"
    /\ UNCHANGED <<commitVars, page, saver, done, bounds>>
--------------------------------------------------------------------------------
CommitStep(t) == TryPut(t) \/ Deadlock(t) \/ Commit(t) \/ Fatal(t)

TransactionsNext ==
    \/ \E t \in Committers : CommitStep(t) \/ CommitLocal(t)
    \/ \E t \in Workers : BeginSave(t) \/ \E k \in Objects, v \in {0, writes + 1} : Write(t, k, v)
    \/ \E u \in Updaters : Copy(u)
    \/ EndCopy \/ CommitMaster \/ Crash

TransactionsSpec == TransactionsInit /\ [][TransactionsNext]_transactionVars

\* Threads inside a commit go on, and so does a save.
TransactionsFairness ==
    /\ \A t \in Committers : WF_transactionVars(CommitStep(t))
    /\ \A u \in Updaters : WF_transactionVars(Copy(u) \/ CommitLocal(u))
    /\ WF_transactionVars(EndCopy) /\ WF_transactionVars(CommitMaster)

FairTransactions == TransactionsSpec /\ TransactionsFairness
--------------------------------------------------------------------------------
\* The last of the first m operations on a key counts.
LastOf(ops, m, k) == {i \in 1..m : ops[i].key = k /\ \A j \in 1..m : j > i => ops[j].key # k}

Written(ops, m) ==
    [k \in Keys |->
        IF LastOf(ops, m, k) = {} THEN -1 ELSE ops[CHOOSE i \in LastOf(ops, m, k) : TRUE].val]

\* What a thread has to commit.
Pending == [t \in Committers |-> Written(vector[t], Len(vector[t]))]

\* What the master transaction has written, a child that overwrites it not counted.
MasterWrites ==
    [k \in Keys |->
        IF ~HasLock(Master, k) THEN -1
        ELSE IF \E t \in Updaters : HasLock(t, k) THEN undo[CHOOSE t \in Updaters : HasLock(t, k)][k]
        ELSE page[k]]

Abstract == INSTANCE AtomicStore WITH
    Threads <- Committers, Savers <- Updaters, store <- database,
    pending <- Pending, save <- MasterWrites

\* The databases are an AtomicStore: whatever is interrupted by deadlocks, tried again,
\* interleaved with other commits or cut off by a crash, the writes of a task become durable
\* together or not at all, those of a save become durable together when it ends, and
\* nothing is written twice or over something newer.
StoreSpec == Abstract!Spec

\* The commitLocalTransaction of a task returns, or ends the process; and a save that has
\* begun ends, although the workers that run beside it may have what its threads need and
\* wait for what it has.
CommitsEnd ==
    /\ \A w \in Workers : commitPc[w] # "run" ~> commitPc[w] = "run"
    /\ phase # "none" ~> phase = "none"
================================================================================
