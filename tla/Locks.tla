--------------------------------- MODULE Locks ---------------------------------
(***************************************************************************)
(* The locks of system/thread: Mutex and ReadWriteLock, the holder that    *)
(* Lockable keeps beside the pthread lock, cross locking, and the scoped   *)
(* Locker and ReadLocker.                                                  *)
(*                                                                         *)
(* writer and readers are the pthread lock; holder and readLockCount are   *)
(* the fields that Lockable changes one step before or after it.  A        *)
(* Locker that finds its lock held by its own thread keeps a null pointer  *)
(* and does nothing, so guards has only the ones that really locked.  A    *)
(* Mutex is a lock that nobody reads.                                      *)
(***************************************************************************)
EXTENDS Integers, FiniteSets

CONSTANTS
    Threads,
    LockObjects,  \* the Lockables
    Inner,        \* the ones that are locked last: the object manager's, a queue's
    None          \* nullptr

ASSUME LocksAssumption ==
    Inner \subseteq LockObjects /\ None \notin Threads /\ None \notin LockObjects

VARIABLES
    writer,         \* the thread that has the pthread lock for writing
    readers,        \* the threads that have it for reading
    holder,         \* threadLockHolder
    readLockCount,
    guards,         \* the locks of a thread's Lockers
    readGuards,     \* the locks of its ReadLockers
    pc,             \* where a thread is in a lock operation
    target,         \* the lock it works on
    cross           \* the lock it cross locks with

lockVars == <<writer, readers, holder, readLockCount>>
vars == <<lockVars, guards, readGuards, pc, target, cross>>

TypeOK ==
    /\ writer \in [LockObjects -> Threads \cup {None}]
    /\ readers \in [LockObjects -> SUBSET Threads]
    /\ holder \in [LockObjects -> Threads \cup {None}]
    /\ readLockCount \in [LockObjects -> Int]
    /\ guards \in [Threads -> SUBSET LockObjects]
    /\ readGuards \in [Threads -> SUBSET LockObjects]
    /\ pc \in [Threads -> {"run", "lock", "locked", "try", "drop", "relock", "relocked",
                           "unlock", "rlock", "rlocked", "runlock"}]
    /\ target \in [Threads -> LockObjects \cup {None}]
    /\ cross \in [Threads -> LockObjects \cup {None}]

Init ==
    /\ writer = [l \in LockObjects |-> None] /\ readers = [l \in LockObjects |-> {}]
    /\ holder = [l \in LockObjects |-> None] /\ readLockCount = [l \in LockObjects |-> 0]
    /\ guards = [t \in Threads |-> {}] /\ readGuards = [t \in Threads |-> {}]
    /\ pc = [t \in Threads |-> "run"]
    /\ target = [t \in Threads |-> None] /\ cross = [t \in Threads |-> None]

isLockedByCurrentThread(t, l) == holder[l] = t

\* pthread_rwlock_wrlock and pthread_mutex_lock return, pthread_rwlock_rdlock returns.
Free(l) == writer[l] = None /\ readers[l] = {}
Readable(l) == writer[l] = None

Goto(t, place) == pc' = [pc EXCEPT ![t] = place]
--------------------------------------------------------------------------------
(***************************************************************************)
(* Locker.  The engine takes the lock of a first object with Locker(lock), *)
(* of a second one with Locker(lock, cross), where cross is the one it     *)
(* has, and an inner lock while it has others; a thread that reads a lock  *)
(* does not lock it for writing.                                           *)
(***************************************************************************)

\* Where a caller may use a plain Locker or ReadLocker.
MayLock(t, l) ==
    IF l \in Inner THEN (guards[t] \cup readGuards[t]) \cap Inner = {}
                   ELSE guards[t] \cup readGuards[t] = {}

\* Locker(lock): the lock is not this thread's, so lock() it.
Locker(t, l) ==
    /\ pc[t] = "run" /\ MayLock(t, l)
    /\ ~isLockedByCurrentThread(t, l)
    /\ target' = [target EXCEPT ![t] = l]
    /\ Goto(t, "lock")
    /\ UNCHANGED <<lockVars, guards, readGuards, cross>>

\* Locker(lock, cross), with a lock that is not this thread's and a cross that is.
CrossLocker(t, l, c) ==
    /\ pc[t] = "run" /\ guards[t] = {c} /\ readGuards[t] = {}
    /\ l \notin Inner /\ c \notin Inner
    /\ ~isLockedByCurrentThread(t, l) /\ isLockedByCurrentThread(t, c)
    /\ target' = [target EXCEPT ![t] = l]
    /\ cross' = [cross EXCEPT ![t] = c]
    /\ Goto(t, "try")
    /\ UNCHANGED <<lockVars, guards, readGuards>>

\* lock, wlock: the pthread call returns.
Lock(t) ==
    /\ pc[t] = "lock" /\ Free(target[t])
    /\ writer' = [writer EXCEPT ![target[t]] = t]
    /\ Goto(t, "locked")
    /\ UNCHANGED <<readers, holder, readLockCount, guards, readGuards, target, cross>>

\* lockAcquired, and back to the caller.
LockAcquired(t) ==
    /\ pc[t] = "locked"
    /\ holder' = [holder EXCEPT ![target[t]] = t]
    /\ guards' = [guards EXCEPT ![t] = @ \cup {target[t]}]
    /\ cross' = [cross EXCEPT ![t] = None] /\ target' = [target EXCEPT ![t] = None]
    /\ Goto(t, "run")
    /\ UNCHANGED <<writer, readers, readLockCount, readGuards>>

\* lock(cross), wlock(cross): trylock succeeds.
TryLock(t) ==
    /\ pc[t] = "try" /\ Free(target[t])
    /\ writer' = [writer EXCEPT ![target[t]] = t]
    /\ Goto(t, "locked")
    /\ UNCHANGED <<readers, holder, readLockCount, guards, readGuards, target, cross>>

\* It fails: clearCurrentLockHolder on the cross lock.
TryLockFails(t) ==
    /\ pc[t] = "try" /\ ~Free(target[t])
    /\ holder' = [holder EXCEPT ![cross[t]] = None]
    /\ Goto(t, "drop")
    /\ UNCHANGED <<writer, readers, readLockCount, guards, readGuards, target, cross>>

\* Variant: the cross lock stays locked while the thread waits.
KeepCross(t) ==
    /\ pc[t] = "drop"
    /\ Goto(t, "relock")
    /\ UNCHANGED <<lockVars, guards, readGuards, target, cross>>

\* The cross lock is unlocked,
DropCross(t) ==
    /\ pc[t] = "drop"
    /\ writer' = [writer EXCEPT ![cross[t]] = None]
    /\ Goto(t, "relock")
    /\ UNCHANGED <<readers, holder, readLockCount, guards, readGuards, target, cross>>

\* Variant: the loop takes the cross lock with trylock and goes on when it fails.
TryRelockCross(t) ==
    /\ pc[t] = "relock"
    /\ writer' = IF Free(cross[t]) THEN [writer EXCEPT ![cross[t]] = t] ELSE writer
    /\ Goto(t, "relocked")
    /\ UNCHANGED <<readers, holder, readLockCount, guards, readGuards, target, cross>>

\* locked again,
RelockCross(t) ==
    /\ pc[t] = "relock" /\ Free(cross[t])
    /\ writer' = [writer EXCEPT ![cross[t]] = t]
    /\ Goto(t, "relocked")
    /\ UNCHANGED <<readers, holder, readLockCount, guards, readGuards, target, cross>>

\* Variant: setCurrentLockHolder is forgotten.
RelockedNoHolder(t) ==
    /\ pc[t] = "relocked"
    /\ Goto(t, "try")
    /\ UNCHANGED <<lockVars, guards, readGuards, target, cross>>

\* and has its holder back.
RelockedCross(t) ==
    /\ pc[t] = "relocked"
    /\ holder' = [holder EXCEPT ![cross[t]] = t]
    /\ Goto(t, "try")
    /\ UNCHANGED <<writer, readers, readLockCount, guards, readGuards, target, cross>>

\* ~Locker, release: unlock starts with lockReleasing,
LockReleasing(t, l) ==
    /\ pc[t] = "run" /\ l \in guards[t]
    /\ holder' = [holder EXCEPT ![l] = None]
    /\ target' = [target EXCEPT ![t] = l]
    /\ Goto(t, "unlock")
    /\ UNCHANGED <<writer, readers, readLockCount, guards, readGuards, cross>>

\* and goes on with the pthread lock.
Unlock(t) ==
    /\ pc[t] = "unlock"
    /\ writer' = [writer EXCEPT ![target[t]] = None]
    /\ guards' = [guards EXCEPT ![t] = @ \ {target[t]}]
    /\ target' = [target EXCEPT ![t] = None]
    /\ Goto(t, "run")
    /\ UNCHANGED <<readers, holder, readLockCount, readGuards, cross>>
--------------------------------------------------------------------------------
(***************************************************************************)
(* ReadLocker.                                                             *)
(***************************************************************************)

\* Of a lock that this thread has for writing a ReadLocker does nothing.
ReadLocker(t, l) ==
    /\ pc[t] = "run" /\ MayLock(t, l)
    /\ ~isLockedByCurrentThread(t, l)
    /\ target' = [target EXCEPT ![t] = l]
    /\ Goto(t, "rlock")
    /\ UNCHANGED <<lockVars, guards, readGuards, cross>>

Rlock(t) ==
    /\ pc[t] = "rlock" /\ Readable(target[t])
    /\ readers' = [readers EXCEPT ![target[t]] = @ \cup {t}]
    /\ Goto(t, "rlocked")
    /\ UNCHANGED <<writer, holder, readLockCount, guards, readGuards, target, cross>>

RlockCount(t) ==
    /\ pc[t] = "rlocked"
    /\ readLockCount' = [readLockCount EXCEPT ![target[t]] = @ + 1]
    /\ readGuards' = [readGuards EXCEPT ![t] = @ \cup {target[t]}]
    /\ target' = [target EXCEPT ![t] = None]
    /\ Goto(t, "run")
    /\ UNCHANGED <<writer, readers, holder, guards, cross>>

RunlockCount(t, l) ==
    /\ pc[t] = "run" /\ l \in readGuards[t]
    /\ readLockCount' = [readLockCount EXCEPT ![l] = @ - 1]
    /\ target' = [target EXCEPT ![t] = l]
    /\ Goto(t, "runlock")
    /\ UNCHANGED <<writer, readers, holder, guards, readGuards, cross>>

Runlock(t) ==
    /\ pc[t] = "runlock"
    /\ readers' = [readers EXCEPT ![target[t]] = @ \ {t}]
    /\ readGuards' = [readGuards EXCEPT ![t] = @ \ {target[t]}]
    /\ target' = [target EXCEPT ![t] = None]
    /\ Goto(t, "run")
    /\ UNCHANGED <<writer, holder, readLockCount, guards, cross>>
--------------------------------------------------------------------------------
Step(t) ==
    \/ \E l \in LockObjects : Locker(t, l) \/ LockReleasing(t, l) \/ ReadLocker(t, l) \/ RunlockCount(t, l)
    \/ \E l, c \in LockObjects : CrossLocker(t, l, c)
    \/ Lock(t) \/ LockAcquired(t)
    \/ TryLock(t) \/ TryLockFails(t) \/ DropCross(t) \/ RelockCross(t) \/ RelockedCross(t)
    \/ Unlock(t) \/ Rlock(t) \/ RlockCount(t) \/ Runlock(t)

Next == \E t \in Threads : Step(t)

Spec == Init /\ [][Next]_vars
--------------------------------------------------------------------------------
\* The locks that a thread has.
Owned(t) == {l \in LockObjects : writer[l] = t \/ t \in readers[l]}

\* isLockedByCurrentThread is exact: between two lock operations a thread is the holder of
\* the locks it has for writing and of no other, although another thread that cross locks
\* or unlocks clears and sets holder outside the pthread lock.  A Locker that got a wrong
\* answer would lock a lock twice, or enter without locking.
HolderExact ==
    \A t \in Threads, l \in LockObjects :
        /\ holder[l] = t => writer[l] = t
        /\ pc[t] = "run" => (writer[l] = t => holder[l] = t)

\* What a scope relies on: when a Locker's constructor has returned, the thread has the
\* locks of all its Lockers, the cross lock that lock(cross) gave up in between included;
\* when it has left its scopes it has none.
GuardsHold ==
    \A t \in Threads : pc[t] = "run" =>
        /\ guards[t] = {l \in LockObjects : writer[l] = t}
        /\ readGuards[t] = {l \in LockObjects : t \in readers[l]}

\* A thread that sleeps in a pthread call, and the one that has what it sleeps for.
Blocked(t) == pc[t] \in {"lock", "relock", "rlock"}

WaitsFor(t, u) ==
    /\ Blocked(t)
    /\ (IF pc[t] = "relock" THEN cross[t] ELSE target[t]) \in Owned(u)

\* Nobody waits in a circle.  Two threads that lock the same two objects in opposite
\* orders get past each other, because the one that finds its second object taken gives up
\* its first before it sleeps.
NoWaitCycle ==
    \A S \in SUBSET Threads : S # {} => ~(\A t \in S : \E u \in S : WaitsFor(t, u))
================================================================================
