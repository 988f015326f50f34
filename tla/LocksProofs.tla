------------------------------ MODULE LocksProofs ------------------------------
(***************************************************************************)
(* Proofs about Locks, for any number of threads and locks, and about      *)
(* LocalTransactions, for any workers, update threads and keys.            *)
(***************************************************************************)
EXTENDS Locks, LocalTransactions, TLAPS

\* What a thread has of the pthread locks and where it is the holder, place by place.
Dropping(t) == pc[t] \in {"drop", "relock", "relocked"}
Crossing(t) == pc[t] = "try" \/ Dropping(t)

Writes(t, l) ==
    /\ l \in guards[t] \/ (pc[t] = "locked" /\ l = target[t])
    /\ ~(pc[t] = "relock" /\ l = cross[t])

Reads(t, l) == l \in readGuards[t] \/ (pc[t] = "rlocked" /\ l = target[t])

Holds(t, l) ==
    /\ l \in guards[t]
    /\ ~(Dropping(t) /\ l = cross[t])
    /\ ~(pc[t] = "unlock" /\ l = target[t])

ThreadInv(t) ==
    /\ pc[t] # "run" => target[t] \in LockObjects
    /\ Crossing(t) => /\ guards[t] = {cross[t]} /\ readGuards[t] = {}
                      /\ cross[t] \in LockObjects /\ target[t] # cross[t]
    /\ pc[t] \in {"lock", "rlock"} => MayLock(t, target[t])
    /\ pc[t] = "locked" => target[t] \notin guards[t]
    /\ pc[t] = "unlock" => target[t] \in guards[t]
    /\ pc[t] = "runlock" => target[t] \in readGuards[t]

\* The inductive invariant: ThreadInv, and the locks agree with what the threads' places say.
IInv ==
    /\ TypeOK
    /\ \A t \in Threads : ThreadInv(t)
    /\ \A t \in Threads, l \in LockObjects : writer[l] = t <=> Writes(t, l)
    /\ \A t \in Threads, l \in LockObjects : t \in readers[l] <=> Reads(t, l)
    /\ \A t \in Threads, l \in LockObjects : holder[l] = t <=> Holds(t, l)
--------------------------------------------------------------------------------
\* The constructor's state satisfies the invariant.
LEMMA InitIInv == Init => IInv
<1> SUFFICES ASSUME Init PROVE IInv
  BY Zenon
<1>1. TypeOK
  BY DEF Init, TypeOK
<1>2. \A t \in Threads : ThreadInv(t)
  BY Zenon DEF Init, ThreadInv, Crossing, Dropping
<1>3. \A t \in Threads, l \in LockObjects : writer[l] = t <=> Writes(t, l)
  BY LocksAssumption, Zenon DEF Init, Writes
<1>4. \A t \in Threads, l \in LockObjects : t \in readers[l] <=> Reads(t, l)
  BY Zenon DEF Init, Reads
<1>5. \A t \in Threads, l \in LockObjects : holder[l] = t <=> Holds(t, l)
  BY LocksAssumption, Zenon DEF Init, Holds
<1> QED
  BY <1>1, <1>2, <1>3, <1>4, <1>5, Zenon DEF IInv

\* Locker keeps the invariant.
LEMMA LockerIInv ==
  ASSUME NEW t \in Threads, NEW l \in LockObjects, IInv, Locker(t, l)
  PROVE  IInv'
<1> USE LocksAssumption DEF Locker, Goto, lockVars
<1>0. TypeOK /\ ThreadInv(t)
  BY Zenon DEF IInv
<1>1. TypeOK'
  BY <1>0, Zenon DEF TypeOK
<1>2. ASSUME NEW u \in Threads PROVE ThreadInv(u)'
  <2>0. ThreadInv(u)
    BY Zenon DEF IInv
  <2>1. CASE u = t
    BY <2>1, <1>0 DEF TypeOK, ThreadInv, Crossing, Dropping, MayLock, isLockedByCurrentThread, Holds
  <2>2. CASE u # t
    BY <2>0, <2>2, <1>0 DEF TypeOK, ThreadInv, Crossing, Dropping, MayLock
  <2> QED
    BY <2>1, <2>2, Zenon
<1>3. ASSUME NEW u \in Threads, NEW k \in LockObjects PROVE (writer[k] = u <=> Writes(u, k))'
  <2> (writer[k] = u <=> Writes(u, k)) /\ (\A m \in LockObjects : writer[m] = t <=> Writes(t, m))
    BY Zenon DEF IInv
  <2> QED
    BY <1>0 DEF TypeOK, ThreadInv, Crossing, Dropping, Writes, Free
<1>4. ASSUME NEW u \in Threads, NEW k \in LockObjects PROVE (u \in readers[k] <=> Reads(u, k))'
  <2> (u \in readers[k] <=> Reads(u, k)) /\ (\A m \in LockObjects : t \in readers[m] <=> Reads(t, m))
    BY Zenon DEF IInv
  <2> QED
    BY <1>0 DEF TypeOK, ThreadInv, Crossing, Dropping, Reads
<1>5. ASSUME NEW u \in Threads, NEW k \in LockObjects PROVE (holder[k] = u <=> Holds(u, k))'
  <2> /\ (holder[k] = u <=> Holds(u, k)) /\ \A m \in LockObjects : holder[m] = t <=> Holds(t, m)
      /\ (writer[k] = u <=> Writes(u, k)) /\ \A m \in LockObjects : writer[m] = t <=> Writes(t, m)
    BY Zenon DEF IInv
  <2> QED
    BY <1>0 DEF TypeOK, ThreadInv, Crossing, Dropping, Holds, Writes, isLockedByCurrentThread
<1> QED
  BY <1>1, <1>2, <1>3, <1>4, <1>5, Zenon DEF IInv

\* CrossLocker keeps the invariant.
LEMMA CrossLockerIInv ==
  ASSUME NEW t \in Threads, NEW l \in LockObjects, NEW c \in LockObjects, IInv, CrossLocker(t, l, c)
  PROVE  IInv'
<1> USE LocksAssumption DEF CrossLocker, Goto, lockVars
<1>0. TypeOK /\ ThreadInv(t)
  BY Zenon DEF IInv
<1>1. TypeOK'
  BY <1>0, Zenon DEF TypeOK
<1>2. ASSUME NEW u \in Threads PROVE ThreadInv(u)'
  <2>0. ThreadInv(u)
    BY Zenon DEF IInv
  <2>1. CASE u = t
    BY <2>1, <1>0, Zenon DEF TypeOK, ThreadInv, Crossing, Dropping, MayLock, isLockedByCurrentThread, Holds
  <2>2. CASE u # t
    BY <2>0, <2>2, <1>0 DEF TypeOK, ThreadInv, Crossing, Dropping, MayLock
  <2> QED
    BY <2>1, <2>2, Zenon
<1>3. ASSUME NEW u \in Threads, NEW k \in LockObjects PROVE (writer[k] = u <=> Writes(u, k))'
  <2> (writer[k] = u <=> Writes(u, k)) /\ (\A m \in LockObjects : writer[m] = t <=> Writes(t, m))
    BY Zenon DEF IInv
  <2> QED
    BY <1>0 DEF TypeOK, ThreadInv, Crossing, Dropping, Writes, Free
<1>4. ASSUME NEW u \in Threads, NEW k \in LockObjects PROVE (u \in readers[k] <=> Reads(u, k))'
  <2> (u \in readers[k] <=> Reads(u, k)) /\ (\A m \in LockObjects : t \in readers[m] <=> Reads(t, m))
    BY Zenon DEF IInv
  <2> QED
    BY <1>0 DEF TypeOK, ThreadInv, Crossing, Dropping, Reads
<1>5. ASSUME NEW u \in Threads, NEW k \in LockObjects PROVE (holder[k] = u <=> Holds(u, k))'
  <2> /\ (holder[k] = u <=> Holds(u, k)) /\ \A m \in LockObjects : holder[m] = t <=> Holds(t, m)
      /\ (writer[k] = u <=> Writes(u, k)) /\ \A m \in LockObjects : writer[m] = t <=> Writes(t, m)
    BY Zenon DEF IInv
  <2> QED
    BY <1>0 DEF TypeOK, ThreadInv, Crossing, Dropping, Holds, Writes, isLockedByCurrentThread
<1> QED
  BY <1>1, <1>2, <1>3, <1>4, <1>5, Zenon DEF IInv

\* Lock keeps the invariant.
LEMMA LockIInv ==
  ASSUME NEW t \in Threads, IInv, Lock(t)
  PROVE  IInv'
<1> USE LocksAssumption DEF Lock, Goto
<1>0. TypeOK /\ ThreadInv(t)
  BY Zenon DEF IInv
<1>1. TypeOK'
  BY <1>0, Zenon DEF TypeOK, ThreadInv, Crossing, Dropping
<1>2. ASSUME NEW u \in Threads PROVE ThreadInv(u)'
  <2>0. ThreadInv(u)
    BY Zenon DEF IInv
  <2>1. CASE u = t
    BY <2>1, <1>0 DEF TypeOK, ThreadInv, Crossing, Dropping, MayLock, isLockedByCurrentThread, Holds
  <2>2. CASE u # t
    BY <2>0, <2>2, <1>0 DEF TypeOK, ThreadInv, Crossing, Dropping, MayLock
  <2> QED
    BY <2>1, <2>2, Zenon
<1>3. ASSUME NEW u \in Threads, NEW k \in LockObjects PROVE (writer[k] = u <=> Writes(u, k))'
  <2> (writer[k] = u <=> Writes(u, k)) /\ (\A m \in LockObjects : writer[m] = t <=> Writes(t, m))
    BY Zenon DEF IInv
  <2> QED
    BY <1>0 DEF TypeOK, ThreadInv, Crossing, Dropping, Writes, Free
<1>4. ASSUME NEW u \in Threads, NEW k \in LockObjects PROVE (u \in readers[k] <=> Reads(u, k))'
  <2> (u \in readers[k] <=> Reads(u, k)) /\ (\A m \in LockObjects : t \in readers[m] <=> Reads(t, m))
    BY Zenon DEF IInv
  <2> QED
    BY <1>0 DEF TypeOK, ThreadInv, Crossing, Dropping, Reads
<1>5. ASSUME NEW u \in Threads, NEW k \in LockObjects PROVE (holder[k] = u <=> Holds(u, k))'
  <2> /\ (holder[k] = u <=> Holds(u, k)) /\ \A m \in LockObjects : holder[m] = t <=> Holds(t, m)
      /\ (writer[k] = u <=> Writes(u, k)) /\ \A m \in LockObjects : writer[m] = t <=> Writes(t, m)
    BY Zenon DEF IInv
  <2> QED
    BY <1>0 DEF TypeOK, ThreadInv, Crossing, Dropping, Holds, Writes, isLockedByCurrentThread
<1> QED
  BY <1>1, <1>2, <1>3, <1>4, <1>5, Zenon DEF IInv

\* LockAcquired keeps the invariant.
LEMMA LockAcquiredIInv ==
  ASSUME NEW t \in Threads, IInv, LockAcquired(t)
  PROVE  IInv'
<1> USE LocksAssumption DEF LockAcquired, Goto
<1>0. TypeOK /\ ThreadInv(t)
  BY Zenon DEF IInv
<1>1. TypeOK'
  BY <1>0 DEF TypeOK, ThreadInv, Crossing, Dropping
<1>2. ASSUME NEW u \in Threads PROVE ThreadInv(u)'
  <2>0. ThreadInv(u)
    BY Zenon DEF IInv
  <2>1. CASE u = t
    BY <2>1, <1>0 DEF TypeOK, ThreadInv, Crossing, Dropping, MayLock, isLockedByCurrentThread, Holds
  <2>2. CASE u # t
    BY <2>0, <2>2, <1>0 DEF TypeOK, ThreadInv, Crossing, Dropping, MayLock
  <2> QED
    BY <2>1, <2>2, Zenon
<1>3. ASSUME NEW u \in Threads, NEW k \in LockObjects PROVE (writer[k] = u <=> Writes(u, k))'
  <2> (writer[k] = u <=> Writes(u, k)) /\ (\A m \in LockObjects : writer[m] = t <=> Writes(t, m))
    BY Zenon DEF IInv
  <2> QED
    BY <1>0 DEF TypeOK, ThreadInv, Crossing, Dropping, Writes, Free
<1>4. ASSUME NEW u \in Threads, NEW k \in LockObjects PROVE (u \in readers[k] <=> Reads(u, k))'
  <2> (u \in readers[k] <=> Reads(u, k)) /\ (\A m \in LockObjects : t \in readers[m] <=> Reads(t, m))
    BY Zenon DEF IInv
  <2> QED
    BY <1>0 DEF TypeOK, ThreadInv, Crossing, Dropping, Reads
<1>5. ASSUME NEW u \in Threads, NEW k \in LockObjects PROVE (holder[k] = u <=> Holds(u, k))'
  <2> /\ (holder[k] = u <=> Holds(u, k)) /\ \A m \in LockObjects : holder[m] = t <=> Holds(t, m)
      /\ (writer[k] = u <=> Writes(u, k)) /\ \A m \in LockObjects : writer[m] = t <=> Writes(t, m)
    BY Zenon DEF IInv
  <2> QED
    BY <1>0 DEF TypeOK, ThreadInv, Crossing, Dropping, Holds, Writes, isLockedByCurrentThread
<1> QED
  BY <1>1, <1>2, <1>3, <1>4, <1>5, Zenon DEF IInv

\* TryLock keeps the invariant.
LEMMA TryLockIInv ==
  ASSUME NEW t \in Threads, IInv, TryLock(t)
  PROVE  IInv'
<1> USE LocksAssumption DEF TryLock, Goto
<1>0. TypeOK /\ ThreadInv(t)
  BY Zenon DEF IInv
<1>1. TypeOK'
  BY <1>0, Zenon DEF TypeOK, ThreadInv, Crossing, Dropping
<1>2. ASSUME NEW u \in Threads PROVE ThreadInv(u)'
  <2>0. ThreadInv(u)
    BY Zenon DEF IInv
  <2>1. CASE u = t
    BY <2>1, <1>0 DEF TypeOK, ThreadInv, Crossing, Dropping, MayLock, isLockedByCurrentThread, Holds
  <2>2. CASE u # t
    BY <2>0, <2>2, <1>0 DEF TypeOK, ThreadInv, Crossing, Dropping, MayLock
  <2> QED
    BY <2>1, <2>2, Zenon
<1>3. ASSUME NEW u \in Threads, NEW k \in LockObjects PROVE (writer[k] = u <=> Writes(u, k))'
  <2> (writer[k] = u <=> Writes(u, k)) /\ (\A m \in LockObjects : writer[m] = t <=> Writes(t, m))
    BY Zenon DEF IInv
  <2> QED
    BY <1>0 DEF TypeOK, ThreadInv, Crossing, Dropping, Writes, Free
<1>4. ASSUME NEW u \in Threads, NEW k \in LockObjects PROVE (u \in readers[k] <=> Reads(u, k))'
  <2> (u \in readers[k] <=> Reads(u, k)) /\ (\A m \in LockObjects : t \in readers[m] <=> Reads(t, m))
    BY Zenon DEF IInv
  <2> QED
    BY <1>0 DEF TypeOK, ThreadInv, Crossing, Dropping, Reads
<1>5. ASSUME NEW u \in Threads, NEW k \in LockObjects PROVE (holder[k] = u <=> Holds(u, k))'
  <2> /\ (holder[k] = u <=> Holds(u, k)) /\ \A m \in LockObjects : holder[m] = t <=> Holds(t, m)
      /\ (writer[k] = u <=> Writes(u, k)) /\ \A m \in LockObjects : writer[m] = t <=> Writes(t, m)
    BY Zenon DEF IInv
  <2> QED
    BY <1>0 DEF TypeOK, ThreadInv, Crossing, Dropping, Holds, Writes, isLockedByCurrentThread
<1> QED
  BY <1>1, <1>2, <1>3, <1>4, <1>5, Zenon DEF IInv

\* TryLockFails keeps the invariant.
LEMMA TryLockFailsIInv ==
  ASSUME NEW t \in Threads, IInv, TryLockFails(t)
  PROVE  IInv'
<1> USE LocksAssumption DEF TryLockFails, Goto
<1>0. TypeOK /\ ThreadInv(t)
  BY Zenon DEF IInv
<1>1. TypeOK'
  BY <1>0, Zenon DEF TypeOK, ThreadInv, Crossing, Dropping
<1>2. ASSUME NEW u \in Threads PROVE ThreadInv(u)'
  <2>0. ThreadInv(u)
    BY Zenon DEF IInv
  <2>1. CASE u = t
    BY <2>1, <1>0 DEF TypeOK, ThreadInv, Crossing, Dropping, MayLock, isLockedByCurrentThread, Holds
  <2>2. CASE u # t
    BY <2>0, <2>2, <1>0 DEF TypeOK, ThreadInv, Crossing, Dropping, MayLock
  <2> QED
    BY <2>1, <2>2, Zenon
<1>3. ASSUME NEW u \in Threads, NEW k \in LockObjects PROVE (writer[k] = u <=> Writes(u, k))'
  <2> (writer[k] = u <=> Writes(u, k)) /\ (\A m \in LockObjects : writer[m] = t <=> Writes(t, m))
    BY Zenon DEF IInv
  <2> QED
    BY <1>0 DEF TypeOK, ThreadInv, Crossing, Dropping, Writes, Free
<1>4. ASSUME NEW u \in Threads, NEW k \in LockObjects PROVE (u \in readers[k] <=> Reads(u, k))'
  <2> (u \in readers[k] <=> Reads(u, k)) /\ (\A m \in LockObjects : t \in readers[m] <=> Reads(t, m))
    BY Zenon DEF IInv
  <2> QED
    BY <1>0 DEF TypeOK, ThreadInv, Crossing, Dropping, Reads
<1>5. ASSUME NEW u \in Threads, NEW k \in LockObjects PROVE (holder[k] = u <=> Holds(u, k))'
  <2> /\ (holder[k] = u <=> Holds(u, k)) /\ \A m \in LockObjects : holder[m] = t <=> Holds(t, m)
      /\ (writer[k] = u <=> Writes(u, k)) /\ \A m \in LockObjects : writer[m] = t <=> Writes(t, m)
    BY Zenon DEF IInv
  <2> QED
    BY <1>0 DEF TypeOK, ThreadInv, Crossing, Dropping, Holds, Writes, isLockedByCurrentThread
<1> QED
  BY <1>1, <1>2, <1>3, <1>4, <1>5, Zenon DEF IInv

\* DropCross keeps the invariant.
LEMMA DropCrossIInv ==
  ASSUME NEW t \in Threads, IInv, DropCross(t)
  PROVE  IInv'
<1> USE LocksAssumption DEF DropCross, Goto
<1>0. TypeOK /\ ThreadInv(t)
  BY Zenon DEF IInv
<1>1. TypeOK'
  BY <1>0, Zenon DEF TypeOK, ThreadInv, Crossing, Dropping
<1>2. ASSUME NEW u \in Threads PROVE ThreadInv(u)'
  <2>0. ThreadInv(u)
    BY Zenon DEF IInv
  <2>1. CASE u = t
    BY <2>1, <1>0 DEF TypeOK, ThreadInv, Crossing, Dropping, MayLock, isLockedByCurrentThread, Holds
  <2>2. CASE u # t
    BY <2>0, <2>2, <1>0 DEF TypeOK, ThreadInv, Crossing, Dropping, MayLock
  <2> QED
    BY <2>1, <2>2, Zenon
<1>3. ASSUME NEW u \in Threads, NEW k \in LockObjects PROVE (writer[k] = u <=> Writes(u, k))'
  <2> (writer[k] = u <=> Writes(u, k)) /\ (\A m \in LockObjects : writer[m] = t <=> Writes(t, m))
    BY Zenon DEF IInv
  <2> QED
    BY <1>0 DEF TypeOK, ThreadInv, Crossing, Dropping, Writes, Free
<1>4. ASSUME NEW u \in Threads, NEW k \in LockObjects PROVE (u \in readers[k] <=> Reads(u, k))'
  <2> (u \in readers[k] <=> Reads(u, k)) /\ (\A m \in LockObjects : t \in readers[m] <=> Reads(t, m))
    BY Zenon DEF IInv
  <2> QED
    BY <1>0 DEF TypeOK, ThreadInv, Crossing, Dropping, Reads
<1>5. ASSUME NEW u \in Threads, NEW k \in LockObjects PROVE (holder[k] = u <=> Holds(u, k))'
  <2> /\ (holder[k] = u <=> Holds(u, k)) /\ \A m \in LockObjects : holder[m] = t <=> Holds(t, m)
      /\ (writer[k] = u <=> Writes(u, k)) /\ \A m \in LockObjects : writer[m] = t <=> Writes(t, m)
    BY Zenon DEF IInv
  <2> QED
    BY <1>0 DEF TypeOK, ThreadInv, Crossing, Dropping, Holds, Writes, isLockedByCurrentThread
<1> QED
  BY <1>1, <1>2, <1>3, <1>4, <1>5, Zenon DEF IInv

\* RelockCross keeps the invariant.
LEMMA RelockCrossIInv ==
  ASSUME NEW t \in Threads, IInv, RelockCross(t)
  PROVE  IInv'
<1> USE LocksAssumption DEF RelockCross, Goto
<1>0. TypeOK /\ ThreadInv(t)
  BY Zenon DEF IInv
<1>1. TypeOK'
  BY <1>0, Zenon DEF TypeOK, ThreadInv, Crossing, Dropping
<1>2. ASSUME NEW u \in Threads PROVE ThreadInv(u)'
  <2>0. ThreadInv(u)
    BY Zenon DEF IInv
  <2>1. CASE u = t
    BY <2>1, <1>0 DEF TypeOK, ThreadInv, Crossing, Dropping, MayLock, isLockedByCurrentThread, Holds
  <2>2. CASE u # t
    BY <2>0, <2>2, <1>0 DEF TypeOK, ThreadInv, Crossing, Dropping, MayLock
  <2> QED
    BY <2>1, <2>2, Zenon
<1>3. ASSUME NEW u \in Threads, NEW k \in LockObjects PROVE (writer[k] = u <=> Writes(u, k))'
  <2> (writer[k] = u <=> Writes(u, k)) /\ (\A m \in LockObjects : writer[m] = t <=> Writes(t, m))
    BY Zenon DEF IInv
  <2> QED
    BY <1>0 DEF TypeOK, ThreadInv, Crossing, Dropping, Writes, Free
<1>4. ASSUME NEW u \in Threads, NEW k \in LockObjects PROVE (u \in readers[k] <=> Reads(u, k))'
  <2> (u \in readers[k] <=> Reads(u, k)) /\ (\A m \in LockObjects : t \in readers[m] <=> Reads(t, m))
    BY Zenon DEF IInv
  <2> QED
    BY <1>0 DEF TypeOK, ThreadInv, Crossing, Dropping, Reads
<1>5. ASSUME NEW u \in Threads, NEW k \in LockObjects PROVE (holder[k] = u <=> Holds(u, k))'
  <2> /\ (holder[k] = u <=> Holds(u, k)) /\ \A m \in LockObjects : holder[m] = t <=> Holds(t, m)
      /\ (writer[k] = u <=> Writes(u, k)) /\ \A m \in LockObjects : writer[m] = t <=> Writes(t, m)
    BY Zenon DEF IInv
  <2> QED
    BY <1>0 DEF TypeOK, ThreadInv, Crossing, Dropping, Holds, Writes, isLockedByCurrentThread
<1> QED
  BY <1>1, <1>2, <1>3, <1>4, <1>5, Zenon DEF IInv

\* RelockedCross keeps the invariant.
LEMMA RelockedCrossIInv ==
  ASSUME NEW t \in Threads, IInv, RelockedCross(t)
  PROVE  IInv'
<1> USE LocksAssumption DEF RelockedCross, Goto
<1>0. TypeOK /\ ThreadInv(t)
  BY Zenon DEF IInv
<1>1. TypeOK'
  BY <1>0, Zenon DEF TypeOK, ThreadInv, Crossing, Dropping
<1>2. ASSUME NEW u \in Threads PROVE ThreadInv(u)'
  <2>0. ThreadInv(u)
    BY Zenon DEF IInv
  <2>1. CASE u = t
    BY <2>1, <1>0 DEF TypeOK, ThreadInv, Crossing, Dropping, MayLock, isLockedByCurrentThread, Holds
  <2>2. CASE u # t
    BY <2>0, <2>2, <1>0 DEF TypeOK, ThreadInv, Crossing, Dropping, MayLock
  <2> QED
    BY <2>1, <2>2, Zenon
<1>3. ASSUME NEW u \in Threads, NEW k \in LockObjects PROVE (writer[k] = u <=> Writes(u, k))'
  <2> (writer[k] = u <=> Writes(u, k)) /\ (\A m \in LockObjects : writer[m] = t <=> Writes(t, m))
    BY Zenon DEF IInv
  <2> QED
    BY <1>0 DEF TypeOK, ThreadInv, Crossing, Dropping, Writes, Free
<1>4. ASSUME NEW u \in Threads, NEW k \in LockObjects PROVE (u \in readers[k] <=> Reads(u, k))'
  <2> (u \in readers[k] <=> Reads(u, k)) /\ (\A m \in LockObjects : t \in readers[m] <=> Reads(t, m))
    BY Zenon DEF IInv
  <2> QED
    BY <1>0 DEF TypeOK, ThreadInv, Crossing, Dropping, Reads
<1>5. ASSUME NEW u \in Threads, NEW k \in LockObjects PROVE (holder[k] = u <=> Holds(u, k))'
  <2> /\ (holder[k] = u <=> Holds(u, k)) /\ \A m \in LockObjects : holder[m] = t <=> Holds(t, m)
      /\ (writer[k] = u <=> Writes(u, k)) /\ \A m \in LockObjects : writer[m] = t <=> Writes(t, m)
    BY Zenon DEF IInv
  <2> QED
    BY <1>0 DEF TypeOK, ThreadInv, Crossing, Dropping, Holds, Writes, isLockedByCurrentThread
<1> QED
  BY <1>1, <1>2, <1>3, <1>4, <1>5, Zenon DEF IInv

\* LockReleasing keeps the invariant.
LEMMA LockReleasingIInv ==
  ASSUME NEW t \in Threads, NEW l \in LockObjects, IInv, LockReleasing(t, l)
  PROVE  IInv'
<1> USE LocksAssumption DEF LockReleasing, Goto
<1>0. TypeOK /\ ThreadInv(t)
  BY Zenon DEF IInv
<1>1. TypeOK'
  BY <1>0, Zenon DEF TypeOK
<1>2. ASSUME NEW u \in Threads PROVE ThreadInv(u)'
  <2>0. ThreadInv(u)
    BY Zenon DEF IInv
  <2>1. CASE u = t
    BY <2>1, <1>0 DEF TypeOK, ThreadInv, Crossing, Dropping, MayLock, isLockedByCurrentThread, Holds
  <2>2. CASE u # t
    BY <2>0, <2>2, <1>0 DEF TypeOK, ThreadInv, Crossing, Dropping, MayLock
  <2> QED
    BY <2>1, <2>2, Zenon
<1>3. ASSUME NEW u \in Threads, NEW k \in LockObjects PROVE (writer[k] = u <=> Writes(u, k))'
  <2> (writer[k] = u <=> Writes(u, k)) /\ (\A m \in LockObjects : writer[m] = t <=> Writes(t, m))
    BY Zenon DEF IInv
  <2> QED
    BY <1>0 DEF TypeOK, ThreadInv, Crossing, Dropping, Writes, Free
<1>4. ASSUME NEW u \in Threads, NEW k \in LockObjects PROVE (u \in readers[k] <=> Reads(u, k))'
  <2> (u \in readers[k] <=> Reads(u, k)) /\ (\A m \in LockObjects : t \in readers[m] <=> Reads(t, m))
    BY Zenon DEF IInv
  <2> QED
    BY <1>0 DEF TypeOK, ThreadInv, Crossing, Dropping, Reads
<1>5. ASSUME NEW u \in Threads, NEW k \in LockObjects PROVE (holder[k] = u <=> Holds(u, k))'
  <2> /\ (holder[k] = u <=> Holds(u, k)) /\ \A m \in LockObjects : holder[m] = t <=> Holds(t, m)
      /\ (writer[k] = u <=> Writes(u, k)) /\ \A m \in LockObjects : writer[m] = t <=> Writes(t, m)
    BY Zenon DEF IInv
  <2> QED
    BY <1>0 DEF TypeOK, ThreadInv, Crossing, Dropping, Holds, Writes, isLockedByCurrentThread
<1> QED
  BY <1>1, <1>2, <1>3, <1>4, <1>5, Zenon DEF IInv

\* Unlock keeps the invariant.
LEMMA UnlockIInv ==
  ASSUME NEW t \in Threads, IInv, Unlock(t)
  PROVE  IInv'
<1> USE LocksAssumption DEF Unlock, Goto
<1>0. TypeOK /\ ThreadInv(t)
  BY Zenon DEF IInv
<1>1. TypeOK'
  BY <1>0, Zenon DEF TypeOK, ThreadInv, Crossing, Dropping
<1>2. ASSUME NEW u \in Threads PROVE ThreadInv(u)'
  <2>0. ThreadInv(u)
    BY Zenon DEF IInv
  <2>1. CASE u = t
    BY <2>1, <1>0 DEF TypeOK, ThreadInv, Crossing, Dropping, MayLock, isLockedByCurrentThread, Holds
  <2>2. CASE u # t
    BY <2>0, <2>2, <1>0 DEF TypeOK, ThreadInv, Crossing, Dropping, MayLock
  <2> QED
    BY <2>1, <2>2, Zenon
<1>3. ASSUME NEW u \in Threads, NEW k \in LockObjects PROVE (writer[k] = u <=> Writes(u, k))'
  <2> (writer[k] = u <=> Writes(u, k)) /\ (\A m \in LockObjects : writer[m] = t <=> Writes(t, m))
    BY Zenon DEF IInv
  <2> QED
    BY <1>0 DEF TypeOK, ThreadInv, Crossing, Dropping, Writes, Free
<1>4. ASSUME NEW u \in Threads, NEW k \in LockObjects PROVE (u \in readers[k] <=> Reads(u, k))'
  <2> (u \in readers[k] <=> Reads(u, k)) /\ (\A m \in LockObjects : t \in readers[m] <=> Reads(t, m))
    BY Zenon DEF IInv
  <2> QED
    BY <1>0 DEF TypeOK, ThreadInv, Crossing, Dropping, Reads
<1>5. ASSUME NEW u \in Threads, NEW k \in LockObjects PROVE (holder[k] = u <=> Holds(u, k))'
  <2> /\ (holder[k] = u <=> Holds(u, k)) /\ \A m \in LockObjects : holder[m] = t <=> Holds(t, m)
      /\ (writer[k] = u <=> Writes(u, k)) /\ \A m \in LockObjects : writer[m] = t <=> Writes(t, m)
    BY Zenon DEF IInv
  <2> QED
    BY <1>0 DEF TypeOK, ThreadInv, Crossing, Dropping, Holds, Writes, isLockedByCurrentThread
<1> QED
  BY <1>1, <1>2, <1>3, <1>4, <1>5, Zenon DEF IInv

\* ReadLocker keeps the invariant.
LEMMA ReadLockerIInv ==
  ASSUME NEW t \in Threads, NEW l \in LockObjects, IInv, ReadLocker(t, l)
  PROVE  IInv'
<1> USE LocksAssumption DEF ReadLocker, Goto, lockVars
<1>0. TypeOK /\ ThreadInv(t)
  BY Zenon DEF IInv
<1>1. TypeOK'
  BY <1>0, Zenon DEF TypeOK
<1>2. ASSUME NEW u \in Threads PROVE ThreadInv(u)'
  <2>0. ThreadInv(u)
    BY Zenon DEF IInv
  <2>1. CASE u = t
    BY <2>1, <1>0 DEF TypeOK, ThreadInv, Crossing, Dropping, MayLock, isLockedByCurrentThread, Holds
  <2>2. CASE u # t
    BY <2>0, <2>2, <1>0 DEF TypeOK, ThreadInv, Crossing, Dropping, MayLock
  <2> QED
    BY <2>1, <2>2, Zenon
<1>3. ASSUME NEW u \in Threads, NEW k \in LockObjects PROVE (writer[k] = u <=> Writes(u, k))'
  <2> (writer[k] = u <=> Writes(u, k)) /\ (\A m \in LockObjects : writer[m] = t <=> Writes(t, m))
    BY Zenon DEF IInv
  <2> QED
    BY <1>0 DEF TypeOK, ThreadInv, Crossing, Dropping, Writes, Free
<1>4. ASSUME NEW u \in Threads, NEW k \in LockObjects PROVE (u \in readers[k] <=> Reads(u, k))'
  <2> (u \in readers[k] <=> Reads(u, k)) /\ (\A m \in LockObjects : t \in readers[m] <=> Reads(t, m))
    BY Zenon DEF IInv
  <2> QED
    BY <1>0 DEF TypeOK, ThreadInv, Crossing, Dropping, Reads
<1>5. ASSUME NEW u \in Threads, NEW k \in LockObjects PROVE (holder[k] = u <=> Holds(u, k))'
  <2> /\ (holder[k] = u <=> Holds(u, k)) /\ \A m \in LockObjects : holder[m] = t <=> Holds(t, m)
      /\ (writer[k] = u <=> Writes(u, k)) /\ \A m \in LockObjects : writer[m] = t <=> Writes(t, m)
    BY Zenon DEF IInv
  <2> QED
    BY <1>0 DEF TypeOK, ThreadInv, Crossing, Dropping, Holds, Writes, isLockedByCurrentThread
<1> QED
  BY <1>1, <1>2, <1>3, <1>4, <1>5, Zenon DEF IInv

\* Rlock keeps the invariant.
LEMMA RlockIInv ==
  ASSUME NEW t \in Threads, IInv, Rlock(t)
  PROVE  IInv'
<1> USE LocksAssumption DEF Rlock, Goto
<1>0. TypeOK /\ ThreadInv(t)
  BY Zenon DEF IInv
<1>1. TypeOK'
  BY <1>0 DEF TypeOK, ThreadInv, Crossing, Dropping
<1>2. ASSUME NEW u \in Threads PROVE ThreadInv(u)'
  <2>0. ThreadInv(u)
    BY Zenon DEF IInv
  <2>1. CASE u = t
    BY <2>1, <1>0 DEF TypeOK, ThreadInv, Crossing, Dropping, MayLock, isLockedByCurrentThread, Holds
  <2>2. CASE u # t
    BY <2>0, <2>2, <1>0 DEF TypeOK, ThreadInv, Crossing, Dropping, MayLock
  <2> QED
    BY <2>1, <2>2, Zenon
<1>3. ASSUME NEW u \in Threads, NEW k \in LockObjects PROVE (writer[k] = u <=> Writes(u, k))'
  <2> (writer[k] = u <=> Writes(u, k)) /\ (\A m \in LockObjects : writer[m] = t <=> Writes(t, m))
    BY Zenon DEF IInv
  <2> QED
    BY <1>0 DEF TypeOK, ThreadInv, Crossing, Dropping, Writes, Free
<1>4. ASSUME NEW u \in Threads, NEW k \in LockObjects PROVE (u \in readers[k] <=> Reads(u, k))'
  <2> (u \in readers[k] <=> Reads(u, k)) /\ (\A m \in LockObjects : t \in readers[m] <=> Reads(t, m))
    BY Zenon DEF IInv
  <2> QED
    BY <1>0 DEF TypeOK, ThreadInv, Crossing, Dropping, Reads
<1>5. ASSUME NEW u \in Threads, NEW k \in LockObjects PROVE (holder[k] = u <=> Holds(u, k))'
  <2> /\ (holder[k] = u <=> Holds(u, k)) /\ \A m \in LockObjects : holder[m] = t <=> Holds(t, m)
      /\ (writer[k] = u <=> Writes(u, k)) /\ \A m \in LockObjects : writer[m] = t <=> Writes(t, m)
    BY Zenon DEF IInv
  <2> QED
    BY <1>0 DEF TypeOK, ThreadInv, Crossing, Dropping, Holds, Writes, isLockedByCurrentThread
<1> QED
  BY <1>1, <1>2, <1>3, <1>4, <1>5, Zenon DEF IInv

\* RlockCount keeps the invariant.
LEMMA RlockCountIInv ==
  ASSUME NEW t \in Threads, IInv, RlockCount(t)
  PROVE  IInv'
<1> USE LocksAssumption DEF RlockCount, Goto
<1>0. TypeOK /\ ThreadInv(t)
  BY Zenon DEF IInv
<1>1. TypeOK'
  BY <1>0 DEF TypeOK, ThreadInv, Crossing, Dropping
<1>2. ASSUME NEW u \in Threads PROVE ThreadInv(u)'
  <2>0. ThreadInv(u)
    BY Zenon DEF IInv
  <2>1. CASE u = t
    BY <2>1, <1>0 DEF TypeOK, ThreadInv, Crossing, Dropping, MayLock, isLockedByCurrentThread, Holds
  <2>2. CASE u # t
    BY <2>0, <2>2, <1>0 DEF TypeOK, ThreadInv, Crossing, Dropping, MayLock
  <2> QED
    BY <2>1, <2>2, Zenon
<1>3. ASSUME NEW u \in Threads, NEW k \in LockObjects PROVE (writer[k] = u <=> Writes(u, k))'
  <2> (writer[k] = u <=> Writes(u, k)) /\ (\A m \in LockObjects : writer[m] = t <=> Writes(t, m))
    BY Zenon DEF IInv
  <2> QED
    BY <1>0 DEF TypeOK, ThreadInv, Crossing, Dropping, Writes, Free
<1>4. ASSUME NEW u \in Threads, NEW k \in LockObjects PROVE (u \in readers[k] <=> Reads(u, k))'
  <2> (u \in readers[k] <=> Reads(u, k)) /\ (\A m \in LockObjects : t \in readers[m] <=> Reads(t, m))
    BY Zenon DEF IInv
  <2> QED
    BY <1>0 DEF TypeOK, ThreadInv, Crossing, Dropping, Reads
<1>5. ASSUME NEW u \in Threads, NEW k \in LockObjects PROVE (holder[k] = u <=> Holds(u, k))'
  <2> /\ (holder[k] = u <=> Holds(u, k)) /\ \A m \in LockObjects : holder[m] = t <=> Holds(t, m)
      /\ (writer[k] = u <=> Writes(u, k)) /\ \A m \in LockObjects : writer[m] = t <=> Writes(t, m)
    BY Zenon DEF IInv
  <2> QED
    BY <1>0 DEF TypeOK, ThreadInv, Crossing, Dropping, Holds, Writes, isLockedByCurrentThread
<1> QED
  BY <1>1, <1>2, <1>3, <1>4, <1>5, Zenon DEF IInv

\* RunlockCount keeps the invariant.
LEMMA RunlockCountIInv ==
  ASSUME NEW t \in Threads, NEW l \in LockObjects, IInv, RunlockCount(t, l)
  PROVE  IInv'
<1> USE LocksAssumption DEF RunlockCount, Goto
<1>0. TypeOK /\ ThreadInv(t)
  BY Zenon DEF IInv
<1>1. TypeOK'
  BY <1>0 DEF TypeOK
<1>2. ASSUME NEW u \in Threads PROVE ThreadInv(u)'
  <2>0. ThreadInv(u)
    BY Zenon DEF IInv
  <2>1. CASE u = t
    BY <2>1, <1>0 DEF TypeOK, ThreadInv, Crossing, Dropping, MayLock, isLockedByCurrentThread, Holds
  <2>2. CASE u # t
    BY <2>0, <2>2, <1>0 DEF TypeOK, ThreadInv, Crossing, Dropping, MayLock
  <2> QED
    BY <2>1, <2>2, Zenon
<1>3. ASSUME NEW u \in Threads, NEW k \in LockObjects PROVE (writer[k] = u <=> Writes(u, k))'
  <2> (writer[k] = u <=> Writes(u, k)) /\ (\A m \in LockObjects : writer[m] = t <=> Writes(t, m))
    BY Zenon DEF IInv
  <2> QED
    BY <1>0 DEF TypeOK, ThreadInv, Crossing, Dropping, Writes, Free
<1>4. ASSUME NEW u \in Threads, NEW k \in LockObjects PROVE (u \in readers[k] <=> Reads(u, k))'
  <2> (u \in readers[k] <=> Reads(u, k)) /\ (\A m \in LockObjects : t \in readers[m] <=> Reads(t, m))
    BY Zenon DEF IInv
  <2> QED
    BY <1>0 DEF TypeOK, ThreadInv, Crossing, Dropping, Reads
<1>5. ASSUME NEW u \in Threads, NEW k \in LockObjects PROVE (holder[k] = u <=> Holds(u, k))'
  <2> /\ (holder[k] = u <=> Holds(u, k)) /\ \A m \in LockObjects : holder[m] = t <=> Holds(t, m)
      /\ (writer[k] = u <=> Writes(u, k)) /\ \A m \in LockObjects : writer[m] = t <=> Writes(t, m)
    BY Zenon DEF IInv
  <2> QED
    BY <1>0 DEF TypeOK, ThreadInv, Crossing, Dropping, Holds, Writes, isLockedByCurrentThread
<1> QED
  BY <1>1, <1>2, <1>3, <1>4, <1>5, Zenon DEF IInv

\* Runlock keeps the invariant.
LEMMA RunlockIInv ==
  ASSUME NEW t \in Threads, IInv, Runlock(t)
  PROVE  IInv'
<1> USE LocksAssumption DEF Runlock, Goto
<1>0. TypeOK /\ ThreadInv(t)
  BY Zenon DEF IInv
<1>1. TypeOK'
  BY <1>0, ZenonT(30) DEF TypeOK, ThreadInv, Crossing, Dropping
<1>2. ASSUME NEW u \in Threads PROVE ThreadInv(u)'
  <2>0. ThreadInv(u)
    BY Zenon DEF IInv
  <2>1. CASE u = t
    BY <2>1, <1>0 DEF TypeOK, ThreadInv, Crossing, Dropping, MayLock, isLockedByCurrentThread, Holds
  <2>2. CASE u # t
    BY <2>0, <2>2, <1>0 DEF TypeOK, ThreadInv, Crossing, Dropping, MayLock
  <2> QED
    BY <2>1, <2>2, Zenon
<1>3. ASSUME NEW u \in Threads, NEW k \in LockObjects PROVE (writer[k] = u <=> Writes(u, k))'
  <2> (writer[k] = u <=> Writes(u, k)) /\ (\A m \in LockObjects : writer[m] = t <=> Writes(t, m))
    BY Zenon DEF IInv
  <2> QED
    BY <1>0 DEF TypeOK, ThreadInv, Crossing, Dropping, Writes, Free
<1>4. ASSUME NEW u \in Threads, NEW k \in LockObjects PROVE (u \in readers[k] <=> Reads(u, k))'
  <2> (u \in readers[k] <=> Reads(u, k)) /\ (\A m \in LockObjects : t \in readers[m] <=> Reads(t, m))
    BY Zenon DEF IInv
  <2> QED
    BY <1>0 DEF TypeOK, ThreadInv, Crossing, Dropping, Reads
<1>5. ASSUME NEW u \in Threads, NEW k \in LockObjects PROVE (holder[k] = u <=> Holds(u, k))'
  <2> /\ (holder[k] = u <=> Holds(u, k)) /\ \A m \in LockObjects : holder[m] = t <=> Holds(t, m)
      /\ (writer[k] = u <=> Writes(u, k)) /\ \A m \in LockObjects : writer[m] = t <=> Writes(t, m)
    BY Zenon DEF IInv
  <2> QED
    BY <1>0 DEF TypeOK, ThreadInv, Crossing, Dropping, Holds, Writes, isLockedByCurrentThread
<1> QED
  BY <1>1, <1>2, <1>3, <1>4, <1>5, Zenon DEF IInv

\* Every step keeps the invariant.
LEMMA NextIInv == IInv /\ [Next]_vars => IInv'
<1> SUFFICES ASSUME IInv, [Next]_vars PROVE IInv'
  BY Zenon
<1>1. CASE Next
  <2> PICK t \in Threads : Step(t)
    BY <1>1, Zenon DEF Next
  <2> QED
    BY LockerIInv, CrossLockerIInv, LockIInv, LockAcquiredIInv, TryLockIInv, TryLockFailsIInv, DropCrossIInv, RelockCrossIInv, RelockedCrossIInv, UnlockIInv, RlockIInv, RlockCountIInv, RunlockIInv, LockReleasingIInv, ReadLockerIInv, RunlockCountIInv, Zenon DEF Step
<1>2. CASE UNCHANGED vars
  <2> USE <1>2 DEF vars, lockVars, IInv
  <2>1. TypeOK'
    BY Zenon DEF TypeOK
  <2>2. \A t \in Threads : ThreadInv(t)'
    BY Zenon DEF ThreadInv, Crossing, Dropping, MayLock
  <2>3. \A t \in Threads, l \in LockObjects : Writes(t, l)' <=> Writes(t, l)
    BY Zenon DEF Writes
  <2>4. \A t \in Threads, l \in LockObjects : Reads(t, l)' <=> Reads(t, l)
    BY Zenon DEF Reads
  <2>5. \A t \in Threads, l \in LockObjects : Holds(t, l)' <=> Holds(t, l)
    BY Zenon DEF Holds, Dropping
  <2> QED
    BY <2>1, <2>2, <2>3, <2>4, <2>5, Zenon
<1> QED
  BY <1>1, <1>2, Zenon

\* The invariant holds throughout.
THEOREM SpecIInv == Spec => []IInv
<1> QED
  BY InitIInv, NextIInv, PTL DEF Spec

\* isLockedByCurrentThread is exact in every state, whoever clears and sets holders.
THEOREM SpecHolderExact == Spec => []HolderExact
<1>1. IInv => HolderExact
  <2> SUFFICES ASSUME IInv, NEW t \in Threads, NEW l \in LockObjects
               PROVE  /\ holder[l] = t => writer[l] = t
                      /\ pc[t] = "run" => (writer[l] = t => holder[l] = t)
    BY Zenon DEF HolderExact
  <2> (holder[l] = t <=> Holds(t, l)) /\ (writer[l] = t <=> Writes(t, l))
    BY Zenon DEF IInv
  <2> QED
    BY Zenon DEF Holds, Writes, Dropping
<1> QED
  BY <1>1, SpecIInv, PTL

\* A thread whose Lockers have returned has exactly the locks of its Lockers.
THEOREM SpecGuardsHold == Spec => []GuardsHold
<1>1. IInv => GuardsHold
  <2> SUFFICES ASSUME IInv, NEW t \in Threads, pc[t] = "run"
               PROVE  /\ guards[t] = {l \in LockObjects : writer[l] = t}
                      /\ readGuards[t] = {l \in LockObjects : t \in readers[l]}
    BY Zenon DEF GuardsHold
  <2>1. guards[t] \subseteq LockObjects /\ readGuards[t] \subseteq LockObjects
    BY Zenon DEF IInv, TypeOK
  <2>2. \A l \in LockObjects : (writer[l] = t <=> l \in guards[t]) /\ (t \in readers[l] <=> l \in readGuards[t])
    BY Zenon DEF IInv, Writes, Reads
  <2> QED
    BY <2>1, <2>2, Zenon
<1> QED
  BY <1>1, SpecIInv, PTL

\* No circle of threads waits for itself, with any number of threads and locks.
THEOREM SpecNoWaitCycle == Spec => []NoWaitCycle
<1> DEFINE Wanted(t) == IF pc[t] = "relock" THEN cross[t] ELSE target[t]
<1>1. ASSUME IInv, NEW t \in Threads, Blocked(t), Owned(t) # {}
      PROVE  Wanted(t) \in Inner /\ Owned(t) \cap Inner = {}
  <2>1. ThreadInv(t) /\ \A l \in LockObjects : (writer[l] = t <=> Writes(t, l)) /\ (t \in readers[l] <=> Reads(t, l))
    BY <1>1, Zenon DEF IInv
  <2>2. pc[t] # "relock"
    BY <2>1, <1>1, Zenon DEF ThreadInv, Crossing, Dropping, Owned, Writes, Reads
  <2>3. pc[t] \in {"lock", "rlock"} /\ MayLock(t, target[t])
    BY <2>1, <2>2, <1>1, Zenon DEF ThreadInv, Blocked
  <2>4. \A l \in Owned(t) : l \in guards[t] \cup readGuards[t]
    BY <2>1, <2>3, Zenon DEF Owned, Writes, Reads
  <2> QED
    BY <2>2, <2>3, <2>4, <1>1, Zenon DEF MayLock
<1>2. ASSUME IInv PROVE NoWaitCycle
  <2> SUFFICES ASSUME NEW S \in SUBSET Threads, S # {}, \A t \in S : \E u \in S : WaitsFor(t, u)
               PROVE  FALSE
    BY Zenon DEF NoWaitCycle
  <2>1. PICK t \in S, u \in S : WaitsFor(t, u)
    BY Zenon
  <2>2. PICK v \in S : WaitsFor(u, v)
    BY Zenon
  <2>3. Blocked(u) /\ Blocked(v) /\ Owned(u) # {} /\ Wanted(u) \in Owned(v)
    BY <2>1, <2>2, Zenon DEF WaitsFor
  <2>4. Wanted(u) \in Inner /\ Owned(v) \cap Inner = {}
    BY <2>3, <1>1, <1>2, Zenon
  <2> QED
    BY <2>3, <2>4, Zenon
<1> QED
  BY <1>2, SpecIInv, PTL
--------------------------------------------------------------------------------
(***************************************************************************)
(* LocalTransactions.                                                      *)
(***************************************************************************)
\* The operations of a vector.
Operations == [key : Keys, val : Values]

\* What Berkeley DB keeps for a transaction: what it overwrote.
Undos == UNION {[S -> Values] : S \in SUBSET Keys}

\* How many of its operations a thread has carried out.
Progress(t) ==
    IF commitPc[t] = "loop" THEN index[t] - 1 ELSE IF commitPc[t] = "end" THEN Len(vector[t]) ELSE 0

StoreTypes ==
    /\ vector \in [Committers -> Seq(Operations)]
    /\ undo \in [Committers \cup {Master} -> Undos]
    /\ page \in [Keys -> Values] /\ database \in [Keys -> Values]
    /\ writes \in Nat /\ saves \in Nat

CommitTypes ==
    /\ commitPc \in [Committers -> {"run", "loop", "end", "fatal"}]
    /\ index \in [Committers -> Nat]

\* A thread has locks inside its loop only, and there it has an operation to come to.
CommitPlace(t) ==
    /\ commitPc[t] \in {"run", "fatal"} => undo[t] = NoWrites
    /\ commitPc[t] = "loop" => index[t] \in 1..Len(vector[t])

\* An update thread has writes from its copy to its commit, in the same save.
SavePlace(u) ==
    /\ vector[u] # <<>> => (phase = "copy" /\ u \in done) \/ (phase = "commit" /\ u \notin done)
    /\ commitPc[u] # "run" => phase = "commit" /\ u \notin done

\* A key is locked once, or by an update thread and by the master transaction.
LocksExclude ==
    \A k \in Keys, t \in Committers : HasLock(t, k) =>
        /\ \A u \in Committers : HasLock(u, k) => u = t
        /\ HasLock(Master, k) => t \in Updaters

\* A transaction has the locks of the keys it wrote, and they have the values it wrote last.
WritesLocked(t) ==
    \A k \in Keys :
        Written(vector[t], Progress(t))[k] = IF HasLock(t, k) THEN page[k] ELSE -1

\* The inductive invariant of LocalTransactions.
TransactionsInv ==
    /\ StoreTypes /\ CommitTypes
    /\ \A t \in Committers : CommitPlace(t)
    /\ \A u \in Updaters : SavePlace(u)
    /\ LocksExclude
    /\ \A t \in Committers : WritesLocked(t)
--------------------------------------------------------------------------------
\* A value is never the mark of an absent write.
LEMMA ValuesSet == -1 \notin Values /\ 0 \in Values
BY TransactionsAssumption DEF Values

\* No operation writes nothing.
LEMMA WrittenNone ==
    ASSUME NEW ops, NEW k \in Keys
    PROVE  Written(ops, 0)[k] = -1
<1>1. LastOf(ops, 0, k) = {}
  BY DEF LastOf
<1> QED
  BY <1>1, Zenon DEF Written

\* One more operation writes its key and leaves the others.
LEMMA WrittenNext ==
    ASSUME NEW ops, NEW m \in Nat, NEW k \in Keys
    PROVE  Written(ops, m + 1)[k] = IF ops[m + 1].key = k THEN ops[m + 1].val ELSE Written(ops, m)[k]
<1>1. CASE ops[m + 1].key = k
  <2>1. LastOf(ops, m + 1, k) = {m + 1}
    BY <1>1 DEF LastOf
  <2>2. (CHOOSE i \in LastOf(ops, m + 1, k) : TRUE) = m + 1
    BY <2>1, Zenon
  <2>3. LastOf(ops, m + 1, k) # {}
    BY <2>1, Zenon
  <2>4. Written(ops, m + 1)[k] = ops[CHOOSE i \in LastOf(ops, m + 1, k) : TRUE].val
    BY <2>3, Zenon DEF Written
  <2> QED
    BY <1>1, <2>2, <2>4, Zenon
<1>2. CASE ops[m + 1].key # k
  <2>1. \A i : i \in LastOf(ops, m + 1, k) <=> i \in LastOf(ops, m, k)
    BY <1>2 DEF LastOf
  <2>2. LastOf(ops, m + 1, k) = LastOf(ops, m, k)
    BY <2>1, Zenon
  <2>3. Written(ops, m + 1)[k] = Written(ops, m)[k]
    <3>1. \A n : Written(ops, n)[k] =
              IF LastOf(ops, n, k) = {} THEN -1 ELSE ops[CHOOSE i \in LastOf(ops, n, k) : TRUE].val
      BY Zenon DEF Written
    <3> QED
      BY <2>2, <3>1, Zenon
  <2> QED
    BY <1>2, <2>3, Zenon
<1> QED
  BY <1>1, <1>2, Zenon

\* What the first operations write depends on them alone.
LEMMA WrittenPrefix ==
    ASSUME NEW a, NEW b, NEW m \in Nat, \A i \in 1..m : a[i] = b[i], NEW k \in Keys
    PROVE  Written(a, m)[k] = Written(b, m)[k]
<1>1. LastOf(a, m, k) = LastOf(b, m, k)
  BY Zenon DEF LastOf
<1>2. CASE LastOf(b, m, k) = {}
  BY <1>1, <1>2, Zenon DEF Written
<1>3. CASE LastOf(b, m, k) # {}
  <2>1. a[CHOOSE i \in LastOf(b, m, k) : TRUE] = b[CHOOSE i \in LastOf(b, m, k) : TRUE]
    <3>1. (CHOOSE i \in LastOf(b, m, k) : TRUE) \in LastOf(b, m, k)
      BY <1>3, Zenon
    <3>2. \A i \in LastOf(b, m, k) : a[i] = b[i]
      BY Zenon DEF LastOf
    <3> QED
      BY <3>1, <3>2, Zenon
  <2> QED
    BY <1>1, <1>3, <2>1 DEF Written
<1> QED
  BY <1>2, <1>3, Zenon

\* A key is left alone or gets the value of an operation.
LEMMA WrittenValues ==
    ASSUME NEW ops \in Seq(Operations), NEW m \in 0..Len(ops), NEW k \in Keys
    PROVE  Written(ops, m)[k] \in Values \cup {-1}
<1>1. CASE LastOf(ops, m, k) = {}
  BY <1>1, Zenon DEF Written
<1>2. CASE LastOf(ops, m, k) # {}
  <2>1. (CHOOSE i \in LastOf(ops, m, k) : TRUE) \in LastOf(ops, m, k)
    BY <1>2, Zenon
  <2>2. (CHOOSE i \in LastOf(ops, m, k) : TRUE) \in 1..Len(ops)
    BY <2>1 DEF LastOf
  <2>3. \A i \in 1..Len(ops) : ops[i].val \in Values
    <3>1. \A i \in 1..Len(ops) : ops[i] \in Operations
      OBVIOUS
    <3> QED
      BY <3>1, Zenon DEF Operations
  <2>4. ops[CHOOSE i \in LastOf(ops, m, k) : TRUE].val \in Values
    BY <2>2, <2>3, Zenon
  <2> QED
    BY <1>2, <2>4, Zenon DEF Written
<1> QED
  BY <1>1, <1>2, Zenon

\* A write at the end of a vector is what counts for its key.
LEMMA WrittenAppend ==
    ASSUME NEW ops \in Seq(Operations), NEW op \in Operations, NEW k \in Keys
    PROVE  Written(Append(ops, op), Len(Append(ops, op)))[k] =
               IF op.key = k THEN op.val ELSE Written(ops, Len(ops))[k]
<1> DEFINE more == Append(ops, op)
<1>1. Len(ops) \in Nat /\ Len(more) = Len(ops) + 1 /\ more[Len(ops) + 1] = op
  OBVIOUS
<1>2. \A i \in 1..Len(ops) : more[i] = ops[i]
  OBVIOUS
<1>3. Written(more, Len(ops))[k] = Written(ops, Len(ops))[k]
  BY <1>1, <1>2, WrittenPrefix, ZenonT(30)
<1> HIDE DEF more
<1>4. Written(more, Len(more))[k] = IF op.key = k THEN op.val ELSE Written(ops, Len(ops))[k]
  BY <1>1, <1>3, WrittenNext
<1> QED
  BY <1>4, Zenon DEF more

\* What a transaction keeps is a value for each of its keys.
LEMMA UndosAt ==
    ASSUME NEW f \in Undos, NEW k \in DOMAIN f
    PROVE  k \in Keys /\ f[k] \in Values
BY Zenon DEF Undos

\* A transaction that has overwritten nothing.
LEMMA UndosNone == NoWrites \in Undos /\ DOMAIN NoWrites = {}
<1>1. NoWrites \in [{} -> Values] /\ DOMAIN NoWrites = {}
  BY Zenon DEF NoWrites
<1> QED
  BY <1>1, Zenon DEF Undos

\* One that has overwritten a key.
LEMMA UndosOne ==
    ASSUME NEW a \in Keys, NEW v \in Values
    PROVE  [k \in {a} |-> v] \in Undos
<1>1. [k \in {a} |-> v] \in [{a} -> Values]
  BY Zenon
<1> QED
  BY <1>1, Zenon DEF Undos

\* Keep has the keys of both.
LEMMA UndosKeep ==
    ASSUME NEW f \in Undos, NEW g \in Undos
    PROVE  Keep(f, g) \in Undos /\ DOMAIN Keep(f, g) = DOMAIN f \cup DOMAIN g
<1>1. DOMAIN Keep(f, g) = DOMAIN f \cup DOMAIN g
  BY Zenon DEF Keep
<1>2. DOMAIN f \cup DOMAIN g \in SUBSET Keys
  BY UndosAt, Zenon
<1>3. Keep(f, g) \in [DOMAIN f \cup DOMAIN g -> Values]
  BY UndosAt, Zenon DEF Keep
<1> QED
  BY <1>1, <1>2, <1>3, Zenon DEF Undos

\* An abort leaves values in the cache.
LEMMA UndoneValues ==
    ASSUME StoreTypes, NEW t \in Committers
    PROVE  Undone(t) \in [Keys -> Values]
<1>1. undo[t] \in Undos /\ page \in [Keys -> Values]
  BY Zenon DEF StoreTypes
<1> QED
  BY <1>1, UndosAt, Zenon DEF Undone, HasLock

\* A commit leaves values on disk.
LEMMA DurableValues ==
    ASSUME StoreTypes, NEW x
    PROVE  Durable(x) \in [Keys -> Values]
BY Zenon DEF StoreTypes, Durable

\* A step that leaves a thread alone leaves it at its place in commitLocalTransaction.
LEMMA SameCommitPlace ==
    ASSUME NEW t \in Committers, CommitPlace(t),
           commitPc'[t] = commitPc[t], undo'[t] = undo[t], index'[t] = index[t], vector'[t] = vector[t]
    PROVE  CommitPlace(t)'
BY Zenon DEF CommitPlace

\* Its place in the save.
LEMMA SameSavePlace ==
    ASSUME NEW u \in Updaters, SavePlace(u),
           vector'[u] = vector[u], commitPc'[u] = commitPc[u], phase' = phase, u \in done' <=> u \in done
    PROVE  SavePlace(u)'
BY Zenon DEF SavePlace

\* Its writes, when it leaves the pages that the thread has locked.
LEMMA SameWritesLocked ==
    ASSUME NEW t \in Committers, WritesLocked(t),
           commitPc'[t] = commitPc[t], undo'[t] = undo[t], index'[t] = index[t], vector'[t] = vector[t],
           \A k \in Keys : HasLock(t, k) => page'[k] = page[k]
    PROVE  WritesLocked(t)'
<1>1. Progress(t)' = Progress(t)
  BY Zenon DEF Progress
<1>2. ASSUME NEW k \in Keys
      PROVE  Written(vector'[t], Progress(t)')[k] = IF k \in DOMAIN undo'[t] THEN page'[k] ELSE -1
  BY <1>1 DEF WritesLocked, HasLock
<1> QED
  BY <1>2, Zenon DEF WritesLocked, HasLock

\* A thread outside its loop has written nothing.
LEMMA IdleWritesLocked ==
    ASSUME NEW t \in Committers, Progress(t)' = 0, undo'[t] = NoWrites
    PROVE  WritesLocked(t)'
<1>1. ASSUME NEW k \in Keys
      PROVE  Written(vector'[t], Progress(t)')[k] = IF k \in DOMAIN undo'[t] THEN page'[k] ELSE -1
  <2>1. k \notin DOMAIN undo'[t]
    BY UndosNone, Zenon
  <2> QED
    BY <2>1, WrittenNone, Zenon
<1> QED
  BY <1>1, Zenon DEF WritesLocked, HasLock

\* The same locks exclude each other.
LEMMA SameLocksExclude ==
    ASSUME LocksExclude, undo' = undo
    PROVE  LocksExclude'
BY Zenon DEF LocksExclude, HasLock

\* Fewer locks exclude each other as more of them do.
LEMMA FewerLocksExclude ==
    ASSUME LocksExclude, \A x \in Committers \cup {Master}, k \in Keys : k \in DOMAIN undo'[x] => k \in DOMAIN undo[x]
    PROVE  LocksExclude'
BY Zenon DEF LocksExclude, HasLock
--------------------------------------------------------------------------------
\* The state that opening the environment finds satisfies the invariant.
LEMMA FreshInv ==
    ASSUME vector' = [t \in Committers |-> <<>>], commitPc' = [t \in Committers |-> "run"],
           index' = [t \in Committers |-> 1],
           undo' = [x \in Committers \cup {Master} |-> NoWrites],
           page' \in [Keys -> Values], database' \in [Keys -> Values],
           writes' \in Nat, saves' \in Nat
    PROVE  TransactionsInv'
<1>1. ASSUME NEW t \in Committers
      PROVE  /\ vector'[t] = <<>> /\ commitPc'[t] = "run" /\ index'[t] = 1 /\ undo'[t] = NoWrites
             /\ Progress(t)' = 0
  BY Zenon DEF Progress
<1>2. StoreTypes'
  <2>1. vector' \in [Committers -> Seq(Operations)]
    OBVIOUS
  <2>2. undo' \in [Committers \cup {Master} -> Undos]
    BY UndosNone, Zenon
  <2> QED
    BY <2>1, <2>2, Zenon DEF StoreTypes
<1>3. CommitTypes'
  BY Zenon DEF CommitTypes
<1>4. \A t \in Committers : CommitPlace(t)'
  BY <1>1, Zenon DEF CommitPlace
<1>5. \A u \in Updaters : SavePlace(u)'
  BY <1>1, Zenon DEF SavePlace, Committers
<1>6. LocksExclude'
  BY <1>1, UndosNone, Zenon DEF LocksExclude, HasLock
<1>7. \A t \in Committers : WritesLocked(t)'
  BY <1>1, IdleWritesLocked, Zenon
<1> QED
  BY <1>2, <1>3, <1>4, <1>5, <1>6, <1>7, Zenon DEF TransactionsInv

\* So does the state at the start.
LEMMA TransactionsInitInv == TransactionsInit => TransactionsInv
<1> SUFFICES ASSUME TransactionsInit PROVE TransactionsInv
  BY Zenon
<1>1. ASSUME NEW t \in Committers
      PROVE  /\ vector[t] = <<>> /\ commitPc[t] = "run" /\ index[t] = 1 /\ undo[t] = NoWrites
             /\ Progress(t) = 0
  BY Zenon DEF TransactionsInit, Progress
<1>2. StoreTypes
  <2>1. vector \in [Committers -> Seq(Operations)]
    BY DEF TransactionsInit
  <2>2. undo \in [Committers \cup {Master} -> Undos]
    BY UndosNone, Zenon DEF TransactionsInit
  <2>3. page \in [Keys -> Values] /\ database \in [Keys -> Values] /\ writes \in Nat /\ saves \in Nat
    BY ValuesSet, Zenon DEF TransactionsInit
  <2> QED
    BY <2>1, <2>2, <2>3, Zenon DEF StoreTypes
<1>3. CommitTypes
  BY Zenon DEF CommitTypes, TransactionsInit
<1>4. \A t \in Committers : CommitPlace(t)
  BY <1>1, Zenon DEF CommitPlace
<1>5. \A u \in Updaters : SavePlace(u)
  BY <1>1, Zenon DEF SavePlace, Committers
<1>6. LocksExclude
  BY <1>1, UndosNone, Zenon DEF LocksExclude, HasLock
<1>7. \A t \in Committers : WritesLocked(t)
  BY <1>1, UndosNone, WrittenNone, ZenonT(30) DEF WritesLocked, HasLock
<1> QED
  BY <1>2, <1>3, <1>4, <1>5, <1>6, <1>7, Zenon DEF TransactionsInv

\* And the state after a restart, whatever the process was doing.
LEMMA RestartInv ==
    ASSUME TransactionsInv, Restart
    PROVE  TransactionsInv'
<1>1. database \in [Keys -> Values] /\ writes \in Nat /\ saves \in Nat
  BY Zenon DEF TransactionsInv, StoreTypes
<1>2. /\ vector' = [t \in Committers |-> <<>>] /\ commitPc' = [t \in Committers |-> "run"]
      /\ index' = [t \in Committers |-> 1]
      /\ undo' = [x \in Committers \cup {Master} |-> NoWrites]
      /\ page' = database /\ database' = database /\ writes' = writes /\ saves' = saves
  BY Zenon DEF Restart
<1> QED
  BY <1>1, <1>2, FreshInv, Zenon

\* A write goes to the end of a vector whose thread is not in its loop.
LEMMA AppendInv ==
    ASSUME TransactionsInv, NEW t \in Workers, NEW op \in Operations,
           commitPc[t] = "run", vector' = [vector EXCEPT ![t] = Append(@, op)],
           \/ commitPc' = commitPc /\ index' = index /\ phase' = phase /\ done' = done
           \/ /\ commitPc' = [commitPc EXCEPT ![t] = "loop"] /\ index' = [index EXCEPT ![t] = 1]
              /\ phase = "none",
           UNCHANGED storeVars, writes' \in Nat, saves' \in Nat
    PROVE  TransactionsInv'
<1>1. /\ StoreTypes /\ CommitTypes /\ LocksExclude
      /\ \A c \in Committers : CommitPlace(c) /\ WritesLocked(c)
      /\ \A u \in Updaters : SavePlace(u)
  BY Zenon DEF TransactionsInv
<1>2. t \in Committers /\ t \notin Updaters /\ undo' = undo /\ page' = page /\ database' = database
  BY TransactionsAssumption, Zenon DEF Committers, storeVars
<1>3. vector[t] \in Seq(Operations) /\ vector' \in [Committers -> Seq(Operations)]
  <2>1. vector[t] \in Seq(Operations)
    BY <1>1, <1>2, Zenon DEF StoreTypes
  <2>2. Append(vector[t], op) \in Seq(Operations)
    BY <2>1
  <2> QED
    BY <1>1, <1>2, <2>1, <2>2, Zenon DEF StoreTypes
<1>4. vector'[t] = Append(vector[t], op) /\ Len(vector'[t]) = Len(vector[t]) + 1 /\ Len(vector[t]) \in Nat
  BY <1>1, <1>2, <1>3 DEF StoreTypes
<1>5. ASSUME NEW c \in Committers, c # t
      PROVE  vector'[c] = vector[c] /\ commitPc'[c] = commitPc[c] /\ index'[c] = index[c]
  BY <1>1, <1>5, Zenon DEF StoreTypes, CommitTypes
<1>6. /\ commitPc'[t] \in {"run", "loop"}
      /\ commitPc'[t] = "loop" => index'[t] = 1
      /\ undo'[t] = NoWrites
  BY <1>1, <1>2, Zenon DEF CommitTypes, CommitPlace
<1>7. StoreTypes'
  BY <1>1, <1>2, <1>3, Zenon DEF StoreTypes
<1>8. CommitTypes'
  BY <1>1, <1>2 DEF CommitTypes
<1>9. ASSUME NEW c \in Committers PROVE CommitPlace(c)'
  <2>1. CASE c = t
    BY <1>4, <1>6, <2>1 DEF CommitPlace
  <2>2. CASE c # t
    BY <1>1, <1>2, <1>5, <2>2, SameCommitPlace, Zenon
  <2> QED
    BY <2>1, <2>2, Zenon
<1>10. ASSUME NEW u \in Updaters PROVE SavePlace(u)'
  <2>1. u \in Committers /\ u # t /\ SavePlace(u)
    BY <1>1, <1>2, Zenon DEF Committers
  <2>2. vector'[u] = vector[u] /\ commitPc'[u] = commitPc[u]
    BY <1>5, <2>1, Zenon
  <2> QED
    BY <2>1, <2>2, Zenon DEF SavePlace
<1>11. LocksExclude'
  BY <1>1, <1>2, SameLocksExclude, Zenon
<1>12. ASSUME NEW c \in Committers PROVE WritesLocked(c)'
  <2>1. CASE c = t
    <3>1. Progress(t)' = 0
      BY <1>6 DEF Progress
    <3> QED
      BY <1>2, <1>6, <2>1, <3>1, IdleWritesLocked, Zenon
  <2>2. CASE c # t
    BY <1>1, <1>2, <1>5, <2>2, SameWritesLocked, Zenon
  <2> QED
    BY <2>1, <2>2, Zenon
<1> QED
  BY <1>7, <1>8, <1>9, <1>10, <1>11, <1>12, Zenon DEF TransactionsInv

\* putData and deleteData of a task keep the invariant.
LEMMA WriteInv ==
    ASSUME TransactionsInv, NEW t \in Workers, NEW k \in Objects, NEW v \in {0, writes + 1}, Write(t, k, v)
    PROVE  TransactionsInv'
<1>1. writes \in Nat /\ saves \in Nat
  BY Zenon DEF TransactionsInv, StoreTypes
<1>2. [key |-> k, val |-> v] \in Operations
  <2>1. k \in Keys /\ v \in Values
    BY <1>1, TransactionsAssumption DEF Keys, Values, Write
  <2> QED
    BY <2>1, Zenon DEF Operations
<1>3. /\ commitPc[t] = "run" /\ vector' = [vector EXCEPT ![t] = Append(@, [key |-> k, val |-> v])]
      /\ commitPc' = commitPc /\ index' = index /\ phase' = phase /\ done' = done
      /\ UNCHANGED storeVars /\ writes' = writes + 1 /\ saves' = saves
  BY Zenon DEF Write, saveVars
<1>4. writes' \in Nat /\ saves' \in Nat
  BY <1>1, <1>3
<1> QED
  BY <1>2, <1>3, <1>4, AppendInv, Zenon

\* updateLastUsedObjectID before a save keeps it.
LEMMA BeginSaveInv ==
    ASSUME TransactionsInv, NEW t \in Workers, BeginSave(t)
    PROVE  TransactionsInv'
<1> DEFINE op == [key |-> LastID, val |-> MaxWrites + saves + 1]
<1>1. writes \in Nat /\ saves \in Nat
  BY Zenon DEF TransactionsInv, StoreTypes
<1>2. op \in Operations
  <2>1. LastID \in Keys /\ MaxWrites + saves + 1 \in Values
    BY <1>1, TransactionsAssumption DEF Keys, Values, BeginSave
  <2> QED
    BY <2>1, Zenon DEF Operations
<1>3. /\ commitPc[t] = "run" /\ vector' = [vector EXCEPT ![t] = Append(@, op)]
      /\ commitPc' = [commitPc EXCEPT ![t] = "loop"] /\ index' = [index EXCEPT ![t] = 1]
      /\ phase = "none"
      /\ UNCHANGED storeVars /\ writes' = writes /\ saves' = saves + 1
  BY Zenon DEF BeginSave
<1>4. writes' \in Nat /\ saves' \in Nat
  BY <1>1, <1>3
<1> HIDE DEF op
<1> QED
  BY <1>2, <1>3, <1>4, AppendInv, Zenon

\* commitObjectsToDatabase: what an update thread copies.
LEMMA CopyEffect ==
    ASSUME TransactionsInv, NEW u \in Updaters, Copy(u)
    PROVE  \E ops \in Seq(Operations) : vector' = [vector EXCEPT ![u] = ops]
<1>1. PICK m \in 0..MaxCopies : \E ks \in Injection(1..m, Objects) :
        \E deleted \in SUBSET (Range(ks) \cap Destroyed) :
          vector' = [vector EXCEPT ![u] =
              [i \in DOMAIN ks |-> [key |-> ks[i], val |-> IF ks[i] \in deleted THEN 0 ELSE u]]]
  BY Zenon DEF Copy
<1>2. PICK ks \in Injection(1..m, Objects) : \E deleted \in SUBSET (Range(ks) \cap Destroyed) :
        vector' = [vector EXCEPT ![u] =
              [i \in DOMAIN ks |-> [key |-> ks[i], val |-> IF ks[i] \in deleted THEN 0 ELSE u]]]
  BY <1>1, Zenon
<1>3. PICK deleted \in SUBSET (Range(ks) \cap Destroyed) :
        vector' = [vector EXCEPT ![u] =
              [i \in DOMAIN ks |-> [key |-> ks[i], val |-> IF ks[i] \in deleted THEN 0 ELSE u]]]
  BY <1>2, Zenon
<1> DEFINE ops == [i \in DOMAIN ks |-> [key |-> ks[i], val |-> IF ks[i] \in deleted THEN 0 ELSE u]]
<1>4. m \in Nat /\ ks \in [1..m -> Objects] /\ DOMAIN ks = 1..m
  BY TransactionsAssumption DEF Injection
<1>5. ASSUME NEW i \in 1..m
      PROVE  [key |-> ks[i], val |-> IF ks[i] \in deleted THEN 0 ELSE u] \in Operations
  <2>1. ks[i] \in Keys /\ u \in Values
    BY <1>4, Zenon DEF Keys, Values
  <2> QED
    BY <2>1, ValuesSet, Zenon DEF Operations
<1>6. ops \in [1..m -> Operations]
  BY <1>4, <1>5, Zenon
<1>7. ops \in Seq(Operations)
  BY <1>4, <1>6
<1> HIDE DEF ops
<1>8. vector' = [vector EXCEPT ![u] = ops]
  BY <1>3, Zenon DEF ops
<1> QED
  BY <1>7, <1>8, Zenon

\* commitObjectsToDatabase keeps it.
LEMMA CopyInv ==
    ASSUME TransactionsInv, NEW u \in Updaters, Copy(u)
    PROVE  TransactionsInv'
<1>1. /\ StoreTypes /\ CommitTypes /\ LocksExclude
      /\ \A c \in Committers : CommitPlace(c) /\ WritesLocked(c)
      /\ \A v \in Updaters : SavePlace(v)
  BY Zenon DEF TransactionsInv
<1>2. PICK ops \in Seq(Operations) : vector' = [vector EXCEPT ![u] = ops]
  BY CopyEffect, Zenon
<1>3. /\ phase = "copy" /\ u \notin done /\ done' = done \cup {u} /\ phase' = phase
      /\ commitPc' = commitPc /\ index' = index /\ undo' = undo /\ page' = page /\ database' = database
      /\ writes' = writes /\ saves' = saves
  BY Zenon DEF Copy, storeVars, bounds
<1>4. u \in Committers
  BY Zenon DEF Committers
<1>5. commitPc[u] = "run" /\ undo[u] = NoWrites
  BY <1>1, <1>3, <1>4, Zenon DEF SavePlace, CommitPlace
<1>6. ASSUME NEW c \in Committers, c # u PROVE vector'[c] = vector[c]
  BY <1>1, <1>2, <1>6, Zenon DEF StoreTypes
<1>7. StoreTypes'
  BY <1>1, <1>2, <1>3, <1>4, Zenon DEF StoreTypes
<1>8. CommitTypes'
  BY <1>1, <1>3, Zenon DEF CommitTypes
<1>9. ASSUME NEW c \in Committers PROVE CommitPlace(c)'
  <2>1. CASE c = u
    BY <1>3, <1>5, <2>1, Zenon DEF CommitPlace
  <2>2. CASE c # u
    BY <1>1, <1>3, <1>6, <2>2, SameCommitPlace, Zenon
  <2> QED
    BY <2>1, <2>2, Zenon
<1>10. ASSUME NEW v \in Updaters PROVE SavePlace(v)'
  <2>1. CASE v = u
    BY <1>3, <1>5, <2>1, Zenon DEF SavePlace
  <2>2. CASE v # u
    <3>1. v \in Committers /\ (v \in done' <=> v \in done)
      BY <1>3, <2>2, Zenon DEF Committers
    <3> QED
      BY <1>1, <1>3, <1>6, <2>2, <3>1, SameSavePlace, Zenon
  <2> QED
    BY <2>1, <2>2, Zenon
<1>11. LocksExclude'
  BY <1>1, <1>3, SameLocksExclude, Zenon
<1>12. ASSUME NEW c \in Committers PROVE WritesLocked(c)'
  <2>1. CASE c = u
    <3>1. Progress(u)' = 0 /\ undo'[u] = NoWrites
      BY <1>3, <1>5, Zenon DEF Progress
    <3> QED
      BY <1>4, <2>1, <3>1, IdleWritesLocked, Zenon
  <2>2. CASE c # u
    BY <1>1, <1>3, <1>6, <2>2, SameWritesLocked, Zenon
  <2> QED
    BY <2>1, <2>2, Zenon
<1> QED
  BY <1>7, <1>8, <1>9, <1>10, <1>11, <1>12, Zenon DEF TransactionsInv

\* commitLocalTransaction begins.
LEMMA CommitLocalInv ==
    ASSUME TransactionsInv, NEW t \in Committers, CommitLocal(t)
    PROVE  TransactionsInv'
<1>1. /\ StoreTypes /\ CommitTypes /\ LocksExclude
      /\ \A c \in Committers : CommitPlace(c) /\ WritesLocked(c)
      /\ \A u \in Updaters : SavePlace(u)
  BY Zenon DEF TransactionsInv
<1>2. /\ commitPc[t] = "run" /\ vector' = vector /\ phase' = phase
      /\ t \in Updaters => phase = "commit" /\ t \notin done
      /\ undo' = undo /\ page' = page /\ database' = database /\ writes' = writes /\ saves' = saves
      /\ \/ /\ vector[t] = <<>> /\ done' = done \cup {t} /\ commitPc' = commitPc /\ index' = index
         \/ /\ vector[t] # <<>> /\ done' = done
            /\ commitPc' = [commitPc EXCEPT ![t] = "loop"] /\ index' = [index EXCEPT ![t] = 1]
  BY Zenon DEF CommitLocal, Child, commitVars, storeVars, bounds
<1>3. undo[t] = NoWrites
  BY <1>1, <1>2, Zenon DEF CommitPlace
<1>4. ASSUME NEW c \in Committers, c # t
      PROVE  commitPc'[c] = commitPc[c] /\ index'[c] = index[c] /\ (c \in done' <=> c \in done)
  BY <1>1, <1>2, <1>4, Zenon DEF CommitTypes
<1>5. \/ commitPc'[t] = "run" /\ vector[t] = <<>>
      \/ commitPc'[t] = "loop" /\ index'[t] = 1 /\ vector[t] # <<>> /\ done' = done
  BY <1>1, <1>2, Zenon DEF CommitTypes
<1>6. StoreTypes'
  BY <1>1, <1>2, Zenon DEF StoreTypes
<1>7. CommitTypes'
  BY <1>1, <1>2 DEF CommitTypes
<1>8. ASSUME NEW c \in Committers PROVE CommitPlace(c)'
  <2>1. CASE c = t
    <3>1. vector[t] \in Seq(Operations)
      BY <1>1, Zenon DEF StoreTypes
    <3>2. vector[t] # <<>> => 1 \in 1..Len(vector[t])
      BY <3>1
    <3> QED
      BY <1>2, <1>3, <1>5, <2>1, <3>2, Zenon DEF CommitPlace
  <2>2. CASE c # t
    BY <1>1, <1>2, <1>4, <2>2, SameCommitPlace, Zenon
  <2> QED
    BY <2>1, <2>2, Zenon
<1>9. ASSUME NEW u \in Updaters PROVE SavePlace(u)'
  <2>1. CASE u = t
    BY <1>2, <1>5, <2>1, Zenon DEF SavePlace
  <2>2. CASE u # t
    <3>1. u \in Committers
      BY Zenon DEF Committers
    <3> QED
      BY <1>1, <1>2, <1>4, <2>2, <3>1, SameSavePlace, Zenon
  <2> QED
    BY <2>1, <2>2, Zenon
<1>10. LocksExclude'
  BY <1>1, <1>2, SameLocksExclude, Zenon
<1>11. ASSUME NEW c \in Committers PROVE WritesLocked(c)'
  <2>1. CASE c = t
    <3>1. Progress(t)' = 0 /\ undo'[t] = NoWrites
      BY <1>2, <1>3, <1>5 DEF Progress
    <3> QED
      BY <2>1, <3>1, IdleWritesLocked, Zenon
  <2>2. CASE c # t
    BY <1>1, <1>2, <1>4, <2>2, SameWritesLocked, Zenon
  <2> QED
    BY <2>1, <2>2, Zenon
<1> QED
  BY <1>6, <1>7, <1>8, <1>9, <1>10, <1>11, Zenon DEF TransactionsInv

\* What tryPutData and tryDeleteData change.
LEMMA TryPutEffect ==
    ASSUME TransactionsInv, NEW t \in Committers, TryPut(t)
    PROVE  /\ commitPc[t] = "loop" /\ index[t] \in 1..Len(vector[t]) /\ vector[t] \in Seq(Operations)
           /\ Operation(t).key \in Keys /\ Operation(t).val \in Values
           /\ MayTake(t, Operation(t).key)
           /\ page' = [page EXCEPT ![Operation(t).key] = Operation(t).val]
           /\ undo'[t] \in Undos /\ DOMAIN undo'[t] = DOMAIN undo[t] \cup {Operation(t).key}
           /\ \A k \in DOMAIN undo[t] : undo'[t][k] = undo[t][k]
           /\ Operation(t).key \notin DOMAIN undo[t] => undo'[t][Operation(t).key] = page[Operation(t).key]
           /\ \A x \in Committers \cup {Master} : x # t => undo'[x] = undo[x]
           /\ undo' \in [Committers \cup {Master} -> Undos]
           /\ UNCHANGED <<vector, database, saveVars, bounds>>
<1> DEFINE op == Operation(t)
           one == [k \in {op.key} |-> page[op.key]]
<1>1. /\ commitPc[t] = "loop" /\ MayTake(t, op.key) /\ page' = [page EXCEPT ![op.key] = op.val]
      /\ undo' = [undo EXCEPT ![t] = Keep(@, one)]
      /\ UNCHANGED <<vector, database, saveVars, bounds>>
  BY Zenon DEF TryPut
<1>2. index[t] \in 1..Len(vector[t])
  BY <1>1, Zenon DEF TransactionsInv, CommitPlace
<1>3. vector[t] \in Seq(Operations) /\ undo \in [Committers \cup {Master} -> Undos] /\ page \in [Keys -> Values]
  BY Zenon DEF TransactionsInv, StoreTypes
<1>4. op \in Operations
  BY <1>2, <1>3 DEF Operation
<1>5. op.key \in Keys /\ op.val \in Values
  BY <1>4, Zenon DEF Operations
<1> HIDE DEF op
<1>6. one \in Undos
  <2>1. page[op.key] \in Values
    BY <1>3, <1>5, Zenon
  <2> QED
    BY <1>5, <2>1, UndosOne, Zenon
<1>7. DOMAIN one = {op.key}
  BY Zenon
<1>8. undo[t] \in Undos
  BY <1>3, Zenon
<1> HIDE DEF one
<1>9. Keep(undo[t], one) \in Undos /\ DOMAIN Keep(undo[t], one) = DOMAIN undo[t] \cup DOMAIN one
  BY <1>6, <1>8, UndosKeep, Zenon
<1>10. undo'[t] = Keep(undo[t], one)
  BY <1>1, <1>3, Zenon
<1>11. undo' \in [Committers \cup {Master} -> Undos]
  BY <1>1, <1>3, <1>9, Zenon
<1>12. \A x \in Committers \cup {Master} : x # t => undo'[x] = undo[x]
  BY <1>1, <1>3, Zenon
<1>13. undo'[t] \in Undos /\ DOMAIN undo'[t] = DOMAIN undo[t] \cup {op.key}
  BY <1>7, <1>9, <1>10, Zenon
<1>14. \A k \in DOMAIN undo[t] : undo'[t][k] = undo[t][k]
  BY <1>10, Zenon DEF Keep
<1>15. op.key \notin DOMAIN undo[t] => undo'[t][op.key] = page[op.key]
  BY <1>7, <1>10, Zenon DEF Keep, one
<1> QED
  BY <1>1, <1>2, <1>3, <1>5, <1>11, <1>12, <1>13, <1>14, <1>15, Zenon DEF op

\* Where it goes on.
LEMMA TryPutNext ==
    ASSUME TransactionsInv, NEW t \in Committers, TryPut(t)
    PROVE  /\ CommitTypes'
           /\ \A c \in Committers : c # t => commitPc'[c] = commitPc[c] /\ index'[c] = index[c]
           /\ \/ commitPc'[t] = "end" /\ index'[t] = index[t] /\ index[t] = Len(vector[t])
              \/ commitPc'[t] = "loop" /\ index'[t] = index[t] + 1 /\ index[t] # Len(vector[t])
<1>1. CommitTypes
  BY Zenon DEF TransactionsInv
<1>2. \/ /\ index[t] = Len(vector[t]) /\ commitPc' = [commitPc EXCEPT ![t] = "end"] /\ index' = index
      \/ /\ index[t] # Len(vector[t]) /\ commitPc' = commitPc /\ index' = [index EXCEPT ![t] = @ + 1]
  BY Zenon DEF TryPut
<1>3. commitPc[t] = "loop"
  BY Zenon DEF TryPut
<1> QED
  BY <1>1, <1>2, <1>3 DEF CommitTypes

\* tryPutData and tryDeleteData keep the invariant.
LEMMA TryPutInv ==
    ASSUME TransactionsInv, NEW t \in Committers, TryPut(t)
    PROVE  TransactionsInv'
<1> DEFINE op == Operation(t)
<1>1. /\ StoreTypes /\ CommitTypes /\ LocksExclude
      /\ \A c \in Committers : CommitPlace(c) /\ WritesLocked(c)
      /\ \A u \in Updaters : SavePlace(u)
  BY Zenon DEF TransactionsInv
<1>2. /\ commitPc[t] = "loop" /\ index[t] \in 1..Len(vector[t]) /\ vector[t] \in Seq(Operations)
      /\ op.key \in Keys /\ op.val \in Values /\ op = vector[t][index[t]]
      /\ MayTake(t, op.key)
      /\ page' = [page EXCEPT ![op.key] = op.val]
      /\ undo'[t] \in Undos /\ DOMAIN undo'[t] = DOMAIN undo[t] \cup {op.key}
      /\ \A x \in Committers \cup {Master} : x # t => undo'[x] = undo[x]
      /\ undo' \in [Committers \cup {Master} -> Undos]
  BY TryPutEffect, Zenon DEF Operation
<1>3. vector' = vector /\ database' = database /\ phase' = phase /\ done' = done /\ writes' = writes /\ saves' = saves
  BY TryPutEffect, Zenon DEF saveVars, bounds
<1>4. /\ CommitTypes'
      /\ \A c \in Committers : c # t => commitPc'[c] = commitPc[c] /\ index'[c] = index[c]
      /\ \/ commitPc'[t] = "end" /\ index'[t] = index[t] /\ index[t] = Len(vector[t])
         \/ commitPc'[t] = "loop" /\ index'[t] = index[t] + 1 /\ index[t] # Len(vector[t])
  BY TryPutNext, Zenon
<1> HIDE DEF op
<1>5. Master \notin Committers
  BY TransactionsAssumption, Zenon DEF Committers
<1>6. ASSUME NEW c \in Committers, c # t PROVE ~HasLock(c, op.key) /\ undo'[c] = undo[c]
  BY <1>2, <1>5, <1>6, Zenon DEF MayTake
<1>7. HasLock(Master, op.key) => t \in Updaters
  BY <1>2, <1>5, Zenon DEF MayTake, Child
<1>8. StoreTypes'
  BY <1>1, <1>2, <1>3, Zenon DEF StoreTypes
<1>9. ASSUME NEW c \in Committers PROVE CommitPlace(c)'
  <2>1. CASE c = t
    BY <1>2, <1>3, <1>4, <2>1 DEF CommitPlace
  <2>2. CASE c # t
    BY <1>1, <1>3, <1>4, <1>6, <2>2, SameCommitPlace, Zenon
  <2> QED
    BY <2>1, <2>2, Zenon
<1>10. ASSUME NEW u \in Updaters PROVE SavePlace(u)'
  <2>1. u \in Committers
    BY Zenon DEF Committers
  <2>2. CASE u = t
    BY <1>1, <1>2, <1>3, <2>2, Zenon DEF SavePlace
  <2>3. CASE u # t
    BY <1>1, <1>3, <1>4, <2>1, <2>3, SameSavePlace, Zenon
  <2> QED
    BY <2>2, <2>3, Zenon
<1>11. LocksExclude'
  <2>1. \A c \in Committers \cup {Master}, k \in Keys :
          k \in DOMAIN undo'[c] <=> k \in DOMAIN undo[c] \/ (c = t /\ k = op.key)
    BY <1>2, Zenon
  <2>2. SUFFICES ASSUME NEW k \in Keys, NEW c \in Committers, k \in DOMAIN undo'[c]
                 PROVE  /\ \A u \in Committers : k \in DOMAIN undo'[u] => u = c
                        /\ k \in DOMAIN undo'[Master] => c \in Updaters
    BY Zenon DEF LocksExclude, HasLock
  <2>3. CASE k = op.key
    BY <1>1, <1>5, <1>6, <1>7, <2>1, <2>2, <2>3, Zenon DEF LocksExclude, HasLock
  <2>4. CASE k # op.key
    BY <1>1, <1>5, <2>1, <2>2, <2>4, Zenon DEF LocksExclude, HasLock
  <2> QED
    BY <2>3, <2>4, Zenon
<1>12. ASSUME NEW c \in Committers PROVE WritesLocked(c)'
  <2>1. CASE c = t
    <3>1. PICK m \in Nat : index[t] = m + 1
      <4>1. index[t] - 1 \in Nat /\ index[t] = (index[t] - 1) + 1
        BY <1>2
      <4> QED
        BY <4>1, Zenon
    <3>2. Progress(t) = m /\ Progress(t)' = m + 1
      BY <1>2, <1>3, <1>4, <3>1 DEF Progress
    <3>3. ASSUME NEW k \in Keys
          PROVE  Written(vector'[t], Progress(t)')[k] = IF k \in DOMAIN undo'[t] THEN page'[k] ELSE -1
      <4>1. Written(vector[t], m + 1)[k] = IF op.key = k THEN op.val ELSE Written(vector[t], m)[k]
        <5>1. op = vector[t][m + 1]
          BY <1>2, <3>1, Zenon
        <5> QED
          BY <5>1, WrittenNext, ZenonT(30)
      <4>2. Written(vector[t], m)[k] = IF k \in DOMAIN undo[t] THEN page[k] ELSE -1
        BY <1>1, <3>2, Zenon DEF WritesLocked, HasLock
      <4>3. page'[k] = IF op.key = k THEN op.val ELSE page[k]
        BY <1>1, <1>2, Zenon DEF StoreTypes
      <4> QED
        BY <1>2, <1>3, <3>2, <4>1, <4>2, <4>3, Zenon
    <3> QED
      BY <2>1, <3>3, Zenon DEF WritesLocked, HasLock
  <2>2. CASE c # t
    <3>1. \A k \in Keys : HasLock(c, k) => page'[k] = page[k]
      BY <1>1, <1>2, <1>6, <2>2, Zenon DEF StoreTypes
    <3> QED
      BY <1>1, <1>3, <1>4, <1>6, <2>2, <3>1, SameWritesLocked, Zenon
  <2> QED
    BY <2>1, <2>2, Zenon
<1> QED
  BY <1>4, <1>8, <1>9, <1>10, <1>11, <1>12, Zenon DEF TransactionsInv

\* DB_LOCK_DEADLOCK: the transaction is aborted and keeps nothing.
LEMMA DeadlockInv ==
    ASSUME TransactionsInv, NEW t \in Committers, Deadlock(t)
    PROVE  TransactionsInv'
<1>1. /\ StoreTypes /\ CommitTypes /\ LocksExclude
      /\ \A c \in Committers : CommitPlace(c) /\ WritesLocked(c)
      /\ \A u \in Updaters : SavePlace(u)
  BY Zenon DEF TransactionsInv
<1>2. /\ commitPc[t] = "loop" /\ page' = Undone(t) /\ undo' = [undo EXCEPT ![t] = NoWrites]
      /\ index' = [index EXCEPT ![t] = 1]
      /\ vector' = vector /\ database' = database /\ phase' = phase /\ done' = done
      /\ writes' = writes /\ saves' = saves
  BY Zenon DEF Deadlock, saveVars, bounds
<1>3. \E p \in {"loop", "fatal"} : commitPc' = [commitPc EXCEPT ![t] = p]
  BY Zenon DEF Deadlock
<1>4. undo'[t] = NoWrites /\ index'[t] = 1 /\ commitPc'[t] \in {"loop", "fatal"} /\ CommitTypes'
  BY <1>1, <1>2, <1>3, Zenon DEF StoreTypes, CommitTypes
<1>5. ASSUME NEW c \in Committers, c # t
      PROVE  commitPc'[c] = commitPc[c] /\ index'[c] = index[c] /\ undo'[c] = undo[c]
  BY <1>1, <1>2, <1>3, <1>5, Zenon DEF StoreTypes, CommitTypes
<1>6. undo' \in [Committers \cup {Master} -> Undos]
  BY <1>1, <1>2, UndosNone, Zenon DEF StoreTypes
<1>7. StoreTypes'
  BY <1>1, <1>2, <1>6, UndoneValues, Zenon DEF StoreTypes
<1>8. ASSUME NEW c \in Committers PROVE CommitPlace(c)'
  <2>1. CASE c = t
    <3>1. vector[t] \in Seq(Operations) /\ index[t] \in 1..Len(vector[t])
      BY <1>1, <1>2, Zenon DEF StoreTypes, CommitPlace
    <3>2. 1 \in 1..Len(vector[t])
      BY <3>1
    <3> QED
      BY <1>2, <1>4, <2>1, <3>2, Zenon DEF CommitPlace
  <2>2. CASE c # t
    BY <1>1, <1>2, <1>5, <2>2, SameCommitPlace, Zenon
  <2> QED
    BY <2>1, <2>2, Zenon
<1>9. ASSUME NEW u \in Updaters PROVE SavePlace(u)'
  <2>1. u \in Committers
    BY Zenon DEF Committers
  <2>2. CASE u = t
    BY <1>1, <1>2, <2>2, Zenon DEF SavePlace
  <2>3. CASE u # t
    BY <1>1, <1>2, <1>5, <2>1, <2>3, SameSavePlace, Zenon
  <2> QED
    BY <2>2, <2>3, Zenon
<1>10. LocksExclude'
  <2>1. \A x \in Committers \cup {Master}, k \in Keys : k \in DOMAIN undo'[x] => k \in DOMAIN undo[x]
    BY <1>1, <1>2, UndosNone, Zenon DEF StoreTypes
  <2> QED
    BY <1>1, <2>1, FewerLocksExclude, Zenon
<1>11. ASSUME NEW c \in Committers PROVE WritesLocked(c)'
  <2>1. CASE c = t
    <3>1. Progress(t)' = 0
      BY <1>4 DEF Progress
    <3> QED
      BY <1>4, <2>1, <3>1, IdleWritesLocked, Zenon
  <2>2. CASE c # t
    <3>1. \A k \in Keys : HasLock(c, k) => page'[k] = page[k]
      BY <1>1, <1>2, <2>2, Zenon DEF Undone, LocksExclude
    <3> QED
      BY <1>1, <1>2, <1>5, <2>2, <3>1, SameWritesLocked, Zenon
  <2> QED
    BY <2>1, <2>2, Zenon
<1> QED
  BY <1>4, <1>7, <1>8, <1>9, <1>10, <1>11, Zenon DEF TransactionsInv

\* What commitSync changes for every thread.
LEMMA CommitEffect ==
    ASSUME TransactionsInv, NEW t \in Committers, Commit(t)
    PROVE  /\ commitPc[t] = "end" /\ page' = page /\ index' = index
           /\ vector' = [vector EXCEPT ![t] = <<>>] /\ commitPc' = [commitPc EXCEPT ![t] = "run"]
           /\ writes' = writes /\ saves' = saves
           /\ vector'[t] = <<>> /\ commitPc'[t] = "run" /\ undo'[t] = NoWrites
           /\ \A c \in Committers : c # t =>
                 vector'[c] = vector[c] /\ commitPc'[c] = commitPc[c] /\ undo'[c] = undo[c]
           /\ undo' \in [Committers \cup {Master} -> Undos]
           /\ DOMAIN undo'[Master] = DOMAIN undo[Master] \cup (IF t \in Updaters THEN DOMAIN undo[t] ELSE {})
           /\ database' = IF t \in Updaters THEN database ELSE Durable(t)
<1>1. StoreTypes /\ CommitTypes
  BY Zenon DEF TransactionsInv
<1>2. Master \notin Committers /\ undo \in [Committers \cup {Master} -> Undos]
  BY <1>1, TransactionsAssumption, Zenon DEF Committers, StoreTypes
<1>3. /\ commitPc[t] = "end" /\ page' = page /\ index' = index
      /\ vector' = [vector EXCEPT ![t] = <<>>] /\ commitPc' = [commitPc EXCEPT ![t] = "run"]
      /\ writes' = writes /\ saves' = saves
  BY Zenon DEF Commit, bounds
<1>4. /\ vector'[t] = <<>> /\ commitPc'[t] = "run"
      /\ \A c \in Committers : c # t => vector'[c] = vector[c] /\ commitPc'[c] = commitPc[c]
  BY <1>1, <1>3, Zenon DEF StoreTypes, CommitTypes
<1>5. CASE t \in Updaters
  <2>1. undo' = [undo EXCEPT ![Master] = Keep(@, undo[t]), ![t] = NoWrites] /\ database' = database
    BY <1>5, Zenon DEF Commit, Child
  <2>2. undo[Master] \in Undos /\ undo[t] \in Undos
    BY <1>2, Zenon
  <2>3. /\ Keep(undo[Master], undo[t]) \in Undos
        /\ DOMAIN Keep(undo[Master], undo[t]) = DOMAIN undo[Master] \cup DOMAIN undo[t]
    BY <2>2, UndosKeep, Zenon
  <2>4. undo'[Master] = Keep(undo[Master], undo[t]) /\ undo'[t] = NoWrites
    BY <1>2, <2>1, Zenon
  <2>5. \A c \in Committers : c # t => undo'[c] = undo[c]
    BY <1>2, <2>1, Zenon
  <2>6. undo' \in [Committers \cup {Master} -> Undos]
    BY <1>2, <2>1, <2>3, UndosNone, Zenon
  <2> QED
    BY <1>3, <1>4, <1>5, <2>1, <2>3, <2>4, <2>5, <2>6, Zenon
<1>6. CASE t \notin Updaters
  <2>1. database' = Durable(t) /\ undo' = [undo EXCEPT ![t] = NoWrites]
    BY <1>6, Zenon DEF Commit, Child
  <2>2. undo'[Master] = undo[Master] /\ undo'[t] = NoWrites /\ \A c \in Committers : c # t => undo'[c] = undo[c]
    BY <1>2, <2>1, Zenon
  <2>3. undo' \in [Committers \cup {Master} -> Undos]
    BY <1>2, <2>1, UndosNone, Zenon
  <2> QED
    BY <1>3, <1>4, <1>6, <2>1, <2>2, <2>3, Zenon
<1> QED
  BY <1>5, <1>6, Zenon

\* commitSync keeps the invariant: a child's locks become its parent's.
LEMMA CommitInv ==
    ASSUME TransactionsInv, NEW t \in Committers, Commit(t)
    PROVE  TransactionsInv'
<1>1. /\ StoreTypes /\ CommitTypes /\ LocksExclude
      /\ \A c \in Committers : CommitPlace(c) /\ WritesLocked(c)
      /\ \A u \in Updaters : SavePlace(u)
  BY Zenon DEF TransactionsInv
<1>2. /\ commitPc[t] = "end" /\ page' = page /\ index' = index
      /\ vector' = [vector EXCEPT ![t] = <<>>] /\ commitPc' = [commitPc EXCEPT ![t] = "run"]
      /\ writes' = writes /\ saves' = saves
      /\ vector'[t] = <<>> /\ commitPc'[t] = "run" /\ undo'[t] = NoWrites
      /\ \A c \in Committers : c # t =>
            vector'[c] = vector[c] /\ commitPc'[c] = commitPc[c] /\ undo'[c] = undo[c]
      /\ undo' \in [Committers \cup {Master} -> Undos]
      /\ DOMAIN undo'[Master] = DOMAIN undo[Master] \cup (IF t \in Updaters THEN DOMAIN undo[t] ELSE {})
  BY CommitEffect, Zenon
<1>3. database' = database \/ database' = Durable(t)
  BY CommitEffect, Zenon
<1>4. /\ phase' = IF phase = "begin" THEN "copy" ELSE phase
      /\ done' = IF t \in Updaters THEN done \cup {t} ELSE done
  BY Zenon DEF Commit, Child
<1>5. StoreTypes'
  <2>1. database' \in [Keys -> Values]
    BY <1>1, <1>3, DurableValues, Zenon DEF StoreTypes
  <2>2. vector' \in [Committers -> Seq(Operations)]
    BY <1>1, <1>2 DEF StoreTypes
  <2> QED
    BY <1>1, <1>2, <2>1, <2>2, Zenon DEF StoreTypes
<1>6. CommitTypes'
  BY <1>1, <1>2, Zenon DEF CommitTypes
<1>7. ASSUME NEW c \in Committers PROVE CommitPlace(c)'
  <2>1. CASE c = t
    BY <1>2, <2>1, Zenon DEF CommitPlace
  <2>2. CASE c # t
    BY <1>1, <1>2, <2>2, SameCommitPlace, Zenon
  <2> QED
    BY <2>1, <2>2, Zenon
<1>8. ASSUME NEW u \in Updaters PROVE SavePlace(u)'
  <2>1. u \in Committers
    BY Zenon DEF Committers
  <2>2. CASE u = t
    BY <1>2, <2>2, Zenon DEF SavePlace
  <2>3. CASE u # t
    <3>1. vector'[u] = vector[u] /\ commitPc'[u] = commitPc[u] /\ (u \in done' <=> u \in done) /\ SavePlace(u)
      BY <1>1, <1>2, <1>4, <2>1, <2>3, Zenon
    <3> QED
      BY <1>4, <3>1, Zenon DEF SavePlace
  <2> QED
    BY <2>2, <2>3, Zenon
<1>9. LocksExclude'
  <2>1. Master \notin Committers
    BY TransactionsAssumption, Zenon DEF Committers
  <2>2. SUFFICES ASSUME NEW k \in Keys, NEW c \in Committers, k \in DOMAIN undo'[c]
                 PROVE  /\ \A u \in Committers : k \in DOMAIN undo'[u] => u = c
                        /\ k \in DOMAIN undo'[Master] => c \in Updaters
    BY Zenon DEF LocksExclude, HasLock
  <2>3. c # t /\ k \in DOMAIN undo[c]
    BY <1>2, <2>2, UndosNone, Zenon
  <2>4. \A u \in Committers : k \in DOMAIN undo'[u] => k \in DOMAIN undo[u]
    BY <1>2, UndosNone, Zenon
  <2>5. k \notin DOMAIN undo[t]
    BY <1>1, <2>3, Zenon DEF LocksExclude, HasLock
  <2>6. k \in DOMAIN undo'[Master] => k \in DOMAIN undo[Master]
    BY <1>2, <2>5, Zenon
  <2> QED
    BY <1>1, <2>3, <2>4, <2>6, Zenon DEF LocksExclude, HasLock
<1>10. ASSUME NEW c \in Committers PROVE WritesLocked(c)'
  <2>1. CASE c = t
    <3>1. Progress(t)' = 0
      BY <1>2, Zenon DEF Progress
    <3> QED
      BY <1>2, <2>1, <3>1, IdleWritesLocked, Zenon
  <2>2. CASE c # t
    BY <1>1, <1>2, <2>2, SameWritesLocked, Zenon
  <2> QED
    BY <2>1, <2>2, Zenon
<1> QED
  BY <1>5, <1>6, <1>7, <1>8, <1>9, <1>10, Zenon DEF TransactionsInv

\* The end of the copy keeps it.
LEMMA EndCopyInv ==
    ASSUME TransactionsInv, EndCopy
    PROVE  TransactionsInv'
<1>1. /\ StoreTypes /\ CommitTypes /\ LocksExclude
      /\ \A c \in Committers : CommitPlace(c) /\ WritesLocked(c)
      /\ \A u \in Updaters : SavePlace(u)
  BY Zenon DEF TransactionsInv
<1>2. /\ phase = "copy" /\ done = Updaters /\ phase' = "commit" /\ done' = {}
      /\ vector' = vector /\ commitPc' = commitPc /\ index' = index
      /\ undo' = undo /\ page' = page /\ database' = database /\ writes' = writes /\ saves' = saves
  BY Zenon DEF EndCopy, commitVars, storeVars, bounds
<1>3. StoreTypes' /\ CommitTypes'
  BY <1>1, <1>2, Zenon DEF StoreTypes, CommitTypes
<1>4. ASSUME NEW c \in Committers PROVE CommitPlace(c)' /\ WritesLocked(c)'
  BY <1>1, <1>2, SameCommitPlace, SameWritesLocked, Zenon
<1>5. ASSUME NEW u \in Updaters PROVE SavePlace(u)'
  BY <1>1, <1>2, Zenon DEF SavePlace
<1>6. LocksExclude'
  BY <1>1, <1>2, SameLocksExclude, Zenon
<1> QED
  BY <1>3, <1>4, <1>5, <1>6, Zenon DEF TransactionsInv

\* When all update threads have committed nothing of theirs is left.
LEMMA AllCommitted ==
    ASSUME TransactionsInv, phase = "commit", done = Updaters, NEW u \in Updaters
    PROVE  vector[u] = <<>> /\ commitPc[u] = "run" /\ undo[u] = NoWrites
<1>1. SavePlace(u) /\ CommitPlace(u)
  BY Zenon DEF TransactionsInv, Committers
<1> QED
  BY <1>1, Zenon DEF SavePlace, CommitPlace

\* CommitMasterTransactionThread keeps it.
LEMMA CommitMasterInv ==
    ASSUME TransactionsInv, CommitMaster
    PROVE  TransactionsInv'
<1>1. /\ StoreTypes /\ CommitTypes /\ LocksExclude
      /\ \A c \in Committers : CommitPlace(c) /\ WritesLocked(c)
      /\ \A u \in Updaters : SavePlace(u)
  BY Zenon DEF TransactionsInv
<1>2. /\ phase = "commit" /\ done = Updaters
      /\ database' = Durable(Master) /\ undo' = [undo EXCEPT ![Master] = NoWrites]
      /\ vector' = vector /\ commitPc' = commitPc /\ index' = index
      /\ page' = page /\ writes' = writes /\ saves' = saves
  BY Zenon DEF CommitMaster, commitVars, bounds
<1>3. Master \notin Committers /\ undo \in [Committers \cup {Master} -> Undos]
  BY <1>1, TransactionsAssumption, Zenon DEF Committers, StoreTypes
<1>4. \A c \in Committers : undo'[c] = undo[c]
  BY <1>2, <1>3, Zenon
<1>5. StoreTypes'
  <2>1. undo' \in [Committers \cup {Master} -> Undos]
    BY <1>2, <1>3, UndosNone, Zenon
  <2>2. database' \in [Keys -> Values]
    BY <1>1, <1>2, DurableValues, Zenon
  <2> QED
    BY <1>1, <1>2, <2>1, <2>2, Zenon DEF StoreTypes
<1>6. CommitTypes'
  BY <1>1, <1>2, Zenon DEF CommitTypes
<1>7. ASSUME NEW c \in Committers PROVE CommitPlace(c)' /\ WritesLocked(c)'
  BY <1>1, <1>2, <1>4, SameCommitPlace, SameWritesLocked, Zenon
<1>8. ASSUME NEW u \in Updaters PROVE SavePlace(u)'
  <2>1. vector[u] = <<>> /\ commitPc[u] = "run"
    BY <1>2, AllCommitted, Zenon
  <2> QED
    BY <1>2, <2>1, Zenon DEF SavePlace
<1>9. LocksExclude'
  <2>1. \A x \in Committers \cup {Master}, k \in Keys : k \in DOMAIN undo'[x] => k \in DOMAIN undo[x]
    BY <1>2, <1>3, UndosNone, Zenon
  <2> QED
    BY <1>1, <2>1, FewerLocksExclude, Zenon
<1> QED
  BY <1>5, <1>6, <1>7, <1>8, <1>9, Zenon DEF TransactionsInv

\* Every step keeps it.
LEMMA TransactionsNextInv == TransactionsInv /\ [TransactionsNext]_transactionVars => TransactionsInv'
<1> SUFFICES ASSUME TransactionsInv, [TransactionsNext]_transactionVars PROVE TransactionsInv'
  BY Zenon
<1>1. ASSUME NEW t \in Committers, CommitStep(t) \/ CommitLocal(t) PROVE TransactionsInv'
  BY <1>1, TryPutInv, DeadlockInv, CommitInv, RestartInv, CommitLocalInv, Zenon DEF CommitStep, Fatal
<1>2. ASSUME NEW t \in Workers, BeginSave(t) PROVE TransactionsInv'
  BY <1>2, BeginSaveInv, Zenon
<1>3. ASSUME NEW t \in Workers, NEW k \in Objects, NEW v \in {0, writes + 1}, Write(t, k, v)
      PROVE  TransactionsInv'
  BY <1>3, WriteInv, Zenon
<1>4. ASSUME NEW u \in Updaters, Copy(u) PROVE TransactionsInv'
  BY <1>4, CopyInv, Zenon
<1>5. CASE EndCopy \/ CommitMaster \/ Crash
  BY <1>5, EndCopyInv, CommitMasterInv, RestartInv, Zenon DEF Crash
<1>6. CASE UNCHANGED transactionVars
  <2>1. /\ StoreTypes /\ CommitTypes /\ LocksExclude
        /\ \A c \in Committers : CommitPlace(c) /\ WritesLocked(c)
        /\ \A u \in Updaters : SavePlace(u)
    BY Zenon DEF TransactionsInv
  <2>2. /\ vector' = vector /\ commitPc' = commitPc /\ index' = index /\ phase' = phase /\ done' = done
        /\ undo' = undo /\ page' = page /\ database' = database /\ writes' = writes /\ saves' = saves
    BY <1>6, Zenon DEF transactionVars, commitVars, storeVars, saveVars, bounds
  <2>3. StoreTypes' /\ CommitTypes'
    BY <2>1, <2>2, Zenon DEF StoreTypes, CommitTypes
  <2>4. \A c \in Committers : CommitPlace(c)' /\ WritesLocked(c)'
    BY <2>1, <2>2, SameCommitPlace, SameWritesLocked, Zenon
  <2>5. \A u \in Updaters : SavePlace(u)'
    BY <2>1, <2>2, SameSavePlace, Zenon
  <2>6. LocksExclude'
    BY <2>1, <2>2, SameLocksExclude, Zenon
  <2> QED
    BY <2>3, <2>4, <2>5, <2>6, Zenon DEF TransactionsInv
<1> QED
  BY <1>1, <1>2, <1>3, <1>4, <1>5, <1>6, Zenon DEF TransactionsNext

\* Every reachable state of LocalTransactions satisfies the invariant.
THEOREM SpecTransactionsInv == TransactionsSpec => []TransactionsInv
BY TransactionsInitInv, TransactionsNextInv, PTL DEF TransactionsSpec
--------------------------------------------------------------------------------
(***************************************************************************)
(* LocalTransactions implements AtomicStore.                               *)
(***************************************************************************)

\* What the save has written of a key, by who has its lock.
MasterWritesKnown ==
    /\ MasterWrites = [k \in Keys |-> MasterWrites[k]]
    /\ \A k \in Keys :
        /\ ~HasLock(Master, k) => MasterWrites[k] = -1
        /\ HasLock(Master, k) => \A u \in Updaters : HasLock(u, k) => MasterWrites[k] = undo[u][k]
        /\ HasLock(Master, k) /\ (\A u \in Updaters : ~HasLock(u, k)) => MasterWrites[k] = page[k]

\* The writes of the save are known in every state, and so after every step.
LEMMA MasterWritesAt == TransactionsInv => MasterWritesKnown
<1> SUFFICES ASSUME TransactionsInv PROVE MasterWritesKnown
  BY Zenon
<1>1. MasterWrites = [k \in Keys |-> MasterWrites[k]]
  BY Zenon DEF MasterWrites
<1>2. ASSUME NEW k \in Keys, ~HasLock(Master, k) PROVE MasterWrites[k] = -1
  BY <1>2, Zenon DEF MasterWrites
<1>3. ASSUME NEW k \in Keys, HasLock(Master, k), NEW u \in Updaters, HasLock(u, k)
      PROVE  MasterWrites[k] = undo[u][k]
  <2>1. \A t \in Updaters : HasLock(t, k) => t = u
    BY <1>3, Zenon DEF TransactionsInv, LocksExclude, Committers
  <2>2. (CHOOSE t \in Updaters : HasLock(t, k)) = u
    BY <1>3, <2>1, Zenon
  <2>3. MasterWrites[k] = undo[CHOOSE t \in Updaters : HasLock(t, k)][k]
    BY <1>3, Zenon DEF MasterWrites
  <2> QED
    BY <2>2, <2>3, Zenon
<1>4. ASSUME NEW k \in Keys, HasLock(Master, k), \A u \in Updaters : ~HasLock(u, k)
      PROVE  MasterWrites[k] = page[k]
  BY <1>4, Zenon DEF MasterWrites
<1> QED
  BY <1>1, <1>2, <1>3, <1>4, Zenon DEF MasterWritesKnown

\* The same after a step.
LEMMA MasterWritesAtNext == TransactionsInv' => MasterWritesKnown'
BY MasterWritesAt, PTL

\* What a thread has pending of a key.
LEMMA PendingAt ==
    ASSUME NEW t \in Committers, NEW k \in Keys
    PROVE  Pending[t][k] = Written(vector[t], Len(vector[t]))[k]
BY Zenon DEF Pending

\* A step that leaves the vectors leaves what is pending.
LEMMA SamePending ==
    ASSUME vector' = vector
    PROVE  Pending' = Pending
BY Zenon DEF Pending

\* No operations are no writes.
LEMMA WrittenNothing == Written(<<>>, 0) = Abstract!Nothing
<1>1. Written(<<>>, 0) = [k \in Keys |-> Written(<<>>, 0)[k]]
  BY DEF Written
<1> QED
  BY <1>1, WrittenNone, Zenon DEF Abstract!Nothing, Abstract!Unset

\* A thread with an empty vector has nothing pending.
LEMMA PendingNone ==
    ASSUME NEW t \in Committers, vector[t] = <<>>
    PROVE  Pending[t] = Abstract!Nothing
<1>1. Len(vector[t]) = 0
  OBVIOUS
<1> QED
  BY <1>1, WrittenNothing, Zenon DEF Pending

\* A commit leaves a thread with nothing pending.
LEMMA PendingCommitted ==
    ASSUME TransactionsInv, NEW t \in Committers, vector' = [vector EXCEPT ![t] = <<>>]
    PROVE  Pending' = [Pending EXCEPT ![t] = Abstract!Nothing]
<1>1. vector'[t] = <<>> /\ \A c \in Committers : c # t => vector'[c] = vector[c]
  BY Zenon DEF TransactionsInv, StoreTypes
<1>2. Pending' = [c \in Committers |-> Written(vector'[c], Len(vector'[c]))]
  BY Zenon DEF Pending
<1>3. Pending = [c \in Committers |-> Written(vector[c], Len(vector[c]))]
  BY Zenon DEF Pending
<1>4. Written(vector'[t], Len(vector'[t])) = Abstract!Nothing
  <2>1. Len(vector'[t]) = 0
    BY <1>1, Zenon
  <2> QED
    BY <1>1, <2>1, WrittenNothing, Zenon
<1> QED
  BY <1>1, <1>2, <1>3, <1>4

\* At the end of its loop a thread has pending what is in the pages it has locked.
LEMMA PendingAtEnd ==
    ASSUME TransactionsInv, NEW t \in Committers, commitPc[t] = "end", NEW k \in Keys
    PROVE  /\ Pending[t][k] = IF HasLock(t, k) THEN page[k] ELSE -1
           /\ page[k] # -1
<1>1. WritesLocked(t) /\ page[k] \in Values
  BY Zenon DEF TransactionsInv, StoreTypes
<1>2. Progress(t) = Len(vector[t])
  BY Zenon DEF Progress
<1> QED
  BY <1>1, <1>2, PendingAt, ValuesSet, Zenon DEF WritesLocked

\* Locks, values and pages as they were give the writes of the save as they were.
LEMMA SameMasterWrites ==
    ASSUME TransactionsInv, TransactionsInv',
           \A k \in Keys : MasterWrites'[k] = MasterWrites[k]
    PROVE  MasterWrites' = MasterWrites
<1>1. MasterWritesKnown /\ MasterWritesKnown'
  BY MasterWritesAt, MasterWritesAtNext, Zenon
<1>2. MasterWrites = [k \in Keys |-> MasterWrites[k]] /\ MasterWrites' = [k \in Keys |-> MasterWrites'[k]]
  BY <1>1, Zenon DEF MasterWritesKnown
<1> QED
  BY <1>2, Zenon

\* A write of a task or of updateLastUsedObjectID is a write of the store.
LEMMA AppendStore ==
    ASSUME TransactionsInv, NEW t \in Workers, NEW op \in Operations,
           vector' = [vector EXCEPT ![t] = Append(@, op)], UNCHANGED storeVars
    PROVE  Abstract!Write(t)
<1>1. undo' = undo /\ page' = page /\ database' = database
  BY Zenon DEF storeVars
<1>2. MasterWrites' = MasterWrites
  BY <1>1, Zenon DEF MasterWrites, HasLock
<1>3. t \in Committers /\ vector[t] \in Seq(Operations)
  BY Zenon DEF TransactionsInv, StoreTypes, Committers
<1>4. vector'[t] = Append(vector[t], op) /\ \A c \in Committers : c # t => vector'[c] = vector[c]
  BY <1>3, Zenon DEF TransactionsInv, StoreTypes
<1>5. \A c \in Committers : Pending'[c] = Written(vector'[c], Len(vector'[c]))
  BY Zenon DEF Pending
<1>6. ASSUME NEW c \in Committers \ {t} PROVE Pending'[c] = Pending[c]
  BY <1>4 DEF Pending
<1>7. ASSUME NEW k \in Keys PROVE Pending'[t][k] \in Values \cup {Pending[t][k]}
  <2>1. Pending'[t][k] = Written(vector'[t], Len(vector'[t]))[k]
    BY <1>3, <1>5, Zenon
  <2>2. Pending'[t][k] = IF op.key = k THEN op.val ELSE Written(vector[t], Len(vector[t]))[k]
    BY <1>3, <1>4, <2>1, WrittenAppend
  <2>3. op.val \in Values
    BY Zenon DEF Operations
  <2> QED
    BY <1>3, <2>2, <2>3, PendingAt, Zenon
<1> QED
  BY <1>1, <1>2, <1>6, <1>7, Zenon DEF Abstract!Write

\* putData and deleteData of a task.
LEMMA WriteStore ==
    ASSUME TransactionsInv, NEW t \in Workers, NEW k \in Objects, NEW v \in {0, writes + 1}, Write(t, k, v)
    PROVE  Abstract!Write(t)
<1>1. k \in Keys /\ v \in Values
  BY TransactionsAssumption DEF Keys, Values, Write, TransactionsInv, StoreTypes
<1>2. [key |-> k, val |-> v] \in Operations
  BY <1>1, Zenon DEF Operations
<1>3. vector' = [vector EXCEPT ![t] = Append(@, [key |-> k, val |-> v])] /\ UNCHANGED storeVars
  BY Zenon DEF Write
<1> QED
  BY <1>2, <1>3, AppendStore, Zenon

\* updateLastUsedObjectID.
LEMMA BeginSaveStore ==
    ASSUME TransactionsInv, NEW t \in Workers, BeginSave(t)
    PROVE  Abstract!Write(t)
<1> DEFINE op == [key |-> LastID, val |-> MaxWrites + saves + 1]
<1>1. LastID \in Keys /\ MaxWrites + saves + 1 \in Values
  BY TransactionsAssumption DEF Keys, Values, BeginSave, TransactionsInv, StoreTypes
<1>2. op \in Operations
  BY <1>1, Zenon DEF Operations
<1>3. vector' = [vector EXCEPT ![t] = Append(@, op)] /\ UNCHANGED storeVars
  BY Zenon DEF BeginSave
<1> HIDE DEF op
<1> QED
  BY <1>2, <1>3, AppendStore, Zenon

\* What an update thread copies are writes of the store too: it had none before.
LEMMA CopyStore ==
    ASSUME TransactionsInv, NEW u \in Updaters, Copy(u)
    PROVE  Abstract!Write(u)
<1>1. PICK ops \in Seq(Operations) : vector' = [vector EXCEPT ![u] = ops]
  BY CopyEffect, Zenon
<1>2. phase = "copy" /\ u \notin done /\ undo' = undo /\ page' = page /\ database' = database
  BY Zenon DEF Copy, storeVars
<1>3. MasterWrites' = MasterWrites
  BY <1>2, Zenon DEF MasterWrites, HasLock
<1>4. u \in Committers /\ vector'[u] = ops /\ \A c \in Committers : c # u => vector'[c] = vector[c]
  BY <1>1, Zenon DEF TransactionsInv, StoreTypes, Committers
<1>5. ASSUME NEW c \in Committers \ {u} PROVE Pending'[c] = Pending[c]
  BY <1>4, Zenon DEF Pending
<1>6. ASSUME NEW k \in Keys PROVE Pending'[u][k] \in Values \cup {Pending[u][k]}
  <2>1. vector[u] = <<>>
    BY <1>2, Zenon DEF TransactionsInv, SavePlace
  <2>2. Pending[u][k] = -1
    BY <1>4, <2>1, PendingNone, Zenon DEF Abstract!Nothing, Abstract!Unset
  <2>3. Pending'[u][k] = Written(ops, Len(ops))[k]
    BY <1>4, Zenon DEF Pending
  <2>4. Len(ops) \in 0..Len(ops)
    BY <1>1
  <2> QED
    BY <2>2, <2>3, <2>4, WrittenValues, Zenon
<1> QED
  BY <1>2, <1>3, <1>5, <1>6, Zenon DEF Abstract!Write

\* tryPutData is invisible: what it overwrites of the save is kept for an abort.
LEMMA TryPutStore ==
    ASSUME TransactionsInv, TransactionsInv', NEW t \in Committers, TryPut(t)
    PROVE  UNCHANGED <<database, Pending, MasterWrites>>
<1> DEFINE key == Operation(t).key
<1>1. /\ MayTake(t, key) /\ key \in Keys
      /\ page' = [page EXCEPT ![key] = Operation(t).val]
      /\ DOMAIN undo'[t] = DOMAIN undo[t] \cup {key}
      /\ \A k \in DOMAIN undo[t] : undo'[t][k] = undo[t][k]
      /\ key \notin DOMAIN undo[t] => undo'[t][key] = page[key]
      /\ \A x \in Committers \cup {Master} : x # t => undo'[x] = undo[x]
      /\ vector' = vector /\ database' = database
  BY TryPutEffect, Zenon
<1>2. Pending' = Pending
  BY <1>1, SamePending, Zenon
<1> HIDE DEF key
<1>3. Updaters \subseteq Committers /\ Master \notin Committers /\ page \in [Keys -> Values] /\ LocksExclude
  BY TransactionsAssumption, Zenon DEF Committers, TransactionsInv, StoreTypes
<1>4. MasterWritesKnown /\ MasterWritesKnown'
  BY MasterWritesAt, MasterWritesAtNext, Zenon
<1>5. ASSUME NEW k \in Keys PROVE MasterWrites'[k] = MasterWrites[k]
  <2>1. HasLock(Master, k)' <=> HasLock(Master, k)
    BY <1>1, <1>3, Zenon DEF HasLock
  <2>2. CASE ~HasLock(Master, k)
    BY <1>4, <2>1, <2>2, Zenon DEF MasterWritesKnown
  <2>3. CASE HasLock(Master, k) /\ HasLock(t, k)
    <3>1. t \in Updaters
      BY <1>3, <2>3, Zenon DEF LocksExclude
    <3>2. HasLock(t, k)' /\ undo'[t][k] = undo[t][k]
      BY <1>1, <2>3, Zenon DEF HasLock
    <3> QED
      BY <1>4, <2>1, <2>3, <3>1, <3>2, Zenon DEF MasterWritesKnown
  <2>4. CASE HasLock(Master, k) /\ ~HasLock(t, k) /\ k = key
    <3>1. t \in Updaters
      BY <1>1, <1>3, <2>4, Zenon DEF MayTake, Child
    <3>2. \A u \in Updaters : ~HasLock(u, k)
      BY <1>1, <1>3, <2>4, Zenon DEF MayTake
    <3>3. HasLock(t, k)' /\ undo'[t][k] = page[k]
      BY <1>1, <2>4, Zenon DEF HasLock
    <3> QED
      BY <1>4, <2>1, <2>4, <3>1, <3>2, <3>3, Zenon DEF MasterWritesKnown
  <2>5. CASE HasLock(Master, k) /\ ~HasLock(t, k) /\ k # key
    <3>1. page'[k] = page[k]
      BY <1>1, <1>3, <2>5, Zenon
    <3>2. \A u \in Updaters : (HasLock(u, k)' <=> HasLock(u, k)) /\ (HasLock(u, k) => undo'[u] = undo[u])
      BY <1>1, <1>3, <2>5, Zenon DEF HasLock
    <3>3. CASE \E u \in Updaters : HasLock(u, k)
      <4>1. PICK u \in Updaters : HasLock(u, k)
        BY <3>3, Zenon
      <4> QED
        BY <1>4, <2>1, <2>5, <3>2, <4>1 DEF MasterWritesKnown
    <3>4. CASE \A u \in Updaters : ~HasLock(u, k)
      BY <1>4, <2>1, <2>5, <3>1, <3>2, <3>4, Zenon DEF MasterWritesKnown
    <3> QED
      BY <3>3, <3>4, Zenon
  <2> QED
    BY <2>2, <2>3, <2>4, <2>5, Zenon
<1>6. MasterWrites' = MasterWrites
  BY <1>5, SameMasterWrites, Zenon
<1> QED
  BY <1>1, <1>2, <1>6, Zenon

\* An abort is invisible: it brings back what the save had written.
LEMMA DeadlockStore ==
    ASSUME TransactionsInv, TransactionsInv', NEW t \in Committers, Deadlock(t)
    PROVE  UNCHANGED <<database, Pending, MasterWrites>>
<1>1. /\ page' = Undone(t) /\ undo' = [undo EXCEPT ![t] = NoWrites]
      /\ vector' = vector /\ database' = database
  BY Zenon DEF Deadlock
<1>2. Pending' = Pending
  BY <1>1, SamePending, Zenon
<1>3. /\ Updaters \subseteq Committers /\ Master \notin Committers /\ LocksExclude
      /\ undo \in [Committers \cup {Master} -> Undos]
  BY TransactionsAssumption, Zenon DEF Committers, TransactionsInv, StoreTypes
<1>4. MasterWritesKnown /\ MasterWritesKnown'
  BY MasterWritesAt, MasterWritesAtNext, Zenon
<1>5. undo'[t] = NoWrites /\ \A x \in Committers \cup {Master} : x # t => undo'[x] = undo[x]
  BY <1>1, <1>3, Zenon
<1>6. ASSUME NEW k \in Keys PROVE MasterWrites'[k] = MasterWrites[k]
  <2>1. HasLock(Master, k)' <=> HasLock(Master, k)
    BY <1>3, <1>5, Zenon DEF HasLock
  <2>2. ~HasLock(t, k)' /\ page'[k] = IF HasLock(t, k) THEN undo[t][k] ELSE page[k]
    BY <1>1, <1>5, UndosNone, Zenon DEF HasLock, Undone
  <2>3. \A u \in Updaters : u # t => (HasLock(u, k)' <=> HasLock(u, k)) /\ undo'[u] = undo[u]
    BY <1>3, <1>5, Zenon DEF HasLock
  <2>4. CASE ~HasLock(Master, k)
    BY <1>4, <2>1, <2>4, Zenon DEF MasterWritesKnown
  <2>5. CASE HasLock(Master, k) /\ HasLock(t, k)
    <3>1. t \in Updaters /\ \A u \in Updaters : HasLock(u, k) => u = t
      BY <1>3, <2>5, Zenon DEF LocksExclude
    <3>2. \A u \in Updaters : ~HasLock(u, k)'
      BY <2>2, <2>3, <3>1, Zenon
    <3>3. MasterWrites'[k] = page'[k]
      BY <1>4, <2>1, <2>5, <3>2, Zenon DEF MasterWritesKnown
    <3>4. MasterWrites[k] = undo[t][k]
      BY <1>4, <2>5, <3>1, Zenon DEF MasterWritesKnown
    <3> QED
      BY <2>2, <2>5, <3>3, <3>4, Zenon
  <2>6. CASE HasLock(Master, k) /\ ~HasLock(t, k)
    <3>1. CASE \E u \in Updaters : HasLock(u, k)
      <4>1. PICK u \in Updaters : HasLock(u, k)
        BY <3>1, Zenon
      <4>2. u # t
        BY <2>6, <4>1, Zenon
      <4> QED
        BY <1>4, <2>1, <2>3, <2>6, <4>1, <4>2 DEF MasterWritesKnown
    <3>2. CASE \A u \in Updaters : ~HasLock(u, k)
      <4>1. \A u \in Updaters : ~HasLock(u, k)'
        BY <2>2, <2>3, <3>2, Zenon
      <4> QED
        BY <1>4, <2>1, <2>2, <2>6, <3>2, <4>1, Zenon DEF MasterWritesKnown
    <3> QED
      BY <3>1, <3>2, Zenon
  <2> QED
    BY <2>4, <2>5, <2>6, Zenon
<1>7. MasterWrites' = MasterWrites
  BY <1>6, SameMasterWrites, Zenon
<1> QED
  BY <1>1, <1>2, <1>7, Zenon

\* commitSync of a task is a commit of the store: all that it wrote, and nothing else.
LEMMA CommitWorkerStore ==
    ASSUME TransactionsInv, TransactionsInv', NEW t \in Committers \ Updaters, Commit(t)
    PROVE  Abstract!Commit(t)
<1>1. /\ commitPc[t] = "end" /\ page' = page /\ vector' = [vector EXCEPT ![t] = <<>>]
      /\ undo'[t] = NoWrites /\ database' = Durable(t)
      /\ \A c \in Committers : c # t => undo'[c] = undo[c]
      /\ DOMAIN undo'[Master] = DOMAIN undo[Master]
  BY CommitEffect, Zenon
<1>2. Pending' = [Pending EXCEPT ![t] = Abstract!Nothing]
  BY <1>1, PendingCommitted, Zenon
<1>3. Durable(t) = Abstract!Over(database, Pending[t])
  BY <1>1, PendingAtEnd, Zenon DEF Durable, Abstract!Over, Abstract!Unset
<1>4. MasterWritesKnown /\ MasterWritesKnown'
  BY MasterWritesAt, MasterWritesAtNext, Zenon
<1>5. ASSUME NEW k \in Keys PROVE MasterWrites'[k] = MasterWrites[k]
  <2>1. HasLock(Master, k)' <=> HasLock(Master, k)
    BY <1>1, Zenon DEF HasLock
  <2>2. \A u \in Updaters : (HasLock(u, k)' <=> HasLock(u, k)) /\ undo'[u] = undo[u]
    BY <1>1, Zenon DEF HasLock, Committers
  <2>3. CASE \E u \in Updaters : HasLock(u, k)
    <3>1. PICK u \in Updaters : HasLock(u, k)
      BY <2>3, Zenon
    <3> QED
      BY <1>4, <2>1, <2>2, <3>1 DEF MasterWritesKnown
  <2>4. CASE \A u \in Updaters : ~HasLock(u, k)
    BY <1>1, <1>4, <2>1, <2>2, <2>4, Zenon DEF MasterWritesKnown
  <2> QED
    BY <2>3, <2>4, Zenon
<1>6. MasterWrites' = MasterWrites
  BY <1>5, SameMasterWrites, Zenon
<1> QED
  BY <1>1, <1>2, <1>3, <1>6, Zenon DEF Abstract!Commit

\* commitSync of an update thread adds all that it wrote to the save.
LEMMA CommitUpdaterStore ==
    ASSUME TransactionsInv, TransactionsInv', NEW t \in Updaters, Commit(t)
    PROVE  Abstract!Join(t)
<1>1. t \in Committers
  BY Zenon DEF Committers
<1>2. /\ commitPc[t] = "end" /\ page' = page /\ vector' = [vector EXCEPT ![t] = <<>>]
      /\ undo'[t] = NoWrites /\ database' = database
      /\ \A c \in Committers : c # t => undo'[c] = undo[c]
      /\ DOMAIN undo'[Master] = DOMAIN undo[Master] \cup DOMAIN undo[t]
  BY <1>1, CommitEffect, Zenon
<1>3. Pending' = [Pending EXCEPT ![t] = Abstract!Nothing]
  BY <1>1, <1>2, PendingCommitted, Zenon
<1>4. MasterWritesKnown /\ MasterWritesKnown' /\ LocksExclude
  BY MasterWritesAt, MasterWritesAtNext, Zenon DEF TransactionsInv
<1>5. ASSUME NEW k \in Keys
      PROVE  MasterWrites'[k] = IF Pending[t][k] = -1 THEN MasterWrites[k] ELSE Pending[t][k]
  <2>1. Pending[t][k] = (IF HasLock(t, k) THEN page[k] ELSE -1) /\ page[k] # -1
    BY <1>1, <1>2, PendingAtEnd, Zenon
  <2>2. ~HasLock(t, k)' /\ \A u \in Updaters : u # t => (HasLock(u, k)' <=> HasLock(u, k)) /\ undo'[u] = undo[u]
    BY <1>2, UndosNone, Zenon DEF HasLock, Committers
  <2>3. HasLock(Master, k)' <=> HasLock(Master, k) \/ HasLock(t, k)
    BY <1>2, Zenon DEF HasLock
  <2>4. CASE HasLock(t, k)
    <3>1. \A u \in Updaters : ~HasLock(u, k)'
      BY <1>1, <1>4, <2>2, <2>4, Zenon DEF LocksExclude, Committers
    <3>2. MasterWrites'[k] = page'[k]
      BY <1>4, <2>3, <2>4, <3>1, Zenon DEF MasterWritesKnown
    <3> QED
      BY <1>2, <2>1, <2>4, <3>2, Zenon
  <2>5. CASE ~HasLock(t, k)
    <3>1. \A u \in Updaters : HasLock(u, k)' <=> HasLock(u, k)
      BY <2>2, <2>5, Zenon
    <3>2. MasterWrites'[k] = MasterWrites[k]
      <4>1. CASE \E u \in Updaters : HasLock(u, k)
        <5>1. PICK u \in Updaters : HasLock(u, k) /\ u # t
          BY <2>5, <4>1, Zenon
        <5> QED
          BY <1>4, <2>2, <2>3, <2>5, <5>1 DEF MasterWritesKnown
      <4>2. CASE \A u \in Updaters : ~HasLock(u, k)
        BY <1>2, <1>4, <2>3, <2>5, <3>1, <4>2, Zenon DEF MasterWritesKnown
      <4> QED
        BY <4>1, <4>2, Zenon
    <3> QED
      BY <2>1, <2>5, <3>2, Zenon
  <2> QED
    BY <2>4, <2>5, Zenon
<1>6. MasterWrites' = Abstract!Over(MasterWrites, Pending[t])
  <2>1. MasterWrites' = [k \in Keys |-> MasterWrites'[k]]
    BY <1>4, Zenon DEF MasterWritesKnown
  <2> QED
    BY <1>5, <2>1, Zenon DEF Abstract!Over, Abstract!Unset
<1> QED
  BY <1>2, <1>3, <1>6, Zenon DEF Abstract!Join

\* The commit of the master transaction is that of the save, after its last thread's.
LEMMA CommitMasterStore ==
    ASSUME TransactionsInv, TransactionsInv', CommitMaster
    PROVE  Abstract!CommitSave
<1>1. /\ phase = "commit" /\ done = Updaters /\ vector' = vector
      /\ database' = Durable(Master) /\ undo' = [undo EXCEPT ![Master] = NoWrites]
  BY Zenon DEF CommitMaster, commitVars
<1>2. Pending' = Pending
  BY <1>1, SamePending, Zenon
<1>3. ASSUME NEW u \in Updaters PROVE Pending[u] = Abstract!Nothing /\ \A k \in Keys : ~HasLock(u, k)
  <2>1. u \in Committers /\ vector[u] = <<>> /\ undo[u] = NoWrites
    BY <1>1, AllCommitted, Zenon DEF Committers
  <2> QED
    BY <2>1, PendingNone, UndosNone, Zenon DEF HasLock
<1>4. MasterWritesKnown /\ MasterWritesKnown' /\ page \in [Keys -> Values]
  BY MasterWritesAt, MasterWritesAtNext, Zenon DEF TransactionsInv, StoreTypes
<1>5. ASSUME NEW k \in Keys
      PROVE  MasterWrites[k] = (IF HasLock(Master, k) THEN page[k] ELSE -1) /\ page[k] # -1
  <2>1. page[k] # -1
    BY <1>4, ValuesSet, Zenon
  <2> QED
    BY <1>3, <1>4, <2>1, Zenon DEF MasterWritesKnown
<1>6. Durable(Master) = Abstract!Over(database, MasterWrites)
  BY <1>5, Zenon DEF Durable, Abstract!Over, Abstract!Unset
<1>7. MasterWrites' = Abstract!Nothing
  <2>1. undo'[Master] = NoWrites
    BY <1>1, Zenon DEF TransactionsInv, StoreTypes
  <2>2. \A k \in Keys : MasterWrites'[k] = -1
    BY <1>4, <2>1, UndosNone, Zenon DEF MasterWritesKnown, HasLock
  <2>3. MasterWrites' = [k \in Keys |-> MasterWrites'[k]]
    BY <1>4, Zenon DEF MasterWritesKnown
  <2> QED
    BY <2>2, <2>3, Zenon DEF Abstract!Nothing, Abstract!Unset
<1> QED
  BY <1>1, <1>2, <1>3, <1>6, <1>7, Zenon DEF Abstract!CommitSave

\* The end of the process loses what is pending and what the save has collected.
LEMMA RestartStore ==
    ASSUME Restart
    PROVE  Abstract!Crash
<1>1. /\ vector' = [t \in Committers |-> <<>>] /\ database' = database
      /\ undo' = [x \in Committers \cup {Master} |-> NoWrites]
  BY Zenon DEF Restart
<1>2. Pending' = [t \in Committers |-> Abstract!Nothing]
  <2>1. Pending' = [t \in Committers |-> Written(vector'[t], Len(vector'[t]))]
    BY Zenon DEF Pending
  <2>2. \A t \in Committers : vector'[t] = <<>> /\ Len(vector'[t]) = 0
    BY <1>1, Zenon
  <2> QED
    BY <2>1, <2>2, WrittenNothing, Zenon
<1>3. MasterWrites' = Abstract!Nothing
  <2>1. \A k \in Keys : ~HasLock(Master, k)'
    BY <1>1, UndosNone, Zenon DEF HasLock
  <2> QED
    BY <2>1, Zenon DEF MasterWrites, Abstract!Nothing, Abstract!Unset
<1> QED
  BY <1>1, <1>2, <1>3, Zenon DEF Abstract!Crash

\* Nothing is pending at the start.
LEMMA InitStore == TransactionsInit => Abstract!Init
<1> SUFFICES ASSUME TransactionsInit PROVE Abstract!Init
  BY Zenon
<1>1. database = [k \in Keys |-> 0]
  BY Zenon DEF TransactionsInit
<1>2. Pending = [t \in Committers |-> Abstract!Nothing]
  <2>1. \A t \in Committers : Pending[t] = Abstract!Nothing
    BY PendingNone, Zenon DEF TransactionsInit
  <2>2. Pending = [t \in Committers |-> Pending[t]]
    BY Zenon DEF Pending
  <2> QED
    BY <2>1, <2>2, Zenon
<1>3. MasterWrites = Abstract!Nothing
  <2>1. \A k \in Keys : ~HasLock(Master, k)
    BY UndosNone, Zenon DEF TransactionsInit, HasLock
  <2> QED
    BY <2>1, Zenon DEF MasterWrites, Abstract!Nothing, Abstract!Unset
<1> QED
  BY <1>1, <1>2, <1>3, Zenon DEF Abstract!Init

\* The databases implement AtomicStore: whatever is interrupted by deadlocks, tried again,
\* interleaved with other commits or cut off by a crash, the writes of a task reach the store
\* together or not at all, and those of a save together when it ends.
THEOREM ImplementsStore == TransactionsSpec => StoreSpec
<1>1. ASSUME TransactionsInv, TransactionsInv', [TransactionsNext]_transactionVars
      PROVE  [Abstract!Next]_<<database, Pending, MasterWrites>>
  <2> USE <1>1
  <2> SUFFICES Abstract!Next \/ UNCHANGED <<database, Pending, MasterWrites>>
    BY Zenon
  <2>1. ASSUME NEW t \in Committers, TryPut(t) \/ Deadlock(t)
        PROVE  UNCHANGED <<database, Pending, MasterWrites>>
    BY <2>1, TryPutStore, DeadlockStore, Zenon
  <2>2. ASSUME NEW t \in Committers, Commit(t) PROVE Abstract!Next
    <3>1. CASE t \in Updaters
      BY <2>2, <3>1, CommitUpdaterStore, Zenon DEF Abstract!Next
    <3>2. CASE t \notin Updaters
      BY <2>2, <3>2, CommitWorkerStore, Zenon DEF Abstract!Next
    <3> QED
      BY <3>1, <3>2, Zenon
  <2>3. ASSUME NEW t \in Committers, Fatal(t) PROVE Abstract!Next
    BY <2>3, RestartStore, Zenon DEF Fatal, Abstract!Next
  <2>4. ASSUME NEW t \in Committers, CommitLocal(t) PROVE UNCHANGED <<database, Pending, MasterWrites>>
    <3>1. vector' = vector /\ undo' = undo /\ page' = page /\ database' = database
      BY <2>4, Zenon DEF CommitLocal, commitVars, storeVars
    <3> QED
      BY <3>1, SamePending, Zenon DEF MasterWrites, HasLock
  <2>5. ASSUME NEW t \in Workers, BeginSave(t) PROVE Abstract!Next
    BY <2>5, BeginSaveStore, Zenon DEF Abstract!Next, Committers
  <2>6. ASSUME NEW t \in Workers, NEW k \in Objects, NEW v \in {0, writes + 1}, Write(t, k, v)
        PROVE  Abstract!Next
    BY <2>6, WriteStore, Zenon DEF Abstract!Next, Committers
  <2>7. ASSUME NEW u \in Updaters, Copy(u) PROVE Abstract!Next
    BY <2>7, CopyStore, Zenon DEF Abstract!Next, Committers
  <2>8. CASE EndCopy \/ UNCHANGED transactionVars
    <3>1. vector' = vector /\ undo' = undo /\ page' = page /\ database' = database
      BY <2>8, Zenon DEF EndCopy, transactionVars, commitVars, storeVars
    <3> QED
      BY <3>1, SamePending, Zenon DEF MasterWrites, HasLock
  <2>9. CASE CommitMaster
    BY <2>9, CommitMasterStore, Zenon DEF Abstract!Next
  <2>10. CASE Crash
    BY <2>10, RestartStore, Zenon DEF Crash, Abstract!Next
  <2> QED
    BY <2>1, <2>2, <2>3, <2>4, <2>5, <2>6, <2>7, <2>8, <2>9, <2>10, Zenon DEF TransactionsNext, CommitStep
<1> QED
  BY <1>1, InitStore, SpecTransactionsInv, PTL DEF TransactionsSpec, StoreSpec, Abstract!Spec, Abstract!vars
================================================================================
