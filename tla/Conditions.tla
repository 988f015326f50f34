------------------------------- MODULE Conditions -------------------------------
(***************************************************************************)
(* The condition variable of system/thread/Condition.h.                    *)
(*                                                                         *)
(* It is not a plain pthread condition: a signal sent while nobody waits   *)
(* is remembered in signalCount and consumed by the next wait, while a     *)
(* broadcast sent while nobody waits is lost.  waiterCount counts a thread *)
(* until it has the mutex again, so a second signal sent between the wake  *)
(* up of the only waiter and its return is neither delivered nor counted.  *)
(*                                                                         *)
(* A condition is the record                                               *)
(*   signalCount  the remembered signals;                                  *)
(*   asleep       the threads inside pthread_cond_wait;                    *)
(*   woken        the threads that were woken and still want the mutex.    *)
(* waiterCount is Cardinality(asleep) + Cardinality(woken).  Every operator *)
(* is one critical section of the mutex the caller holds.                  *)
(***************************************************************************)
EXTENDS Naturals

\* Condition(): no remembered signal and no waiter.
NewCondition == [signalCount |-> 0, asleep |-> {}, woken |-> {}]

ConditionType(Threads) ==
    [signalCount : Nat, asleep : SUBSET Threads, woken : SUBSET Threads]

\* doWait and doTimedWait return at once when a signal is remembered.
WaitReturns(c) == c.signalCount > 0

ConsumeSignal(c) == [c EXCEPT !.signalCount = @ - 1]

\* Otherwise the thread sleeps until it is woken or its timeout passes.
Sleep(c, t) == [c EXCEPT !.asleep = @ \cup {t}]

\* pthread_cond_timedwait gives up: the thread competes for the mutex.
TimeOut(c, t) == [c EXCEPT !.asleep = @ \ {t}, !.woken = @ \cup {t}]

\* The return of wait: the mutex is held again, waiterCount is decremented.
Return(c, t) == [c EXCEPT !.woken = @ \ {t}]

\* doSignal: remembered without a waiter; otherwise one sleeper, if there is
\* still one, is woken.  The result is the set of possible conditions.
Signal(c) ==
    IF c.asleep \cup c.woken = {}
      THEN {[c EXCEPT !.signalCount = @ + 1]}
      ELSE IF c.asleep = {}
             THEN {c}
             ELSE {TimeOut(c, t) : t \in c.asleep}

\* doBroadcast: every sleeper is woken, nothing is remembered.
Broadcast(c) == [c EXCEPT !.asleep = {}, !.woken = @ \cup c.asleep]
================================================================================
