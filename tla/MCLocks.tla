-------------------------------- MODULE MCLocks --------------------------------
(***************************************************************************)
(* Locks and what waits for them.  Part says what a behaviour is about;    *)
(* the rest stands still.                                                  *)
(*   "locks": Locks with three threads, two locks that are cross locked,   *)
(*     and an inner one.                                                   *)
(*   "transactions": LocalTransactions with a worker and two update        *)
(*     threads that write two objects.                                     *)
(*   "connections": Connections with a thread of the program and two       *)
(*     schedulers, and two clients one after the other.                    *)
(***************************************************************************)
EXTENDS Locks, Connections, LocalTransactions

VARIABLE part

MCInit ==
    /\ Init /\ TransactionsInit /\ ConnectionsInit
    /\ part \in {"locks", "transactions", "connections"}

\* A scheduler and a thread in close that wait for each other do so for ever.
Hung == (\E c \in Clients : Embrace(c)) /\ UNCHANGED connectionVars

MCNext ==
    \/ part = "locks" /\ Next /\ UNCHANGED <<part, transactionVars, connectionVars>>
    \/ part = "transactions" /\ TransactionsNext /\ UNCHANGED <<part, vars, connectionVars>>
    \/ part = "connections" /\ (ConnectionsNext \/ Hung) /\ UNCHANGED <<part, vars, transactionVars>>

\* The fairness of LocalTransactions and of Connections, for the part that is under way.
Committing == part = "transactions"
Serving == part = "connections"

MCFairness ==
    /\ \A t \in Committers : WF_transactionVars(Committing /\ CommitStep(t))
    /\ \A u \in Updaters :
          WF_transactionVars(Committing /\ (Copy(u) \/ CommitLocal(u)))
    /\ WF_transactionVars(Committing /\ EndCopy)
    /\ WF_transactionVars(Committing /\ CommitMaster)
    /\ WF_connectionVars(Serving /\ ReceiverStep)
    /\ \A p \in Programs : WF_connectionVars(Serving /\ ProgramStep(p))
    /\ \A s \in Timers : WF_connectionVars(Serving /\ TimerStep(s))
    /\ \A c \in Clients :
          WF_connectionVars(Serving /\ quiet[c] /\ \E s \in Timers : Fire(s, c))

MCSpec == MCInit /\ [][MCNext]_<<part, vars, transactionVars, connectionVars>> /\ MCFairness
================================================================================
