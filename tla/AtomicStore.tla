------------------------------ MODULE AtomicStore ------------------------------
(***************************************************************************)
(* What the databases promise to the engine: the writes of a thread are    *)
(* pending until they are committed, then they reach the store all at      *)
(* once; a save collects the writes of several threads and they reach the  *)
(* store all at once when it is committed, after the last of them; a crash *)
(* loses what is pending and nothing else.                                 *)
(***************************************************************************)
EXTENDS Integers

CONSTANTS
    Threads,
    Savers,  \* the threads whose writes belong to a save
    Keys,
    Values   \* 0 stands for no record

Unset == -1
Nothing == [k \in Keys |-> Unset]

VARIABLES
    store,    \* what is durable
    pending,  \* the writes of a thread: a value or Unset
    save      \* the writes that the save has collected

vars == <<store, pending, save>>

Over(old, new) == [k \in Keys |-> IF new[k] = Unset THEN old[k] ELSE new[k]]

Init ==
    /\ store = [k \in Keys |-> 0]
    /\ pending = [t \in Threads |-> Nothing] /\ save = Nothing

Write(t) ==
    /\ UNCHANGED <<store, save>>
    /\ \A u \in Threads \ {t} : pending'[u] = pending[u]
    /\ \A k \in Keys : pending'[t][k] \in Values \cup {pending[t][k]}

Commit(t) ==
    /\ store' = Over(store, pending[t])
    /\ pending' = [pending EXCEPT ![t] = Nothing]
    /\ UNCHANGED save

Join(t) ==
    /\ save' = Over(save, pending[t])
    /\ pending' = [pending EXCEPT ![t] = Nothing]
    /\ UNCHANGED store

CommitSave ==
    /\ \A t \in Savers : pending[t] = Nothing
    /\ store' = Over(store, save)
    /\ save' = Nothing
    /\ UNCHANGED pending

Crash ==
    /\ pending' = [t \in Threads |-> Nothing] /\ save' = Nothing
    /\ UNCHANGED store

Next ==
    \/ \E t \in Threads : Write(t)
    \/ \E t \in Threads \ Savers : Commit(t)
    \/ \E t \in Savers : Join(t)
    \/ CommitSave \/ Crash

Spec == Init /\ [][Next]_vars
================================================================================
