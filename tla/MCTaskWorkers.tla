----------------------------- MODULE MCTaskWorkers -----------------------------
(***************************************************************************)
(* Instances of TaskWorkers for TLC.  w1 and w2 share a queue, so that a   *)
(* signal can go to either and a task pushed for one can be taken by the   *)
(* other; w3 has a queue of its own that does not block during a save.     *)
(***************************************************************************)
EXTENDS TaskWorkers, TLC

CONSTANTS w1, w2, w3, s1, s2

\* Two workers of one queue, and no scheduler.
SharedQueue == (w1 :> 1) @@ (w2 :> 1)
SharedVectors == << <<w1, w2>>, <<>>, <<>> >>

\* A queue that blocks during a save and one that does not.
OwnQueues == (w1 :> 1) @@ (w3 :> 2)
OwnVectors == << <<w1, w3>>, <<s1>>, <<s2>> >>
================================================================================
