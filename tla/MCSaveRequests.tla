----------------------------- MODULE MCSaveRequests -----------------------------
(***************************************************************************)
(* Two workers and one thread that is not a worker.  Part "spaced": saves  *)
(* are asked for one at a time and without SAVE_JSON, and the next save is *)
(* always to come.  Part "any": every request at any time.                 *)
(***************************************************************************)
EXTENDS SaveRequests

Any == INSTANCE SaveRequests WITH JSON <- TRUE, Spaced <- FALSE

VARIABLE part

MCInit == Init /\ part \in {"spaced", "any"}

MCNext ==
    \/ part = "spaced" /\ Next /\ UNCHANGED part
    \/ part = "any" /\ Any!Next /\ UNCHANGED part

MCSpec == MCInit /\ [][MCNext]_<<part, vars>> /\ (part = "spaced" => Fairness)
--------------------------------------------------------------------------------
\* What spaced requests without SAVE_JSON are promised, by the names in SaveRequests.

\* createBackup returns to its caller, with the save made or refused.
SpacedAnswered == part = "spaced" => Answered

\* Saves are made for ever: the task that finishObjectUpdate schedules brings the next.
SpacedSavesGoOn == part = "spaced" => SavesGoOn
================================================================================
