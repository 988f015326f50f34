------------------------------- MODULE MCObjects -------------------------------
(***************************************************************************)
(* How long an object lives and how it is saved.  Part says what a         *)
(* behaviour is about; the rest stands still.                              *)
(*   "references": the reference counts of an object (References).         *)
(*   "directory": the directory and the collector that rely on them        *)
(*     (ObjectDirectory).                                                  *)
(*   "update": the threads that copy and commit what a save collects       *)
(*     (UpdateThreads): two, of which one exists from the start, with up   *)
(*     to three batches, so that the third goes to the first thread again, *)
(*     and three saves, so that the third may find a thread late.          *)
(***************************************************************************)
EXTENDS References, ObjectDirectory, UpdateThreads

VARIABLE part

MCInit ==
    /\ Init /\ DirectoryInit /\ UpdateInit
    /\ part \in {"references", "directory", "update"}
    /\ part # "directory" => ~saveMode /\ saveDeltas = 0 /\ persistent = {}
    /\ part # "references" =>
          /\ full[CHOOSE r \in Refs : TRUE]
          /\ \A r \in Refs : weakRef[r] = CHOOSE w \in WeakRefs : TRUE

MCNext ==
    \/ part = "references" /\ Next /\ UNCHANGED <<part, directoryVars, updateVars>>
    \/ part = "directory" /\ DirectoryNext /\ UNCHANGED <<part, vars, updateVars>>
    \/ part = "update" /\ UpdateNext /\ UNCHANGED <<part, vars, directoryVars>>

\* The fairness of ObjectDirectory and of UpdateThreads, for the part that is under way.
Working == part = "directory"
Updating == part = "update"

MCFairness ==
    /\ WF_directoryVars(Working /\ SaveStep)
    /\ \A o \in Objs : WF_directoryVars(Working /\ ReleaseCollected(o))
    /\ \A t \in Threads : WF_directoryVars(Working /\ Remove(t))
    /\ SF_directoryVars(Working /\ Collect /\ objectMap' # objectMap)
    /\ WF_updateVars(Updating /\ SaverStep)
    /\ WF_updateVars(Updating /\ WatcherStep)
    /\ \A t \in Updaters : WF_updateVars(Updating /\ ThreadStep(t))

MCSpec == MCInit /\ [][MCNext]_<<part, vars, directoryVars, updateVars>> /\ MCFairness
--------------------------------------------------------------------------------
\* The types of the three modules.
TypesOK == TypeOK /\ DirectoryTypeOK /\ UpdateTypeOK
================================================================================
