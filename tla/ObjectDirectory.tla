----------------------------- MODULE ObjectDirectory -----------------------------
(***************************************************************************)
(* The objects of the root broker, engine/orb: deploying and undeploying,  *)
(* the name directory and the object directory, the references that keep   *)
(* an object in memory, and what a save copies, deletes and collects.      *)
(*                                                                         *)
(* Threads work while the object manager's lock is free or held by the     *)
(* garbage collector; a thread's critical section is one step.  Counts     *)
(* are references, two units of the code's count each, and References      *)
(* models how they are kept.  Every object has its own id, so the maps by  *)
(* id are sets of objects; an adapter is its object.                       *)
(***************************************************************************)
EXTENDS Integers, FiniteSets

CONSTANTS
    Objs,        \* stubs
    Threads,     \* worker threads
    Names,
    MaxVersion,  \* bound: changes of an object
    MaxDeltas,   \* bound: ObjectManager.saveDeltas
    None

\* The threads of a process are finitely many.
ASSUME DirectoryAssumption ==
    /\ IsFiniteSet(Threads) /\ MaxVersion \in Nat /\ MaxDeltas \in Nat
    /\ None \notin Objs \cup Names

VARIABLES
    saveMode,      \* ObjectManager.saveMode
    saveDeltas,    \* ObjectManager.saveDeltas
    persistent,    \* the objects whose ispersistent is true
    nameMap,       \* objectNameMap
    objectMap,     \* objectMap of the directory
    helperMap,     \* helperObjectMap, which holds a reference
    status,        \* "new", "deployed", "undeployed", "gone"
    name,          \* _name
    count,         \* references to an object
    held,          \* the objects that a thread has References to
    modified,      \* a thread's list of modified objects
    toDelete,      \* a thread's list of objects to delete from the database
    removing,      \* the object a thread is undeploying
    updated, marked, deleted,   \* _updated, _markedForDeletion, _deletedFromDatabase
    memory,        \* the version in memory
    staged,        \* what the save has copied: versions, 0 for no record
    database,      \* the committed versions
    collection,    \* references that the save took from the lists
    saveDeltaCount,
    candidates,    \* objectsToDeleteFromRam
    mpc,           \* where CommitMasterTransactionThread is
    collecting     \* the object it tries to collect, holding the manager's lock

config == <<saveMode, saveDeltas, persistent>>
maps == <<nameMap, objectMap, helperMap, status, name>>
refs == <<held, modified, toDelete>>
flags == <<updated, marked, deleted, memory>>
saveVars == <<staged, database, collection, saveDeltaCount, candidates, mpc, collecting>>
directoryVars == <<config, maps, count, refs, removing, flags, saveVars>>

DirectoryTypeOK ==
    /\ saveMode \in BOOLEAN /\ saveDeltas \in 0..MaxDeltas /\ persistent \subseteq Objs
    /\ nameMap \in [Names -> Objs \cup {None}]
    /\ objectMap \subseteq Objs /\ helperMap \subseteq Objs
    /\ status \in [Objs -> {"new", "deployed", "undeployed", "gone"}]
    /\ name \in [Objs -> Names \cup {None}]
    /\ count \in [Objs -> Nat]
    /\ held \in [Threads -> SUBSET Objs]
    /\ modified \in [Threads -> SUBSET Objs] /\ toDelete \in [Threads -> SUBSET Objs]
    /\ removing \in [Threads -> Objs \cup {None}]
    /\ updated \subseteq Objs /\ marked \subseteq Objs /\ deleted \subseteq Objs
    /\ memory \in [Objs -> 1..(MaxVersion + 1)]
    /\ staged \in [Objs -> 0..(MaxVersion + 1)] /\ database \in [Objs -> 0..(MaxVersion + 1)]
    /\ collection \in [Objs -> Nat] /\ saveDeltaCount \in 0..MaxDeltas
    /\ candidates \subseteq Objs /\ mpc \in {"idle", "commit", "collect"}
    /\ collecting \in Objs \cup {None}

DirectoryInit ==
    /\ saveMode \in BOOLEAN /\ saveDeltas \in 0..MaxDeltas /\ (saveDeltas > 0 => saveMode)
    /\ persistent \in SUBSET Objs
    /\ nameMap = [n \in Names |-> None] /\ objectMap = {} /\ helperMap = {}
    /\ status = [o \in Objs |-> "new"] /\ name = [o \in Objs |-> None]
    /\ count = [o \in Objs |-> 0]
    /\ held = [t \in Threads |-> {}]
    /\ modified = [t \in Threads |-> {}] /\ toDelete = [t \in Threads |-> {}]
    /\ removing = [t \in Threads |-> None]
    /\ updated = {} /\ marked = {} /\ deleted = {}
    /\ memory = [o \in Objs |-> 1]
    /\ staged = [o \in Objs |-> 0] /\ database = [o \in Objs |-> 0]
    /\ collection = [o \in Objs |-> 0] /\ saveDeltaCount = 0
    /\ candidates = {} /\ mpc = "idle" /\ collecting = None

\* The object manager's lock is free.
Unlocked == collecting = None

Idle(t) == removing[t] = None

\* blockTaskManager has stopped the workers, each between two tasks.
Stopped == \A t \in Threads : Idle(t)

\* What becomes of an object when a reference to it is released.
Released(o) == IF count[o] = 1 THEN [status EXCEPT ![o] = "gone"] ELSE status
--------------------------------------------------------------------------------
(***************************************************************************)
(* Deploying and undeploying.                                              *)
(***************************************************************************)

\* deployLocal of a new object: createObjectID, bind, addObject.  The thread has a
\* Reference to it, and the helper map gets another; the new object counts as updated.
Deploy(t, o, n) ==
    /\ Idle(t) /\ Unlocked /\ status[o] = "new" /\ nameMap[n] = None
    /\ nameMap' = [nameMap EXCEPT ![n] = o] /\ name' = [name EXCEPT ![o] = n]
    /\ objectMap' = objectMap \cup {o} /\ helperMap' = helperMap \cup {o}
    /\ status' = [status EXCEPT ![o] = "deployed"]
    /\ count' = [count EXCEPT ![o] = IF saveMode THEN 3 ELSE 2]
    /\ held' = [held EXCEPT ![t] = @ \cup {o}]
    /\ updated' = updated \cup {o}
    /\ modified' = IF saveMode THEN [modified EXCEPT ![t] = @ \cup {o}] ELSE modified
    /\ UNCHANGED <<config, toDelete, removing, marked, deleted, memory, saveVars>>

\* undeployLocal of an object that is not persistent: unbind, and the lock is released.  An
\* object that the collector has noted, which it does by address, is not undeployed.
Unbind(t, o) ==
    /\ Idle(t) /\ Unlocked /\ o \in held[t] /\ status[o] = "deployed"
    /\ o \notin persistent \cup candidates /\ nameMap[name[o]] = o
    /\ nameMap' = [nameMap EXCEPT ![name[o]] = None]
    /\ removing' = [removing EXCEPT ![t] = o]
    /\ UNCHANGED <<config, objectMap, helperMap, status, name, count, refs, flags, saveVars>>

\* removeObject takes it again: both maps forget the object.
Remove(t) ==
    /\ ~Idle(t) /\ Unlocked
    /\ LET o == removing[t] IN
       /\ objectMap' = objectMap \ {o} /\ helperMap' = helperMap \ {o}
       /\ count' = [count EXCEPT ![o] = @ - 1]
       /\ status' = [status EXCEPT ![o] = "undeployed"]
    /\ removing' = [removing EXCEPT ![t] = None]
    /\ UNCHANGED <<config, nameMap, name, refs, flags, saveVars>>
--------------------------------------------------------------------------------
(***************************************************************************)
(* What threads do with objects.                                           *)
(***************************************************************************)

\* lookUp by id, under the manager's read lock.
LookUp(t, o) ==
    /\ Idle(t) /\ Unlocked /\ o \in objectMap \ held[t]
    /\ count' = [count EXCEPT ![o] = @ + 1]
    /\ held' = [held EXCEPT ![t] = @ \cup {o}]
    /\ UNCHANGED <<config, maps, modified, toDelete, removing, flags, saveVars>>

\* WeakReference::get, under no lock.
WeakGet(t, o) ==
    /\ Idle(t) /\ o \notin held[t] /\ status[o] \in {"deployed", "undeployed"}
    /\ count' = [count EXCEPT ![o] = @ + 1]
    /\ held' = [held EXCEPT ![t] = @ \cup {o}]
    /\ UNCHANGED <<config, maps, modified, toDelete, removing, flags, saveVars>>

\* A Reference is dropped, under no lock; the last one destroys the object.
Drop(t, o) ==
    /\ Idle(t) /\ o \in held[t]
    /\ held' = [held EXCEPT ![t] = @ \ {o}]
    /\ count' = [count EXCEPT ![o] = @ - 1]
    /\ status' = Released(o)
    /\ UNCHANGED <<config, nameMap, objectMap, helperMap, name, modified, toDelete, removing, flags, saveVars>>

\* Variant: addModifiedObject does not acquire.
ModifyUnacquired(t, o) ==
    /\ Idle(t) /\ o \in held[t] /\ status[o] = "deployed" /\ memory[o] <= MaxVersion
    /\ memory' = [memory EXCEPT ![o] = @ + 1]
    /\ updated' = updated \cup {o}
    /\ IF saveMode /\ o \notin updated
         THEN modified' = [modified EXCEPT ![t] = @ \cup {o}]
         ELSE UNCHANGED modified
    /\ UNCHANGED <<config, maps, count, held, toDelete, removing, marked, deleted, saveVars>>

\* _getImplementation before a change: if (!_updated) _updated = true, which in save mode
\* puts the object into the thread's list and acquires it.
Modify(t, o) ==
    /\ Idle(t) /\ o \in held[t] /\ status[o] = "deployed" /\ memory[o] <= MaxVersion
    /\ memory' = [memory EXCEPT ![o] = @ + 1]
    /\ updated' = updated \cup {o}
    /\ IF saveMode /\ o \notin updated
         THEN /\ modified' = [modified EXCEPT ![t] = @ \cup {o}]
              /\ count' = [count EXCEPT ![o] = @ + 1]
         ELSE UNCHANGED <<modified, count>>
    /\ UNCHANGED <<config, maps, held, toDelete, removing, marked, deleted, saveVars>>

\* _setMarkedForDeletion.
MarkForDeletion(t, o) ==
    /\ Idle(t) /\ o \in held[t] \ marked /\ status[o] = "deployed"
    /\ marked' = marked \cup {o}
    /\ IF saveMode
         THEN /\ toDelete' = [toDelete EXCEPT ![t] = @ \cup {o}]
              /\ count' = [count EXCEPT ![o] = @ + 1]
         ELSE UNCHANGED <<toDelete, count>>
    /\ UNCHANGED <<config, maps, held, modified, removing, updated, deleted, memory, saveVars>>
--------------------------------------------------------------------------------
(***************************************************************************)
(* A save: updateModifiedObjectsToDatabase with the workers blocked, and   *)
(* the commit and the collection that follow it.                           *)
(***************************************************************************)
Listed(lists) == UNION {lists[t] : t \in Threads}

\* commitUpdatePersistentObjectToDB of some objects and commitDestroyObjectToDB of others,
\* where the last one of late that touches an object decides.
Copied(update, delete, late) ==
    [o \in Objs |-> IF o \in delete \ late THEN 0
                    ELSE IF o \in update \cap persistent THEN memory[o] ELSE staged[o]]

\* collectModifiedObjectsFromThreads: the references of the lists are the save's now.
TakeLists ==
    /\ collection' = [o \in Objs |-> collection[o]
                          + Cardinality({t \in Threads : o \in modified[t]})
                          + Cardinality({t \in Threads : o \in toDelete[t]})]
    /\ modified' = [t \in Threads |-> {}] /\ toDelete' = [t \in Threads |-> {}]

\* Variant: what is marked for deletion is updated too.
FullSaveOfMarked ==
    /\ Unlocked /\ Stopped /\ mpc = "idle"
    /\ LET delete == (objectMap \cap marked) \ deleted
           update == objectMap \cap updated \cap persistent
       IN  /\ staged' = Copied(update, delete, {})
           /\ updated' = updated \ update
           /\ deleted' = deleted \cup delete
    /\ candidates' = {o \in objectMap : count[o] = 1}
    /\ TakeLists
    /\ saveDeltaCount' = 0 /\ mpc' = "commit"
    /\ UNCHANGED <<config, maps, count, held, removing, marked, memory, database, collecting>>

\* A full update, because it was asked for or because it is its turn: the directory is
\* scanned.  runObjectsMarkedForUpdate deletes what is marked, updates what is updated, and
\* notes what only the helper map refers to.
FullSave ==
    /\ Unlocked /\ Stopped /\ mpc = "idle"
    /\ LET delete == (objectMap \cap marked) \ deleted
           update == (objectMap \cap updated \cap persistent) \ marked
       IN  /\ staged' = Copied(update, delete, {})
           /\ updated' = updated \ update
           /\ deleted' = deleted \cup delete
    /\ candidates' = {o \in objectMap : count[o] = 1}
    /\ TakeLists
    /\ saveDeltaCount' = 0 /\ mpc' = "commit"
    /\ UNCHANGED <<config, maps, count, held, removing, marked, memory, database, collecting>>

\* A delta update: only the lists count.  Each thread's lists go to a thread of their own,
\* updates first; when one updates what another deletes, either may be last.
DeltaSave ==
    /\ Unlocked /\ Stopped /\ mpc = "idle" /\ saveMode /\ saveDeltaCount < saveDeltas
    /\ LET update == Listed(modified)
           delete == Listed(toDelete) \ deleted
       IN  /\ \E late \in SUBSET {o \in update \cap delete : \E t \in Threads : o \in modified[t] \ toDelete[t]} :
                  staged' = Copied(update, delete, late)
           /\ updated' = updated \ (update \cap persistent)
           /\ deleted' = deleted \cup delete
    /\ candidates' = {}
    /\ TakeLists
    /\ saveDeltaCount' = saveDeltaCount + 1 /\ mpc' = "commit"
    /\ UNCHANGED <<config, maps, count, held, removing, marked, memory, database, collecting>>

\* Variant: the lists are deleted without releasing what they refer to.
KeepCollected(o) ==
    /\ collection[o] > 0
    /\ collection' = [collection EXCEPT ![o] = @ - 1]
    /\ UNCHANGED <<config, maps, count, refs, removing, flags,
                   staged, database, saveDeltaCount, candidates, mpc, collecting>>

\* The references of the lists are released when the workers go on.
ReleaseCollected(o) ==
    /\ collection[o] > 0
    /\ collection' = [collection EXCEPT ![o] = @ - 1]
    /\ count' = [count EXCEPT ![o] = @ - 1]
    /\ status' = Released(o)
    /\ UNCHANGED <<config, nameMap, objectMap, helperMap, name, refs, removing, flags,
                   staged, database, saveDeltaCount, candidates, mpc, collecting>>

\* commitData.
Commit ==
    /\ mpc = "commit"
    /\ database' = staged /\ mpc' = "collect"
    /\ UNCHANGED <<config, maps, count, refs, removing, flags, staged, collection, saveDeltaCount,
                   candidates, collecting>>

Collectable(o) == count[o] = 1 /\ (o \notin updated \/ o \in deleted \/ o \notin persistent)

\* garbageCollect looks at a candidate, with the manager's lock,
Consider(o) ==
    /\ mpc = "collect" /\ Unlocked /\ o \in candidates
    /\ IF Collectable(o) THEN collecting' = o /\ UNCHANGED candidates
                         ELSE candidates' = candidates \ {o} /\ UNCHANGED collecting
    /\ UNCHANGED <<config, maps, count, refs, removing, flags, staged, database, collection,
                   saveDeltaCount, mpc>>

\* Variant: the helper map's reference is dropped without looking at the count.
CollectAnyway ==
    /\ collecting # None
    /\ LET o == collecting IN
       /\ nameMap' = [nameMap EXCEPT ![name[o]] = IF @ = o THEN None ELSE @]
       /\ objectMap' = objectMap \ {o} /\ helperMap' = helperMap \ {o}
       /\ count' = [count EXCEPT ![o] = 0] /\ status' = [status EXCEPT ![o] = "gone"]
    /\ candidates' = candidates \ {collecting} /\ collecting' = None
    /\ UNCHANGED <<config, name, refs, removing, flags, staged, database, collection,
                   saveDeltaCount, mpc>>

\* tryRemoveHelper: if the helper map's reference still is the last one the object is
\* destroyed, and notifyDestroy undeploys it; if not, or if the compare-and-set fails for
\* no reason, the helper map has it back.
Collect ==
    /\ collecting # None
    /\ LET o == collecting IN
       \/ /\ count[o] = 1
          /\ nameMap' = [nameMap EXCEPT ![name[o]] = IF @ = o THEN None ELSE @]
          /\ objectMap' = objectMap \ {o} /\ helperMap' = helperMap \ {o}
          /\ count' = [count EXCEPT ![o] = 0] /\ status' = [status EXCEPT ![o] = "gone"]
       \/ UNCHANGED <<nameMap, objectMap, helperMap, count, status>>
    /\ candidates' = candidates \ {collecting} /\ collecting' = None
    /\ UNCHANGED <<config, name, refs, removing, flags, staged, database, collection,
                   saveDeltaCount, mpc>>

\* finishObjectUpdate.
Finish ==
    /\ mpc = "collect" /\ Unlocked /\ candidates = {}
    /\ mpc' = "idle"
    /\ UNCHANGED <<config, maps, count, refs, removing, flags, staged, database, collection,
                   saveDeltaCount, candidates, collecting>>
--------------------------------------------------------------------------------
SaveStep == FullSave \/ DeltaSave \/ Commit \/ Collect \/ Finish
            \/ \E o \in Objs : ReleaseCollected(o) \/ Consider(o)

DirectoryNext ==
    \/ \E t \in Threads, o \in Objs :
          \/ \E n \in Names : Deploy(t, o, n)
          \/ Unbind(t, o) \/ LookUp(t, o) \/ WeakGet(t, o) \/ Drop(t, o)
          \/ Modify(t, o) \/ MarkForDeletion(t, o)
    \/ \E t \in Threads : Remove(t)
    \/ SaveStep

DirectorySpec == DirectoryInit /\ [][DirectoryNext]_directoryVars

\* The save task reschedules itself, calls that have begun go on, and a compare-and-set
\* does not fail for no reason for ever.
Fairness ==
    /\ WF_directoryVars(SaveStep) /\ \A o \in Objs : WF_directoryVars(ReleaseCollected(o))
    /\ \A t \in Threads : WF_directoryVars(Remove(t))
    /\ SF_directoryVars(Collect /\ objectMap' # objectMap)

FairDirectory == DirectorySpec /\ Fairness
--------------------------------------------------------------------------------
\* Every reference to an object, a directory entry or a noted candidate is to an object that
\* exists: the collector, which looks at counts that lookUps, weak references and the save's
\* own cleanup change under its hands, never destroys what somebody can still reach.  And the
\* two maps of the directory agree whenever the manager's lock can be taken, so that get,
\* which runs under the read lock, never has to repair the helper map.
NoDangling ==
    /\ \A o \in Objs : status[o] = "gone" =>
          /\ \A n \in Names : nameMap[n] # o
          /\ o \notin objectMap \cup helperMap \cup candidates /\ collection[o] = 0
          /\ \A t \in Threads : o \notin held[t] \cup modified[t] \cup toDelete[t]
    /\ Unlocked => objectMap = helperMap

\* With saveMode, whatever was done to a persistent object has reached the database before
\* the object leaves memory: its last version, or its deletion.  A change or a mark that
\* races the collector keeps the object.
SavedBeforeCollected ==
    saveMode => \A o \in persistent : status[o] = "gone" =>
        IF o \in marked THEN o \in deleted ELSE database[o] = memory[o]

\* With full saves an object that has been deleted from the database stays deleted, although
\* threads that still have it may go on changing it.
DeletedStaysDeleted ==
    [][saveDeltas = 0 => \A o \in deleted : staged'[o] = 0]_directoryVars

\* What no thread has any more leaves memory, save by save; a persistent object too, since
\* the saves also write what would keep it.
Collected ==
    \A o \in Objs :
        (status[o] = "deployed" /\ \A t \in Threads : o \notin held[t])
            ~> (status[o] # "deployed" \/ \E t \in Threads : o \in held[t])
================================================================================
