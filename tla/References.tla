------------------------------- MODULE References -------------------------------
(***************************************************************************)
(* The life of one object under Reference and WeakReference, system/lang   *)
(* and system/lang/ref: the strong and the weak count in its               *)
(* StrongAndWeakReferenceCount block, of which two units are one           *)
(* reference, and the lowest bit that says that the last one is gone.      *)
(*                                                                         *)
(* Every step is one atomic operation of the code; a compare-and-set loop  *)
(* is the step in which it succeeds.  A Reference stands for the thread    *)
(* that works on it as well.  WeakReferences are shared; the engine        *)
(* assigns to one only where nobody else uses it, because safeRead counts  *)
(* a block after it has read where it is.                                  *)
(***************************************************************************)
EXTENDS Integers, FiniteSets

CONSTANTS
    Refs,      \* Reference variables
    WeakRefs,  \* WeakReference variables
    MaxCount   \* UINT32_MAX: the counts are unsigned and wrap

ASSUME ReferencesAssumption ==
    /\ IsFiniteSet(Refs) /\ IsFiniteSet(WeakRefs)
    /\ MaxCount \in Nat /\ MaxCount % 2 = 1
    /\ 4 * Cardinality(Refs) + 2 * Cardinality(WeakRefs) + 2 < MaxCount

VARIABLES
    strong,   \* strongReferenceCount
    weak,     \* weakReferenceCount
    object,   \* whether the block's object pointer is set
    block,    \* whether the block exists
    obj,      \* "live", "gone": whether the object exists
    full,     \* which References point to the object
    slot,     \* which WeakReferences point to the block
    pc,       \* where the thread of a Reference is
    weakRef,  \* the WeakReference it works on
    assigned  \* whether it assigns the object to it, and not nullptr

vars == <<strong, weak, object, block, obj, full, slot, pc, weakRef, assigned>>
weakVars == <<slot, weakRef, assigned>>

TypeOK ==
    /\ strong \in 0..MaxCount /\ weak \in 0..MaxCount
    /\ object \in BOOLEAN /\ block \in BOOLEAN /\ obj \in {"live", "gone"}
    /\ full \in [Refs -> BOOLEAN] /\ slot \in [WeakRefs -> BOOLEAN]
    /\ pc \in [Refs -> {"idle", "final", "clear", "destroy", "self",
                        "read", "counted", "strong", "got", "drop",
                        "assign", "swap", "set", "dropRead", "dropOld"}]
    /\ weakRef \in [Refs -> WeakRefs] /\ assigned \in [Refs -> BOOLEAN]

\* The first Reference to a new object: createStrongAndWeakReferenceCount.
Init ==
    /\ strong = 2 /\ weak = 2 /\ object = TRUE /\ block = TRUE /\ obj = "live"
    /\ \E r \in Refs : full = [q \in Refs |-> q = r]
    /\ slot = [w \in WeakRefs |-> FALSE]
    /\ pc = [r \in Refs |-> "idle"]
    /\ weakRef \in {f \in [Refs -> WeakRefs] : \A r, q \in Refs : f[r] = f[q]}
    /\ assigned = [r \in Refs |-> FALSE]

\* increaseCount.
Increased(n) == IF n + 2 > MaxCount THEN n + 2 - (MaxCount + 1) ELSE n + 2

\* decrementAndTestAndSet: the new count, and whether this was the last reference.
Decremented(n) == LET m == IF n < 2 THEN n - 2 + (MaxCount + 1) ELSE n - 2
                  IN  IF m = 0 THEN 1 ELSE m

\* Variant: the mark that was there before is not told from the one just made.
WasLastAgain(n) == Decremented(n) = 1

WasLast(n) == Decremented(n) % 2 # n % 2

Goto(r, place) == pc' = [pc EXCEPT ![r] = place]
--------------------------------------------------------------------------------
(***************************************************************************)
(* Reference.                                                              *)
(***************************************************************************)

\* A copy of another Reference: acquire.
Acquire(r, q) ==
    /\ pc[r] = "idle" /\ ~full[r] /\ pc[q] = "idle" /\ full[q]
    /\ strong' = Increased(strong)
    /\ full' = [full EXCEPT ![r] = TRUE]
    /\ UNCHANGED <<weak, object, block, obj, pc, weakVars>>

\* release: the one that takes the count to its last value goes on to destroy the object.
Release(r) ==
    /\ pc[r] = "idle" /\ full[r]
    /\ strong' = Decremented(strong)
    /\ full' = [full EXCEPT ![r] = FALSE]
    /\ Goto(r, IF WasLast(strong) THEN "clear" ELSE "idle")
    /\ UNCHANGED <<weak, object, block, obj, weakVars>>

\* tryFinalRelease: the count is two when tryFinalDecrement looks,
TryFinalRelease(r) ==
    /\ pc[r] = "idle" /\ full[r] /\ strong = 2
    /\ Goto(r, "final")
    /\ UNCHANGED <<strong, weak, object, block, obj, full, weakVars>>

\* Variant: the count is stored, not compared and set.
FinalStore(r) ==
    /\ pc[r] = "final"
    /\ strong' = 1 /\ full' = [full EXCEPT ![r] = FALSE] /\ Goto(r, "clear")
    /\ UNCHANGED <<weak, object, block, obj, weakVars>>

\* and still is when it sets it; compare_exchange_weak may also fail for no reason.
FinalDecrement(r) ==
    /\ pc[r] = "final"
    /\ \/ /\ strong = 2
          /\ strong' = 1 /\ full' = [full EXCEPT ![r] = FALSE] /\ Goto(r, "clear")
       \/ Goto(r, "idle") /\ UNCHANGED <<strong, full>>
    /\ UNCHANGED <<weak, object, block, obj, weakVars>>

\* The block forgets the object.
ClearObject(r) ==
    /\ pc[r] = "clear"
    /\ object' = FALSE
    /\ Goto(r, "destroy")
    /\ UNCHANGED <<strong, weak, block, obj, full, weakVars>>

\* notifyDestroy and the destructors of subclasses may refer to the object again,
SelfAcquire(r) ==
    /\ pc[r] = "destroy"
    /\ strong' = Increased(strong)
    /\ Goto(r, "self")
    /\ UNCHANGED <<weak, object, block, obj, full, weakVars>>

\* and drop that, which does not destroy it a second time.
SelfRelease(r) ==
    /\ pc[r] = "self"
    /\ strong' = Decremented(strong)
    /\ Goto(r, IF WasLast(strong) THEN "clear" ELSE "destroy")
    /\ UNCHANGED <<weak, object, block, obj, full, weakVars>>

\* The release of a block: decrementAndTestAndSetWeakCount, and delete.
ReleaseBlock ==
    /\ weak' = Decremented(weak)
    /\ block' = IF WasLast(weak) THEN FALSE ELSE block

\* ~Object.
Destruct(r) ==
    /\ pc[r] = "destroy"
    /\ obj' = "gone"
    /\ ReleaseBlock
    /\ Goto(r, "idle")
    /\ UNCHANGED <<strong, object, full, weakVars>>
--------------------------------------------------------------------------------
(***************************************************************************)
(* WeakReference::get.                                                     *)
(***************************************************************************)

\* Somebody uses a WeakReference, somebody assigns to it.
InUse(w) == \E r \in Refs : weakRef[r] = w /\ pc[r] \in {"read", "counted", "strong", "got", "assign", "swap", "set"}
Assigning(w) == \E r \in Refs : weakRef[r] = w /\ pc[r] \in {"assign", "swap", "set"}

\* safeRead: the block's place is read; a null one ends get,
ReadSlot(r, w) ==
    /\ pc[r] = "idle" /\ ~full[r] /\ ~Assigning(w) /\ slot[w]
    /\ weakRef' = [weakRef EXCEPT ![r] = w]
    /\ Goto(r, "read")
    /\ UNCHANGED <<strong, weak, object, block, obj, full, slot, assigned>>

\* the block is counted,
IncreaseWeak(r) ==
    /\ pc[r] = "read"
    /\ weak' = Increased(weak)
    /\ Goto(r, "counted")
    /\ UNCHANGED <<strong, object, block, obj, full, weakVars>>

\* and the place read again: still the same, since nobody assigns.
ReadAgain(r) ==
    /\ pc[r] = "counted" /\ slot[weakRef[r]]
    /\ Goto(r, "strong")
    /\ UNCHANGED <<strong, weak, object, block, obj, full, weakVars>>

\* increaseStrongCount: an odd count says that the object is or will be destroyed.
IncreaseStrong(r) ==
    /\ pc[r] = "strong"
    /\ strong' = Increased(strong)
    /\ Goto(r, IF strong' % 2 = 1 THEN "drop" ELSE "got")
    /\ UNCHANGED <<weak, object, block, obj, full, weakVars>>

\* getObjectReference, initializeWithoutAcquire.
GetObject(r) ==
    /\ pc[r] = "got"
    /\ full' = [full EXCEPT ![r] = object]
    /\ Goto(r, "drop")
    /\ UNCHANGED <<strong, weak, object, block, obj, weakVars>>

\* release of the counted block.
DropBlock(r) ==
    /\ pc[r] = "drop"
    /\ ReleaseBlock
    /\ Goto(r, "idle")
    /\ UNCHANGED <<strong, object, obj, full, weakVars>>
--------------------------------------------------------------------------------
(***************************************************************************)
(* WeakReference::updateObject.                                            *)
(***************************************************************************)

\* Of an object that the caller refers to, or of nullptr.
UpdateObject(r, w) ==
    /\ pc[r] = "idle" /\ ~InUse(w)
    /\ weakRef' = [weakRef EXCEPT ![r] = w]
    /\ assigned' = [assigned EXCEPT ![r] = full[r]]
    /\ Goto(r, IF full[r] THEN "assign" ELSE "swap")
    /\ UNCHANGED <<strong, weak, object, block, obj, full, slot>>

\* Variant: the block is handed over without being counted.
NewRefUncounted(r) ==
    /\ pc[r] = "assign"
    /\ Goto(r, "swap")
    /\ UNCHANGED <<strong, weak, object, block, obj, full, weakVars>>

\* newref counts the new block,
NewRef(r) ==
    /\ pc[r] = "assign"
    /\ weak' = Increased(weak)
    /\ Goto(r, "swap")
    /\ UNCHANGED <<strong, object, block, obj, full, weakVars>>

\* safeRead counts the old one, if there is one,
ReadOld(r) ==
    /\ pc[r] = "swap"
    /\ weak' = IF slot[weakRef[r]] THEN Increased(weak) ELSE weak
    /\ Goto(r, "set")
    /\ UNCHANGED <<strong, object, block, obj, full, weakVars>>

\* compareAndSet puts the new one into its place,
SetSlot(r) ==
    /\ pc[r] = "set"
    /\ slot' = [slot EXCEPT ![weakRef[r]] = assigned[r]]
    /\ Goto(r, IF slot[weakRef[r]] THEN "dropRead" ELSE "idle")
    /\ UNCHANGED <<strong, weak, object, block, obj, full, weakRef, assigned>>

\* and the old one is released for safeRead; if that deletes it newref returns nullptr,
DropRead(r) ==
    /\ pc[r] = "dropRead"
    /\ ReleaseBlock
    /\ Goto(r, IF WasLast(weak) THEN "idle" ELSE "dropOld")
    /\ UNCHANGED <<strong, object, obj, full, weakVars>>

\* else updateObject releases it for the WeakReference.
DropOld(r) ==
    /\ pc[r] = "dropOld"
    /\ ReleaseBlock
    /\ Goto(r, "idle")
    /\ UNCHANGED <<strong, object, obj, full, weakVars>>
--------------------------------------------------------------------------------
Step(r) ==
    \/ \E q \in Refs : Acquire(r, q)
    \/ Release(r) \/ TryFinalRelease(r) \/ FinalDecrement(r)
    \/ ClearObject(r) \/ SelfAcquire(r) \/ SelfRelease(r) \/ Destruct(r)
    \/ \E w \in WeakRefs : ReadSlot(r, w) \/ UpdateObject(r, w)
    \/ IncreaseWeak(r) \/ ReadAgain(r) \/ IncreaseStrong(r) \/ GetObject(r) \/ DropBlock(r)
    \/ NewRef(r) \/ ReadOld(r) \/ SetSlot(r) \/ DropRead(r) \/ DropOld(r)

Next == \E r \in Refs : Step(r)

Spec == Init /\ [][Next]_vars
--------------------------------------------------------------------------------
\* A Reference points to an object that exists, however it was made: a WeakReference that
\* races the last release, or tryFinalRelease, either finds the object destroyed or keeps it.
\* testsuite3/tests/weakreftest.h asserts it of what a WeakReference returns.
RefsAlive ==
    \A r \in Refs :
        /\ full[r] => obj = "live" /\ object /\ strong % 2 = 0
        /\ pc[r] = "got" => obj = "live" /\ object

\* The object is destroyed once, although releases race and its own destructor may take and
\* drop references to it: one thread destroys it, and starts to do so once.
DestroyedOnce ==
    /\ \A r, q \in Refs : pc[r] \in {"clear", "destroy", "self"} /\ pc[q] \in {"clear", "destroy", "self"} => r = q
    /\ obj = "gone" => \A r \in Refs : pc[r] \notin {"clear", "destroy", "self"}
    /\ ~object => \A r \in Refs : pc[r] # "clear"

\* The block lives exactly as long as it is needed: it outlives everybody who may still
\* reach it (the object, the WeakReferences and the threads inside get and updateObject),
\* and nothing is leaked: when no operation is under way, an object without a Reference is
\* gone, and so is its block if no WeakReference points to it.
BlockLifetime ==
    /\ ~block =>
          /\ obj = "gone" /\ \A w \in WeakRefs : ~slot[w]
          /\ \A r \in Refs : pc[r] = "idle" \/ (pc[r] \in {"set", "swap"} /\ ~assigned[r])
    /\ (\A r \in Refs : pc[r] = "idle") =>
          /\ (\A r \in Refs : ~full[r]) => obj = "gone"
          /\ (obj = "gone" /\ \A w \in WeakRefs : ~slot[w]) => ~block
================================================================================
