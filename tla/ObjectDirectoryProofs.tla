------------------------- MODULE ObjectDirectoryProofs -------------------------
(***************************************************************************)
(* Proofs about ObjectDirectory, for any objects, names and number of      *)
(* threads: the references to an object are counted, so nothing dangles;   *)
(* what a collected object was has been saved; and what has been deleted   *)
(* stays deleted.                                                          *)
(***************************************************************************)
EXTENDS ObjectDirectory, FiniteSetTheorems, TLAPS

\* The threads that have an object, and that have it in a list.
Having(f, o) == {t \in Threads : o \in f[t]}
Holding(o) == Having(held, o)
Modifying(o) == Having(modified, o)
Deleting(o) == Having(toDelete, o)
Mapped(o) == IF o \in helperMap THEN 1 ELSE 0

\* Every reference to an object is counted.
Counted(o) ==
    count[o] = Cardinality(Holding(o)) + Cardinality(Modifying(o)) + Cardinality(Deleting(o))
                   + collection[o] + Mapped(o)

AllCounted == \A o \in Objs : Counted(o)

\* What the directory has is what is deployed; an object that is not there yet, or is gone,
\* has no reference.
MapInv ==
    /\ objectMap = helperMap /\ candidates \subseteq objectMap
    /\ \A o \in Objs : /\ status[o] = "deployed" <=> o \in objectMap
                       /\ status[o] \in {"new", "gone"} => count[o] = 0
                       /\ o \in objectMap => name[o] \in Names
    /\ \A n \in Names : nameMap[n] # None => nameMap[n] \in objectMap /\ name[nameMap[n]] = n

\* A thread that undeploys an object has it, and it alone; the object is neither
\* persistent nor noted by the collector, and its name is free.
RemovingInv ==
    /\ \A t \in Threads : removing[t] # None =>
          /\ removing[t] \in held[t] \cap objectMap /\ removing[t] \notin persistent \cup candidates
          /\ \A n \in Names : nameMap[n] # removing[t]
    /\ \A t, u \in Threads : removing[t] # None /\ removing[u] = removing[t] => t = u
    /\ \A o \in persistent : status[o] # "undeployed"

\* What is in a list is flagged.
ListInv ==
    /\ \A t \in Threads : modified[t] \subseteq updated /\ toDelete[t] \subseteq marked
    /\ deleted \subseteq marked

\* The collector tries an object that it has noted, after the commit.
CollectInv ==
    /\ collecting # None => mpc = "collect" /\ collecting \in candidates
    /\ mpc # "commit" => database = staged

\* In saveMode a change or a mark that no save has taken yet is in a list.
Saved(o) ==
    /\ o \in updated \ marked => Modifying(o) # {}
    /\ o \in marked \ deleted => Deleting(o) # {}
    /\ status[o] # "new" /\ o \notin updated \cup marked => staged[o] = memory[o]
    /\ status[o] = "gone" /\ o \notin marked => database[o] = memory[o]

SavedInv == saveMode => \A o \in persistent : Saved(o)

\* Without delta saves nothing is written again.
DeletedInv == saveDeltas = 0 => \A o \in deleted : staged[o] = 0

IInv ==
    /\ DirectoryTypeOK /\ MapInv /\ RemovingInv /\ ListInv /\ CollectInv
    /\ AllCounted

SaveInv == SavedInv /\ DeletedInv
--------------------------------------------------------------------------------
(* Counting references. *)

LEMMA SumOne ==
  \A h, m, d, c \in Nat : h + m + d + c + 1 = 1 => (h = 0 /\ m = 0 /\ d = 0 /\ c = 0)
OBVIOUS

\* The counts are natural numbers.
LEMMA Finite ==
  ASSUME NEW S, S \subseteq Threads
  PROVE  IsFiniteSet(S) /\ Cardinality(S) \in Nat
<1>1. IsFiniteSet(S)
  BY DirectoryAssumption, FS_Subset
<1> QED
  BY <1>1, FS_CardinalityType

LEMMA Counts ==
  ASSUME NEW o
  PROVE  /\ IsFiniteSet(Holding(o)) /\ Cardinality(Holding(o)) \in Nat
         /\ IsFiniteSet(Modifying(o)) /\ Cardinality(Modifying(o)) \in Nat
         /\ IsFiniteSet(Deleting(o)) /\ Cardinality(Deleting(o)) \in Nat
         /\ Mapped(o) \in Nat
<1>1. Holding(o) \subseteq Threads /\ Modifying(o) \subseteq Threads /\ Deleting(o) \subseteq Threads
  BY Zenon DEF Holding, Modifying, Deleting, Having
<1>2. Mapped(o) \in Nat
  BY DEF Mapped
<1> QED
  BY <1>1, <1>2, Finite, Zenon

LEMMA Naturals ==
  ASSUME DirectoryTypeOK, NEW o \in Objs
  PROVE  /\ Cardinality(Holding(o)) \in Nat /\ Cardinality(Modifying(o)) \in Nat
         /\ Cardinality(Deleting(o)) \in Nat /\ collection[o] \in Nat /\ Mapped(o) \in Nat
<1>1. collection[o] \in Nat
  BY DEF DirectoryTypeOK
<1> QED
  BY <1>1, Counts, Zenon

\* No reference is counted, so there is none.
LEMMA NoReference ==
  ASSUME DirectoryTypeOK, NEW o \in Objs, Counted(o), count[o] = 0
  PROVE  /\ Holding(o) = {} /\ Modifying(o) = {} /\ Deleting(o) = {} /\ collection[o] = 0
         /\ o \notin helperMap
<1>0. /\ Cardinality(Holding(o)) \in Nat /\ Cardinality(Modifying(o)) \in Nat
      /\ Cardinality(Deleting(o)) \in Nat /\ collection[o] \in Nat /\ Mapped(o) \in Nat
  BY Naturals, Zenon
<1>1. Cardinality(Holding(o)) + Cardinality(Modifying(o)) + Cardinality(Deleting(o)) + collection[o] + Mapped(o) = 0
  BY Zenon DEF Counted
<1>2. /\ Cardinality(Holding(o)) = 0 /\ Cardinality(Modifying(o)) = 0 /\ Cardinality(Deleting(o)) = 0
      /\ collection[o] = 0 /\ Mapped(o) = 0
  BY <1>0, <1>1
<1>3. o \notin helperMap
  BY <1>2 DEF Mapped
<1> QED
  BY <1>2, <1>3, Counts, FS_EmptySet, Zenon

\* The only reference is the directory's.
LEMMA OnlyMapped ==
  ASSUME DirectoryTypeOK, NEW o \in Objs, Counted(o), count[o] = 1, o \in helperMap
  PROVE  Holding(o) = {} /\ Modifying(o) = {} /\ Deleting(o) = {} /\ collection[o] = 0
<1>0. /\ Cardinality(Holding(o)) \in Nat /\ Cardinality(Modifying(o)) \in Nat
      /\ Cardinality(Deleting(o)) \in Nat /\ collection[o] \in Nat /\ Mapped(o) \in Nat
  BY Naturals, Zenon
<1>1. Mapped(o) = 1
  BY Zenon DEF Mapped
<1>2. Cardinality(Holding(o)) + Cardinality(Modifying(o)) + Cardinality(Deleting(o)) + collection[o] + 1 = 1
  BY <1>1, Zenon DEF Counted
<1>3. /\ Cardinality(Holding(o)) = 0 /\ Cardinality(Modifying(o)) = 0 /\ Cardinality(Deleting(o)) = 0
      /\ collection[o] = 0
  BY <1>0, <1>2, SumOne, Zenon
<1> QED
  BY <1>3, Counts, FS_EmptySet, Zenon

\* A step that has nothing to do with an object.
Untouched(o) ==
    /\ count'[o] = count[o] /\ collection'[o] = collection[o] /\ Mapped(o)' = Mapped(o)
    /\ Holding(o)' = Holding(o) /\ Modifying(o)' = Modifying(o) /\ Deleting(o)' = Deleting(o)

LEMMA UntouchedCounted ==
  ASSUME NEW o, Counted(o), Untouched(o)
  PROVE  Counted(o)'
BY Zenon DEF Counted, Untouched

LEMMA Primed ==
  \A o : /\ Holding(o)' = Having(held', o) /\ Modifying(o)' = Having(modified', o)
         /\ Deleting(o)' = Having(toDelete', o)
BY Zenon DEF Holding, Modifying, Deleting, Having

LEMMA OneTouched ==
  ASSUME AllCounted, NEW o \in Objs, Counted(o)', \A x \in Objs : x # o => Untouched(x)
  PROVE  AllCounted'
<1>1. ASSUME NEW x \in Objs, x # o PROVE Counted(x)'
  BY <1>1, UntouchedCounted, Zenon DEF AllCounted
<1> QED
  BY <1>1, Zenon DEF AllCounted

\* A thread gets an object it did not have, or gives one up.
Gets(f, g, t, o) ==
    t \in Threads /\ o \notin f[t] /\ g[t] = f[t] \cup {o} /\ \A u \in Threads : u # t => g[u] = f[u]

GivesUp(f, g, t, o) ==
    t \in Threads /\ o \in f[t] /\ g[t] = f[t] \ {o} /\ \A u \in Threads : u # t => g[u] = f[u]

More(f, g, o) ==
    /\ Cardinality(Having(g, o)) = Cardinality(Having(f, o)) + 1
    /\ \A x : x # o => Having(g, x) = Having(f, x)

Less(f, g, o) ==
    /\ Cardinality(Having(g, o)) = Cardinality(Having(f, o)) - 1
    /\ \A x : x # o => Having(g, x) = Having(f, x)

LEMMA Grows ==
  ASSUME NEW f, NEW g, NEW t, NEW o, Gets(f, g, t, o)
  PROVE  More(f, g, o)
<1>1. Having(g, o) = Having(f, o) \cup {t} /\ t \notin Having(f, o) /\ Having(f, o) \subseteq Threads
  BY DEF Having, Gets
<1>2. \A x : x # o => Having(g, x) = Having(f, x)
  BY DEF Having, Gets
<1>3. Cardinality(Having(g, o)) = Cardinality(Having(f, o)) + 1
  <2>1. IsFiniteSet(Having(f, o))
    BY <1>1, Finite, Zenon
  <2> QED
    BY <1>1, <2>1, FS_AddElement
<1> QED
  BY <1>2, <1>3, Zenon DEF More

LEMMA Shrinks ==
  ASSUME NEW f, NEW g, NEW t, NEW o, GivesUp(f, g, t, o)
  PROVE  Less(f, g, o)
<1>1. Having(g, o) = Having(f, o) \ {t} /\ t \in Having(f, o) /\ Having(f, o) \subseteq Threads
  BY DEF Having, GivesUp
<1>2. \A x : x # o => Having(g, x) = Having(f, x)
  BY DEF Having, GivesUp
<1>3. Cardinality(Having(g, o)) = Cardinality(Having(f, o)) - 1
  <2>1. IsFiniteSet(Having(f, o))
    BY <1>1, Finite, Zenon
  <2> QED
    BY <1>1, <2>1, FS_RemoveElement
<1> QED
  BY <1>2, <1>3, Zenon DEF Less

LEMMA HoldsMore ==
  ASSUME NEW t, NEW o, Gets(held, held', t, o)
  PROVE  /\ Cardinality(Holding(o)') = Cardinality(Holding(o)) + 1
         /\ \A x : x # o => Holding(x)' = Holding(x)
<1>1. More(held, held', o)
  BY Grows, Zenon
<1> QED
  BY <1>1, Primed, Zenon DEF Holding, More

LEMMA HoldsLess ==
  ASSUME NEW t, NEW o, GivesUp(held, held', t, o)
  PROVE  /\ Cardinality(Holding(o)') = Cardinality(Holding(o)) - 1
         /\ \A x : x # o => Holding(x)' = Holding(x)
<1>1. Less(held, held', o)
  BY Shrinks, Zenon
<1> QED
  BY <1>1, Primed, Zenon DEF Holding, Less

LEMMA ModifiesMore ==
  ASSUME NEW t, NEW o, Gets(modified, modified', t, o)
  PROVE  /\ Cardinality(Modifying(o)') = Cardinality(Modifying(o)) + 1
         /\ \A x : x # o => Modifying(x)' = Modifying(x)
<1>1. More(modified, modified', o)
  BY Grows, Zenon
<1> QED
  BY <1>1, Primed, Zenon DEF Modifying, More

LEMMA DeletesMore ==
  ASSUME NEW t, NEW o, Gets(toDelete, toDelete', t, o)
  PROVE  /\ Cardinality(Deleting(o)') = Cardinality(Deleting(o)) + 1
         /\ \A x : x # o => Deleting(x)' = Deleting(x)
<1>1. More(toDelete, toDelete', o)
  BY Grows, Zenon
<1> QED
  BY <1>1, Primed, Zenon DEF Deleting, More

\* One reference more, and one less.
SameLists(o) ==
    Modifying(o)' = Modifying(o) /\ Deleting(o)' = Deleting(o) /\ Mapped(o)' = Mapped(o)

LEMMA MoreHeld ==
  ASSUME DirectoryTypeOK, NEW o \in Objs, Counted(o), count'[o] = count[o] + 1, SameLists(o),
         Cardinality(Holding(o)') = Cardinality(Holding(o)) + 1, collection'[o] = collection[o]
  PROVE  Counted(o)'
<1>0. /\ Cardinality(Holding(o)) \in Nat /\ Cardinality(Modifying(o)) \in Nat
      /\ Cardinality(Deleting(o)) \in Nat /\ collection[o] \in Nat /\ Mapped(o) \in Nat
  BY Naturals, Zenon
<1>1. count'[o] = (Cardinality(Holding(o)) + 1) + Cardinality(Modifying(o)) + Cardinality(Deleting(o))
                      + collection[o] + Mapped(o)
  BY <1>0 DEF Counted
<1> QED
  BY <1>1, Zenon DEF Counted, SameLists

LEMMA LessHeld ==
  ASSUME DirectoryTypeOK, NEW o \in Objs, Counted(o), count'[o] = count[o] - 1, SameLists(o),
         Cardinality(Holding(o)') = Cardinality(Holding(o)) - 1, collection'[o] = collection[o]
  PROVE  Counted(o)'
<1>0. /\ Cardinality(Holding(o)) \in Nat /\ Cardinality(Modifying(o)) \in Nat
      /\ Cardinality(Deleting(o)) \in Nat /\ collection[o] \in Nat /\ Mapped(o) \in Nat
  BY Naturals, Zenon
<1>1. count'[o] = (Cardinality(Holding(o)) - 1) + Cardinality(Modifying(o)) + Cardinality(Deleting(o))
                      + collection[o] + Mapped(o)
  BY <1>0 DEF Counted
<1> QED
  BY <1>1, Zenon DEF Counted, SameLists

LEMMA LessCollected ==
  ASSUME DirectoryTypeOK, NEW o \in Objs, Counted(o), count'[o] = count[o] - 1, SameLists(o),
         Holding(o)' = Holding(o), collection'[o] = collection[o] - 1
  PROVE  Counted(o)'
<1>0. /\ Cardinality(Holding(o)) \in Nat /\ Cardinality(Modifying(o)) \in Nat
      /\ Cardinality(Deleting(o)) \in Nat /\ collection[o] \in Nat /\ Mapped(o) \in Nat
  BY Naturals, Zenon
<1>1. count'[o] = Cardinality(Holding(o)) + Cardinality(Modifying(o)) + Cardinality(Deleting(o))
                      + (collection[o] - 1) + Mapped(o)
  BY <1>0 DEF Counted
<1> QED
  BY <1>1, Zenon DEF Counted, SameLists

LEMMA MoreListed ==
  ASSUME DirectoryTypeOK, NEW o \in Objs, Counted(o), count'[o] = count[o] + 1,
         Holding(o)' = Holding(o), Mapped(o)' = Mapped(o), collection'[o] = collection[o],
         \/ Cardinality(Modifying(o)') = Cardinality(Modifying(o)) + 1 /\ Deleting(o)' = Deleting(o)
         \/ Cardinality(Deleting(o)') = Cardinality(Deleting(o)) + 1 /\ Modifying(o)' = Modifying(o)
  PROVE  Counted(o)'
<1>0. /\ Cardinality(Holding(o)) \in Nat /\ Cardinality(Modifying(o)) \in Nat
      /\ Cardinality(Deleting(o)) \in Nat /\ collection[o] \in Nat /\ Mapped(o) \in Nat
  BY Naturals, Zenon
<1>1. count'[o] = Cardinality(Holding(o)) + (Cardinality(Modifying(o)) + 1) + Cardinality(Deleting(o))
                      + collection[o] + Mapped(o)
  BY <1>0 DEF Counted
<1>2. count'[o] = Cardinality(Holding(o)) + Cardinality(Modifying(o)) + (Cardinality(Deleting(o)) + 1)
                      + collection[o] + Mapped(o)
  BY <1>0 DEF Counted
<1> QED
  BY <1>1, <1>2, Zenon DEF Counted

LEMMA Unmapped ==
  ASSUME DirectoryTypeOK, NEW o \in Objs, Counted(o), count'[o] = count[o] - 1,
         Holding(o)' = Holding(o), Modifying(o)' = Modifying(o), Deleting(o)' = Deleting(o),
         collection'[o] = collection[o], o \in helperMap, o \notin helperMap'
  PROVE  Counted(o)'
<1>0. /\ Cardinality(Holding(o)) \in Nat /\ Cardinality(Modifying(o)) \in Nat
      /\ Cardinality(Deleting(o)) \in Nat /\ collection[o] \in Nat /\ Mapped(o) \in Nat
  BY Naturals, Zenon
<1>1. Mapped(o) = 1 /\ Mapped(o)' = 0
  BY Zenon DEF Mapped
<1>2. count'[o] = Cardinality(Holding(o)) + Cardinality(Modifying(o)) + Cardinality(Deleting(o))
                      + collection[o] + 0
  BY <1>0, <1>1 DEF Counted
<1> QED
  BY <1>1, <1>2, Zenon DEF Counted
--------------------------------------------------------------------------------
(* The counts, action by action. *)

LEMMA TakenCounted ==
  ASSUME DirectoryTypeOK, AllCounted, NEW t \in Threads, NEW o \in Objs, o \notin held[t],
         count' = [count EXCEPT ![o] = @ + 1], held' = [held EXCEPT ![t] = @ \cup {o}],
         UNCHANGED <<modified, toDelete, collection, helperMap>>
  PROVE  AllCounted'
<1>0. held \in [Threads -> SUBSET Objs] /\ count \in [Objs -> Nat]
  BY Zenon DEF DirectoryTypeOK
<1>1. Gets(held, held', t, o)
  BY <1>0, Zenon DEF Gets
<1>2. \A x : SameLists(x)
  BY Zenon DEF SameLists, Modifying, Deleting, Mapped
<1>3. count'[o] = count[o] + 1 /\ collection'[o] = collection[o] /\ \A x \in Objs : x # o => count'[x] = count[x]
  BY <1>0, Zenon
<1>4. Counted(o)'
  BY <1>1, <1>2, <1>3, HoldsMore, MoreHeld, Zenon DEF AllCounted
<1>5. \A x \in Objs : x # o => Untouched(x)
  BY <1>1, <1>2, <1>3, HoldsMore, Zenon DEF Untouched, SameLists
<1> QED
  BY <1>4, <1>5, OneTouched, Zenon

LEMMA DropCounted ==
  ASSUME DirectoryTypeOK, AllCounted, NEW t \in Threads, NEW o \in Objs, Drop(t, o)
  PROVE  AllCounted'
<1>0. held \in [Threads -> SUBSET Objs] /\ count \in [Objs -> Nat]
  BY Zenon DEF DirectoryTypeOK
<1>1. GivesUp(held, held', t, o)
  BY <1>0, Zenon DEF GivesUp, Drop
<1>2. \A x : SameLists(x)
  BY Zenon DEF SameLists, Modifying, Deleting, Mapped, Drop
<1>3. count'[o] = count[o] - 1 /\ collection' = collection /\ \A x \in Objs : x # o => count'[x] = count[x]
  BY <1>0, Zenon DEF Drop, saveVars
<1>4. Counted(o)'
  BY <1>1, <1>2, <1>3, HoldsLess, LessHeld, Zenon DEF AllCounted
<1>5. \A x \in Objs : x # o => Untouched(x)
  BY <1>1, <1>2, <1>3, HoldsLess, Zenon DEF Untouched, SameLists
<1> QED
  BY <1>4, <1>5, OneTouched, Zenon

LEMMA ReleaseCounted ==
  ASSUME DirectoryTypeOK, AllCounted, NEW o \in Objs, ReleaseCollected(o)
  PROVE  AllCounted'
<1>0. collection \in [Objs -> Nat] /\ count \in [Objs -> Nat]
  BY Zenon DEF DirectoryTypeOK
<1>1. \A x : SameLists(x) /\ Holding(x)' = Holding(x)
  BY Zenon DEF SameLists, Modifying, Deleting, Mapped, Holding, ReleaseCollected, refs
<1>2. /\ count'[o] = count[o] - 1 /\ collection'[o] = collection[o] - 1
      /\ \A x \in Objs : x # o => count'[x] = count[x] /\ collection'[x] = collection[x]
  BY <1>0, Zenon DEF ReleaseCollected
<1>3. Counted(o)'
  BY <1>1, <1>2, LessCollected, Zenon DEF AllCounted
<1>4. \A x \in Objs : x # o => Untouched(x)
  BY <1>1, <1>2, Zenon DEF Untouched, SameLists
<1> QED
  BY <1>3, <1>4, OneTouched, Zenon

LEMMA ModifyCounted ==
  ASSUME DirectoryTypeOK, ListInv, AllCounted, NEW t \in Threads, NEW o \in Objs, Modify(t, o)
  PROVE  AllCounted'
<1>0. modified \in [Threads -> SUBSET Objs] /\ count \in [Objs -> Nat]
  BY Zenon DEF DirectoryTypeOK
<1>1. /\ \A x : Holding(x)' = Holding(x) /\ Deleting(x)' = Deleting(x) /\ Mapped(x)' = Mapped(x)
      /\ collection' = collection
  BY Zenon DEF Deleting, Mapped, Holding, Modify, maps, saveVars
<1>2. CASE saveMode /\ o \notin updated
  <2>1. Gets(modified, modified', t, o)
    BY <1>0, <1>2, Zenon DEF Gets, Modify, ListInv
  <2>2. count'[o] = count[o] + 1 /\ \A x \in Objs : x # o => count'[x] = count[x]
    BY <1>0, <1>2, Zenon DEF Modify
  <2>3. Counted(o)'
    BY <1>1, <2>1, <2>2, ModifiesMore, MoreListed, Zenon DEF AllCounted
  <2>4. \A x \in Objs : x # o => Untouched(x)
    BY <1>1, <2>1, <2>2, ModifiesMore, Zenon DEF Untouched
  <2> QED
    BY <2>3, <2>4, OneTouched, Zenon
<1>3. CASE ~(saveMode /\ o \notin updated)
  <2>1. count' = count /\ \A x : Modifying(x)' = Modifying(x)
    BY <1>3, Zenon DEF Modify, Modifying
  <2>2. \A x \in Objs : Untouched(x)
    BY <1>1, <2>1, Zenon DEF Untouched
  <2> QED
    BY <2>2, UntouchedCounted, Zenon DEF AllCounted
<1> QED
  BY <1>2, <1>3, Zenon

LEMMA MarkCounted ==
  ASSUME DirectoryTypeOK, ListInv, AllCounted, NEW t \in Threads, NEW o \in Objs, MarkForDeletion(t, o)
  PROVE  AllCounted'
<1>0. toDelete \in [Threads -> SUBSET Objs] /\ count \in [Objs -> Nat]
  BY Zenon DEF DirectoryTypeOK
<1>1. /\ \A x : Holding(x)' = Holding(x) /\ Modifying(x)' = Modifying(x) /\ Mapped(x)' = Mapped(x)
      /\ collection' = collection
  BY Zenon DEF Modifying, Mapped, Holding, MarkForDeletion, maps, saveVars
<1>2. CASE saveMode
  <2>1. Gets(toDelete, toDelete', t, o)
    BY <1>0, <1>2, Zenon DEF Gets, MarkForDeletion, ListInv
  <2>2. count'[o] = count[o] + 1 /\ \A x \in Objs : x # o => count'[x] = count[x]
    BY <1>0, <1>2, Zenon DEF MarkForDeletion
  <2>3. Counted(o)'
    BY <1>1, <2>1, <2>2, DeletesMore, MoreListed, Zenon DEF AllCounted
  <2>4. \A x \in Objs : x # o => Untouched(x)
    BY <1>1, <2>1, <2>2, DeletesMore, Zenon DEF Untouched
  <2> QED
    BY <2>3, <2>4, OneTouched, Zenon
<1>3. CASE ~saveMode
  <2>1. count' = count /\ \A x : Deleting(x)' = Deleting(x)
    BY <1>3, Zenon DEF MarkForDeletion, Deleting
  <2>2. \A x \in Objs : Untouched(x)
    BY <1>1, <2>1, Zenon DEF Untouched
  <2> QED
    BY <2>2, UntouchedCounted, Zenon DEF AllCounted
<1> QED
  BY <1>2, <1>3, Zenon

LEMMA RemoveCounted ==
  ASSUME DirectoryTypeOK, MapInv, RemovingInv, AllCounted, NEW t \in Threads, Remove(t)
  PROVE  AllCounted'
<1>0. PICK o \in Objs : o = removing[t] /\ o \in helperMap /\ count \in [Objs -> Nat]
  BY Zenon DEF DirectoryTypeOK, RemovingInv, MapInv, Remove, Idle
<1>1. /\ \A x : Holding(x)' = Holding(x) /\ Modifying(x)' = Modifying(x) /\ Deleting(x)' = Deleting(x)
      /\ collection' = collection
  BY Zenon DEF Deleting, Modifying, Holding, Remove, refs, saveVars
<1>2. count'[o] = count[o] - 1 /\ \A x \in Objs : x # o => count'[x] = count[x]
  BY <1>0, Zenon DEF Remove
<1>3. helperMap' = helperMap \ {o} /\ \A x : x # o => Mapped(x)' = Mapped(x)
  BY <1>0, Zenon DEF Mapped, Remove
<1>4. Counted(o)'
  BY <1>0, <1>1, <1>2, <1>3, Unmapped, Zenon DEF AllCounted
<1>5. \A x \in Objs : x # o => Untouched(x)
  BY <1>1, <1>2, <1>3, Zenon DEF Untouched
<1> QED
  BY <1>0, <1>4, <1>5, OneTouched, Zenon

LEMMA CollectCounted ==
  ASSUME DirectoryTypeOK, MapInv, CollectInv, AllCounted, Collect
  PROVE  AllCounted'
<1>0. PICK o \in Objs : o = collecting /\ o \in helperMap /\ count \in [Objs -> Nat]
  BY Zenon DEF DirectoryTypeOK, CollectInv, MapInv, Collect
<1>1. /\ \A x : Holding(x)' = Holding(x) /\ Modifying(x)' = Modifying(x) /\ Deleting(x)' = Deleting(x)
      /\ collection' = collection
  BY Zenon DEF Deleting, Modifying, Holding, Collect, refs
<1>2. CASE UNCHANGED <<nameMap, objectMap, helperMap, count, status>>
  <2>1. \A x \in Objs : Untouched(x)
    BY <1>1, <1>2, Zenon DEF Untouched, Mapped
  <2> QED
    BY <2>1, UntouchedCounted, Zenon DEF AllCounted
<1>3. CASE ~UNCHANGED <<nameMap, objectMap, helperMap, count, status>>
  <2>1. count[o] = 1 /\ count'[o] = 0 /\ \A x \in Objs : x # o => count'[x] = count[x]
    BY <1>0, <1>3, Zenon DEF Collect
  <2>2. helperMap' = helperMap \ {o} /\ \A x : x # o => Mapped(x)' = Mapped(x)
    BY <1>0, <1>3, Zenon DEF Mapped, Collect
  <2>3. count'[o] = count[o] - 1
    BY <2>1
  <2>4. Counted(o)'
    BY <1>0, <1>1, <2>2, <2>3, Unmapped, Zenon DEF AllCounted
  <2>5. \A x \in Objs : x # o => Untouched(x)
    BY <1>1, <2>1, <2>2, Zenon DEF Untouched
  <2> QED
    BY <1>0, <2>4, <2>5, OneTouched, Zenon
<1> QED
  BY <1>2, <1>3, Zenon

LEMMA TakeListsCounted ==
  ASSUME DirectoryTypeOK, AllCounted, TakeLists, UNCHANGED <<count, held, helperMap>>
  PROVE  AllCounted'
<1> SUFFICES ASSUME NEW o \in Objs PROVE Counted(o)'
  BY Zenon DEF AllCounted
<1>0. /\ Cardinality(Holding(o)) \in Nat /\ Cardinality(Modifying(o)) \in Nat
      /\ Cardinality(Deleting(o)) \in Nat /\ collection[o] \in Nat /\ Mapped(o) \in Nat
  BY Naturals, Zenon
<1>1. /\ collection'[o] = collection[o] + Cardinality(Modifying(o)) + Cardinality(Deleting(o))
      /\ Modifying(o)' = {} /\ Deleting(o)' = {}
  BY Zenon DEF TakeLists, Modifying, Deleting, Having
<1>2. Holding(o)' = Holding(o) /\ Mapped(o)' = Mapped(o) /\ count'[o] = count[o]
  BY Zenon DEF Holding, Mapped
<1>3. count[o] = Cardinality(Holding(o)) + Cardinality(Modifying(o)) + Cardinality(Deleting(o))
                     + collection[o] + Mapped(o)
  BY Zenon DEF Counted, AllCounted
<1>4. count[o] = Cardinality(Holding(o)) + 0 + 0
                     + (collection[o] + Cardinality(Modifying(o)) + Cardinality(Deleting(o))) + Mapped(o)
  BY <1>0, <1>3
<1>5. Cardinality(Modifying(o)') = 0 /\ Cardinality(Deleting(o)') = 0
  BY <1>1, FS_EmptySet, Zenon
<1> QED
  BY <1>1, <1>2, <1>4, <1>5, Zenon DEF Counted

LEMMA DeployCounted ==
  ASSUME DirectoryTypeOK, MapInv, AllCounted, NEW t \in Threads, NEW o \in Objs, NEW n \in Names,
         Deploy(t, o, n)
  PROVE  AllCounted'
<1>0. /\ count \in [Objs -> Nat] /\ held \in [Threads -> SUBSET Objs]
      /\ modified \in [Threads -> SUBSET Objs] /\ status[o] = "new"
  BY Zenon DEF DirectoryTypeOK, Deploy
<1>1. /\ Holding(o) = {} /\ Modifying(o) = {} /\ Deleting(o) = {} /\ collection[o] = 0
      /\ o \notin helperMap
  BY <1>0, NoReference, Zenon DEF MapInv, AllCounted
<1>2. Cardinality(Holding(o)) = 0 /\ Cardinality(Modifying(o)) = 0 /\ Cardinality(Deleting(o)) = 0
  BY <1>1, FS_EmptySet, Zenon
<1>3. Gets(held, held', t, o)
  BY <1>0, <1>1, Zenon DEF Gets, Deploy, Holding, Having
<1>4. /\ \A x : Deleting(x)' = Deleting(x) /\ collection' = collection
      /\ \A x : x # o => Mapped(x)' = Mapped(x)
      /\ Mapped(o)' = 1
  BY Zenon DEF Deploy, Deleting, saveVars, Mapped
<1>5. Cardinality(Holding(o)') = 0 + 1 /\ \A x : x # o => Holding(x)' = Holding(x)
  BY <1>2, <1>3, HoldsMore, Zenon
<1>6. \A x \in Objs : x # o => count'[x] = count[x]
  BY <1>0, Zenon DEF Deploy
<1>7. CASE saveMode
  <2>1. Gets(modified, modified', t, o) /\ count'[o] = 3
    BY <1>0, <1>1, <1>7, Zenon DEF Gets, Deploy, Modifying, Having
  <2>2. Cardinality(Modifying(o)') = 0 + 1 /\ \A x : x # o => Modifying(x)' = Modifying(x)
    BY <1>2, <2>1, ModifiesMore, Zenon
  <2>3. 3 = (0 + 1) + (0 + 1) + 0 + 0 + 1
    OBVIOUS
  <2>4. Counted(o)'
    BY <1>1, <1>2, <1>4, <1>5, <2>1, <2>2, <2>3, Zenon DEF Counted
  <2>5. \A x \in Objs : x # o => Untouched(x)
    BY <1>4, <1>5, <1>6, <2>2, Zenon DEF Untouched
  <2> QED
    BY <2>4, <2>5, OneTouched, Zenon
<1>8. CASE ~saveMode
  <2>1. \A x : Modifying(x)' = Modifying(x)
    BY <1>8, Zenon DEF Deploy, Modifying
  <2>2. count'[o] = 2
    BY <1>0, <1>8, Zenon DEF Deploy
  <2>3. 2 = (0 + 1) + 0 + 0 + 0 + 1
    OBVIOUS
  <2>4. Counted(o)'
    BY <1>1, <1>2, <1>4, <1>5, <2>1, <2>2, <2>3, Zenon DEF Counted
  <2>5. \A x \in Objs : x # o => Untouched(x)
    BY <1>4, <1>5, <1>6, <2>1, Zenon DEF Untouched
  <2> QED
    BY <2>4, <2>5, OneTouched, Zenon
<1> QED
  BY <1>7, <1>8, Zenon
--------------------------------------------------------------------------------
(* What the counts say. *)

\* An object that somebody refers to is counted, and is neither new nor gone.
LEMMA HeldCounted ==
  ASSUME IInv, NEW o \in Objs,
         o \in helperMap \/ collection[o] # 0 \/ \E t \in Threads : o \in held[t] \cup modified[t] \cup toDelete[t]
  PROVE  /\ count[o] \in Nat /\ count[o] # 0 /\ count[o] - 1 \in Nat
         /\ status[o] \in {"deployed", "undeployed"}
<1>1. count[o] \in Nat /\ status[o] \in {"new", "deployed", "undeployed", "gone"}
  BY Zenon DEF IInv, DirectoryTypeOK
<1>2. count[o] # 0
  <2> SUFFICES ASSUME count[o] = 0 PROVE FALSE
    OBVIOUS
  <2>1. /\ Holding(o) = {} /\ Modifying(o) = {} /\ Deleting(o) = {} /\ collection[o] = 0
        /\ o \notin helperMap
    BY NoReference, Zenon DEF IInv, AllCounted
  <2> QED
    BY <2>1, Zenon DEF Holding, Modifying, Deleting, Having
<1>3. count[o] - 1 \in Nat
  BY <1>1, <1>2
<1>4. status[o] \in {"deployed", "undeployed"}
  BY <1>1, <1>2, Zenon DEF IInv, MapInv
<1> QED
  BY <1>1, <1>2, <1>3, <1>4, Zenon

\* If the last reference is not the directory's, then the directory has none.
LEMMA LastCounted ==
  ASSUME IInv, NEW o \in Objs, count[o] = 1,
         collection[o] # 0 \/ \E t \in Threads : o \in held[t] \cup modified[t] \cup toDelete[t]
  PROVE  o \notin helperMap
<1> SUFFICES ASSUME o \in helperMap PROVE FALSE
  OBVIOUS
<1>1. Holding(o) = {} /\ Modifying(o) = {} /\ Deleting(o) = {} /\ collection[o] = 0
  BY OnlyMapped, Zenon DEF IInv, AllCounted
<1> QED
  BY <1>1, Zenon DEF Holding, Modifying, Deleting, Having

LEMMA Numbers ==
  /\ \A k \in Nat : k + 1 \in Nat
  /\ \A k \in 1..(MaxVersion + 1) : k <= MaxVersion => k + 1 \in 1..(MaxVersion + 1)
  /\ \A k, m \in 0..MaxDeltas : k < m => k + 1 \in 0..MaxDeltas
  /\ 0 \in 0..MaxDeltas /\ 0 \in Nat /\ 2 \in Nat /\ 3 \in Nat
  /\ 0 \in 0..(MaxVersion + 1) /\ 1 \in 1..(MaxVersion + 1)
  /\ \A k \in 1..(MaxVersion + 1) : k \in 0..(MaxVersion + 1)
  /\ \A k \in Nat : k - 1 = 0 <=> k = 1
BY DirectoryAssumption

LEMMA Updated ==
  ASSUME NEW D, NEW R, NEW f \in [D -> R], NEW d, NEW v \in R
  PROVE  [f EXCEPT ![d] = v] \in [D -> R]
OBVIOUS
--------------------------------------------------------------------------------
(* The invariant, action by action. *)

LEMMA DeployStep ==
  ASSUME IInv, NEW t \in Threads, NEW o \in Objs, NEW n \in Names, Deploy(t, o, n)
  PROVE  IInv'
<1>0. DirectoryTypeOK /\ MapInv /\ RemovingInv /\ o # None
  BY DirectoryAssumption, Zenon DEF IInv
<1>1. DirectoryTypeOK'
  <2>1. /\ nameMap' \in [Names -> Objs \cup {None}] /\ name' \in [Objs -> Names \cup {None}]
        /\ status' \in [Objs -> {"new", "deployed", "undeployed", "gone"}]
    BY <1>0, Updated, Zenon DEF DirectoryTypeOK, Deploy
  <2>2. count' \in [Objs -> Nat]
    BY <1>0, Updated, Numbers, Zenon DEF DirectoryTypeOK, Deploy
  <2>3. held' \in [Threads -> SUBSET Objs] /\ modified' \in [Threads -> SUBSET Objs]
    BY <1>0 DEF DirectoryTypeOK, Deploy
  <2>4. objectMap' \subseteq Objs /\ helperMap' \subseteq Objs /\ updated' \subseteq Objs
    BY <1>0, Zenon DEF DirectoryTypeOK, Deploy
  <2> QED
    BY <1>0, <2>1, <2>2, <2>3, <2>4, Zenon DEF DirectoryTypeOK, Deploy, config, saveVars
<1>2. o \notin objectMap /\ \A m \in Names : nameMap[m] # o
  <2>1. o \notin objectMap
    BY <1>0, Zenon DEF MapInv, Deploy
  <2> QED
    BY <1>0, <2>1, Zenon DEF MapInv
<1>3. /\ nameMap'[n] = o /\ \A m \in Names : m # n => nameMap'[m] = nameMap[m]
      /\ name'[o] = n /\ \A x \in Objs : x # o => name'[x] = name[x]
      /\ status'[o] = "deployed" /\ \A x \in Objs : x # o => status'[x] = status[x]
      /\ \A x \in Objs : x # o => count'[x] = count[x]
  BY <1>0, Zenon DEF DirectoryTypeOK, Deploy
<1>4. /\ objectMap' = objectMap \cup {o} /\ helperMap' = helperMap \cup {o}
      /\ removing' = removing /\ persistent' = persistent /\ candidates' = candidates
      /\ \A u \in Threads : held[u] \subseteq held'[u]
  BY <1>0, Zenon DEF DirectoryTypeOK, Deploy, config, saveVars
<1>5. MapInv'
  <2>1. objectMap' = helperMap' /\ candidates' \subseteq objectMap'
    BY <1>0, <1>4, Zenon DEF MapInv
  <2>2. \A x \in Objs : /\ status'[x] = "deployed" <=> x \in objectMap'
                        /\ status'[x] \in {"new", "gone"} => count'[x] = 0
                        /\ x \in objectMap' => name'[x] \in Names
    BY <1>0, <1>3, <1>4, Zenon DEF MapInv
  <2>3. ASSUME NEW m \in Names, nameMap'[m] # None
        PROVE  nameMap'[m] \in objectMap' /\ name'[nameMap'[m]] = m
    <3>1. CASE m = n
      BY <1>3, <1>4, <3>1, Zenon
    <3>2. CASE m # n
      <4>0. nameMap[m] # None
        BY <1>3, <2>3, <3>2, Zenon
      <4>1. nameMap[m] \in objectMap /\ name[nameMap[m]] = m /\ nameMap[m] # o /\ nameMap[m] \in Objs
        BY <1>0, <1>2, <4>0, Zenon DEF MapInv, DirectoryTypeOK
      <4> QED
        BY <1>3, <1>4, <3>2, <4>1, Zenon
    <3> QED
      BY <3>1, <3>2, Zenon
  <2> QED
    BY <2>1, <2>2, <2>3, Zenon DEF MapInv
<1>6. RemovingInv'
  <2>1. ASSUME NEW u \in Threads, removing[u] # None
        PROVE  /\ removing[u] \in held'[u] \cap objectMap' /\ removing[u] \notin persistent \cup candidates
               /\ \A m \in Names : nameMap'[m] # removing[u]
    <3>1. /\ removing[u] \in held[u] \cap objectMap /\ removing[u] \notin persistent \cup candidates
          /\ \A m \in Names : nameMap[m] # removing[u]
      BY <1>0, <2>1, Zenon DEF RemovingInv
    <3> QED
      BY <1>2, <1>3, <1>4, <3>1, Zenon
  <2>2. \A x \in persistent : x \in Objs /\ status'[x] # "undeployed"
    BY <1>0, <1>3, Zenon DEF RemovingInv, DirectoryTypeOK
  <2> QED
    BY <1>0, <1>4, <2>1, <2>2, Zenon DEF RemovingInv
<1>7. ListInv'
  BY Zenon DEF IInv, ListInv, DirectoryTypeOK, Deploy
<1>8. CollectInv'
  BY Zenon DEF IInv, CollectInv, Deploy, saveVars
<1>9. AllCounted'
  BY DeployCounted, Zenon DEF IInv
<1> QED
  BY <1>1, <1>5, <1>6, <1>7, <1>8, <1>9, Zenon DEF IInv

LEMMA UnbindStep ==
  ASSUME IInv, NEW t \in Threads, NEW o \in Objs, Unbind(t, o)
  PROVE  IInv'
<1>0. DirectoryTypeOK /\ MapInv /\ RemovingInv /\ o # None
  BY DirectoryAssumption, Zenon DEF IInv
<1>1. DirectoryTypeOK'
  BY Updated, Zenon DEF IInv, DirectoryTypeOK, Unbind, config, refs, flags, saveVars
<1>2. o \in objectMap \cap held[t] /\ name[o] \in Names /\ nameMap[name[o]] = o /\ o \notin persistent \cup candidates
  BY <1>0, Zenon DEF MapInv, Unbind
<1>3. /\ \A m \in Names : m # name[o] => nameMap'[m] = nameMap[m]
      /\ nameMap'[name[o]] = None
      /\ removing'[t] = o /\ \A u \in Threads : u # t => removing'[u] = removing[u]
  BY <1>0, <1>2, Zenon DEF DirectoryTypeOK, Unbind
<1>4. UNCHANGED <<config, objectMap, helperMap, status, name, count, refs, flags, saveVars>>
  BY Zenon DEF Unbind
<1>5. MapInv'
  <2>1. \A m \in Names : nameMap'[m] # None => nameMap'[m] = nameMap[m]
    BY <1>3, Zenon
  <2> QED
    BY <1>0, <1>4, <2>1, Zenon DEF MapInv, saveVars
<1>6. RemovingInv'
  <2>1. ASSUME NEW m \in Names, nameMap'[m] = o PROVE FALSE
    <3>1. m # name[o] /\ nameMap[m] = o
      BY <1>0, <1>3, <2>1, Zenon
    <3> QED
      BY <1>0, <3>1, Zenon DEF MapInv
  <2>2. \A u \in Threads : u # t => removing[u] # o
    BY <1>0, <1>2, Zenon DEF RemovingInv
  <2>3. ASSUME NEW u \in Threads, removing'[u] # None
        PROVE  /\ removing'[u] \in held[u] \cap objectMap /\ removing'[u] \notin persistent \cup candidates
               /\ \A m \in Names : nameMap'[m] # removing'[u]
    <3>1. CASE u = t
      BY <1>2, <1>3, <2>1, <3>1, Zenon
    <3>2. CASE u # t
      <4>1. /\ removing[u] \in held[u] \cap objectMap /\ removing[u] \notin persistent \cup candidates
            /\ \A m \in Names : nameMap[m] # removing[u]
        BY <1>0, <1>3, <2>3, <3>2, Zenon DEF RemovingInv
      <4> QED
        BY <1>3, <2>3, <3>2, <4>1, Zenon
    <3> QED
      BY <3>1, <3>2, Zenon
  <2>4. ASSUME NEW u \in Threads, NEW v \in Threads, removing'[u] # None, removing'[v] = removing'[u]
        PROVE  u = v
    <3>1. CASE u = t
      BY <1>3, <2>2, <2>4, <3>1, Zenon
    <3>2. CASE u # t /\ v = t
      BY <1>3, <2>2, <2>4, <3>2, Zenon
    <3>3. CASE u # t /\ v # t
      <4>1. removing[u] # None /\ removing[v] = removing[u]
        BY <1>3, <2>4, <3>3, Zenon
      <4> QED
        BY <1>0, <4>1, Zenon DEF RemovingInv
    <3> QED
      BY <3>1, <3>2, <3>3, Zenon
  <2> QED
    BY <1>0, <1>4, <2>3, <2>4, Zenon DEF RemovingInv, config, refs, saveVars
<1>7. ListInv'
  BY Zenon DEF IInv, ListInv, Unbind, refs, flags
<1>8. CollectInv'
  BY Zenon DEF IInv, CollectInv, Unbind, saveVars
<1>9. AllCounted'
  BY UntouchedCounted, Zenon DEF IInv, AllCounted, Untouched, Holding, Modifying, Deleting, Mapped, Unbind, refs, saveVars
<1> QED
  BY <1>1, <1>5, <1>6, <1>7, <1>8, <1>9, Zenon DEF IInv

LEMMA RemoveStep ==
  ASSUME IInv, NEW t \in Threads, Remove(t)
  PROVE  IInv'
<1>0. PICK o \in Objs : /\ o = removing[t] /\ o # None
                        /\ DirectoryTypeOK /\ MapInv /\ RemovingInv
  BY Zenon DEF IInv, DirectoryTypeOK, Remove, Idle
<1>2. o \in objectMap /\ o \in helperMap /\ o \notin persistent \cup candidates /\ \A m \in Names : nameMap[m] # o
  BY <1>0, Zenon DEF RemovingInv, MapInv
<1>3. /\ objectMap' = objectMap \ {o} /\ helperMap' = helperMap \ {o}
      /\ status'[o] = "undeployed" /\ \A x \in Objs : x # o => status'[x] = status[x]
      /\ \A x \in Objs : x # o => count'[x] = count[x]
      /\ removing'[t] = None /\ \A u \in Threads : u # t => removing'[u] = removing[u]
  BY <1>0, Zenon DEF DirectoryTypeOK, Remove
<1>4. UNCHANGED <<config, nameMap, name, refs, flags, saveVars>>
  BY Zenon DEF Remove
<1>1. DirectoryTypeOK'
  <2>1. count[o] - 1 \in Nat
    BY <1>2, HeldCounted, Zenon
  <2>2. count' \in [Objs -> Nat] /\ status' \in [Objs -> {"new", "deployed", "undeployed", "gone"}]
        /\ removing' \in [Threads -> Objs \cup {None}]
    BY <1>0, <2>1, Updated, Zenon DEF DirectoryTypeOK, Remove
  <2>3. objectMap' \subseteq Objs /\ helperMap' \subseteq Objs
    BY <1>0, <1>3, Zenon DEF DirectoryTypeOK
  <2> QED
    BY <1>0, <1>4, <2>2, <2>3, Zenon DEF DirectoryTypeOK, config, refs, flags, saveVars
<1>5. MapInv'
  <2>1. objectMap' = helperMap' /\ candidates' \subseteq objectMap'
    BY <1>0, <1>2, <1>3, <1>4, Zenon DEF MapInv, saveVars
  <2>2. \A x \in Objs : /\ status'[x] = "deployed" <=> x \in objectMap'
                        /\ status'[x] \in {"new", "gone"} => count'[x] = 0
                        /\ x \in objectMap' => name'[x] \in Names
    BY <1>0, <1>3, <1>4, Zenon DEF MapInv
  <2>3. \A m \in Names : nameMap[m] # None => nameMap[m] \in objectMap' /\ name[nameMap[m]] = m
    BY <1>0, <1>2, <1>3, Zenon DEF MapInv
  <2>4. nameMap' = nameMap /\ name' = name
    BY <1>4, Zenon
  <2> QED
    BY <2>1, <2>2, <2>3, <2>4, Zenon DEF MapInv
<1>6. RemovingInv'
  <2>1. \A u \in Threads : removing'[u] # None => removing'[u] = removing[u] /\ removing[u] # o
    BY <1>0, <1>3, Zenon DEF RemovingInv
  <2>2. \A x \in persistent : x \in Objs /\ status'[x] # "undeployed"
    BY <1>0, <1>2, <1>3, Zenon DEF RemovingInv, DirectoryTypeOK
  <2>3. ASSUME NEW u \in Threads, removing'[u] # None
        PROVE  /\ removing'[u] \in held[u] \cap objectMap' /\ removing'[u] \notin persistent \cup candidates
               /\ \A m \in Names : nameMap[m] # removing'[u]
    <3>1. removing'[u] = removing[u] /\ removing[u] # o /\ removing[u] # None
      BY <2>1, <2>3, Zenon
    <3>2. /\ removing[u] \in held[u] \cap objectMap /\ removing[u] \notin persistent \cup candidates
          /\ \A m \in Names : nameMap[m] # removing[u]
      BY <1>0, <3>1, Zenon DEF RemovingInv
    <3> QED
      BY <1>3, <3>1, <3>2, Zenon
  <2>4. \A u, v \in Threads : removing'[u] # None /\ removing'[v] = removing'[u] => u = v
    BY <1>0, <2>1, Zenon DEF RemovingInv
  <2> QED
    BY <1>4, <2>2, <2>3, <2>4, Zenon DEF RemovingInv, config, refs, saveVars
<1>7. ListInv'
  BY Zenon DEF IInv, ListInv, Remove, refs, flags
<1>8. CollectInv'
  BY Zenon DEF IInv, CollectInv, Remove, saveVars
<1>9. AllCounted'
  BY RemoveCounted, Zenon DEF IInv
<1> QED
  BY <1>1, <1>5, <1>6, <1>7, <1>8, <1>9, Zenon DEF IInv

\* The count of an object that exists goes up.
LEMMA CountUp ==
  ASSUME DirectoryTypeOK, MapInv, NEW o \in Objs, status[o] \in {"deployed", "undeployed"},
         count' = [count EXCEPT ![o] = @ + 1], UNCHANGED <<maps, candidates>>
  PROVE  MapInv' /\ count' \in [Objs -> Nat]
<1>1. count[o] + 1 \in Nat /\ count \in [Objs -> Nat]
  BY Numbers, Zenon DEF DirectoryTypeOK
<1>2. \A x \in Objs : x # o => count'[x] = count[x]
  BY <1>1, Zenon
<1>3. count' \in [Objs -> Nat]
  BY <1>1, Updated, Zenon
<1>4. \A x \in Objs : status[x] \in {"new", "gone"} => count'[x] = 0
  BY <1>2, Zenon DEF MapInv
<1> QED
  BY <1>3, <1>4, Zenon DEF MapInv, maps

LEMMA TakenStep ==
  ASSUME IInv, NEW t \in Threads, NEW o \in Objs, LookUp(t, o) \/ WeakGet(t, o)
  PROVE  IInv'
<1>0. /\ DirectoryTypeOK /\ MapInv /\ RemovingInv /\ AllCounted
      /\ o \notin held[t] /\ status[o] \in {"deployed", "undeployed"}
      /\ count' = [count EXCEPT ![o] = @ + 1] /\ held' = [held EXCEPT ![t] = @ \cup {o}]
  BY Zenon DEF IInv, MapInv, LookUp, WeakGet
<1>1. UNCHANGED <<config, maps, modified, toDelete, removing, flags, saveVars>>
  BY Zenon DEF LookUp, WeakGet
<1>2. \A u \in Threads : held[u] \subseteq held'[u]
  BY <1>0, Zenon DEF DirectoryTypeOK
<1>3. MapInv' /\ count' \in [Objs -> Nat]
  BY <1>0, <1>1, CountUp, Zenon DEF saveVars
<1>4. DirectoryTypeOK'
  <2>1. held[t] \cup {o} \in SUBSET Objs
    BY <1>0, Zenon DEF DirectoryTypeOK
  <2>2. held' \in [Threads -> SUBSET Objs]
    BY <1>0, <2>1, Updated, Zenon DEF DirectoryTypeOK
  <2> QED
    BY <1>0, <1>1, <1>3, <2>2, Zenon DEF DirectoryTypeOK, config, maps, flags, saveVars
<1>5. RemovingInv'
  BY <1>0, <1>1, <1>2, Zenon DEF RemovingInv, config, maps, saveVars
<1>6. ListInv'
  BY <1>1, Zenon DEF IInv, ListInv, flags
<1>7. CollectInv'
  BY <1>1, Zenon DEF IInv, CollectInv, saveVars
<1>8. AllCounted'
  BY <1>0, <1>1, TakenCounted, Zenon DEF maps, saveVars
<1> QED
  BY <1>3, <1>4, <1>5, <1>6, <1>7, <1>8, Zenon DEF IInv

\* A reference to an object is released.
LEMMA CountDown ==
  ASSUME IInv, NEW o \in Objs, status' = Released(o), count' = [count EXCEPT ![o] = @ - 1],
         collection[o] # 0 \/ \E t \in Threads : o \in held[t] \cup modified[t] \cup toDelete[t],
         UNCHANGED <<nameMap, objectMap, helperMap, name, candidates, persistent>>
  PROVE  /\ MapInv' /\ count' \in [Objs -> Nat]
         /\ status' \in [Objs -> {"new", "deployed", "undeployed", "gone"}]
         /\ \A x \in persistent : status'[x] # "undeployed"
<1>0. /\ count \in [Objs -> Nat] /\ status \in [Objs -> {"new", "deployed", "undeployed", "gone"}]
      /\ MapInv /\ RemovingInv /\ persistent \subseteq Objs
  BY Zenon DEF IInv, DirectoryTypeOK
<1>1. count[o] \in Nat /\ count[o] - 1 \in Nat /\ status[o] \in {"deployed", "undeployed"}
  BY HeldCounted, Zenon
<1>2. count' \in [Objs -> Nat]
  BY <1>0, <1>1, Updated, Zenon
<1>3. status' \in [Objs -> {"new", "deployed", "undeployed", "gone"}]
  BY <1>0, Updated, Zenon DEF Released
<1>4. \A x \in Objs : x # o => count'[x] = count[x] /\ status'[x] = status[x]
  BY <1>0, Zenon DEF Released
<1>5. count'[o] = count[o] - 1 /\ (status'[o] = IF count[o] = 1 THEN "gone" ELSE status[o])
  BY <1>0, Zenon DEF Released
<1>6. /\ status'[o] = "deployed" <=> o \in objectMap
      /\ status'[o] \in {"new", "gone"} => count'[o] = 0
  <2>1. CASE count[o] = 1
    <3>1. o \notin objectMap
      BY <1>0, <2>1, LastCounted, Zenon DEF MapInv
    <3>2. count'[o] = 0
      BY <1>5, <2>1
    <3> QED
      BY <1>5, <2>1, <3>1, <3>2, Zenon
  <2>2. CASE count[o] # 1
    BY <1>0, <1>1, <1>5, <2>2, Zenon DEF MapInv
  <2> QED
    BY <2>1, <2>2, Zenon
<1>7. MapInv'
  <2>1. \A x \in Objs : /\ status'[x] = "deployed" <=> x \in objectMap
                        /\ status'[x] \in {"new", "gone"} => count'[x] = 0
    BY <1>0, <1>4, <1>6, Zenon DEF MapInv
  <2> QED
    BY <1>0, <2>1, Zenon DEF MapInv
<1>8. \A x \in persistent : status'[x] # "undeployed"
  BY <1>0, <1>4, <1>5, Zenon DEF RemovingInv
<1> QED
  BY <1>2, <1>3, <1>7, <1>8, Zenon

LEMMA DropStep ==
  ASSUME IInv, NEW t \in Threads, NEW o \in Objs, Drop(t, o)
  PROVE  IInv'
<1>0. /\ DirectoryTypeOK /\ RemovingInv /\ o \in held[t] /\ removing[t] = None
      /\ held' = [held EXCEPT ![t] = @ \ {o}]
      /\ count' = [count EXCEPT ![o] = @ - 1] /\ status' = Released(o)
  BY Zenon DEF IInv, Drop, Idle
<1>1. UNCHANGED <<config, nameMap, objectMap, helperMap, name, modified, toDelete, removing, flags, saveVars>>
  BY Zenon DEF Drop
<1>2. /\ MapInv' /\ count' \in [Objs -> Nat]
      /\ status' \in [Objs -> {"new", "deployed", "undeployed", "gone"}]
      /\ \A x \in persistent : status'[x] # "undeployed"
  BY <1>0, <1>1, CountDown, Zenon DEF config, saveVars
<1>3. \A u \in Threads : u # t => held'[u] = held[u]
  BY <1>0, Zenon DEF DirectoryTypeOK
<1>4. DirectoryTypeOK'
  <2>1. held[t] \ {o} \in SUBSET Objs
    BY <1>0, Zenon DEF DirectoryTypeOK
  <2>2. held' \in [Threads -> SUBSET Objs]
    BY <1>0, <2>1, Updated, Zenon DEF DirectoryTypeOK
  <2> QED
    BY <1>0, <1>1, <1>2, <2>2, Zenon DEF DirectoryTypeOK, config, flags, saveVars
<1>5. RemovingInv'
  <2>1. \A u \in Threads : removing[u] # None => held'[u] = held[u]
    BY <1>0, <1>3, Zenon
  <2> QED
    BY <1>0, <1>1, <1>2, <2>1, Zenon DEF RemovingInv, config, saveVars
<1>6. ListInv'
  BY <1>1, Zenon DEF IInv, ListInv, flags
<1>7. CollectInv'
  BY <1>1, Zenon DEF IInv, CollectInv, saveVars
<1>8. AllCounted'
  BY DropCounted, Zenon DEF IInv
<1> QED
  BY <1>2, <1>4, <1>5, <1>6, <1>7, <1>8, Zenon DEF IInv

LEMMA ReleaseStep ==
  ASSUME IInv, NEW o \in Objs, ReleaseCollected(o)
  PROVE  IInv'
<1>0. /\ DirectoryTypeOK /\ RemovingInv /\ collection[o] \in Nat /\ collection[o] > 0
      /\ collection' = [collection EXCEPT ![o] = @ - 1]
      /\ count' = [count EXCEPT ![o] = @ - 1] /\ status' = Released(o)
  BY Zenon DEF IInv, ReleaseCollected, DirectoryTypeOK
<1>1. UNCHANGED <<config, nameMap, objectMap, helperMap, name, refs, removing, flags,
                  staged, database, saveDeltaCount, candidates, mpc, collecting>>
  BY Zenon DEF ReleaseCollected
<1>2. collection[o] # 0 /\ collection[o] - 1 \in Nat
  BY <1>0
<1>3. /\ MapInv' /\ count' \in [Objs -> Nat]
      /\ status' \in [Objs -> {"new", "deployed", "undeployed", "gone"}]
      /\ \A x \in persistent : status'[x] # "undeployed"
  BY <1>0, <1>1, <1>2, CountDown, Zenon DEF config
<1>4. DirectoryTypeOK'
  <2>1. collection' \in [Objs -> Nat]
    BY <1>0, <1>2, Updated, Zenon DEF DirectoryTypeOK
  <2> QED
    BY <1>0, <1>1, <1>3, <2>1, Zenon DEF DirectoryTypeOK, config, refs, flags
<1>5. RemovingInv'
  BY <1>0, <1>1, <1>3, Zenon DEF RemovingInv, config, refs
<1>6. ListInv'
  BY <1>1, Zenon DEF IInv, ListInv, refs, flags
<1>7. CollectInv'
  BY <1>1, Zenon DEF IInv, CollectInv
<1>8. AllCounted'
  BY ReleaseCounted, Zenon DEF IInv
<1> QED
  BY <1>3, <1>4, <1>5, <1>6, <1>7, <1>8, Zenon DEF IInv

\* The count of an object that exists goes up, or nothing is counted.
LEMMA CountMaybeUp ==
  ASSUME DirectoryTypeOK, MapInv, NEW o \in Objs, status[o] = "deployed",
         count' = [count EXCEPT ![o] = @ + 1] \/ UNCHANGED count, UNCHANGED <<maps, candidates>>
  PROVE  MapInv' /\ count' \in [Objs -> Nat]
<1>1. CASE count' = [count EXCEPT ![o] = @ + 1]
  BY <1>1, CountUp, Zenon
<1>2. CASE UNCHANGED count
  BY <1>2, Zenon DEF DirectoryTypeOK, MapInv, maps
<1> QED
  BY <1>1, <1>2, Zenon

LEMMA ModifyStep ==
  ASSUME IInv, NEW t \in Threads, NEW o \in Objs, Modify(t, o)
  PROVE  IInv'
<1>0. /\ DirectoryTypeOK /\ MapInv /\ RemovingInv /\ ListInv
      /\ status[o] = "deployed" /\ updated' = updated \cup {o}
      /\ memory[o] <= MaxVersion /\ memory' = [memory EXCEPT ![o] = @ + 1]
      /\ count' = [count EXCEPT ![o] = @ + 1] \/ UNCHANGED count
      /\ modified' = [modified EXCEPT ![t] = @ \cup {o}] \/ UNCHANGED modified
  BY Zenon DEF IInv, Modify
<1>1. UNCHANGED <<config, maps, held, toDelete, removing, marked, deleted, saveVars>>
  BY Zenon DEF Modify
<1>2. MapInv' /\ count' \in [Objs -> Nat]
  BY <1>0, <1>1, CountMaybeUp, Zenon DEF saveVars
<1>3. /\ modified' \in [Threads -> SUBSET Objs]
      /\ \A u \in Threads : modified'[u] \subseteq modified[u] \cup {o}
  <2>0. modified \in [Threads -> SUBSET Objs]
    BY <1>0, Zenon DEF DirectoryTypeOK
  <2>1. modified[t] \cup {o} \in SUBSET Objs
    BY <2>0, Zenon
  <2>2. modified' \in [Threads -> SUBSET Objs]
    BY <1>0, <2>0, <2>1, Updated, Zenon
  <2>3. \A u \in Threads : modified'[u] \subseteq modified[u] \cup {o}
    BY <1>0, <2>0, Zenon
  <2> QED
    BY <2>2, <2>3, Zenon
<1>4. DirectoryTypeOK'
  <2>1. memory[o] + 1 \in 1..(MaxVersion + 1)
    BY <1>0, Numbers, Zenon DEF DirectoryTypeOK
  <2>2. memory' \in [Objs -> 1..(MaxVersion + 1)]
    BY <1>0, <2>1, Updated, Zenon DEF DirectoryTypeOK
  <2>3. updated' \subseteq Objs
    BY <1>0, Zenon DEF DirectoryTypeOK
  <2> QED
    BY <1>0, <1>1, <1>2, <1>3, <2>2, <2>3, Zenon DEF DirectoryTypeOK, config, maps, saveVars
<1>5. RemovingInv'
  BY <1>0, <1>1, Zenon DEF RemovingInv, config, maps, saveVars
<1>6. ListInv'
  BY <1>0, <1>1, <1>3, Zenon DEF ListInv
<1>7. CollectInv'
  BY <1>1, Zenon DEF IInv, CollectInv, saveVars
<1>8. AllCounted'
  BY ModifyCounted, Zenon DEF IInv
<1> QED
  BY <1>2, <1>4, <1>5, <1>6, <1>7, <1>8, Zenon DEF IInv

LEMMA MarkStep ==
  ASSUME IInv, NEW t \in Threads, NEW o \in Objs, MarkForDeletion(t, o)
  PROVE  IInv'
<1>0. /\ DirectoryTypeOK /\ MapInv /\ RemovingInv /\ ListInv
      /\ status[o] = "deployed" /\ marked' = marked \cup {o}
      /\ count' = [count EXCEPT ![o] = @ + 1] \/ UNCHANGED count
      /\ toDelete' = [toDelete EXCEPT ![t] = @ \cup {o}] \/ UNCHANGED toDelete
  BY Zenon DEF IInv, MarkForDeletion
<1>1. UNCHANGED <<config, maps, held, modified, removing, updated, deleted, memory, saveVars>>
  BY Zenon DEF MarkForDeletion
<1>2. MapInv' /\ count' \in [Objs -> Nat]
  BY <1>0, <1>1, CountMaybeUp, Zenon DEF saveVars
<1>3. /\ toDelete' \in [Threads -> SUBSET Objs]
      /\ \A u \in Threads : toDelete'[u] \subseteq toDelete[u] \cup {o}
  <2>0. toDelete \in [Threads -> SUBSET Objs]
    BY <1>0, Zenon DEF DirectoryTypeOK
  <2>1. toDelete[t] \cup {o} \in SUBSET Objs
    BY <2>0, Zenon
  <2>2. toDelete' \in [Threads -> SUBSET Objs]
    BY <1>0, <2>0, <2>1, Updated, Zenon
  <2>3. \A u \in Threads : toDelete'[u] \subseteq toDelete[u] \cup {o}
    BY <1>0, <2>0, Zenon
  <2> QED
    BY <2>2, <2>3, Zenon
<1>4. DirectoryTypeOK'
  <2>1. marked' \subseteq Objs
    BY <1>0, Zenon DEF DirectoryTypeOK
  <2> QED
    BY <1>0, <1>1, <1>2, <1>3, <2>1, Zenon DEF DirectoryTypeOK, config, maps, saveVars
<1>5. RemovingInv'
  BY <1>0, <1>1, Zenon DEF RemovingInv, config, maps, saveVars
<1>6. ListInv'
  BY <1>0, <1>1, <1>3, Zenon DEF ListInv
<1>7. CollectInv'
  BY <1>1, Zenon DEF IInv, CollectInv, saveVars
<1>8. AllCounted'
  BY MarkCounted, Zenon DEF IInv
<1> QED
  BY <1>2, <1>4, <1>5, <1>6, <1>7, <1>8, Zenon DEF IInv

\* A save of either kind.
LEMMA SaveStarts ==
  ASSUME IInv, FullSave \/ DeltaSave
  PROVE  /\ TakeLists /\ mpc' = "commit" /\ collecting = None /\ mpc = "idle"
         /\ \A t \in Threads : removing[t] = None
         /\ UNCHANGED <<config, maps, count, held, removing, marked, memory, database, collecting>>
         /\ candidates' \subseteq objectMap /\ updated' \subseteq updated
         /\ deleted \subseteq deleted' /\ deleted' \subseteq marked
<1>1. \A t \in Threads : removing[t] = None
  BY Zenon DEF FullSave, DeltaSave, Stopped, Idle
<1>2. /\ TakeLists /\ mpc' = "commit" /\ collecting = None /\ mpc = "idle"
      /\ UNCHANGED <<config, maps, count, held, removing, marked, memory, database, collecting>>
      /\ candidates' \subseteq objectMap /\ updated' \subseteq updated /\ deleted \subseteq deleted'
  BY Zenon DEF FullSave, DeltaSave, Unlocked
<1>3. Listed(toDelete) \subseteq marked /\ deleted \subseteq marked
  BY Zenon DEF IInv, ListInv, Listed
<1>4. deleted' \subseteq marked
  BY <1>3, Zenon DEF FullSave, DeltaSave
<1> QED
  BY <1>1, <1>2, <1>4, Zenon

LEMMA CopiedType ==
  ASSUME DirectoryTypeOK, NEW update, NEW delete, NEW late
  PROVE  Copied(update, delete, late) \in [Objs -> 0..(MaxVersion + 1)]
<1>1. \A o \in Objs : memory[o] \in 0..(MaxVersion + 1) /\ staged[o] \in 0..(MaxVersion + 1)
  BY Numbers, Zenon DEF DirectoryTypeOK
<1> QED
  BY <1>1, Numbers, Zenon DEF Copied

LEMMA TakeListsType ==
  ASSUME DirectoryTypeOK, TakeLists
  PROVE  /\ collection' \in [Objs -> Nat] /\ modified' \in [Threads -> SUBSET Objs]
         /\ toDelete' \in [Threads -> SUBSET Objs]
<1>1. ASSUME NEW o \in Objs
      PROVE  collection[o] + Cardinality({t \in Threads : o \in modified[t]})
                           + Cardinality({t \in Threads : o \in toDelete[t]}) \in Nat
  <2>1. /\ collection[o] \in Nat /\ Cardinality({t \in Threads : o \in modified[t]}) \in Nat
        /\ Cardinality({t \in Threads : o \in toDelete[t]}) \in Nat
    BY Naturals, Zenon DEF Modifying, Deleting, Having
  <2> QED
    BY <2>1
<1> QED
  BY <1>1, Zenon DEF TakeLists

LEMMA SavingStep ==
  ASSUME IInv, FullSave \/ DeltaSave
  PROVE  IInv'
<1>0. DirectoryTypeOK /\ MapInv /\ RemovingInv /\ ListInv /\ AllCounted
  BY Zenon DEF IInv
<1>1. /\ TakeLists /\ mpc' = "commit" /\ collecting = None
      /\ \A t \in Threads : removing[t] = None
      /\ UNCHANGED <<config, maps, count, held, removing, marked, memory, database, collecting>>
      /\ candidates' \subseteq objectMap /\ updated' \subseteq updated /\ deleted' \subseteq marked
  BY SaveStarts, Zenon
<1>2. DirectoryTypeOK'
  <2>1. staged' \in [Objs -> 0..(MaxVersion + 1)]
    <3>1. \E update, delete, late : staged' = Copied(update, delete, late)
      BY Zenon DEF FullSave, DeltaSave
    <3> QED
      BY <1>0, <3>1, CopiedType, Zenon
  <2>2. saveDeltaCount' \in 0..MaxDeltas
    <3>1. CASE FullSave
      BY <3>1, Numbers, Zenon DEF FullSave
    <3>2. CASE DeltaSave
      <4>1. /\ saveDeltaCount \in 0..MaxDeltas /\ saveDeltas \in 0..MaxDeltas
            /\ saveDeltaCount < saveDeltas /\ saveDeltaCount' = saveDeltaCount + 1
        BY <1>0, <3>2, Zenon DEF DeltaSave, DirectoryTypeOK
      <4> QED
        BY <4>1, Numbers, Zenon
    <3> QED
      BY <3>1, <3>2, Zenon
  <2>3. /\ collection' \in [Objs -> Nat] /\ modified' \in [Threads -> SUBSET Objs]
        /\ toDelete' \in [Threads -> SUBSET Objs]
    BY <1>0, <1>1, TakeListsType, Zenon
  <2>4. candidates' \subseteq Objs /\ updated' \subseteq Objs /\ deleted' \subseteq Objs
    BY <1>0, <1>1, Zenon DEF DirectoryTypeOK
  <2> QED
    BY <1>0, <1>1, <2>1, <2>2, <2>3, <2>4, Zenon DEF DirectoryTypeOK, config, maps
<1>3. MapInv'
  BY <1>0, <1>1, Zenon DEF MapInv, maps
<1>4. RemovingInv'
  BY <1>0, <1>1, Zenon DEF RemovingInv, config, maps
<1>5. ListInv'
  BY <1>1, Zenon DEF ListInv, TakeLists
<1>6. CollectInv'
  BY <1>1, Zenon DEF CollectInv
<1>7. AllCounted'
  BY <1>0, <1>1, TakeListsCounted, Zenon DEF maps
<1> QED
  BY <1>2, <1>3, <1>4, <1>5, <1>6, <1>7, Zenon DEF IInv

\* What the counts are about stays as it is.
LEMMA SameCounted ==
  ASSUME AllCounted, UNCHANGED <<count, refs, helperMap, collection>>
  PROVE  AllCounted'
<1>1. \A x \in Objs : Untouched(x)
  BY Zenon DEF Untouched, Holding, Modifying, Deleting, Mapped, refs
<1> QED
  BY <1>1, UntouchedCounted, Zenon DEF AllCounted

LEMMA CommitStep ==
  ASSUME IInv, Commit
  PROVE  IInv'
<1>0. DirectoryTypeOK /\ MapInv /\ RemovingInv /\ ListInv /\ CollectInv /\ AllCounted
  BY Zenon DEF IInv
<1>1. /\ UNCHANGED <<config, maps, count, refs, removing, flags, staged, collection, saveDeltaCount,
                     candidates, collecting>>
      /\ mpc = "commit" /\ database' = staged /\ mpc' = "collect"
  BY Zenon DEF Commit
<1>2. DirectoryTypeOK'
  BY <1>0, <1>1, Zenon DEF DirectoryTypeOK, config, maps, refs, flags
<1>3. MapInv' /\ ListInv'
  BY <1>0, <1>1, Zenon DEF MapInv, maps, ListInv, refs, flags
<1>4. RemovingInv'
  BY <1>0, <1>1, Zenon DEF RemovingInv, config, maps, refs
<1>5. CollectInv'
  BY <1>0, <1>1, Zenon DEF CollectInv
<1>6. AllCounted'
  BY <1>0, <1>1, SameCounted, Zenon DEF maps
<1> QED
  BY <1>2, <1>3, <1>4, <1>5, <1>6, Zenon DEF IInv

LEMMA ConsiderStep ==
  ASSUME IInv, NEW o \in Objs, Consider(o)
  PROVE  IInv'
<1>0. DirectoryTypeOK /\ MapInv /\ RemovingInv /\ ListInv /\ CollectInv /\ AllCounted
  BY Zenon DEF IInv
<1>1. /\ UNCHANGED <<config, maps, count, refs, removing, flags, staged, database, collection,
                     saveDeltaCount, mpc>>
      /\ mpc = "collect" /\ collecting = None /\ o \in candidates /\ candidates' \subseteq candidates
      /\ \/ collecting' = o /\ candidates' = candidates
         \/ collecting' = None
  BY Zenon DEF Consider, Unlocked
<1>2. DirectoryTypeOK'
  BY <1>0, <1>1, Zenon DEF DirectoryTypeOK, config, maps, refs, flags
<1>3. MapInv' /\ ListInv'
  BY <1>0, <1>1, Zenon DEF MapInv, maps, ListInv, refs, flags
<1>4. RemovingInv'
  BY <1>0, <1>1, Zenon DEF RemovingInv, config, maps, refs
<1>5. CollectInv'
  BY <1>0, <1>1, Zenon DEF CollectInv
<1>6. AllCounted'
  BY <1>0, <1>1, SameCounted, Zenon DEF maps
<1> QED
  BY <1>2, <1>3, <1>4, <1>5, <1>6, Zenon DEF IInv

LEMMA FinishStep ==
  ASSUME IInv, Finish
  PROVE  IInv'
<1>0. DirectoryTypeOK /\ MapInv /\ RemovingInv /\ ListInv /\ CollectInv /\ AllCounted
  BY Zenon DEF IInv
<1>1. /\ UNCHANGED <<config, maps, count, refs, removing, flags, staged, database, collection,
                     saveDeltaCount, candidates, collecting>>
      /\ mpc = "collect" /\ collecting = None /\ mpc' = "idle"
  BY Zenon DEF Finish, Unlocked
<1>2. DirectoryTypeOK'
  BY <1>0, <1>1, Zenon DEF DirectoryTypeOK, config, maps, refs, flags
<1>3. MapInv' /\ ListInv'
  BY <1>0, <1>1, Zenon DEF MapInv, maps, ListInv, refs, flags
<1>4. RemovingInv'
  BY <1>0, <1>1, Zenon DEF RemovingInv, config, maps, refs
<1>5. CollectInv'
  BY <1>0, <1>1, Zenon DEF CollectInv
<1>6. AllCounted'
  BY <1>0, <1>1, SameCounted, Zenon DEF maps
<1> QED
  BY <1>2, <1>3, <1>4, <1>5, <1>6, Zenon DEF IInv

LEMMA CollectStep ==
  ASSUME IInv, Collect
  PROVE  IInv'
<1>0. PICK o \in Objs : /\ o = collecting /\ o # None /\ o \in candidates /\ mpc = "collect"
                        /\ DirectoryTypeOK /\ MapInv /\ RemovingInv /\ ListInv /\ CollectInv
  BY Zenon DEF IInv, CollectInv, DirectoryTypeOK, Collect
<1>1. /\ UNCHANGED <<config, name, refs, removing, flags, staged, database, collection,
                     saveDeltaCount, mpc>>
      /\ candidates' = candidates \ {o} /\ collecting' = None
  BY <1>0, Zenon DEF Collect
<1>2. AllCounted'
  BY <1>0, CollectCounted, Zenon DEF IInv
<1>3. ListInv' /\ CollectInv'
  BY <1>0, <1>1, Zenon DEF ListInv, CollectInv, refs, flags
<1>4. CASE UNCHANGED <<nameMap, objectMap, helperMap, count, status>>
  <2>1. DirectoryTypeOK'
    <3>1. candidates' \subseteq Objs
      BY <1>0, <1>1, Zenon DEF DirectoryTypeOK
    <3> QED
      BY <1>0, <1>1, <1>4, <3>1, Zenon DEF DirectoryTypeOK, config, refs, flags
  <2>2. MapInv'
    BY <1>0, <1>1, <1>4, Zenon DEF MapInv
  <2>3. RemovingInv'
    BY <1>0, <1>1, <1>4, Zenon DEF RemovingInv, config, refs
  <2> QED
    BY <1>2, <1>3, <2>1, <2>2, <2>3, Zenon DEF IInv
<1>5. CASE ~UNCHANGED <<nameMap, objectMap, helperMap, count, status>>
  <2>1. /\ nameMap' = [nameMap EXCEPT ![name[o]] = IF @ = o THEN None ELSE @]
        /\ objectMap' = objectMap \ {o} /\ helperMap' = helperMap \ {o}
        /\ count' = [count EXCEPT ![o] = 0] /\ status' = [status EXCEPT ![o] = "gone"]
    BY <1>0, <1>5, Zenon DEF Collect
  <2>2. o \in objectMap /\ name[o] \in Names
    BY <1>0, Zenon DEF MapInv
  <2>3. /\ \A m \in Names : m # name[o] => nameMap'[m] = nameMap[m]
        /\ (nameMap'[name[o]] = IF nameMap[name[o]] = o THEN None ELSE nameMap[name[o]])
    BY <1>0, <2>1, <2>2, Zenon DEF DirectoryTypeOK
  <2>4. /\ count'[o] = 0 /\ status'[o] = "gone"
        /\ \A x \in Objs : x # o => count'[x] = count[x] /\ status'[x] = status[x]
    BY <1>0, <2>1, Zenon DEF DirectoryTypeOK
  <2>5. \A m \in Names : /\ nameMap'[m] # None => nameMap'[m] = nameMap[m]
                         /\ nameMap'[m] # o
    <3>1. \A m \in Names : nameMap[m] = o => m = name[o]
      BY <1>0, Zenon DEF MapInv
    <3> QED
      BY <1>0, <2>3, <3>1, Zenon
  <2>6. DirectoryTypeOK'
    <3>1. nameMap' \in [Names -> Objs \cup {None}]
      <4>1. nameMap \in [Names -> Objs \cup {None}]
        BY <1>0, Zenon DEF DirectoryTypeOK
      <4>2. (IF nameMap[name[o]] = o THEN None ELSE nameMap[name[o]]) \in Objs \cup {None}
        BY <2>2, <4>1, Zenon
      <4> QED
        BY <2>1, <4>1, <4>2, Updated, Zenon
    <3>2. count' \in [Objs -> Nat] /\ status' \in [Objs -> {"new", "deployed", "undeployed", "gone"}]
      BY <1>0, <2>1, Updated, Numbers, Zenon DEF DirectoryTypeOK
    <3>3. objectMap' \subseteq Objs /\ helperMap' \subseteq Objs /\ candidates' \subseteq Objs
      BY <1>0, <1>1, <2>1, Zenon DEF DirectoryTypeOK
    <3> QED
      BY <1>0, <1>1, <3>1, <3>2, <3>3, Zenon DEF DirectoryTypeOK, config, refs, flags
  <2>7. MapInv'
    <3>1. objectMap' = helperMap' /\ candidates' \subseteq objectMap'
      BY <1>0, <1>1, <2>1, Zenon DEF MapInv
    <3>2. \A x \in Objs : /\ status'[x] = "deployed" <=> x \in objectMap'
                          /\ status'[x] \in {"new", "gone"} => count'[x] = 0
                          /\ x \in objectMap' => name[x] \in Names
      BY <1>0, <2>1, <2>4, Zenon DEF MapInv
    <3>3. ASSUME NEW m \in Names, nameMap'[m] # None
          PROVE  nameMap'[m] \in objectMap' /\ name[nameMap'[m]] = m
      <4>1. nameMap'[m] = nameMap[m] /\ nameMap[m] # o /\ nameMap[m] # None
        BY <2>5, <3>3, Zenon
      <4>2. nameMap[m] \in objectMap /\ name[nameMap[m]] = m
        BY <1>0, <4>1, Zenon DEF MapInv
      <4>3. nameMap[m] \in objectMap'
        BY <2>1, <4>1, <4>2, Zenon
      <4> QED
        BY <4>1, <4>2, <4>3, Zenon
    <3> QED
      BY <1>1, <3>1, <3>2, <3>3, Zenon DEF MapInv
  <2>8. RemovingInv'
    <3>1. ASSUME NEW u \in Threads, removing[u] # None
          PROVE  /\ removing[u] \in held[u] \cap objectMap' /\ removing[u] \notin persistent \cup candidates'
                 /\ \A m \in Names : nameMap'[m] # removing[u]
      <4>1. /\ removing[u] \in held[u] \cap objectMap /\ removing[u] \notin persistent \cup candidates
            /\ \A m \in Names : nameMap[m] # removing[u]
        BY <1>0, <3>1, Zenon DEF RemovingInv
      <4>2. removing[u] # o
        BY <1>0, <4>1, Zenon
      <4>3. \A m \in Names : nameMap'[m] # removing[u]
        BY <2>5, <3>1, <4>1, Zenon
      <4> QED
        BY <1>1, <2>1, <4>1, <4>2, <4>3, Zenon
    <3>2. \A x \in persistent : status'[x] # "undeployed"
      BY <1>0, <2>4, Zenon DEF RemovingInv, DirectoryTypeOK
    <3> QED
      BY <1>0, <1>1, <3>1, <3>2, Zenon DEF RemovingInv, config, refs
  <2> QED
    BY <1>2, <1>3, <2>6, <2>7, <2>8, Zenon DEF IInv
<1> QED
  BY <1>4, <1>5, Zenon
--------------------------------------------------------------------------------
LEMMA InitIInv == DirectoryInit => IInv
<1> SUFFICES ASSUME DirectoryInit PROVE IInv
  OBVIOUS
<1>1. DirectoryTypeOK
  BY Numbers, Zenon DEF DirectoryInit, DirectoryTypeOK
<1>2. MapInv /\ RemovingInv /\ ListInv /\ CollectInv
  BY Zenon DEF DirectoryInit, MapInv, RemovingInv, ListInv, CollectInv
<1>3. ASSUME NEW o \in Objs PROVE Counted(o)
  <2>1. Holding(o) = {} /\ Modifying(o) = {} /\ Deleting(o) = {}
    BY Zenon DEF DirectoryInit, Holding, Modifying, Deleting, Having
  <2>2. Cardinality(Holding(o)) = 0 /\ Cardinality(Modifying(o)) = 0 /\ Cardinality(Deleting(o)) = 0
    BY <2>1, FS_EmptySet, Zenon
  <2>3. count[o] = 0 /\ collection[o] = 0 /\ Mapped(o) = 0
    BY Zenon DEF DirectoryInit, Mapped
  <2>4. 0 = 0 + 0 + 0 + 0 + 0
    OBVIOUS
  <2> QED
    BY <2>2, <2>3, <2>4, Zenon DEF Counted
<1> QED
  BY <1>1, <1>2, <1>3, Zenon DEF IInv, AllCounted

LEMMA NextIInv == IInv /\ [DirectoryNext]_directoryVars => IInv'
<1> SUFFICES ASSUME IInv, [DirectoryNext]_directoryVars PROVE IInv'
  OBVIOUS
<1>1. CASE UNCHANGED directoryVars
  <2>1. DirectoryTypeOK' /\ MapInv' /\ RemovingInv'
    BY <1>1, Zenon DEF IInv, DirectoryTypeOK, MapInv, RemovingInv,
       directoryVars, config, maps, refs, flags, saveVars
  <2>2. ListInv' /\ CollectInv'
    BY <1>1, Zenon DEF IInv, ListInv, CollectInv, directoryVars, refs, flags, saveVars
  <2>3. AllCounted'
    BY <1>1, SameCounted, Zenon DEF IInv, directoryVars, maps, saveVars
  <2> QED
    BY <2>1, <2>2, <2>3, Zenon DEF IInv
<1>2. ASSUME NEW t \in Threads, NEW o \in Objs, NEW n \in Names, Deploy(t, o, n) PROVE IInv'
  BY <1>2, DeployStep, Zenon
<1>3. ASSUME NEW t \in Threads, NEW o \in Objs,
             \/ Unbind(t, o) \/ LookUp(t, o) \/ WeakGet(t, o) \/ Drop(t, o)
             \/ Modify(t, o) \/ MarkForDeletion(t, o)
      PROVE  IInv'
  BY <1>3, UnbindStep, TakenStep, DropStep, ModifyStep, MarkStep, Zenon
<1>4. ASSUME NEW t \in Threads, Remove(t) PROVE IInv'
  BY <1>4, RemoveStep, Zenon
<1>5. ASSUME NEW o \in Objs, ReleaseCollected(o) \/ Consider(o) PROVE IInv'
  BY <1>5, ReleaseStep, ConsiderStep, Zenon
<1>6. CASE FullSave \/ DeltaSave \/ Commit \/ Collect \/ Finish
  BY <1>6, SavingStep, CommitStep, CollectStep, FinishStep, Zenon
<1> QED
  BY <1>1, <1>2, <1>3, <1>4, <1>5, <1>6, Zenon DEF DirectoryNext, SaveStep

\* The references to an object are counted in every reachable state, for any number of
\* objects, names and threads.
THEOREM SpecIInv == DirectorySpec => []IInv
BY InitIInv, NextIInv, PTL DEF DirectorySpec

\* Nothing dangles: what is gone has no reference of any kind, since a reference is counted
\* and the last release, or the collector when only the directory's is left, destroys it.
THEOREM NoDanglingHolds == DirectorySpec => []NoDangling
<1>1. IInv => NoDangling
  <2> SUFFICES ASSUME IInv PROVE NoDangling
    OBVIOUS
  <2>1. ASSUME NEW o \in Objs, status[o] = "gone"
        PROVE  /\ \A n \in Names : nameMap[n] # o
               /\ o \notin objectMap \cup helperMap \cup candidates /\ collection[o] = 0
               /\ \A t \in Threads : o \notin held[t] \cup modified[t] \cup toDelete[t]
    <3>1. count[o] = 0 /\ o \notin objectMap /\ o \notin candidates /\ o # None
      BY <2>1, DirectoryAssumption, Zenon DEF IInv, MapInv
    <3>2. /\ Holding(o) = {} /\ Modifying(o) = {} /\ Deleting(o) = {} /\ collection[o] = 0
          /\ o \notin helperMap
      BY <3>1, NoReference, Zenon DEF IInv, AllCounted
    <3>3. \A t \in Threads : o \notin held[t] \cup modified[t] \cup toDelete[t]
      BY <3>2, Zenon DEF Holding, Modifying, Deleting, Having
    <3>4. \A n \in Names : nameMap[n] # o
      BY <3>1, Zenon DEF IInv, MapInv
    <3> QED
      BY <3>1, <3>2, <3>3, <3>4, Zenon
  <2> QED
    BY <2>1, Zenon DEF NoDangling, IInv, MapInv
<1> QED
  BY <1>1, SpecIInv, PTL
--------------------------------------------------------------------------------
(* What is saved, action by action. *)

\* A persistent object that somebody refers to is in the directory.
LEMMA PersistentMapped ==
  ASSUME IInv, NEW o \in persistent,
         collection[o] # 0 \/ \E t \in Threads : o \in held[t] \cup modified[t] \cup toDelete[t]
  PROVE  o \in Objs /\ o \in objectMap /\ o \in helperMap /\ status[o] = "deployed"
<1>1. o \in Objs /\ MapInv /\ RemovingInv
  BY Zenon DEF IInv, DirectoryTypeOK
<1>2. status[o] \in {"deployed", "undeployed"}
  BY <1>1, HeldCounted, Zenon
<1>3. status[o] = "deployed"
  BY <1>1, <1>2, Zenon DEF RemovingInv
<1> QED
  BY <1>1, <1>3, Zenon DEF MapInv

\* What is gone is in no list.
LEMMA GoneUnlisted ==
  ASSUME IInv, NEW o \in Objs, status[o] = "gone"
  PROVE  Modifying(o) = {} /\ Deleting(o) = {}
BY NoReference, Zenon DEF IInv, MapInv, AllCounted

\* A release leaves the status of a persistent object as it is.
LEMMA PersistentKept ==
  ASSUME IInv, NEW o \in Objs, status' = Released(o),
         collection[o] # 0 \/ \E t \in Threads : o \in held[t] \cup modified[t] \cup toDelete[t]
  PROVE  \A x \in persistent : status'[x] = status[x]
<1>0. status \in [Objs -> {"new", "deployed", "undeployed", "gone"}] /\ persistent \subseteq Objs
  BY Zenon DEF IInv, DirectoryTypeOK
<1>1. CASE count[o] # 1
  BY <1>1, Zenon DEF Released
<1>2. CASE count[o] = 1
  <2>1. o \notin persistent
    BY <1>2, LastCounted, PersistentMapped, Zenon
  <2> QED
    BY <1>0, <1>2, <2>1, Zenon DEF Released
<1> QED
  BY <1>1, <1>2, Zenon

\* What the save is about stays as it is.
LEMMA SameSaved ==
  ASSUME SaveInv, UNCHANGED <<config, flags, staged, database, modified, toDelete>>,
         \A x \in persistent : status'[x] = status[x]
  PROVE  SaveInv'
<1>1. \A x : Modifying(x)' = Modifying(x) /\ Deleting(x)' = Deleting(x)
  BY Zenon DEF Modifying, Deleting
<1>2. ASSUME saveMode, NEW x \in persistent PROVE Saved(x)'
  BY <1>1, <1>2, Zenon DEF SaveInv, SavedInv, Saved, flags
<1>3. SavedInv'
  BY <1>2, Zenon DEF SavedInv, config
<1>4. DeletedInv'
  BY Zenon DEF SaveInv, DeletedInv, config, flags
<1> QED
  BY <1>3, <1>4, Zenon DEF SaveInv

LEMMA DeploySaves ==
  ASSUME IInv, SaveInv, NEW t \in Threads, NEW o \in Objs, NEW n \in Names, Deploy(t, o, n)
  PROVE  SaveInv'
<1>0. /\ status \in [Objs -> {"new", "deployed", "undeployed", "gone"}] /\ persistent \subseteq Objs
      /\ modified \in [Threads -> SUBSET Objs]
  BY Zenon DEF IInv, DirectoryTypeOK
<1>1. /\ UNCHANGED <<config, toDelete, marked, deleted, memory, staged, database>>
      /\ updated' = updated \cup {o} /\ status' = [status EXCEPT ![o] = "deployed"]
      /\ (modified' = IF saveMode THEN [modified EXCEPT ![t] = @ \cup {o}] ELSE modified)
  BY Zenon DEF Deploy, saveVars
<1>2. \A x : Deleting(x)' = Deleting(x)
  BY <1>1, Zenon DEF Deleting
<1>3. ASSUME saveMode PROVE Modifying(o)' # {} /\ \A x : x # o => Modifying(x)' = Modifying(x)
  <2>1. o \in modified'[t] /\ \A x, u : u \in Threads /\ x # o => (x \in modified'[u] <=> x \in modified[u])
    BY <1>0, <1>1, <1>3, Zenon
  <2> QED
    BY <2>1, Zenon DEF Modifying, Having
<1>4. ASSUME saveMode, NEW x \in persistent PROVE Saved(x)'
  <2>0. Saved(x)
    BY <1>4, Zenon DEF SaveInv, SavedInv
  <2>1. CASE x = o
    <3>1. status'[x] = "deployed" /\ x \in updated'
      BY <1>0, <1>1, <2>1, Zenon
    <3> QED
      BY <1>1, <1>2, <1>3, <1>4, <2>0, <2>1, <3>1, Zenon DEF Saved
  <2>2. CASE x # o
    <3>1. status'[x] = status[x] /\ (x \in updated' <=> x \in updated)
      BY <1>0, <1>1, <2>2, Zenon
    <3> QED
      BY <1>1, <1>2, <1>3, <1>4, <2>0, <2>2, <3>1, Zenon DEF Saved
  <2> QED
    BY <2>1, <2>2, Zenon
<1>5. DeletedInv'
  BY <1>1, Zenon DEF SaveInv, DeletedInv, config
<1> QED
  BY <1>1, <1>4, <1>5, Zenon DEF SaveInv, SavedInv, config

LEMMA ModifySaves ==
  ASSUME IInv, SaveInv, NEW t \in Threads, NEW o \in Objs, Modify(t, o)
  PROVE  SaveInv'
<1>0. /\ persistent \subseteq Objs /\ modified \in [Threads -> SUBSET Objs]
      /\ memory \in [Objs -> 1..(MaxVersion + 1)]
  BY Zenon DEF IInv, DirectoryTypeOK
<1>1. /\ UNCHANGED <<config, status, toDelete, marked, deleted, staged, database>>
      /\ updated' = updated \cup {o} /\ memory' = [memory EXCEPT ![o] = @ + 1] /\ status[o] = "deployed"
  BY Zenon DEF Modify, maps, saveVars
<1>2. \A x : Deleting(x)' = Deleting(x)
  BY <1>1, Zenon DEF Deleting
<1>3. /\ \A x : x # o => Modifying(x)' = Modifying(x)
      /\ saveMode /\ o \notin updated => Modifying(o)' # {}
      /\ Modifying(o) # {} => Modifying(o)' # {}
  <2>1. /\ \A x, u : u \in Threads /\ x # o => (x \in modified'[u] <=> x \in modified[u])
        /\ saveMode /\ o \notin updated => o \in modified'[t]
        /\ \A u \in Threads : o \in modified[u] => o \in modified'[u]
    <3>1. CASE saveMode /\ o \notin updated
      <4>1. modified' = [modified EXCEPT ![t] = @ \cup {o}]
        BY <3>1, Zenon DEF Modify
      <4>2. /\ modified'[t] = modified[t] \cup {o}
            /\ \A u \in Threads : u # t => modified'[u] = modified[u]
        BY <1>0, <4>1, Zenon
      <4> QED
        BY <4>2, Zenon
    <3>2. CASE ~(saveMode /\ o \notin updated)
      <4>1. modified' = modified
        BY <3>2, Zenon DEF Modify
      <4> QED
        BY <3>2, <4>1, Zenon
    <3> QED
      BY <3>1, <3>2, Zenon
  <2> QED
    BY <2>1, Zenon DEF Modifying, Having
<1>4. ASSUME saveMode, NEW x \in persistent PROVE Saved(x)'
  <2>0. Saved(x)
    BY <1>4, Zenon DEF SaveInv, SavedInv
  <2>1. CASE x = o
    BY <1>1, <1>2, <1>3, <1>4, <2>0, <2>1, Zenon DEF Saved
  <2>2. CASE x # o
    <3>1. memory'[x] = memory[x] /\ (x \in updated' <=> x \in updated)
      BY <1>0, <1>1, <2>2, Zenon
    <3> QED
      BY <1>1, <1>2, <1>3, <2>0, <2>2, <3>1, Zenon DEF Saved
  <2> QED
    BY <2>1, <2>2, Zenon
<1>5. DeletedInv'
  BY <1>1, Zenon DEF SaveInv, DeletedInv, config
<1> QED
  BY <1>1, <1>4, <1>5, Zenon DEF SaveInv, SavedInv, config

LEMMA MarkSaves ==
  ASSUME IInv, SaveInv, NEW t \in Threads, NEW o \in Objs, MarkForDeletion(t, o)
  PROVE  SaveInv'
<1>0. persistent \subseteq Objs /\ toDelete \in [Threads -> SUBSET Objs]
  BY Zenon DEF IInv, DirectoryTypeOK
<1>1. /\ UNCHANGED <<config, status, modified, updated, deleted, memory, staged, database>>
      /\ marked' = marked \cup {o} /\ status[o] = "deployed"
      /\ saveMode => toDelete' = [toDelete EXCEPT ![t] = @ \cup {o}]
  BY Zenon DEF MarkForDeletion, maps, saveVars
<1>2. \A x : Modifying(x)' = Modifying(x)
  BY <1>1, Zenon DEF Modifying
<1>3. ASSUME saveMode PROVE Deleting(o)' # {} /\ \A x : x # o => Deleting(x)' = Deleting(x)
  <2>1. o \in toDelete'[t] /\ \A x, u : u \in Threads /\ x # o => (x \in toDelete'[u] <=> x \in toDelete[u])
    BY <1>0, <1>1, <1>3, Zenon
  <2> QED
    BY <2>1, Zenon DEF Deleting, Having
<1>4. ASSUME saveMode, NEW x \in persistent PROVE Saved(x)'
  <2>0. Saved(x)
    BY <1>4, Zenon DEF SaveInv, SavedInv
  <2>1. CASE x = o
    BY <1>1, <1>2, <1>3, <1>4, <2>0, <2>1, Zenon DEF Saved
  <2>2. CASE x # o
    BY <1>1, <1>2, <1>3, <1>4, <2>0, <2>2, Zenon DEF Saved
  <2> QED
    BY <2>1, <2>2, Zenon
<1>5. DeletedInv'
  BY <1>1, Zenon DEF SaveInv, DeletedInv, config
<1> QED
  BY <1>1, <1>4, <1>5, Zenon DEF SaveInv, SavedInv, config

\* A save copies the last version of what it updates, and no record of what it deletes.
LEMMA CopiedValue ==
  ASSUME NEW update, NEW delete, NEW late, staged' = Copied(update, delete, late), NEW o \in Objs
  PROVE  /\ o \in delete \ late => staged'[o] = 0
         /\ o \notin delete /\ o \in update \cap persistent => staged'[o] = memory[o]
         /\ o \notin delete /\ o \notin update \cap persistent => staged'[o] = staged[o]
BY Zenon DEF Copied

LEMMA FullSaveSaves ==
  ASSUME IInv, SaveInv, FullSave
  PROVE  SaveInv'
<1>0. persistent \subseteq Objs /\ deleted \subseteq marked /\ marked \subseteq Objs
  BY Zenon DEF IInv, DirectoryTypeOK, ListInv
<1>1. PICK update, delete :
        /\ delete = (objectMap \cap marked) \ deleted
        /\ update = (objectMap \cap updated \cap persistent) \ marked
        /\ staged' = Copied(update, delete, {})
        /\ updated' = updated \ update /\ deleted' = deleted \cup delete
  BY Zenon DEF FullSave
<1>5. staged' = Copied(update, delete, {})
  BY <1>1, Zenon
<1>6. \A o \in Objs : /\ o \in delete \ {} => staged'[o] = 0
                      /\ o \notin delete /\ o \in update \cap persistent => staged'[o] = memory[o]
                      /\ o \notin delete /\ o \notin update \cap persistent => staged'[o] = staged[o]
  BY <1>5, CopiedValue, Zenon
<1>2. UNCHANGED <<config, status, marked, memory, database>>
  BY Zenon DEF FullSave, maps
<1>3. ASSUME saveMode, NEW o \in persistent PROVE Saved(o)'
  <2>0. Saved(o) /\ o \in Objs
    BY <1>0, <1>3, Zenon DEF SaveInv, SavedInv
  <2>1. o \notin updated' \ marked
    <3> SUFFICES ASSUME o \in updated' \ marked PROVE FALSE
      OBVIOUS
    <3>1. o \in updated \ marked /\ o \notin objectMap
      BY <1>1, <1>3, Zenon
    <3>2. \E t \in Threads : o \in modified[t]
      BY <2>0, <3>1, Zenon DEF Saved, Modifying, Having
    <3> QED
      BY <1>3, <3>1, <3>2, PersistentMapped, Zenon
  <2>2. o \notin marked \ deleted'
    <3> SUFFICES ASSUME o \in marked \ deleted' PROVE FALSE
      OBVIOUS
    <3>1. o \in marked \ deleted /\ o \notin objectMap
      BY <1>1, Zenon
    <3>2. \E t \in Threads : o \in toDelete[t]
      BY <2>0, <3>1, Zenon DEF Saved, Deleting, Having
    <3> QED
      BY <1>3, <3>1, <3>2, PersistentMapped, Zenon
  <2>3. ASSUME status[o] # "new", o \notin updated' \cup marked PROVE staged'[o] = memory[o]
    <3>1. o \notin delete
      BY <1>1, <2>3, Zenon
    <3>2. CASE o \in update \cap persistent
      BY <1>6, <2>0, <3>1, <3>2, Zenon
    <3>3. CASE o \notin update \cap persistent
      <4>1. staged'[o] = staged[o]
        BY <1>6, <2>0, <3>1, <3>3, Zenon
      <4>2. o \notin updated \cup marked
        BY <1>1, <1>3, <2>3, <3>3, Zenon
      <4> QED
        BY <2>0, <2>3, <4>1, <4>2, Zenon DEF Saved
    <3> QED
      BY <3>2, <3>3, Zenon
  <2> QED
    BY <1>2, <2>0, <2>1, <2>2, <2>3, Zenon DEF Saved
<1>4. DeletedInv'
  <2> SUFFICES ASSUME saveDeltas = 0, NEW o \in deleted' PROVE staged'[o] = 0
    BY <1>2, Zenon DEF DeletedInv, config
  <2>1. o \in Objs /\ o \in marked
    BY <1>0, <1>1, Zenon
  <2>2. CASE o \in delete
    BY <1>6, <2>1, <2>2, Zenon
  <2>3. CASE o \notin delete
    <3>1. o \in deleted /\ o \notin update
      BY <1>1, <2>1, <2>3, Zenon
    <3>2. staged'[o] = staged[o]
      BY <1>6, <2>1, <2>3, <3>1, Zenon
    <3> QED
      BY <3>1, <3>2, Zenon DEF SaveInv, DeletedInv
  <2> QED
    BY <2>2, <2>3, Zenon
<1> QED
  BY <1>2, <1>3, <1>4, Zenon DEF SaveInv, SavedInv, config

LEMMA DeltaSaveSaves ==
  ASSUME IInv, SaveInv, DeltaSave
  PROVE  SaveInv'
<1>0. persistent \subseteq Objs /\ Listed(toDelete) \subseteq marked
  BY ZenonT(30) DEF IInv, DirectoryTypeOK, ListInv, Listed
<1>1. PICK update, delete, late :
        /\ update = Listed(modified) /\ delete = Listed(toDelete) \ deleted
        /\ staged' = Copied(update, delete, late)
        /\ updated' = updated \ (update \cap persistent) /\ deleted' = deleted \cup delete
  BY Zenon DEF DeltaSave
<1>5. staged' = Copied(update, delete, late)
  BY <1>1, Zenon
<1>6. \A o \in Objs : /\ o \in delete \ late => staged'[o] = 0
                      /\ o \notin delete /\ o \in update \cap persistent => staged'[o] = memory[o]
                      /\ o \notin delete /\ o \notin update \cap persistent => staged'[o] = staged[o]
  BY <1>5, CopiedValue, Zenon
<1>2. UNCHANGED <<config, status, marked, memory, database>>
  BY Zenon DEF DeltaSave, maps
<1>3. ASSUME saveMode, NEW o \in persistent PROVE Saved(o)'
  <2>0. Saved(o) /\ o \in Objs
    BY <1>0, <1>3, Zenon DEF SaveInv, SavedInv
  <2>1. o \notin updated' \ marked
    <3> SUFFICES ASSUME o \in updated' \ marked PROVE FALSE
      OBVIOUS
    <3>1. o \in updated \ marked /\ o \notin Listed(modified)
      BY <1>1, <1>3, Zenon
    <3> QED
      BY <2>0, <3>1, Zenon DEF Saved, Modifying, Having, Listed
  <2>2. o \notin marked \ deleted'
    <3> SUFFICES ASSUME o \in marked \ deleted' PROVE FALSE
      OBVIOUS
    <3>1. o \in marked \ deleted /\ o \notin Listed(toDelete)
      BY <1>1, Zenon
    <3> QED
      BY <2>0, <3>1, Zenon DEF Saved, Deleting, Having, Listed
  <2>3. ASSUME status[o] # "new", o \notin updated' \cup marked PROVE staged'[o] = memory[o]
    <3>1. o \notin delete
      BY <1>0, <1>1, <2>3, Zenon
    <3>2. CASE o \in update \cap persistent
      BY <1>6, <2>0, <3>1, <3>2, Zenon
    <3>3. CASE o \notin update \cap persistent
      <4>1. staged'[o] = staged[o]
        BY <1>6, <2>0, <3>1, <3>3, Zenon
      <4>2. o \notin updated \cup marked
        BY <1>1, <2>3, <3>3, Zenon
      <4> QED
        BY <2>0, <2>3, <4>1, <4>2, Zenon DEF Saved
    <3> QED
      BY <3>2, <3>3, Zenon
  <2> QED
    BY <1>2, <2>0, <2>1, <2>2, <2>3, Zenon DEF Saved
<1>4. saveDeltas # 0
  <2>1. saveDeltaCount \in 0..MaxDeltas /\ saveDeltaCount < saveDeltas /\ MaxDeltas \in Nat
    BY DirectoryAssumption, Zenon DEF IInv, DirectoryTypeOK, DeltaSave
  <2> QED
    BY <2>1
<1> QED
  BY <1>2, <1>3, <1>4, Zenon DEF SaveInv, SavedInv, DeletedInv, config

LEMMA CommitSaves ==
  ASSUME IInv, SaveInv, Commit
  PROVE  SaveInv'
<1>1. UNCHANGED <<config, status, modified, toDelete, flags, staged>> /\ database' = staged
  BY Zenon DEF Commit, maps, refs
<1>2. \A x : Modifying(x)' = Modifying(x) /\ Deleting(x)' = Deleting(x)
  BY <1>1, Zenon DEF Modifying, Deleting
<1>3. ASSUME saveMode, NEW x \in persistent PROVE Saved(x)'
  <2>0. Saved(x) /\ x \in Objs
    BY <1>3, Zenon DEF SaveInv, SavedInv, IInv, DirectoryTypeOK
  <2>1. ASSUME status[x] = "gone", x \notin marked PROVE staged[x] = memory[x]
    <3>1. Modifying(x) = {}
      BY <2>0, <2>1, GoneUnlisted, Zenon
    <3> QED
      BY <2>0, <2>1, <3>1, Zenon DEF Saved
  <2> QED
    BY <1>1, <1>2, <2>0, <2>1, Zenon DEF Saved, flags
<1>4. DeletedInv'
  BY <1>1, Zenon DEF SaveInv, DeletedInv, config, flags
<1> QED
  BY <1>1, <1>3, <1>4, Zenon DEF SaveInv, SavedInv, config

LEMMA CollectSaves ==
  ASSUME IInv, SaveInv, Collect
  PROVE  SaveInv'
<1>0. PICK o \in Objs : /\ o = collecting /\ o \in helperMap /\ database = staged
                        /\ status \in [Objs -> {"new", "deployed", "undeployed", "gone"}]
                        /\ persistent \subseteq Objs
  BY Zenon DEF IInv, CollectInv, MapInv, DirectoryTypeOK, Collect
<1>1. UNCHANGED <<config, modified, toDelete, flags, staged, database>>
  BY Zenon DEF Collect, refs
<1>2. CASE UNCHANGED <<nameMap, objectMap, helperMap, count, status>>
  BY <1>1, <1>2, SameSaved, Zenon
<1>3. CASE ~UNCHANGED <<nameMap, objectMap, helperMap, count, status>>
  <2>1. count[o] = 1 /\ status' = [status EXCEPT ![o] = "gone"]
    BY <1>0, <1>3, Zenon DEF Collect
  <2>2. Modifying(o) = {} /\ Deleting(o) = {}
    BY <1>0, <2>1, OnlyMapped, Zenon DEF IInv, AllCounted
  <2>3. \A x : Modifying(x)' = Modifying(x) /\ Deleting(x)' = Deleting(x)
    BY <1>1, Zenon DEF Modifying, Deleting
  <2>4. ASSUME saveMode, NEW x \in persistent PROVE Saved(x)'
    <3>0. Saved(x) /\ x \in Objs
      BY <1>0, <2>4, Zenon DEF SaveInv, SavedInv
    <3>1. CASE x # o
      <4>1. status'[x] = status[x]
        BY <1>0, <2>1, <3>0, <3>1, Zenon
      <4> QED
        BY <1>1, <2>3, <3>0, <4>1, Zenon DEF Saved, flags
    <3>2. CASE x = o
      <4>1. o \notin updated \ marked /\ status[o] = "deployed"
        BY <1>0, <2>2, <3>0, <3>2, Zenon DEF Saved, IInv, MapInv
      <4>2. o \notin marked => staged[o] = memory[o]
        BY <3>0, <3>2, <4>1, Zenon DEF Saved
      <4> QED
        BY <1>0, <1>1, <2>3, <3>0, <3>2, <4>1, <4>2, Zenon DEF Saved, flags
    <3> QED
      BY <3>1, <3>2, Zenon
  <2>5. DeletedInv'
    BY <1>1, Zenon DEF SaveInv, DeletedInv, config, flags
  <2> QED
    BY <1>1, <2>4, <2>5, Zenon DEF SaveInv, SavedInv, config
<1> QED
  BY <1>2, <1>3, Zenon

LEMMA ReleaseSaves ==
  ASSUME IInv, SaveInv, NEW o \in Objs, ReleaseCollected(o) \/ \E t \in Threads : Drop(t, o)
  PROVE  SaveInv'
<1>1. UNCHANGED <<config, flags, staged, database, modified, toDelete>> /\ status' = Released(o)
  BY Zenon DEF ReleaseCollected, Drop, refs, saveVars
<1>2. collection[o] # 0 \/ \E t \in Threads : o \in held[t] \cup modified[t] \cup toDelete[t]
  <2>1. CASE ReleaseCollected(o)
    <3>1. collection[o] > 0 /\ collection[o] \in Nat
      BY <2>1, Zenon DEF ReleaseCollected, IInv, DirectoryTypeOK
    <3> QED
      BY <3>1
  <2>2. CASE \E t \in Threads : Drop(t, o)
    BY <2>2, Zenon DEF Drop
  <2> QED
    BY <2>1, <2>2, Zenon
<1> QED
  BY <1>1, <1>2, PersistentKept, SameSaved, Zenon

LEMMA RemoveSaves ==
  ASSUME IInv, SaveInv, NEW t \in Threads, Remove(t)
  PROVE  SaveInv'
<1>1. UNCHANGED <<config, flags, staged, database, modified, toDelete>>
  BY Zenon DEF Remove, refs, saveVars
<1>2. removing[t] \notin persistent
  BY Zenon DEF IInv, RemovingInv, Remove, Idle
<1>3. \A x \in persistent : status'[x] = status[x]
  BY <1>2, Zenon DEF IInv, DirectoryTypeOK, Remove
<1> QED
  BY <1>1, <1>3, SameSaved, Zenon
--------------------------------------------------------------------------------
LEMMA InitSaveInv == DirectoryInit => SaveInv
BY Zenon DEF DirectoryInit, SaveInv, SavedInv, Saved, DeletedInv

LEMMA NextSaveInv == IInv /\ SaveInv /\ [DirectoryNext]_directoryVars => SaveInv'
<1> SUFFICES ASSUME IInv, SaveInv, [DirectoryNext]_directoryVars PROVE SaveInv'
  OBVIOUS
<1>1. CASE UNCHANGED directoryVars
  BY <1>1, SameSaved, Zenon DEF directoryVars, maps, refs, saveVars
<1>2. ASSUME NEW t \in Threads, NEW o \in Objs, NEW n \in Names, Deploy(t, o, n) PROVE SaveInv'
  BY <1>2, DeploySaves, Zenon
<1>3. ASSUME NEW t \in Threads, NEW o \in Objs, Unbind(t, o) \/ LookUp(t, o) \/ WeakGet(t, o) PROVE SaveInv'
  <2>1. UNCHANGED <<config, flags, staged, database, modified, toDelete, status>>
    BY <1>3, Zenon DEF Unbind, LookUp, WeakGet, maps, refs, saveVars
  <2> QED
    BY <2>1, SameSaved, Zenon
<1>4. ASSUME NEW t \in Threads, NEW o \in Objs, Drop(t, o) \/ Modify(t, o) \/ MarkForDeletion(t, o) PROVE SaveInv'
  BY <1>4, ReleaseSaves, ModifySaves, MarkSaves, Zenon
<1>5. ASSUME NEW t \in Threads, Remove(t) PROVE SaveInv'
  BY <1>5, RemoveSaves, Zenon
<1>6. ASSUME NEW o \in Objs, ReleaseCollected(o) PROVE SaveInv'
  BY <1>6, ReleaseSaves, Zenon
<1>7. CASE Finish \/ \E o \in Objs : Consider(o)
  <2>1. UNCHANGED <<config, flags, staged, database, modified, toDelete, status>>
    BY <1>7, Zenon DEF Finish, Consider, maps, refs
  <2> QED
    BY <2>1, SameSaved, Zenon
<1>8. CASE FullSave \/ DeltaSave \/ Commit \/ Collect
  BY <1>8, FullSaveSaves, DeltaSaveSaves, CommitSaves, CollectSaves, Zenon
<1> QED
  BY <1>1, <1>2, <1>3, <1>4, <1>5, <1>6, <1>7, <1>8, Zenon DEF DirectoryNext, SaveStep

\* In saveMode a change or a mark that has not reached a save is in some thread's list, and
\* the list's reference keeps the object.
THEOREM SpecSaveInv == DirectorySpec => []SaveInv
BY InitSaveInv, NextSaveInv, SpecIInv, PTL DEF DirectorySpec

\* What has been collected has reached the database: its last version, or its deletion.
THEOREM SavedBeforeCollectedHolds == DirectorySpec => []SavedBeforeCollected
<1>1. IInv /\ SaveInv => SavedBeforeCollected
  <2> SUFFICES ASSUME IInv, SaveInv, saveMode, NEW o \in persistent, status[o] = "gone"
               PROVE  IF o \in marked THEN o \in deleted ELSE database[o] = memory[o]
    BY Zenon DEF SavedBeforeCollected
  <2>1. Saved(o) /\ o \in Objs
    BY Zenon DEF SaveInv, SavedInv, IInv, DirectoryTypeOK
  <2>2. Deleting(o) = {}
    BY <2>1, GoneUnlisted, Zenon
  <2> QED
    BY <2>1, <2>2, Zenon DEF Saved
<1> QED
  BY <1>1, SpecIInv, SpecSaveInv, PTL

LEMMA DeletedGrows ==
  ASSUME [DirectoryNext]_directoryVars
  PROVE  saveDeltas' = saveDeltas /\ deleted \subseteq deleted'
<1>1. CASE UNCHANGED directoryVars
  BY <1>1, Zenon DEF directoryVars, config, flags
<1>2. ASSUME NEW t \in Threads, NEW o \in Objs, NEW n \in Names, Deploy(t, o, n)
      PROVE  UNCHANGED <<saveDeltas, deleted>>
  BY <1>2, Zenon DEF Deploy, config
<1>3. ASSUME NEW t \in Threads, NEW o \in Objs, Unbind(t, o) \/ LookUp(t, o) \/ WeakGet(t, o) \/ Drop(t, o)
      PROVE  UNCHANGED <<saveDeltas, deleted>>
  BY <1>3, Zenon DEF Unbind, LookUp, WeakGet, Drop, config, flags
<1>4. ASSUME NEW t \in Threads, NEW o \in Objs, Modify(t, o) \/ MarkForDeletion(t, o)
      PROVE  UNCHANGED <<saveDeltas, deleted>>
  BY <1>4, Zenon DEF Modify, MarkForDeletion, config
<1>5. ASSUME NEW t \in Threads, Remove(t) PROVE UNCHANGED <<saveDeltas, deleted>>
  BY <1>5, Zenon DEF Remove, config, flags
<1>6. ASSUME NEW o \in Objs, ReleaseCollected(o) \/ Consider(o) PROVE UNCHANGED <<saveDeltas, deleted>>
  BY <1>6, Zenon DEF ReleaseCollected, Consider, config, flags
<1>7. CASE Commit \/ Collect \/ Finish
  BY <1>7, Zenon DEF Commit, Collect, Finish, config, flags
<1>8. CASE FullSave \/ DeltaSave
  BY <1>8, Zenon DEF FullSave, DeltaSave, config
<1> QED
  BY <1>1, <1>2, <1>3, <1>4, <1>5, <1>6, <1>7, <1>8, Zenon DEF DirectoryNext, SaveStep

\* With full saves what has been deleted from the database stays deleted.
THEOREM DeletedStaysDeletedHolds == DirectorySpec => DeletedStaysDeleted
<1>1. IInv /\ SaveInv /\ SaveInv' /\ [DirectoryNext]_directoryVars
        => [saveDeltas = 0 => \A o \in deleted : staged'[o] = 0]_directoryVars
  <2> SUFFICES ASSUME IInv, SaveInv', [DirectoryNext]_directoryVars, saveDeltas = 0, NEW o \in deleted
               PROVE  staged'[o] = 0
    OBVIOUS
  <2>1. saveDeltas' = saveDeltas /\ deleted \subseteq deleted'
    BY DeletedGrows, Zenon
  <2> QED
    BY <2>1, Zenon DEF SaveInv, DeletedInv
<1> QED
  BY <1>1, SpecIInv, SpecSaveInv, PTL DEF DirectorySpec, DeletedStaysDeleted
================================================================================
