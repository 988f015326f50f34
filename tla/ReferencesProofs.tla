---------------------------- MODULE ReferencesProofs ----------------------------
(***************************************************************************)
(* Proofs about References, for any number of References and               *)
(* WeakReferences and any odd width limit that the references do not       *)
(* reach: first the strong count and the object, then the weak count and   *)
(* the block.                                                              *)
(***************************************************************************)
EXTENDS References, FiniteSetTheorems, TLAPS

\* The References that the strong count counts, and the threads that destroy the object.
Holders == {r \in Refs : full[r] \/ pc[r] = "got"}
Destroying(r) == pc[r] \in {"clear", "destroy", "self"}
Dead == obj = "gone" \/ \E r \in Refs : Destroying(r)

\* The inductive invariant: while the object lives its count is two for each holder, and
\* there is one; afterwards the count is odd and there is none.
StrongInv ==
    /\ DestroyedOnce
    /\ \A r \in Refs : /\ pc[r] = "final" => full[r]
                       /\ Destroying(r) \/ pc[r] \in {"read", "counted", "strong", "got"} => ~full[r]
    /\ Dead => strong % 2 = 1 /\ Holders = {}
    /\ ~Dead => object /\ strong = 2 * Cardinality(Holders) /\ Holders # {}

IInv == TypeOK /\ StrongInv
--------------------------------------------------------------------------------
\* Sums of counts stay below the wrap as long as the holders are References.
LEMMA HoldersBound ==
  ASSUME NEW S \in SUBSET Refs
  PROVE  IsFiniteSet(S) /\ Cardinality(S) \in Nat /\ 2 * Cardinality(S) < MaxCount
<1>1. IsFiniteSet(S) /\ Cardinality(S) <= Cardinality(Refs)
  BY ReferencesAssumption, FS_Subset
<1>2. Cardinality(S) \in Nat /\ Cardinality(Refs) \in Nat /\ Cardinality(WeakRefs) \in Nat
  BY <1>1, ReferencesAssumption, FS_CardinalityType
<1> QED
  BY <1>1, <1>2, ReferencesAssumption

\* What increaseCount and decrementAndTestAndSet do to a count.
LEMMA Counting ==
  ASSUME NEW n \in 0..MaxCount
  PROVE  /\ Increased(n) \in 0..MaxCount /\ Decremented(n) \in 0..MaxCount
         /\ Increased(n) % 2 = n % 2
         /\ n % 2 = 1 => Decremented(n) % 2 = 1
         /\ n + 2 <= MaxCount => Increased(n) = n + 2
         /\ n > 2 => Decremented(n) = n - 2
         /\ n = 2 => Decremented(n) = 1
<1>1. MaxCount \in Nat /\ MaxCount % 2 = 1
  BY ReferencesAssumption
<1>2. Increased(n) \in 0..MaxCount /\ Increased(n) % 2 = n % 2
  BY <1>1 DEF Increased
<1>3. Decremented(n) \in 0..MaxCount /\ (n % 2 = 1 => Decremented(n) % 2 = 1)
  BY <1>1 DEF Decremented
<1>4. (n + 2 <= MaxCount => Increased(n) = n + 2) /\ (n > 2 => Decremented(n) = n - 2) /\ (n = 2 => Decremented(n) = 1)
  BY <1>1 DEF Increased, Decremented
<1> QED
  BY <1>2, <1>3, <1>4

\* One holder more: the count goes up by two.
LEMMA OneMore ==
  ASSUME NEW S \in SUBSET Refs, NEW r \in Refs, r \notin S
  PROVE  /\ Cardinality(S \cup {r}) = Cardinality(S) + 1 /\ Cardinality(S) \in Nat
         /\ 2 * Cardinality(S) + 2 <= MaxCount
<1>1. Cardinality(S \cup {r}) = Cardinality(S) + 1 /\ Cardinality(S) \in Nat
  BY HoldersBound, FS_AddElement
<1>2. 2 * Cardinality(S \cup {r}) < MaxCount
  BY HoldersBound
<1> QED
  BY <1>1, <1>2, ReferencesAssumption

\* One holder less: the count was two exactly if it was the only one.
LEMMA OneLess ==
  ASSUME NEW S \in SUBSET Refs, NEW r \in S
  PROVE  /\ Cardinality(S \ {r}) = Cardinality(S) - 1 /\ Cardinality(S) \in Nat \ {0}
         /\ 2 * Cardinality(S) < MaxCount
         /\ Cardinality(S) = 1 <=> S = {r}
<1>1. Cardinality(S \ {r}) = Cardinality(S) - 1
  BY HoldersBound, FS_RemoveElement
<1>2. IsFiniteSet(S \ {r}) /\ Cardinality(S \ {r}) \in Nat /\ Cardinality(S) \in Nat /\ 2 * Cardinality(S) < MaxCount
  BY HoldersBound
<1>3. Cardinality(S \ {r}) = 0 <=> S \ {r} = {}
  BY <1>2, FS_EmptySet
<1>4. S \ {r} = {} <=> S = {r}
  OBVIOUS
<1> QED
  BY <1>1, <1>2, <1>3, <1>4

\* The initial state satisfies the invariant.
LEMMA InitIInv == Init => IInv
<1> SUFFICES ASSUME Init PROVE IInv
  OBVIOUS
<1>1. PICK r \in Refs : full = [q \in Refs |-> q = r]
  BY DEF Init
<1>2. TypeOK
  <2>1. 2 \in 0..MaxCount
    <3>1. Cardinality(Refs) \in Nat /\ Cardinality(WeakRefs) \in Nat
      BY FS_CardinalityType, ReferencesAssumption
    <3> QED
      BY <3>1, ReferencesAssumption
  <2> QED
    BY <2>1, <1>1 DEF Init, TypeOK
<1>3. Holders = {r}
  BY <1>1 DEF Init, Holders
<1>4. Cardinality(Holders) = 1
  BY <1>3, FS_Singleton
<1>5. ~Dead /\ DestroyedOnce
  BY DEF Init, Dead, Destroying, DestroyedOnce
<1> QED
  BY <1>1, <1>2, <1>3, <1>4, <1>5 DEF Init, IInv, StrongInv, Destroying

\* Acquire keeps the invariant.
LEMMA AcquireIInv ==
  ASSUME NEW r \in Refs, NEW q \in Refs, IInv, Acquire(r, q)
  PROVE  IInv'
<1> USE DEF Acquire, Goto
<1>0. TypeOK /\ StrongInv /\ strong \in 0..MaxCount /\ weak \in 0..MaxCount
  BY DEF IInv, TypeOK
<1>1. TypeOK'
  BY <1>0, Counting, ReferencesAssumption DEF TypeOK, weakVars
<1>2. ~Dead /\ ~Dead' /\ DestroyedOnce'
  BY <1>0 DEF TypeOK, StrongInv, Holders, Dead, Destroying, DestroyedOnce
<1>3. Holders' = Holders \cup {r} /\ r \notin Holders /\ Holders \in SUBSET Refs
  BY <1>0 DEF TypeOK, Holders
<1>4. strong' = 2 * Cardinality(Holders')
  BY <1>0, <1>2, <1>3, OneMore, Counting DEF StrongInv
<1> QED
  BY <1>0, <1>1, <1>2, <1>3, <1>4 DEF IInv, StrongInv, TypeOK, Destroying

\* Release keeps the invariant.
LEMMA ReleaseIInv ==
  ASSUME NEW r \in Refs, IInv, Release(r)
  PROVE  IInv'
<1> USE DEF Release, Goto
<1>0. TypeOK /\ StrongInv /\ strong \in 0..MaxCount /\ weak \in 0..MaxCount
  BY DEF IInv, TypeOK
<1>1. TypeOK'
  BY <1>0, Counting, ReferencesAssumption DEF TypeOK, weakVars
<1>2. ~Dead /\ r \in Holders /\ Holders \in SUBSET Refs /\ Holders' = Holders \ {r}
  BY <1>0 DEF TypeOK, StrongInv, Holders
<1>3. /\ Cardinality(Holders') = Cardinality(Holders) - 1 /\ Cardinality(Holders) \in Nat \ {0}
      /\ 2 * Cardinality(Holders) < MaxCount /\ (Cardinality(Holders) = 1 <=> Holders = {r})
  BY <1>2, OneLess
<1>4. strong = 2 * Cardinality(Holders)
  BY <1>0, <1>2 DEF StrongInv
<1>5. CASE strong = 2
  <2>1. WasLast(strong) /\ strong' = 1
    BY <1>0, <1>5, Counting DEF WasLast
  <2>2. Holders' = {} /\ pc' = [pc EXCEPT ![r] = "clear"]
    BY <2>1, <1>2, <1>3, <1>4, <1>5
  <2>a. object /\ object'
    BY <1>0, <1>2 DEF StrongInv
  <2>3. Dead' /\ DestroyedOnce'
    BY <2>2, <2>a, <1>2, <1>0 DEF TypeOK, Dead, Destroying, DestroyedOnce
  <2> QED
    BY <2>1, <2>2, <2>3, <1>0, <1>1 DEF IInv, StrongInv, TypeOK, Destroying
<1>6. CASE strong # 2
  <2>1. strong > 2 /\ strong % 2 = 0 /\ strong' = strong - 2
    BY <1>0, <1>3, <1>4, <1>6, Counting
  <2>2. ~WasLast(strong)
    BY <2>1, <1>0, Counting DEF WasLast
  <2>3. pc' = [pc EXCEPT ![r] = "idle"] /\ Holders' # {} /\ strong' = 2 * Cardinality(Holders')
    BY <2>1, <2>2, <1>2, <1>3, <1>4
  <2>4. ~Dead' /\ DestroyedOnce'
    BY <2>3, <1>2, <1>0 DEF TypeOK, Dead, Destroying, DestroyedOnce
  <2>5. object'
    BY <1>0, <1>2 DEF StrongInv
  <2> QED
    BY <2>3, <2>4, <2>5, <1>0, <1>1 DEF IInv, StrongInv, TypeOK, Destroying
<1> QED
  BY <1>5, <1>6

\* TryFinalRelease keeps the invariant.
LEMMA TryFinalReleaseIInv ==
  ASSUME NEW r \in Refs, IInv, TryFinalRelease(r)
  PROVE  IInv'
<1> USE DEF TryFinalRelease, Goto
<1>0. TypeOK /\ StrongInv /\ strong \in 0..MaxCount /\ weak \in 0..MaxCount
  BY DEF IInv, TypeOK
<1>1. TypeOK'
  BY <1>0, Counting, ReferencesAssumption DEF TypeOK, weakVars
<1>2. Holders' = Holders /\ Dead' = Dead /\ DestroyedOnce'
  BY <1>0 DEF TypeOK, StrongInv, Holders, Dead, Destroying, DestroyedOnce
<1> QED
  BY <1>0, <1>1, <1>2 DEF IInv, StrongInv, TypeOK, Destroying

\* FinalDecrement keeps the invariant.
LEMMA FinalDecrementIInv ==
  ASSUME NEW r \in Refs, IInv, FinalDecrement(r)
  PROVE  IInv'
<1> USE DEF FinalDecrement, Goto
<1>0. TypeOK /\ StrongInv /\ strong \in 0..MaxCount /\ weak \in 0..MaxCount
  BY DEF IInv, TypeOK
<1>01. 1 \in 0..MaxCount
  BY ReferencesAssumption
<1>1. TypeOK'
  BY <1>0, <1>01 DEF TypeOK, weakVars
<1>a. CASE UNCHANGED strong
  <2>1. UNCHANGED <<strong, full>> /\ pc' = [pc EXCEPT ![r] = "idle"]
    BY <1>a, <1>0
  <2>2. Holders' = Holders /\ Dead' = Dead /\ DestroyedOnce'
    BY <2>1, <1>0 DEF TypeOK, StrongInv, Holders, Dead, Destroying, DestroyedOnce
  <2> QED
    BY <2>1, <2>2, <1>0, <1>1 DEF IInv, StrongInv, TypeOK, Destroying
<1>b. CASE strong = 2 /\ strong' = 1 /\ full' = [full EXCEPT ![r] = FALSE] /\ pc' = [pc EXCEPT ![r] = "clear"]
  <2>1. full[r] /\ ~Dead /\ r \in Holders /\ Holders \in SUBSET Refs
    BY <1>b, <1>0 DEF StrongInv, Holders, Dead, TypeOK
  <2>2. Holders = {r}
    <3>1. strong = 2 * Cardinality(Holders)
      BY <2>1, <1>0 DEF StrongInv
    <3>2. Cardinality(Holders) \in Nat \ {0} /\ (Cardinality(Holders) = 1 <=> Holders = {r})
      BY <2>1, OneLess
    <3> QED
      BY <3>1, <3>2, <1>b
  <2>3. Holders' = {} /\ Dead'
    BY <2>2, <1>b, <1>0 DEF TypeOK, Holders, Dead, Destroying
  <2>a. object /\ object'
    BY <1>0, <2>1 DEF StrongInv
  <2>4. DestroyedOnce'
    BY <2>1, <2>a, <1>b, <1>0 DEF TypeOK, Dead, Destroying, DestroyedOnce
  <2> QED
    BY <2>3, <2>4, <1>b, <1>0, <1>1 DEF IInv, StrongInv, TypeOK, Destroying
<1> QED
  BY <1>a, <1>b

\* ClearObject keeps the invariant.
LEMMA ClearObjectIInv ==
  ASSUME NEW r \in Refs, IInv, ClearObject(r)
  PROVE  IInv'
<1> USE DEF ClearObject, Goto
<1>0. TypeOK /\ StrongInv /\ strong \in 0..MaxCount /\ weak \in 0..MaxCount
  BY DEF IInv, TypeOK
<1>1. TypeOK'
  BY <1>0, Counting, ReferencesAssumption DEF TypeOK, weakVars
<1>2. Dead /\ strong % 2 = 1 /\ Holders = {}
  BY <1>0 DEF StrongInv, Dead, Destroying
<1>3. strong' % 2 = 1
  <2>1. Increased(strong) % 2 = strong % 2 /\ (strong % 2 = 1 => Decremented(strong) % 2 = 1)
    BY <1>0, Counting, Zenon
  <2> QED
    BY <1>2, <2>1, Zenon
<1>4. Holders' = {}
  BY <1>0, <1>2, Counting DEF TypeOK, Holders, WasLast
<1>5. Dead' /\ DestroyedOnce'
  BY <1>0, <1>2, Counting DEF TypeOK, StrongInv, Dead, Destroying, DestroyedOnce, WasLast
<1> QED
  BY <1>0, <1>1, <1>3, <1>4, <1>5 DEF IInv, StrongInv, TypeOK, Destroying

\* SelfAcquire keeps the invariant.
LEMMA SelfAcquireIInv ==
  ASSUME NEW r \in Refs, IInv, SelfAcquire(r)
  PROVE  IInv'
<1> USE DEF SelfAcquire, Goto
<1>0. TypeOK /\ StrongInv /\ strong \in 0..MaxCount /\ weak \in 0..MaxCount
  BY DEF IInv, TypeOK
<1>1. TypeOK'
  BY <1>0, Counting, ReferencesAssumption DEF TypeOK, weakVars
<1>2. Dead /\ strong % 2 = 1 /\ Holders = {}
  BY <1>0 DEF StrongInv, Dead, Destroying
<1>3. strong' % 2 = 1
  <2>1. Increased(strong) % 2 = strong % 2 /\ (strong % 2 = 1 => Decremented(strong) % 2 = 1)
    BY <1>0, Counting, Zenon
  <2> QED
    BY <1>2, <2>1, Zenon
<1>4. Holders' = {}
  BY <1>0, <1>2, Counting DEF TypeOK, Holders, WasLast
<1>5. Dead' /\ DestroyedOnce'
  BY <1>0, <1>2, Counting DEF TypeOK, StrongInv, Dead, Destroying, DestroyedOnce, WasLast
<1> QED
  BY <1>0, <1>1, <1>3, <1>4, <1>5 DEF IInv, StrongInv, TypeOK, Destroying

\* SelfRelease keeps the invariant.
LEMMA SelfReleaseIInv ==
  ASSUME NEW r \in Refs, IInv, SelfRelease(r)
  PROVE  IInv'
<1> USE DEF SelfRelease, Goto
<1>0. TypeOK /\ StrongInv /\ strong \in 0..MaxCount /\ weak \in 0..MaxCount
  BY DEF IInv, TypeOK
<1>1. TypeOK'
  BY <1>0, Counting, ReferencesAssumption DEF TypeOK, weakVars
<1>2. Dead /\ strong % 2 = 1 /\ Holders = {}
  BY <1>0 DEF StrongInv, Dead, Destroying
<1>3. strong' % 2 = 1
  <2>1. Increased(strong) % 2 = strong % 2 /\ (strong % 2 = 1 => Decremented(strong) % 2 = 1)
    BY <1>0, Counting, Zenon
  <2> QED
    BY <1>2, <2>1, Zenon
<1>4. Holders' = {}
  BY <1>0, <1>2, Counting DEF TypeOK, Holders, WasLast
<1>5. Dead' /\ DestroyedOnce'
  BY <1>0, <1>2, Counting DEF TypeOK, StrongInv, Dead, Destroying, DestroyedOnce, WasLast
<1> QED
  BY <1>0, <1>1, <1>3, <1>4, <1>5 DEF IInv, StrongInv, TypeOK, Destroying

\* Destruct keeps the invariant.
LEMMA DestructIInv ==
  ASSUME NEW r \in Refs, IInv, Destruct(r)
  PROVE  IInv'
<1> USE DEF Destruct, Goto, ReleaseBlock
<1>0. TypeOK /\ StrongInv /\ strong \in 0..MaxCount /\ weak \in 0..MaxCount
  BY DEF IInv, TypeOK
<1>1. TypeOK'
  BY <1>0, Counting, ReferencesAssumption DEF TypeOK, weakVars
<1>2. Dead /\ strong % 2 = 1 /\ Holders = {}
  BY <1>0 DEF StrongInv, Dead, Destroying
<1>3. strong' % 2 = 1
  <2>1. Increased(strong) % 2 = strong % 2 /\ (strong % 2 = 1 => Decremented(strong) % 2 = 1)
    BY <1>0, Counting, Zenon
  <2> QED
    BY <1>2, <2>1, Zenon
<1>4. Holders' = {}
  BY <1>0, <1>2, Counting DEF TypeOK, Holders, WasLast
<1>5. Dead' /\ DestroyedOnce'
  BY <1>0, <1>2, Counting DEF TypeOK, StrongInv, Dead, Destroying, DestroyedOnce, WasLast
<1> QED
  BY <1>0, <1>1, <1>3, <1>4, <1>5 DEF IInv, StrongInv, TypeOK, Destroying

\* ReadSlot keeps the invariant.
LEMMA ReadSlotIInv ==
  ASSUME NEW r \in Refs, NEW w \in WeakRefs, IInv, ReadSlot(r, w)
  PROVE  IInv'
<1> USE DEF ReadSlot, Goto
<1>0. TypeOK /\ StrongInv /\ strong \in 0..MaxCount /\ weak \in 0..MaxCount
  BY DEF IInv, TypeOK
<1>1. TypeOK'
  BY <1>0, Counting, ReferencesAssumption DEF TypeOK, weakVars
<1>2. Holders' = Holders /\ Dead' = Dead /\ DestroyedOnce'
  BY <1>0 DEF TypeOK, StrongInv, Holders, Dead, Destroying, DestroyedOnce
<1> QED
  BY <1>0, <1>1, <1>2 DEF IInv, StrongInv, TypeOK, Destroying

\* IncreaseWeak keeps the invariant.
LEMMA IncreaseWeakIInv ==
  ASSUME NEW r \in Refs, IInv, IncreaseWeak(r)
  PROVE  IInv'
<1> USE DEF IncreaseWeak, Goto
<1>0. TypeOK /\ StrongInv /\ strong \in 0..MaxCount /\ weak \in 0..MaxCount
  BY DEF IInv, TypeOK
<1>1. TypeOK'
  BY <1>0, Counting, ReferencesAssumption DEF TypeOK, weakVars
<1>2. Holders' = Holders /\ Dead' = Dead /\ DestroyedOnce'
  BY <1>0 DEF TypeOK, StrongInv, Holders, Dead, Destroying, DestroyedOnce
<1> QED
  BY <1>0, <1>1, <1>2 DEF IInv, StrongInv, TypeOK, Destroying

\* ReadAgain keeps the invariant.
LEMMA ReadAgainIInv ==
  ASSUME NEW r \in Refs, IInv, ReadAgain(r)
  PROVE  IInv'
<1> USE DEF ReadAgain, Goto
<1>0. TypeOK /\ StrongInv /\ strong \in 0..MaxCount /\ weak \in 0..MaxCount
  BY DEF IInv, TypeOK
<1>1. TypeOK'
  BY <1>0, Counting, ReferencesAssumption DEF TypeOK, weakVars
<1>2. Holders' = Holders /\ Dead' = Dead /\ DestroyedOnce'
  BY <1>0 DEF TypeOK, StrongInv, Holders, Dead, Destroying, DestroyedOnce
<1> QED
  BY <1>0, <1>1, <1>2 DEF IInv, StrongInv, TypeOK, Destroying

\* IncreaseStrong keeps the invariant.
LEMMA IncreaseStrongIInv ==
  ASSUME NEW r \in Refs, IInv, IncreaseStrong(r)
  PROVE  IInv'
<1> USE DEF IncreaseStrong, Goto
<1>0. TypeOK /\ StrongInv /\ strong \in 0..MaxCount /\ weak \in 0..MaxCount
  BY DEF IInv, TypeOK
<1>1. TypeOK'
  BY <1>0, Counting, ReferencesAssumption DEF TypeOK, weakVars
<1>2. strong' % 2 = strong % 2
  BY <1>0, Counting
<1>3. Dead' = Dead /\ DestroyedOnce'
  BY <1>0 DEF TypeOK, StrongInv, Dead, Destroying, DestroyedOnce
<1>4. CASE Dead
  <2>1. Holders' = {} /\ strong' % 2 = 1
    BY <1>4, <1>0, <1>2 DEF TypeOK, StrongInv, Holders
  <2> QED
    BY <2>1, <1>4, <1>0, <1>1, <1>3 DEF IInv, StrongInv, TypeOK, Destroying
<1>5. CASE ~Dead
  <2>1. strong = 2 * Cardinality(Holders) /\ Holders \in SUBSET Refs /\ r \notin Holders
    BY <1>5, <1>0 DEF StrongInv, Holders
  <2>2. Cardinality(Holders) \in Nat /\ Cardinality(Holders \cup {r}) = Cardinality(Holders) + 1 /\ 2 * Cardinality(Holders) + 2 <= MaxCount
    BY <2>1, OneMore
  <2>3. strong' = strong + 2 /\ strong' % 2 = 0
    BY <2>1, <2>2, <1>0, <1>2, Counting
  <2>4. Holders' = Holders \cup {r}
    BY <2>3, <1>0 DEF TypeOK, Holders
  <2> QED
    BY <2>1, <2>2, <2>3, <2>4, <1>5, <1>0, <1>1, <1>3 DEF IInv, StrongInv, TypeOK, Destroying
<1> QED
  BY <1>4, <1>5

\* GetObject keeps the invariant.
LEMMA GetObjectIInv ==
  ASSUME NEW r \in Refs, IInv, GetObject(r)
  PROVE  IInv'
<1> USE DEF GetObject, Goto
<1>0. TypeOK /\ StrongInv /\ strong \in 0..MaxCount /\ weak \in 0..MaxCount
  BY DEF IInv, TypeOK
<1>1. TypeOK'
  BY <1>0, Counting, ReferencesAssumption DEF TypeOK, weakVars
<1>2. ~Dead /\ object
  BY <1>0 DEF StrongInv, Holders
<1>3. Holders' = Holders /\ ~Dead' /\ DestroyedOnce'
  BY <1>2, <1>0 DEF TypeOK, StrongInv, Holders, Dead, Destroying, DestroyedOnce
<1> QED
  BY <1>0, <1>1, <1>2, <1>3 DEF IInv, StrongInv, TypeOK, Destroying

\* DropBlock keeps the invariant.
LEMMA DropBlockIInv ==
  ASSUME NEW r \in Refs, IInv, DropBlock(r)
  PROVE  IInv'
<1> USE DEF DropBlock, Goto, ReleaseBlock
<1>0. TypeOK /\ StrongInv /\ strong \in 0..MaxCount /\ weak \in 0..MaxCount
  BY DEF IInv, TypeOK
<1>1. TypeOK'
  BY <1>0, Counting, ReferencesAssumption DEF TypeOK, weakVars
<1>2. Holders' = Holders /\ Dead' = Dead /\ DestroyedOnce'
  BY <1>0 DEF TypeOK, StrongInv, Holders, Dead, Destroying, DestroyedOnce
<1> QED
  BY <1>0, <1>1, <1>2 DEF IInv, StrongInv, TypeOK, Destroying

\* UpdateObject keeps the invariant.
LEMMA UpdateObjectIInv ==
  ASSUME NEW r \in Refs, NEW w \in WeakRefs, IInv, UpdateObject(r, w)
  PROVE  IInv'
<1> USE DEF UpdateObject, Goto
<1>0. TypeOK /\ StrongInv /\ strong \in 0..MaxCount /\ weak \in 0..MaxCount
  BY DEF IInv, TypeOK
<1>1. TypeOK'
  BY <1>0, Counting, ReferencesAssumption DEF TypeOK, weakVars
<1>2. Holders' = Holders /\ Dead' = Dead /\ DestroyedOnce'
  BY <1>0 DEF TypeOK, StrongInv, Holders, Dead, Destroying, DestroyedOnce
<1> QED
  BY <1>0, <1>1, <1>2 DEF IInv, StrongInv, TypeOK, Destroying

\* NewRef keeps the invariant.
LEMMA NewRefIInv ==
  ASSUME NEW r \in Refs, IInv, NewRef(r)
  PROVE  IInv'
<1> USE DEF NewRef, Goto
<1>0. TypeOK /\ StrongInv /\ strong \in 0..MaxCount /\ weak \in 0..MaxCount
  BY DEF IInv, TypeOK
<1>1. TypeOK'
  BY <1>0, Counting, ReferencesAssumption DEF TypeOK, weakVars
<1>2. Holders' = Holders /\ Dead' = Dead /\ DestroyedOnce'
  BY <1>0 DEF TypeOK, StrongInv, Holders, Dead, Destroying, DestroyedOnce
<1> QED
  BY <1>0, <1>1, <1>2 DEF IInv, StrongInv, TypeOK, Destroying

\* ReadOld keeps the invariant.
LEMMA ReadOldIInv ==
  ASSUME NEW r \in Refs, IInv, ReadOld(r)
  PROVE  IInv'
<1> USE DEF ReadOld, Goto
<1>0. TypeOK /\ StrongInv /\ strong \in 0..MaxCount /\ weak \in 0..MaxCount
  BY DEF IInv, TypeOK
<1>1. TypeOK'
  BY <1>0, Counting, ReferencesAssumption DEF TypeOK, weakVars
<1>2. Holders' = Holders /\ Dead' = Dead /\ DestroyedOnce'
  BY <1>0 DEF TypeOK, StrongInv, Holders, Dead, Destroying, DestroyedOnce
<1> QED
  BY <1>0, <1>1, <1>2 DEF IInv, StrongInv, TypeOK, Destroying

\* SetSlot keeps the invariant.
LEMMA SetSlotIInv ==
  ASSUME NEW r \in Refs, IInv, SetSlot(r)
  PROVE  IInv'
<1> USE DEF SetSlot, Goto
<1>0. TypeOK /\ StrongInv /\ strong \in 0..MaxCount /\ weak \in 0..MaxCount
  BY DEF IInv, TypeOK
<1>1. TypeOK'
  BY <1>0, Counting, ReferencesAssumption DEF TypeOK, weakVars
<1>2. Holders' = Holders /\ Dead' = Dead /\ DestroyedOnce'
  BY <1>0 DEF TypeOK, StrongInv, Holders, Dead, Destroying, DestroyedOnce
<1> QED
  BY <1>0, <1>1, <1>2 DEF IInv, StrongInv, TypeOK, Destroying

\* DropRead keeps the invariant.
LEMMA DropReadIInv ==
  ASSUME NEW r \in Refs, IInv, DropRead(r)
  PROVE  IInv'
<1> USE DEF DropRead, Goto, ReleaseBlock
<1>0. TypeOK /\ StrongInv /\ strong \in 0..MaxCount /\ weak \in 0..MaxCount
  BY DEF IInv, TypeOK
<1>1. TypeOK'
  BY <1>0, Counting, ReferencesAssumption DEF TypeOK, weakVars
<1>2. Holders' = Holders /\ Dead' = Dead /\ DestroyedOnce'
  BY <1>0 DEF TypeOK, StrongInv, Holders, Dead, Destroying, DestroyedOnce
<1> QED
  BY <1>0, <1>1, <1>2 DEF IInv, StrongInv, TypeOK, Destroying

\* DropOld keeps the invariant.
LEMMA DropOldIInv ==
  ASSUME NEW r \in Refs, IInv, DropOld(r)
  PROVE  IInv'
<1> USE DEF DropOld, Goto, ReleaseBlock
<1>0. TypeOK /\ StrongInv /\ strong \in 0..MaxCount /\ weak \in 0..MaxCount
  BY DEF IInv, TypeOK
<1>1. TypeOK'
  BY <1>0, Counting, ReferencesAssumption DEF TypeOK, weakVars
<1>2. Holders' = Holders /\ Dead' = Dead /\ DestroyedOnce'
  BY <1>0 DEF TypeOK, StrongInv, Holders, Dead, Destroying, DestroyedOnce
<1> QED
  BY <1>0, <1>1, <1>2 DEF IInv, StrongInv, TypeOK, Destroying

\* Every step keeps the invariant.
LEMMA NextIInv == IInv /\ [Next]_vars => IInv'
<1> SUFFICES ASSUME IInv, [Next]_vars PROVE IInv'
  OBVIOUS
<1>1. CASE Next
  <2> PICK r \in Refs : Step(r)
    BY <1>1 DEF Next
  <2> QED
    BY AcquireIInv, ReleaseIInv, TryFinalReleaseIInv, FinalDecrementIInv, ClearObjectIInv, SelfAcquireIInv, SelfReleaseIInv, DestructIInv, ReadSlotIInv, IncreaseWeakIInv, ReadAgainIInv, IncreaseStrongIInv, GetObjectIInv, DropBlockIInv, UpdateObjectIInv, NewRefIInv, ReadOldIInv, SetSlotIInv, DropReadIInv, DropOldIInv DEF Step
<1>2. CASE UNCHANGED vars
  <2>1. TypeOK' /\ Holders' = Holders /\ Dead' = Dead /\ DestroyedOnce'
    BY <1>2 DEF IInv, StrongInv, TypeOK, vars, Holders, Dead, Destroying, DestroyedOnce
  <2> QED
    BY <1>2, <2>1 DEF IInv, StrongInv, vars, Destroying
<1> QED
  BY <1>1, <1>2

\* The invariant holds throughout.
THEOREM SpecIInv == Spec => []IInv
<1> QED
  BY InitIInv, NextIInv, PTL DEF Spec

\* A Reference, however it was made, points to an object that exists.
THEOREM SpecRefsAlive == Spec => []RefsAlive
<1>1. IInv => RefsAlive
  <2> SUFFICES ASSUME IInv, NEW r \in Refs, full[r] \/ pc[r] = "got"
               PROVE  obj = "live" /\ object /\ strong % 2 = 0
    BY DEF RefsAlive
  <2>1. ~Dead /\ object /\ strong = 2 * Cardinality(Holders)
    BY DEF IInv, StrongInv, Holders
  <2>2. strong % 2 = 0
    BY <2>1, HoldersBound DEF Holders
  <2> QED
    BY <2>1, <2>2 DEF Dead, IInv, TypeOK
<1> QED
  BY <1>1, SpecIInv, PTL

\* The object is destroyed at most once.
THEOREM SpecDestroyedOnce == Spec => []DestroyedOnce
<1>1. IInv => DestroyedOnce
  BY DEF IInv, StrongInv
<1> QED
  BY <1>1, SpecIInv, PTL
--------------------------------------------------------------------------------
(***************************************************************************)
(* The weak count and the block.                                           *)
(***************************************************************************)

\* What the weak count counts besides the object: the WeakReferences that point to the block,
\* the threads that hold the block get read, the new block or the replaced one, and those
\* that hold the old block once more, because safeRead counted it.
Pointing == {w \in WeakRefs : slot[w]}
Holding == {r \in Refs : \/ pc[r] \in {"counted", "strong", "got", "drop", "dropRead", "dropOld"}
                         \/ pc[r] \in {"swap", "set"} /\ assigned[r]}
HoldingOld == {r \in Refs : pc[r] = "dropRead" \/ (pc[r] = "set" /\ slot[weakRef[r]])}

Live == IF obj = "live" THEN 1 ELSE 0
Units == Live + Cardinality(Pointing) + Cardinality(Holding) + Cardinality(HoldingOld)

\* Nobody else uses a WeakReference that is assigned to; what get read is still there; and a
\* thread that assigns the object refers to it.
PlaceInv ==
    /\ \A r, q \in Refs :
          r # q /\ pc[r] \in {"assign", "swap", "set"} /\ pc[q] \in {"read", "counted", "assign", "swap", "set"}
             => weakRef[r] # weakRef[q]
    /\ \A r \in Refs : /\ pc[r] \in {"read", "counted"} => slot[weakRef[r]]
                       /\ pc[r] = "assign" => full[r] /\ assigned[r]

\* The block exists as long as something is counted, and the count is two for each.
CountInv == (block <=> Units > 0) /\ (block => weak = 2 * Units)

WeakInv == PlaceInv /\ CountInv

\* The three sets are finite, and all units together stay below the wrap.
LEMMA UnitsBound ==
  ASSUME NEW W \in SUBSET WeakRefs, NEW R \in SUBSET Refs, NEW Q \in SUBSET Refs, NEW l \in {0, 1}
  PROVE  /\ IsFiniteSet(W) /\ IsFiniteSet(R) /\ IsFiniteSet(Q)
         /\ Cardinality(W) \in Nat /\ Cardinality(R) \in Nat /\ Cardinality(Q) \in Nat
         /\ 2 * (l + Cardinality(W) + Cardinality(R) + Cardinality(Q)) < MaxCount
<1>1. /\ IsFiniteSet(W) /\ Cardinality(W) <= Cardinality(WeakRefs)
      /\ IsFiniteSet(R) /\ Cardinality(R) <= Cardinality(Refs)
      /\ IsFiniteSet(Q) /\ Cardinality(Q) <= Cardinality(Refs)
  BY ReferencesAssumption, FS_Subset
<1>2. /\ Cardinality(W) \in Nat /\ Cardinality(R) \in Nat /\ Cardinality(Q) \in Nat
      /\ Cardinality(Refs) \in Nat /\ Cardinality(WeakRefs) \in Nat
  BY <1>1, ReferencesAssumption, FS_CardinalityType
<1> QED
  BY <1>1, <1>2, ReferencesAssumption

\* The units of a state: a number below the wrap, zero exactly if nobody reaches the block.
LEMMA UnitsType ==
  /\ Units \in Nat /\ 2 * Units < MaxCount /\ Live \in {0, 1}
  /\ Cardinality(Pointing) \in Nat /\ Cardinality(Holding) \in Nat /\ Cardinality(HoldingOld) \in Nat
  /\ Units = 0 <=> obj # "live" /\ Pointing = {} /\ Holding = {} /\ HoldingOld = {}
<1>1. Pointing \in SUBSET WeakRefs /\ Holding \in SUBSET Refs /\ HoldingOld \in SUBSET Refs /\ Live \in {0, 1}
  BY DEF Pointing, Holding, HoldingOld, Live
<1>2. /\ IsFiniteSet(Pointing) /\ IsFiniteSet(Holding) /\ IsFiniteSet(HoldingOld)
      /\ Cardinality(Pointing) \in Nat /\ Cardinality(Holding) \in Nat /\ Cardinality(HoldingOld) \in Nat
      /\ 2 * (Live + Cardinality(Pointing) + Cardinality(Holding) + Cardinality(HoldingOld)) < MaxCount
  BY <1>1, UnitsBound
<1>3. /\ Cardinality(Pointing) = 0 <=> Pointing = {}
      /\ Cardinality(Holding) = 0 <=> Holding = {}
      /\ Cardinality(HoldingOld) = 0 <=> HoldingOld = {}
  BY <1>2, FS_EmptySet
<1>4. Live = 0 <=> obj # "live"
  BY DEF Live
<1>5. Units \in Nat /\ 2 * Units < MaxCount
  BY <1>1, <1>2 DEF Units
<1>6. Units = 0 <=> Live = 0 /\ Cardinality(Pointing) = 0 /\ Cardinality(Holding) = 0 /\ Cardinality(HoldingOld) = 0
  <2>1. Live \in Nat /\ Cardinality(Pointing) \in Nat /\ Cardinality(Holding) \in Nat /\ Cardinality(HoldingOld) \in Nat
    BY <1>1, <1>2
  <2>2. Units = Live + Cardinality(Pointing) + Cardinality(Holding) + Cardinality(HoldingOld)
    BY DEF Units
  <2>3. Units >= Live /\ Units >= Cardinality(Pointing) /\ Units >= Cardinality(Holding) /\ Units >= Cardinality(HoldingOld)
    BY <2>1, <2>2
  <2> QED
    BY <2>1, <2>2, <2>3
<1>7. Units = 0 <=> obj # "live" /\ Pointing = {} /\ Holding = {} /\ HoldingOld = {}
  BY <1>3, <1>4, <1>6
<1> QED
  BY <1>1, <1>2, <1>5, <1>7

\* Counting the block once more.
LEMMA UnitAdded ==
  ASSUME TypeOK, CountInv, Units > 0, Units' = Units + 1, weak' = Increased(weak), block' = block
  PROVE  CountInv'
<1>a. Pointing' \in SUBSET WeakRefs /\ Holding' \in SUBSET Refs /\ HoldingOld' \in SUBSET Refs /\ Live' \in {0, 1}
  BY DEF Pointing, Holding, HoldingOld, Live
<1>b. 2 * (Live' + Cardinality(Pointing') + Cardinality(Holding') + Cardinality(HoldingOld')) < MaxCount
  BY <1>a, UnitsBound
<1>c. 2 * Units' < MaxCount
  BY <1>b DEF Units
<1>1. block /\ weak = 2 * Units /\ weak \in 0..MaxCount /\ Units \in Nat
  BY UnitsType DEF CountInv, TypeOK
<1>2. weak + 2 <= MaxCount
  BY <1>1, <1>c, ReferencesAssumption
<1>3. MaxCount \in Nat
  BY ReferencesAssumption
<1>4. ~(weak + 2 > MaxCount)
  BY <1>1, <1>2, <1>3
<1>5. weak' = weak + 2
  BY <1>4 DEF Increased
<1> QED
  BY <1>1, <1>5 DEF CountInv

\* Releasing it: the block is deleted with the last unit.
LEMMA UnitDropped ==
  ASSUME TypeOK, CountInv, Units > 0, Units' = Units - 1, ReleaseBlock
  PROVE  CountInv' /\ (WasLast(weak) <=> Units = 1)
<1>1. block /\ weak = 2 * Units /\ weak \in 0..MaxCount /\ Units \in Nat
  BY UnitsType DEF CountInv, TypeOK
<1>2. CASE Units = 1
  <2>1. WasLast(weak)
    BY <1>1, <1>2, Counting DEF WasLast
  <2> QED
    BY <1>1, <1>2, <2>1 DEF CountInv, ReleaseBlock
<1>3. CASE Units # 1
  <2>1. weak' = weak - 2 /\ weak > 2
    BY <1>1, <1>3, Counting DEF ReleaseBlock
  <2>2. Decremented(weak) = weak - 2
    BY <2>1 DEF ReleaseBlock
  <2>3. ~WasLast(weak)
    BY <1>1, <2>1, <2>2 DEF WasLast
  <2> QED
    BY <1>1, <1>3, <2>1, <2>3 DEF CountInv, ReleaseBlock
<1> QED
  BY <1>2, <1>3

\* Adding and removing one element of the sets that are counted.
LEMMA OneUnit ==
  ASSUME NEW S, IsFiniteSet(S), NEW x
  PROVE  /\ x \notin S => Cardinality(S \cup {x}) = Cardinality(S) + 1
         /\ x \in S => Cardinality(S \ {x}) = Cardinality(S) - 1
         /\ Cardinality(S) \in Nat
BY FS_AddElement, FS_RemoveElement, FS_CardinalityType
\* A step that leaves the counted sets, the count and the block alone keeps the count right.
LEMMA SameUnits ==
  ASSUME CountInv, weak' = weak, block' = block, obj' = obj,
         Pointing' = Pointing, Holding' = Holding, HoldingOld' = HoldingOld
  PROVE  CountInv'
<1>1. Live' = Live
  BY DEF Live
<1>2. Units' = Units
  BY <1>1 DEF Units
<1> QED
  BY <1>2 DEF CountInv

\* One thread more, or less, that holds a block; the same for the old block.
LEMMA HoldingSteps ==
  ASSUME obj' = obj, Pointing' = Pointing, NEW r \in Refs
  PROVE  /\ Holding' = Holding \cup {r} /\ r \notin Holding /\ HoldingOld' = HoldingOld => Units' = Units + 1
         /\ HoldingOld' = HoldingOld \cup {r} /\ r \notin HoldingOld /\ Holding' = Holding => Units' = Units + 1
         /\ Holding' = Holding \ {r} /\ r \in Holding /\ HoldingOld' = HoldingOld => Units' = Units - 1 /\ Units > 0
         /\ HoldingOld' = HoldingOld \ {r} /\ r \in HoldingOld /\ Holding' = Holding => Units' = Units - 1 /\ Units > 0
<1>1. Live' = Live
  BY DEF Live
<1>2. /\ Live \in Nat /\ Cardinality(Pointing) \in Nat /\ Cardinality(Holding) \in Nat /\ Cardinality(HoldingOld) \in Nat
      /\ (Units = 0 <=> obj # "live" /\ Pointing = {} /\ Holding = {} /\ HoldingOld = {}) /\ Units \in Nat
  BY UnitsType
<1>3. IsFiniteSet(Holding) /\ IsFiniteSet(HoldingOld)
  BY HoldersBound DEF Holding, HoldingOld
<1>4. ASSUME Holding' = Holding \cup {r}, r \notin Holding, HoldingOld' = HoldingOld PROVE Units' = Units + 1
  <2>1. Cardinality(Holding') = Cardinality(Holding) + 1
    BY <1>3, <1>4, OneUnit
  <2> QED
    BY <1>1, <1>2, <1>4, <2>1 DEF Units
<1>5. ASSUME HoldingOld' = HoldingOld \cup {r}, r \notin HoldingOld, Holding' = Holding PROVE Units' = Units + 1
  <2>1. Cardinality(HoldingOld') = Cardinality(HoldingOld) + 1
    BY <1>3, <1>5, OneUnit
  <2> QED
    BY <1>1, <1>2, <1>5, <2>1 DEF Units
<1>6. ASSUME Holding' = Holding \ {r}, r \in Holding, HoldingOld' = HoldingOld PROVE Units' = Units - 1 /\ Units > 0
  <2>1. Cardinality(Holding') = Cardinality(Holding) - 1
    BY <1>3, <1>6, OneUnit
  <2>2. Units' = Units - 1
    BY <1>1, <1>2, <1>6, <2>1 DEF Units
  <2> QED
    BY <1>2, <1>6, <2>2
<1>7. ASSUME HoldingOld' = HoldingOld \ {r}, r \in HoldingOld, Holding' = Holding PROVE Units' = Units - 1 /\ Units > 0
  <2>1. Cardinality(HoldingOld') = Cardinality(HoldingOld) - 1
    BY <1>3, <1>7, OneUnit
  <2>2. Units' = Units - 1
    BY <1>1, <1>2, <1>7, <2>1 DEF Units
  <2> QED
    BY <1>2, <1>7, <2>2
<1> QED
  BY <1>4, <1>5, <1>6, <1>7

\* A copy of a Reference keeps the weak count right.
LEMMA AcquireWeakInv ==
  ASSUME NEW r \in Refs, NEW q \in Refs, IInv, WeakInv, Acquire(r, q)
  PROVE  WeakInv'
<1> USE DEF Acquire, Goto
<1>0. TypeOK /\ PlaceInv /\ CountInv
  BY DEF IInv, WeakInv
<1>1. PlaceInv'
  BY <1>0 DEF TypeOK, PlaceInv, weakVars
<1>2. Pointing' = Pointing /\ Holding' = Holding /\ HoldingOld' = HoldingOld
  BY <1>0 DEF TypeOK, Pointing, Holding, HoldingOld, weakVars
<1> QED
  BY <1>0, <1>1, <1>2, SameUnits DEF WeakInv, weakVars

\* Release keeps the weak count right.
LEMMA ReleaseWeakInv ==
  ASSUME NEW r \in Refs, IInv, WeakInv, Release(r)
  PROVE  WeakInv'
<1> USE DEF Release, Goto
<1>0. TypeOK /\ PlaceInv /\ CountInv
  BY DEF IInv, WeakInv
<1>1. PlaceInv'
  BY <1>0 DEF TypeOK, PlaceInv, weakVars
<1>2. Pointing' = Pointing /\ Holding' = Holding /\ HoldingOld' = HoldingOld
  BY <1>0 DEF TypeOK, Pointing, Holding, HoldingOld, weakVars
<1> QED
  BY <1>0, <1>1, <1>2, SameUnits DEF WeakInv, weakVars

\* The look of tryFinalRelease keeps the weak count right.
LEMMA TryFinalReleaseWeakInv ==
  ASSUME NEW r \in Refs, IInv, WeakInv, TryFinalRelease(r)
  PROVE  WeakInv'
<1> USE DEF TryFinalRelease, Goto
<1>0. TypeOK /\ PlaceInv /\ CountInv
  BY DEF IInv, WeakInv
<1>1. PlaceInv'
  BY <1>0 DEF TypeOK, PlaceInv, weakVars
<1>2. Pointing' = Pointing /\ Holding' = Holding /\ HoldingOld' = HoldingOld
  BY <1>0 DEF TypeOK, Pointing, Holding, HoldingOld, weakVars
<1> QED
  BY <1>0, <1>1, <1>2, SameUnits DEF WeakInv, weakVars

\* tryFinalDecrement keeps the weak count right.
LEMMA FinalDecrementWeakInv ==
  ASSUME NEW r \in Refs, IInv, WeakInv, FinalDecrement(r)
  PROVE  WeakInv'
<1> USE DEF FinalDecrement, Goto
<1>0. TypeOK /\ PlaceInv /\ CountInv
  BY DEF IInv, WeakInv
<1>1. PlaceInv'
  BY <1>0 DEF TypeOK, PlaceInv, weakVars
<1>2. Pointing' = Pointing /\ Holding' = Holding /\ HoldingOld' = HoldingOld
  BY <1>0 DEF TypeOK, Pointing, Holding, HoldingOld, weakVars
<1> QED
  BY <1>0, <1>1, <1>2, SameUnits DEF WeakInv, weakVars

\* Clearing the object pointer keeps the weak count right.
LEMMA ClearObjectWeakInv ==
  ASSUME NEW r \in Refs, IInv, WeakInv, ClearObject(r)
  PROVE  WeakInv'
<1> USE DEF ClearObject, Goto
<1>0. TypeOK /\ PlaceInv /\ CountInv
  BY DEF IInv, WeakInv
<1>1. PlaceInv'
  BY <1>0 DEF TypeOK, PlaceInv, weakVars
<1>2. Pointing' = Pointing /\ Holding' = Holding /\ HoldingOld' = HoldingOld
  BY <1>0 DEF TypeOK, Pointing, Holding, HoldingOld, weakVars
<1> QED
  BY <1>0, <1>1, <1>2, SameUnits DEF WeakInv, weakVars

\* A reference taken by the destructor keeps the weak count right.
LEMMA SelfAcquireWeakInv ==
  ASSUME NEW r \in Refs, IInv, WeakInv, SelfAcquire(r)
  PROVE  WeakInv'
<1> USE DEF SelfAcquire, Goto
<1>0. TypeOK /\ PlaceInv /\ CountInv
  BY DEF IInv, WeakInv
<1>1. PlaceInv'
  BY <1>0 DEF TypeOK, PlaceInv, weakVars
<1>2. Pointing' = Pointing /\ Holding' = Holding /\ HoldingOld' = HoldingOld
  BY <1>0 DEF TypeOK, Pointing, Holding, HoldingOld, weakVars
<1> QED
  BY <1>0, <1>1, <1>2, SameUnits DEF WeakInv, weakVars

\* A reference dropped by the destructor keeps the weak count right.
LEMMA SelfReleaseWeakInv ==
  ASSUME NEW r \in Refs, IInv, WeakInv, SelfRelease(r)
  PROVE  WeakInv'
<1> USE DEF SelfRelease, Goto
<1>0. TypeOK /\ PlaceInv /\ CountInv
  BY DEF IInv, WeakInv
<1>1. PlaceInv'
  BY <1>0 DEF TypeOK, PlaceInv, weakVars
<1>2. Pointing' = Pointing /\ Holding' = Holding /\ HoldingOld' = HoldingOld
  BY <1>0 DEF TypeOK, Pointing, Holding, HoldingOld, weakVars
<1> QED
  BY <1>0, <1>1, <1>2, SameUnits DEF WeakInv, weakVars

\* The first read of safeRead keeps the weak count right.
LEMMA ReadSlotWeakInv ==
  ASSUME NEW r \in Refs, NEW w \in WeakRefs, IInv, WeakInv, ReadSlot(r, w)
  PROVE  WeakInv'
<1> USE DEF ReadSlot, Goto
<1>0. TypeOK /\ PlaceInv /\ CountInv
  BY DEF IInv, WeakInv
<1>1. PlaceInv'
  BY <1>0 DEF TypeOK, PlaceInv, weakVars, Assigning
<1>2. Pointing' = Pointing /\ Holding' = Holding /\ HoldingOld' = HoldingOld
  BY <1>0 DEF TypeOK, Pointing, Holding, HoldingOld, weakVars
<1> QED
  BY <1>0, <1>1, <1>2, SameUnits DEF WeakInv, weakVars

\* The second read of safeRead keeps the weak count right.
LEMMA ReadAgainWeakInv ==
  ASSUME NEW r \in Refs, IInv, WeakInv, ReadAgain(r)
  PROVE  WeakInv'
<1> USE DEF ReadAgain, Goto
<1>0. TypeOK /\ PlaceInv /\ CountInv
  BY DEF IInv, WeakInv
<1>1. PlaceInv'
  BY <1>0 DEF TypeOK, PlaceInv, weakVars
<1>2. Pointing' = Pointing /\ Holding' = Holding /\ HoldingOld' = HoldingOld
  BY <1>0 DEF TypeOK, Pointing, Holding, HoldingOld, weakVars
<1> QED
  BY <1>0, <1>1, <1>2, SameUnits DEF WeakInv, weakVars

\* increaseStrongCount keeps the weak count right.
LEMMA IncreaseStrongWeakInv ==
  ASSUME NEW r \in Refs, IInv, WeakInv, IncreaseStrong(r)
  PROVE  WeakInv'
<1> USE DEF IncreaseStrong, Goto
<1>0. TypeOK /\ PlaceInv /\ CountInv
  BY DEF IInv, WeakInv
<1>1. PlaceInv'
  BY <1>0 DEF TypeOK, PlaceInv, weakVars
<1>2. Pointing' = Pointing /\ Holding' = Holding /\ HoldingOld' = HoldingOld
  BY <1>0 DEF TypeOK, Pointing, Holding, HoldingOld, weakVars
<1> QED
  BY <1>0, <1>1, <1>2, SameUnits DEF WeakInv, weakVars

\* getObjectReference keeps the weak count right.
LEMMA GetObjectWeakInv ==
  ASSUME NEW r \in Refs, IInv, WeakInv, GetObject(r)
  PROVE  WeakInv'
<1> USE DEF GetObject, Goto
<1>0. TypeOK /\ PlaceInv /\ CountInv
  BY DEF IInv, WeakInv
<1>1. PlaceInv'
  BY <1>0 DEF TypeOK, PlaceInv, weakVars
<1>2. Pointing' = Pointing /\ Holding' = Holding /\ HoldingOld' = HoldingOld
  BY <1>0 DEF TypeOK, Pointing, Holding, HoldingOld, weakVars
<1> QED
  BY <1>0, <1>1, <1>2, SameUnits DEF WeakInv, weakVars

\* The start of updateObject keeps the weak count right.
LEMMA UpdateObjectWeakInv ==
  ASSUME NEW r \in Refs, NEW w \in WeakRefs, IInv, WeakInv, UpdateObject(r, w)
  PROVE  WeakInv'
<1> USE DEF UpdateObject, Goto
<1>0. TypeOK /\ PlaceInv /\ CountInv
  BY DEF IInv, WeakInv
<1>1. PlaceInv'
  BY <1>0 DEF TypeOK, PlaceInv, weakVars, InUse
<1>2. Pointing' = Pointing /\ Holding' = Holding /\ HoldingOld' = HoldingOld
  BY <1>0 DEF TypeOK, Pointing, Holding, HoldingOld, weakVars
<1> QED
  BY <1>0, <1>1, <1>2, SameUnits DEF WeakInv, weakVars

\* safeRead counts the block it read: it exists, since the WeakReference still points to it.
LEMMA IncreaseWeakWeakInv ==
  ASSUME NEW r \in Refs, IInv, WeakInv, IncreaseWeak(r)
  PROVE  WeakInv'
<1> USE DEF IncreaseWeak, Goto
<1>0. TypeOK /\ PlaceInv /\ CountInv
  BY DEF IInv, WeakInv
<1>1. PlaceInv'
  BY <1>0 DEF TypeOK, PlaceInv, weakVars
<1>2. Pointing' = Pointing /\ Holding' = Holding \cup {r} /\ r \notin Holding /\ HoldingOld' = HoldingOld /\ Pointing # {}
  BY <1>0 DEF TypeOK, PlaceInv, Pointing, Holding, HoldingOld, weakVars
<1>3. Units' = Units + 1 /\ Units > 0
  BY <1>2, HoldingSteps, UnitsType
<1> QED
  BY <1>0, <1>1, <1>3, UnitAdded DEF WeakInv

\* newref counts the block of an object that the caller refers to.
LEMMA NewRefWeakInv ==
  ASSUME NEW r \in Refs, IInv, WeakInv, NewRef(r)
  PROVE  WeakInv'
<1> USE DEF NewRef, Goto
<1>0. TypeOK /\ PlaceInv /\ CountInv
  BY DEF IInv, WeakInv
<1>1. PlaceInv'
  BY <1>0 DEF TypeOK, PlaceInv, weakVars
<1>2. Pointing' = Pointing /\ Holding' = Holding \cup {r} /\ r \notin Holding /\ HoldingOld' = HoldingOld
  BY <1>0 DEF TypeOK, PlaceInv, Pointing, Holding, HoldingOld, weakVars
<1>3. obj = "live"
  BY <1>0 DEF IInv, TypeOK, StrongInv, PlaceInv, Holders, Dead
<1>4. Units' = Units + 1 /\ Units > 0
  BY <1>2, <1>3, HoldingSteps, UnitsType
<1> QED
  BY <1>0, <1>1, <1>4, UnitAdded DEF WeakInv

\* safeRead counts the old block, which the WeakReference keeps alive.
LEMMA ReadOldWeakInv ==
  ASSUME NEW r \in Refs, IInv, WeakInv, ReadOld(r)
  PROVE  WeakInv'
<1> USE DEF ReadOld, Goto
<1>0. TypeOK /\ PlaceInv /\ CountInv
  BY DEF IInv, WeakInv
<1>1. PlaceInv'
  BY <1>0 DEF TypeOK, PlaceInv, weakVars
<1>2. Pointing' = Pointing /\ Holding' = Holding
  BY <1>0 DEF TypeOK, Pointing, Holding, weakVars
<1>3. CASE slot[weakRef[r]]
  <2>1. HoldingOld' = HoldingOld \cup {r} /\ r \notin HoldingOld /\ Pointing # {}
    BY <1>0, <1>3 DEF TypeOK, Pointing, HoldingOld, weakVars
  <2>2. Units' = Units + 1
    BY <1>2, <2>1, HoldingSteps
  <2>a. Units > 0
    <3>1. Units \in Nat /\ Units # 0
      BY <2>1, UnitsType
    <3> QED
      BY <3>1
  <2>3. weak' = Increased(weak)
    BY <1>3
  <2> QED
    BY <1>0, <1>1, <2>2, <2>a, <2>3, UnitAdded DEF WeakInv
<1>4. CASE ~slot[weakRef[r]]
  <2>1. HoldingOld' = HoldingOld
    BY <1>0, <1>4 DEF TypeOK, HoldingOld, weakVars
  <2> QED
    BY <1>0, <1>1, <1>2, <1>4, <2>1, SameUnits DEF WeakInv
<1> QED
  BY <1>3, <1>4

\* ~Object releases the block for the object.
LEMMA DestructWeakInv ==
  ASSUME NEW r \in Refs, IInv, WeakInv, Destruct(r)
  PROVE  WeakInv'
<1> USE DEF Destruct, Goto
<1>0. TypeOK /\ PlaceInv /\ CountInv
  BY DEF IInv, WeakInv
<1>1. PlaceInv'
  BY <1>0 DEF TypeOK, PlaceInv, weakVars
<1>2. Pointing' = Pointing /\ Holding' = Holding /\ HoldingOld' = HoldingOld
  BY <1>0 DEF TypeOK, PlaceInv, Pointing, Holding, HoldingOld, weakVars
<1>3. obj = "live" /\ Live = 1 /\ Live' = 0
  BY <1>0 DEF IInv, TypeOK, StrongInv, DestroyedOnce, Live
<1>4. Units' = Units - 1 /\ Units > 0
  <2>1. /\ Cardinality(Pointing) \in Nat /\ Cardinality(Holding) \in Nat /\ Cardinality(HoldingOld) \in Nat
        /\ Units \in Nat /\ Units # 0
    BY <1>3, UnitsType
  <2> QED
    BY <1>2, <1>3, <2>1 DEF Units
<1> QED
  BY <1>0, <1>1, <1>4, UnitDropped DEF WeakInv

\* get releases the block it counted.
LEMMA DropBlockWeakInv ==
  ASSUME NEW r \in Refs, IInv, WeakInv, DropBlock(r)
  PROVE  WeakInv'
<1> USE DEF DropBlock, Goto
<1>0. TypeOK /\ PlaceInv /\ CountInv
  BY DEF IInv, WeakInv
<1>1. PlaceInv'
  BY <1>0 DEF TypeOK, PlaceInv, weakVars
<1>2. Pointing' = Pointing /\ Holding' = Holding \ {r} /\ r \in Holding /\ HoldingOld' = HoldingOld
  BY <1>0 DEF TypeOK, PlaceInv, Pointing, Holding, HoldingOld, weakVars
<1>3. Units' = Units - 1 /\ Units > 0
  BY <1>2, HoldingSteps
<1> QED
  BY <1>0, <1>1, <1>3, UnitDropped DEF WeakInv

\* newref releases the old block for safeRead: never the last unit, since the one that the
\* WeakReference had is still to be released.
LEMMA DropReadWeakInv ==
  ASSUME NEW r \in Refs, IInv, WeakInv, DropRead(r)
  PROVE  WeakInv' /\ pc'[r] = "dropOld"
<1> USE DEF DropRead, Goto
<1>0. TypeOK /\ PlaceInv /\ CountInv
  BY DEF IInv, WeakInv
<1>1. PlaceInv'
  BY <1>0 DEF TypeOK, PlaceInv, weakVars
<1>2. r \in Holding /\ r \in HoldingOld
  BY <1>0 DEF Holding, HoldingOld
<1>3. Units # 1
  <2>1. IsFiniteSet(Holding) /\ IsFiniteSet(HoldingOld)
    BY HoldersBound DEF Holding, HoldingOld
  <2>2. Cardinality(Holding) # 0 /\ Cardinality(HoldingOld) # 0
    BY <1>2, <2>1, FS_EmptySet
  <2>3. Cardinality(Holding) \in Nat /\ Cardinality(HoldingOld) \in Nat /\ Cardinality(Pointing) \in Nat /\ Live \in Nat
    BY UnitsType
  <2>4. Cardinality(Holding) + Cardinality(HoldingOld) >= 2
    BY <2>2, <2>3
  <2> QED
    BY <2>3, <2>4 DEF Units
<1>4. Units > 0
  BY <1>2, UnitsType
<1>5. block /\ weak = 2 * Units /\ Units > 1 /\ Units \in Nat /\ weak \in 0..MaxCount
  BY <1>0, <1>3, <1>4, UnitsType DEF CountInv, TypeOK
<1>6. ~WasLast(weak)
  <2>1. Decremented(weak) = weak - 2
    BY <1>5, Counting
  <2> QED
    BY <1>5, <2>1 DEF WasLast
<1>7. pc' = [pc EXCEPT ![r] = "dropOld"]
  BY <1>6
<1>8. Pointing' = Pointing /\ Holding' = Holding /\ HoldingOld' = HoldingOld \ {r}
  BY <1>0, <1>7 DEF TypeOK, Pointing, Holding, HoldingOld, weakVars
<1>9. Units' = Units - 1
  BY <1>2, <1>8, HoldingSteps
<1> QED
  BY <1>0, <1>1, <1>4, <1>7, <1>9, UnitDropped DEF WeakInv, TypeOK

\* updateObject releases the old block for the WeakReference.
LEMMA DropOldWeakInv ==
  ASSUME NEW r \in Refs, IInv, WeakInv, DropOld(r)
  PROVE  WeakInv'
<1> USE DEF DropOld, Goto
<1>0. TypeOK /\ PlaceInv /\ CountInv
  BY DEF IInv, WeakInv
<1>1. PlaceInv'
  BY <1>0 DEF TypeOK, PlaceInv, weakVars
<1>2. Pointing' = Pointing /\ Holding' = Holding \ {r} /\ r \in Holding /\ HoldingOld' = HoldingOld
  BY <1>0 DEF TypeOK, PlaceInv, Pointing, Holding, HoldingOld, weakVars
<1>3. Units' = Units - 1 /\ Units > 0
  BY <1>2, HoldingSteps
<1> QED
  BY <1>0, <1>1, <1>3, UnitDropped DEF WeakInv

\* compareAndSet moves the units: the new block's goes from the thread to the WeakReference,
\* the old one's from the WeakReference to the thread.
LEMMA SetSlotWeakInv ==
  ASSUME NEW r \in Refs, IInv, WeakInv, SetSlot(r)
  PROVE  WeakInv'
<1> DEFINE w == weakRef[r]
<1> USE DEF SetSlot, Goto
<1>0. TypeOK /\ PlaceInv /\ CountInv /\ w \in WeakRefs
  BY DEF IInv, WeakInv, TypeOK
<1>1. PlaceInv'
  BY <1>0 DEF TypeOK, PlaceInv
<1>2. \A q \in Refs \ {r} : pc'[q] = pc[q] /\ (pc[q] = "set" => slot'[weakRef[q]] = slot[weakRef[q]])
  BY <1>0 DEF TypeOK, PlaceInv
<1>3. CASE slot[w] /\ assigned[r]
  <2>1. slot' = slot /\ pc'[r] = "dropRead"
    BY <1>0, <1>3 DEF TypeOK
  <2>2. Pointing' = Pointing /\ Holding' = Holding /\ HoldingOld' = HoldingOld
    BY <1>0, <1>2, <1>3, <2>1 DEF TypeOK, Pointing, Holding, HoldingOld
  <2> QED
    BY <1>0, <1>1, <2>2, SameUnits DEF WeakInv
<1>4. CASE slot[w] /\ ~assigned[r]
  <2>1. pc'[r] = "dropRead" /\ slot' = [slot EXCEPT ![w] = FALSE]
    BY <1>0, <1>4 DEF TypeOK
  <2>2. Pointing' = Pointing \ {w} /\ w \in Pointing
    BY <1>0, <1>4, <2>1 DEF TypeOK, Pointing
  <2>3. Holding' = Holding \cup {r} /\ r \notin Holding
    BY <1>0, <1>2, <1>4, <2>1 DEF TypeOK, Holding
  <2>4. HoldingOld' = HoldingOld
    BY <1>0, <1>2, <1>4, <2>1 DEF TypeOK, HoldingOld
  <2>5. Units' = Units
    <3>1. IsFiniteSet(Pointing) /\ IsFiniteSet(Holding)
      BY UnitsBound DEF Pointing, Holding
    <3>2. Cardinality(Pointing') = Cardinality(Pointing) - 1 /\ Cardinality(Holding') = Cardinality(Holding) + 1
      BY <3>1, <2>2, <2>3, OneUnit
    <3>3. Live' = Live
      BY DEF Live
    <3> QED
      BY <3>2, <3>3, <2>4, UnitsType DEF Units
  <2> QED
    BY <1>0, <1>1, <2>5 DEF WeakInv, CountInv
<1>5. CASE ~slot[w] /\ assigned[r]
  <2>1. pc'[r] = "idle" /\ slot' = [slot EXCEPT ![w] = TRUE]
    BY <1>0, <1>5 DEF TypeOK
  <2>2. Pointing' = Pointing \cup {w} /\ w \notin Pointing
    BY <1>0, <1>5, <2>1 DEF TypeOK, Pointing
  <2>3. Holding' = Holding \ {r} /\ r \in Holding
    BY <1>0, <1>2, <1>5, <2>1 DEF TypeOK, Holding
  <2>4. HoldingOld' = HoldingOld
    BY <1>0, <1>2, <1>5, <2>1 DEF TypeOK, HoldingOld
  <2>5. Units' = Units
    <3>1. IsFiniteSet(Pointing) /\ IsFiniteSet(Holding)
      BY UnitsBound DEF Pointing, Holding
    <3>2. Cardinality(Pointing') = Cardinality(Pointing) + 1 /\ Cardinality(Holding') = Cardinality(Holding) - 1
      BY <3>1, <2>2, <2>3, OneUnit
    <3>3. Live' = Live
      BY DEF Live
    <3> QED
      BY <3>2, <3>3, <2>4, UnitsType DEF Units
  <2> QED
    BY <1>0, <1>1, <2>5 DEF WeakInv, CountInv
<1>6. CASE ~slot[w] /\ ~assigned[r]
  <2>1. slot' = slot /\ pc'[r] = "idle"
    BY <1>0, <1>6 DEF TypeOK
  <2>2. Pointing' = Pointing /\ Holding' = Holding /\ HoldingOld' = HoldingOld
    BY <1>0, <1>2, <1>6, <2>1 DEF TypeOK, Pointing, Holding, HoldingOld
  <2> QED
    BY <1>0, <1>1, <2>2, SameUnits DEF WeakInv
<1> QED
  BY <1>3, <1>4, <1>5, <1>6

\* Initially only the object is counted.
LEMMA InitWeakInv == Init => WeakInv
<1> SUFFICES ASSUME Init PROVE WeakInv
  OBVIOUS
<1>1. PlaceInv
  BY DEF Init, PlaceInv
<1>2. Pointing = {} /\ Holding = {} /\ HoldingOld = {} /\ Live = 1
  BY DEF Init, Pointing, Holding, HoldingOld, Live
<1>3. Units = 1
  BY <1>2, FS_EmptySet DEF Units
<1> QED
  BY <1>1, <1>3 DEF Init, WeakInv, CountInv

\* Every step keeps the weak count right.
LEMMA NextWeakInv == IInv /\ WeakInv /\ [Next]_vars => WeakInv'
<1> SUFFICES ASSUME IInv, WeakInv, [Next]_vars PROVE WeakInv'
  OBVIOUS
<1>1. CASE Next
  <2> PICK r \in Refs : Step(r)
    BY <1>1 DEF Next
  <2> QED
    BY AcquireWeakInv, ReleaseWeakInv, TryFinalReleaseWeakInv, FinalDecrementWeakInv, ClearObjectWeakInv, SelfAcquireWeakInv, SelfReleaseWeakInv, DestructWeakInv, ReadSlotWeakInv, IncreaseWeakWeakInv, ReadAgainWeakInv, IncreaseStrongWeakInv, GetObjectWeakInv, DropBlockWeakInv, UpdateObjectWeakInv, NewRefWeakInv, ReadOldWeakInv, SetSlotWeakInv, DropReadWeakInv, DropOldWeakInv DEF Step
<1>2. CASE UNCHANGED vars
  <2>1. PlaceInv'
    BY <1>2 DEF WeakInv, PlaceInv, vars
  <2>2. Pointing' = Pointing /\ Holding' = Holding /\ HoldingOld' = HoldingOld
    BY <1>2 DEF vars, Pointing, Holding, HoldingOld
  <2> QED
    BY <1>2, <2>1, <2>2, SameUnits DEF WeakInv, vars
<1> QED
  BY <1>1, <1>2

\* The weak count is right throughout: two for the object, for each WeakReference that points
\* to the block and for each hold of a thread inside get or updateObject.
THEOREM SpecWeakInv == Spec => [](IInv /\ WeakInv)
<1>1. Init => IInv /\ WeakInv
  BY InitIInv, InitWeakInv
<1>2. IInv /\ WeakInv /\ [Next]_vars => IInv' /\ WeakInv'
  BY NextIInv, NextWeakInv
<1> QED
  BY <1>1, <1>2, PTL DEF Spec

\* The block outlives everybody who may reach it, and neither it nor the object is leaked.
THEOREM SpecBlockLifetime == Spec => []BlockLifetime
<1>1. IInv /\ WeakInv => BlockLifetime
  <2> SUFFICES ASSUME IInv, WeakInv PROVE BlockLifetime
    OBVIOUS
  <2>0. /\ TypeOK /\ StrongInv /\ PlaceInv /\ CountInv /\ Units \in Nat
        /\ (Units = 0 <=> obj # "live" /\ Pointing = {} /\ Holding = {} /\ HoldingOld = {})
    BY UnitsType DEF IInv, WeakInv
  <2>1. ASSUME ~block
        PROVE  /\ obj = "gone" /\ \A w \in WeakRefs : ~slot[w]
               /\ \A r \in Refs : pc[r] = "idle" \/ (pc[r] \in {"set", "swap"} /\ ~assigned[r])
    <3>1. Units = 0
      BY <2>0, <2>1 DEF CountInv
    <3>2. obj = "gone" /\ Pointing = {} /\ Holding = {} /\ HoldingOld = {}
      BY <2>0, <3>1 DEF TypeOK
    <3>3. \A r \in Refs : ~full[r] /\ ~Destroying(r)
      BY <2>0, <3>2 DEF StrongInv, DestroyedOnce, Dead, Holders, Destroying
    <3>4. ASSUME NEW r \in Refs PROVE pc[r] \notin {"final", "read", "assign", "clear", "destroy", "self"}
      BY <2>0, <3>2, <3>3 DEF StrongInv, PlaceInv, TypeOK, Pointing, Destroying
    <3>5. ASSUME NEW r \in Refs
          PROVE  /\ pc[r] \notin {"counted", "strong", "got", "drop", "dropRead", "dropOld"}
                 /\ pc[r] \in {"swap", "set"} => ~assigned[r]
      BY <3>2 DEF Holding
    <3> QED
      BY <2>0, <3>2, <3>4, <3>5 DEF TypeOK, Pointing
  <2>2. ASSUME \A r \in Refs : pc[r] = "idle", \A r \in Refs : ~full[r]
        PROVE  obj = "gone"
    BY <2>0, <2>2 DEF StrongInv, Dead, Holders, Destroying
  <2>3. ASSUME \A r \in Refs : pc[r] = "idle", obj = "gone", \A w \in WeakRefs : ~slot[w]
        PROVE  ~block
    <3>1. Pointing = {} /\ Holding = {} /\ HoldingOld = {}
      BY <2>3 DEF Pointing, Holding, HoldingOld
    <3> QED
      BY <2>0, <2>3, <3>1 DEF CountInv
  <2> QED
    BY <2>1, <2>2, <2>3 DEF BlockLifetime
<1> QED
  BY <1>1, SpecWeakInv, PTL
================================================================================
