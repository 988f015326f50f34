----------------------------- MODULE PriorityQueue -----------------------------
(***************************************************************************)
(* system/util/PriorityQueue, the heap under TimedTaskQueue: a leftist     *)
(* heap whose entries point to their parent, so that remove can take one   *)
(* out of the middle.  Its callers hold the mutex of the queue, add no     *)
(* entry that is in it and remove only one that is (TimedTasks).           *)
(*                                                                         *)
(* npl is neither reset in an entry that is taken out nor brought up to    *)
(* date above it, so the heap does not stay leftist; what peak and poll    *)
(* return does not depend on that.  A nullptr is Nil.                      *)
(***************************************************************************)
EXTENDS Naturals, FiniteSets

CONSTANTS
    NumEntries,
    Keys,           \* the execution times
    MaxAdds         \* bound: entries that are added

Entries == 1..NumEntries
Nil == 0

VARIABLES
    root,
    link,           \* PriorityQueueEntry: parentNode, leftNode, rightNode and npl
    key,            \* what Task::compareTo compares first
    queued,         \* the entries with enqueued
    count,
    adds

heapVars == <<root, link, key, queued, count, adds>>

NewEntry == [parent |-> Nil, left |-> Nil, right |-> Nil, npl |-> 0]

Init ==
    /\ root = Nil /\ link = [e \in Entries |-> NewEntry]
    /\ key = [e \in Entries |-> 0]
    /\ queued = {} /\ count = 0 /\ adds = 0

\* Task::compareTo: the earlier one, and of two with the same time the one at the
\* lower address.  k are the times.
Precedes(k, a, b) == k[a] < k[b] \/ (k[a] = k[b] /\ a < b)

\* swapChildren, which merge1 calls when the right side has become the deeper one.
Swapped(entry) == [entry EXCEPT !.left = entry.right, !.right = entry.left]

\* An entry after poll, remove or clear has set its pointers to nullptr.
Unlinked(entry) == [entry EXCEPT !.parent = Nil, !.left = Nil, !.right = Nil]

\* The links l after the parent of an entry, if it is one, has been set.
WithParent(l, e, p) == IF e = Nil THEN l ELSE [l EXCEPT ![e].parent = p]

RECURSIVE Merge(_, _, _, _)

\* Mutant: the entry that was merged into the right side keeps its old parent.
Merge1Parentless(l, k, a, b) ==
    IF l[a].left = Nil
      THEN [links |-> [l EXCEPT ![a].left = b, ![b].parent = a], top |-> a]
      ELSE LET merged == Merge(l, k, l[a].right, b)
               m == [merged.links EXCEPT ![a].right = merged.top]
               s == IF m[m[a].left].npl < m[merged.top].npl THEN Swapped(m[a]) ELSE m[a]
           IN  [links |-> [m EXCEPT ![a] = [s EXCEPT !.npl = m[s.right].npl + 1]], top |-> a]

\* merge1: b goes below a, to the left if there is nothing, and else into the right
\* side, which changes places with the left one if its npl has become larger.
Merge1(l, k, a, b) ==
    IF l[a].left = Nil
      THEN [links |-> [l EXCEPT ![a].left = b, ![b].parent = a], top |-> a]
      ELSE LET merged == Merge(l, k, l[a].right, b)
               m == [merged.links EXCEPT ![a].right = merged.top, ![merged.top].parent = a]
               s == IF m[m[a].left].npl < m[merged.top].npl THEN Swapped(m[a]) ELSE m[a]
           IN  [links |-> [m EXCEPT ![a] = [s EXCEPT !.npl = m[s.right].npl + 1]], top |-> a]

\* merge: the heap with both tops' entries, and its top.
Merge(l, k, a, b) ==
    IF a = Nil THEN [links |-> l, top |-> b]
    ELSE IF b = Nil THEN [links |-> l, top |-> a]
    ELSE IF Precedes(k, a, b) THEN Merge1(l, k, a, b)
    ELSE Merge1(l, k, b, a)

\* add, with the time that the entry has been given before.
Add(e, time) ==
    LET k == [key EXCEPT ![e] = time]
        merged == Merge(link, k, e, root)
    IN  /\ e \notin queued /\ adds < MaxAdds
        /\ key' = k /\ link' = merged.links /\ root' = merged.top
        /\ queued' = queued \cup {e} /\ count' = count + 1 /\ adds' = adds + 1

\* poll.
Poll ==
    LET merged == Merge(link, key, link[root].left, link[root].right)
    IN  /\ root # Nil
        /\ link' = [WithParent(merged.links, merged.top, Nil) EXCEPT ![root] = Unlinked(@)]
        /\ root' = merged.top
        /\ queued' = queued \ {root} /\ count' = count - 1
        /\ UNCHANGED <<key, adds>>

\* remove, up to what is done to the entry itself: the links in which the parent of
\* e has what is left below e in its place.
Replaced(l, e, top) ==
    LET p == l[e].parent
        m == WithParent(l, top, p)
    IN  IF p = Nil THEN m
        ELSE IF m[p].left = e THEN [m EXCEPT ![p].left = top]
        ELSE [m EXCEPT ![p].right = top]

\* remove.
Remove(e) ==
    LET merged == Merge(link, key, link[e].left, link[e].right)
    IN  /\ e \in queued
        /\ root' = IF link[e].parent = Nil THEN merged.top ELSE root
        /\ link' = [Replaced(merged.links, e, merged.top) EXCEPT ![e] = Unlinked(@)]
        /\ queued' = queued \ {e} /\ count' = count - 1
        /\ UNCHANGED <<key, adds>>

\* The entries below and including e, over the children.
RECURSIVE Below(_, _)
Below(l, e) == IF e = Nil THEN {} ELSE {e} \cup Below(l, l[e].left) \cup Below(l, l[e].right)

\* clear with reclaimMemory: every entry that can be reached is unlinked.
Clear ==
    /\ root # Nil
    /\ link' = [e \in Entries |-> IF e \in Below(link, root) THEN Unlinked(link[e]) ELSE link[e]]
    /\ queued' = queued \ Below(link, root)
    /\ root' = Nil /\ count' = 0
    /\ UNCHANGED <<key, adds>>

Next ==
    \/ \E e \in Entries, time \in Keys : Add(e, time)
    \/ Poll
    \/ \E e \in Entries : Remove(e)
    \/ Clear

Spec == Init /\ [][Next]_heapVars
--------------------------------------------------------------------------------
\* The queue of TimedTasks: whatever was added, polled, removed from the middle and added
\* again, the entries that can be reached from the root are those that are queued, the root
\* is the first of them, so that peak and poll are about the earliest task, an entry's
\* parent is the one that points to it, so that remove finds its place, and count is their
\* number.
HeapIsQueue ==
    /\ Below(link, root) = queued /\ count = Cardinality(queued)
    /\ \A e \in queued : e = root \/ Precedes(key, root, e)
    /\ \A e \in queued, p \in queued : e \in {link[p].left, link[p].right} <=> link[e].parent = p
    /\ root # Nil => link[root].parent = Nil
================================================================================
