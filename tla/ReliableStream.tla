----------------------------- MODULE ReliableStream -----------------------------
(***************************************************************************)
(* What the sequenced channel of BaseClient promises its user: what is     *)
(* handed to it comes out at the other end in the order it went in, each   *)
(* item once, for as long as the sender is connected.  The items are the   *)
(* packets of BaseClient, and the messages of PacketAssembly that are      *)
(* packed into them; they are numbered in the order they are handed over.  *)
(***************************************************************************)
EXTENDS Integers, Sequences

VARIABLES
    submitted,    \* items handed over
    delivered     \* the items that came out, in order

Init == submitted = 0 /\ delivered = <<>>

\* More items are handed over (a large message is several packets).
Submit == submitted' \in Nat /\ submitted' > submitted /\ UNCHANGED delivered

\* The next items come out.
Deliver ==
    \E n \in 1..(submitted - Len(delivered)) :
        /\ delivered' = delivered \o [i \in 1..n |-> Len(delivered) + i - 1]
        /\ UNCHANGED submitted

Next == Submit \/ Deliver

Spec == Init /\ [][Next]_<<submitted, delivered>>
================================================================================
