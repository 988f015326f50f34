---------------------------- MODULE MCPacketAssembly ----------------------------
(***************************************************************************)
(* Instances of PacketAssembly for TLC: the sizes at which the code takes  *)
(* another path.                                                           *)
(***************************************************************************)
EXTENDS PacketAssembly

\* The smallest message; three that fit in a group; the largest that is grouped
\* and the next; the largest that is not split and the next; two full fragments
\* and one byte more.
BoundarySizes == {6, 150, 258, 259, 489, 490, 978, 979}
================================================================================
