------------------------------ MODULE MCBaseClient ------------------------------
(***************************************************************************)
(* Instances of BaseClient for TLC.                                        *)
(***************************************************************************)
EXTENDS BaseClient, TLC

Symmetry == Permutations(Senders)
================================================================================
