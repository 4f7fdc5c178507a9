---------------------------- MODULE MCDedupStore ----------------------------
(***************************************************************************)
(* Instances of DedupStore for TLC.                                        *)
(***************************************************************************)
EXTENDS DedupStore, TLC

Symmetry == Permutations(Job)
=============================================================================
