--------------------------- MODULE MCStreamMerge ---------------------------
(***************************************************************************)
(* Instances of StreamMerge for TLC.                                       *)
(***************************************************************************)
EXTENDS StreamMerge, TLC
=============================================================================
