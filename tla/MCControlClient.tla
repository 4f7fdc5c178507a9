--------------------------- MODULE MCControlClient ---------------------------
(* Two jobs whose calls interleave, with one retry for each call, and a     *)
(* relay whose batches hold two events.                                     *)
EXTENDS ControlClient
=============================================================================
