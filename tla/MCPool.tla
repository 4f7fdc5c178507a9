------------------------------- MODULE MCPool -------------------------------
(***************************************************************************)
(* PoolLifecycle for TLC: a job with a step, whose handler may panic, and  *)
(* a background job without one.                                           *)
(***************************************************************************)
EXTENDS PoolLifecycle, TLC

CONSTANTS a, m, e1

MCJob == {a, m}
MCStepOf == (a :> e1) @@ (m :> NoStep)
MCKind == (a :> "step") @@ (m :> "scan_dataset")
MCHasExec == (a :> TRUE) @@ (m :> FALSE)
MCPayloadExec == (a :> FALSE) @@ (m :> FALSE)
MCPanicJob == {a}
MCExpiring == {m}
=============================================================================
