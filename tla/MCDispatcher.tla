---------------------------- MODULE MCDispatcher ----------------------------
(***************************************************************************)
(* Instances of Dispatcher for TLC: two jobs of one step, a merge job      *)
(* without any execution id and without a step, and a delivery the         *)
(* validation refuses.                                                     *)
(***************************************************************************)
EXTENDS Dispatcher, TLC

CONSTANTS a, b, m, bad, e1

MCJob == {a, b, m, bad}
MCStepOf == (a :> e1) @@ (b :> e1) @@ (m :> NoStep) @@ (bad :> NoStep)
MCKind == (a :> "step") @@ (b :> "step") @@ (m :> "merge_dataset") @@ (bad :> "step")
MCHasExec == (a :> TRUE) @@ (b :> TRUE) @@ (m :> FALSE) @@ (bad :> FALSE)
MCPayloadExec == (a :> FALSE) @@ (b :> TRUE) @@ (m :> FALSE) @@ (bad :> FALSE)
MCPanicJob == {b}

Symmetry == Permutations(Submitter) \cup Permutations(Worker)
=============================================================================
