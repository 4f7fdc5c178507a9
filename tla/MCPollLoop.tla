----------------------------- MODULE MCPollLoop -----------------------------
(* Two jobs, one of them without an execution id, meet a dispatcher with   *)
(* room for one, a wake-up channel of capacity one, and three faults.      *)
EXTENDS PollLoop

CONSTANTS j1, j2

MCJobs == {j1, j2}
MCNoExec == {j2}
=============================================================================
