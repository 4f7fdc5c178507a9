----------------------------- MODULE JobOutcome -----------------------------
(***************************************************************************)
(* What the completion protocol promises, without calls, retries or        *)
(* answers: the control plane decides each job once, for this agent or for *)
(* another one, and this agent is told "ok" only of a decision that is its *)
(* own, "already" only of a job that is decided.  It may also learn        *)
(* nothing, but it never learns two things.                                *)
(***************************************************************************)
CONSTANT Jobs

VARIABLES
    outcome,    \* the decision: open | mine | theirs
    told        \* what CompleteJob returned: none | ok | already | error

Init ==
    /\ outcome = [j \in Jobs |-> "open"]
    /\ told = [j \in Jobs |-> "none"]

(* The decision is made, and is final. *)
Decide(j) ==
    /\ outcome[j] = "open"
    /\ \E d \in {"mine", "theirs"} : outcome' = [outcome EXCEPT ![j] = d]
    /\ UNCHANGED told

Answers(j) ==
    {"error"} \cup (IF outcome[j] = "mine" THEN {"ok"} ELSE {})
              \cup (IF outcome[j] # "open" THEN {"already"} ELSE {})

(* The agent learns of it, once. *)
Tell(j) ==
    /\ told[j] = "none"
    /\ \E a \in Answers(j) : told' = [told EXCEPT ![j] = a]
    /\ UNCHANGED outcome

Next == \E j \in Jobs : Decide(j) \/ Tell(j)

Spec == Init /\ [][Next]_<<outcome, told>>
=============================================================================
