----------------------------- MODULE MCAgentStart -----------------------------
(* The start of the agent with one plugin of two versions, two device ids, *)
(* two faults and one orderly restart.                                     *)
EXTENDS AgentStart

Signed == [signature |-> "full", trusted |-> TRUE, checksum |-> "plain",
           rollout |-> TRUE, url |-> TRUE, platform |-> TRUE]
Unsigned == [Signed EXCEPT !.signature = "none"]

(* A plugin with the given first and second version. *)
Setup(strict, first, second) ==
    [strict |-> strict, entry |-> [p \in Plugins |-> [v \in 1..MaxVersion |-> IF v = 1 THEN first ELSE second]]]

(* Signed versions, enforced; one that gets signed and has no platform;    *)
(* unsigned ones, the first without a checksum.                            *)
Sound == {Setup(TRUE, Signed, Signed),
          Setup(FALSE, [Unsigned EXCEPT !.platform = FALSE], [Signed EXCEPT !.platform = FALSE]),
          Setup(FALSE, [Unsigned EXCEPT !.checksum = "none"], Unsigned)}

(* One that is not trusted, then one whose checksum has a prefix; one      *)
(* without its key's id, where signatures are enforced, then one that is   *)
(* not rolled out to the device; one that has no signed URL.               *)
Unsound == {Setup(FALSE, [Unsigned EXCEPT !.trusted = FALSE], [Signed EXCEPT !.checksum = "prefixed"]),
            Setup(TRUE, [Signed EXCEPT !.signature = "nokey"], [Signed EXCEPT !.rollout = FALSE]),
            Setup(FALSE, [Signed EXCEPT !.url = FALSE], [Signed EXCEPT !.url = FALSE])}

MCSetups == Sound \cup Unsound
=============================================================================
