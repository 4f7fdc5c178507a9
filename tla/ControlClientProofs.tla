------------------------ MODULE ControlClientProofs ------------------------
(***************************************************************************)
(* Proofs about ControlClient for every set of jobs, every number of       *)
(* retries, every batch size and every number of faults: its types, that   *)
(* it implements JobOutcome, and the order of relayed events.              *)
(***************************************************************************)
EXTENDS ControlClient, TLAPS

\* The definitions of groups of variables and of the one-line helpers.
USE DEF call, server, relay, flusher

\* What an Append does to the set of the elements.
LEMMA ToSetFacts ==
    ASSUME NEW s \in Seq(Events), NEW e \in Events
    PROVE  /\ ToSet(<<>>) = {}
           /\ ToSet(s) \subseteq Events
           /\ Append(s, e) \in Seq(Events)
           /\ ToSet(Append(s, e)) = ToSet(s) \cup {e}
<1>1. ToSet(<<>>) = {}
    BY DEF ToSet
<1>2. ToSet(s) \subseteq Events
    BY DEF ToSet
<1>3. /\ Append(s, e) \in Seq(Events)
      /\ DOMAIN Append(s, e) = DOMAIN s \cup {Len(s) + 1}
      /\ \A i \in DOMAIN s : Append(s, e)[i] = s[i]
      /\ Append(s, e)[Len(s) + 1] = e
    OBVIOUS
<1>4. ToSet(Append(s, e)) = ToSet(s) \cup {e}
    BY <1>3 DEF ToSet
<1>5. QED
    BY <1>1, <1>2, <1>3, <1>4

\* The end of a call, of any kind and with any answer, keeps the types.
LEMMA ReturnedTypes ==
    ASSUME ClientTypeOK, NEW j \in Jobs, NEW a \in {"ok", "already", "refused", "error"},
           Returned(j, a)
    PROVE  /\ pc' \in [Jobs -> Calls \cup {"run", "ended"}]
           /\ result' \in [Jobs -> {"none", "ok", "already", "error"}]
           /\ relayPending' \in Seq(Events) /\ nudge' \in BOOLEAN
<1> USE DEF ClientTypeOK, Calls, Goes
<1>1. <<j, "started">> \in Events /\ <<j, "failed">> \in Events
    BY DEF Events
<1>2. CASE pc[j] = "verify" /\ VerifyJobLease(j, a)
    <2>1. CASE a = "ok"
        BY <1>1, <1>2, <2>1, ToSetFacts
           DEF VerifyJobLease, ReportJobStart, BufferRelayEvent
    <2>2. CASE a # "ok"
        BY <1>1, <1>2, <2>2, ToSetFacts
           DEF VerifyJobLease, ReportJobFailure, BufferRelayEvent
    <2>3. QED
        BY <2>1, <2>2
<1>3. CASE pc[j] = "start" /\ StartJob(j)
    BY <1>3 DEF StartJob
<1>4. CASE pc[j] = "complete" /\ CompleteJob(j, a)
    BY <1>4 DEF CompleteJob, Classify
<1>5. QED
    BY <1>2, <1>3, <1>4 DEF Returned

\* The next attempt, or the end of the call.
LEMMA AttemptTypes ==
    ASSUME ClientTypeOK, NEW j \in Jobs, AttemptFails(j)
    PROVE  /\ pc' \in [Jobs -> Calls \cup {"run", "ended"}]
           /\ attempt' \in [Jobs -> 0..MaxRetries]
           /\ cur' \in [Jobs -> {"none", "ok", "already", "refused", "busy"}]
           /\ result' \in [Jobs -> {"none", "ok", "already", "error"}]
           /\ relayPending' \in Seq(Events) /\ nudge' \in BOOLEAN
<1> USE ClientAssumption DEF ClientAssumption
<1>1. CASE RetryLeft(j)
    <2>1. /\ attempt' = [attempt EXCEPT ![j] = @ + 1] /\ UNCHANGED <<pc, result, relay>>
          /\ cur' = [cur EXCEPT ![j] = "none"]
        BY <1>1 DEF AttemptFails
    <2>2. attempt[j] + 1 \in 0..MaxRetries
        BY <1>1 DEF RetryLeft, ClientTypeOK
    <2>3. QED
        BY <2>1, <2>2 DEF ClientTypeOK
<1>2. CASE ~RetryLeft(j)
    <2>1. /\ attempt' = [attempt EXCEPT ![j] = 0] /\ Returned(j, "error")
          /\ cur' = [cur EXCEPT ![j] = "none"]
        BY <1>2 DEF AttemptFails
    <2>2. QED
        BY <2>1, ReturnedTypes DEF ClientTypeOK
<1>3. QED
    BY <1>1, <1>2

\* What an answer under way, or a request adrift, says of the control plane:
\* a completion is only ever requested with a verdict, a decided job has a
\* terminal status, "ok" is under way only for a decision of this agent, and
\* CompleteJob has returned only at the end.
CallInv ==
    /\ ClientTypeOK
    /\ \A j \in Jobs :
          /\ pc[j] = "complete" => verdict[j] # "none"
          /\ "complete" \in adrift[j] => verdict[j] # "none"
          /\ decided[j] # "open" <=> Terminal(j)
          /\ cur[j] # "none" => pc[j] \in Calls
          /\ cur[j] = "ok" /\ pc[j] = "complete" => decided[j] = "mine"
          /\ cur[j] = "already" => decided[j] # "open"
          /\ pc[j] # "ended" => result[j] = "none"

\* The end of a call: where the job goes and what is returned.
LEMMA ReturnedEffect ==
    ASSUME CallInv, NEW j \in Jobs, NEW a \in {"ok", "already", "refused", "error"},
           Returned(j, a)
    PROVE  /\ pc[j] \in Calls
           /\ \A i \in Jobs \ {j} : pc'[i] = pc[i] /\ result'[i] = result[i]
           /\ pc'[j] # "complete"
           /\ pc'[j] # "ended" => result'[j] = "none"
           /\ result' # result => /\ pc[j] = "complete" /\ pc'[j] = "ended"
                                  /\ result' = [result EXCEPT ![j] = Classify(a)]
BY DEF CallInv, ClientTypeOK, Returned, VerifyJobLease, StartJob, CompleteJob, Goes, Calls

LEMMA AttemptEffect ==
    ASSUME CallInv, NEW j \in Jobs, pc[j] \in Calls, AttemptFails(j)
    PROVE  /\ cur' = [cur EXCEPT ![j] = "none"]
           /\ \A i \in Jobs \ {j} : pc'[i] = pc[i] /\ result'[i] = result[i]
           /\ pc'[j] = "complete" => pc[j] = "complete"
           /\ pc'[j] # "ended" => result'[j] = "none"
           /\ result' # result => result[j] = "none" /\ result' = [result EXCEPT ![j] = "error"]
<1>1. CASE RetryLeft(j)
    BY <1>1 DEF AttemptFails, CallInv, Calls
<1>2. CASE ~RetryLeft(j)
    <2>1. Returned(j, "error") /\ cur' = [cur EXCEPT ![j] = "none"]
        BY <1>2 DEF AttemptFails
    <2>2. QED
        BY <2>1, ReturnedEffect DEF CallInv, Classify
<1>3. QED
    BY <1>1, <1>2

\* One step of the control plane on a request of this agent.
LEMMA ApplyEffect ==
    ASSUME CallInv, NEW j \in Jobs, NEW c \in Calls, Apply(c, j),
           c = "complete" => verdict[j] # "none"
    PROVE  /\ status' \in [Jobs -> {"assigned", "running", "completed", "failed"}]
           /\ decided' \in [Jobs -> {"open", "mine", "theirs"}]
           /\ \A i \in Jobs : decided'[i] # "open" <=> Terminal(i)'
           /\ decided' # decided => /\ decided[j] = "open"
                                    /\ decided' = [decided EXCEPT ![j] = "mine"]
           /\ c = "complete" /\ lease[j] /\ ~Terminal(j) => decided'[j] = "mine"
<1> USE DEF CallInv, ClientTypeOK, Terminal
<1>1. CASE c = "start" /\ lease[j] /\ status[j] = "assigned"
    <2>1. status' = [status EXCEPT ![j] = "running"] /\ UNCHANGED decided
        BY <1>1 DEF Apply
    <2>2. QED
        BY <1>1, <2>1
<1>2. CASE c = "complete" /\ lease[j] /\ ~Terminal(j)
    <2>1. /\ status' = [status EXCEPT ![j] = verdict[j]]
          /\ decided' = [decided EXCEPT ![j] = "mine"]
        BY <1>2 DEF Apply
    <2>2. verdict[j] \in {"completed", "failed"}
        BY <1>2
    <2>3. QED
        BY <1>2, <2>1, <2>2
<1>3. CASE ~(c = "start" /\ lease[j] /\ status[j] = "assigned") /\ ~(c = "complete" /\ lease[j] /\ ~Terminal(j))
    <2>1. UNCHANGED <<status, decided>>
        BY <1>3 DEF Apply
    <2>2. QED
        BY <1>3, <2>1
<1>4. QED
    BY <1>1, <1>2, <1>3

\* An attempt to send a batch that failed keeps it, or drops it.
LEMMA BatchAttempt ==
    ASSUME ClientTypeOK, BatchAttemptFails
    PROVE  /\ batch' = batch \/ batch' = <<>>
           /\ relayPending' = relayPending
           /\ batch' \in Seq(Events) /\ batchTry' \in 0..MaxRetries
<1>1. MaxRetries \in Nat /\ <<>> \in Seq(Events) /\ batch \in Seq(Events) /\ batchTry \in 0..MaxRetries
    BY ClientAssumption DEF ClientAssumption, ClientTypeOK
<1>2. CASE batchTry < MaxRetries /\ batchTry' = batchTry + 1 /\ UNCHANGED <<batch, relayPending>>
    <2>1. batchTry + 1 \in 0..MaxRetries
        BY <1>1, <1>2
    <2>2. QED
        BY <1>1, <1>2, <2>1
<1>3. CASE batchTry' = 0 /\ batch' = <<>> /\ DropBatch
    BY <1>1, <1>3 DEF DropBatch
<1>4. QED
    BY <1>2, <1>3 DEF BatchAttemptFails

\* The induction of CallInv.
THEOREM CallInvariant == Spec => []CallInv
<1>0. MaxRetries \in Nat /\ Faults \in Nat /\ BatchSize \in Nat
    BY ClientAssumption DEF ClientAssumption
<1>1. Init => CallInv
    <2> SUFFICES ASSUME Init PROVE CallInv
        OBVIOUS
    <2>1. relayPending \in Seq(Events) /\ batch \in Seq(Events)
        BY DEF Init
    <2>2. ClientTypeOK
        <3>1. 0 \in 0..MaxRetries /\ 0 \in 0..Faults
            BY <1>0
        <3>2. /\ pc \in [Jobs -> Calls \cup {"run", "ended"}]
              /\ verdict \in [Jobs -> {"none", "completed", "failed"}]
              /\ cur \in [Jobs -> {"none", "ok", "already", "refused", "busy"}]
              /\ result \in [Jobs -> {"none", "ok", "already", "error"}]
              /\ status \in [Jobs -> {"assigned", "running", "completed", "failed"}]
              /\ decided \in [Jobs -> {"open", "mine", "theirs"}]
            BY DEF Init, Calls
        <3>3. /\ adrift \in [Jobs -> SUBSET Calls] /\ attempt \in [Jobs -> 0..MaxRetries]
              /\ lease \in [Jobs -> BOOLEAN] /\ nudge \in BOOLEAN
            BY <3>1 DEF Init
        <3>4. QED
            BY <2>1, <3>1, <3>2, <3>3 DEF Init, ClientTypeOK
    <2>3. QED
        BY <2>2 DEF Init, CallInv, Calls, Terminal
<1>2. CallInv /\ [Next]_vars => CallInv'
    <2> SUFFICES ASSUME CallInv, [Next]_vars
                 PROVE  CallInv'
        OBVIOUS
    <2> USE DEF CallInv
    <2>1. ASSUME NEW j \in Jobs, LeaseLost(j) PROVE CallInv'
        BY <1>0, <2>1 DEF LeaseLost, Fault, ClientTypeOK, Terminal
    <2>2. ASSUME NEW j \in Jobs, OtherCompletes(j) PROVE CallInv'
        BY <2>2 DEF OtherCompletes, ClientTypeOK, Terminal
    <2>3. ASSUME NEW j \in Jobs, LateRequest(j) PROVE CallInv'
        <3>1. PICK c \in adrift[j] : Apply(c, j) /\ adrift' = [adrift EXCEPT ![j] = @ \ {c}]
            BY <2>3 DEF LateRequest
        <3>2. c \in Calls /\ (c = "complete" => verdict[j] # "none")
            BY <3>1 DEF ClientTypeOK
        <3>3. /\ status' \in [Jobs -> {"assigned", "running", "completed", "failed"}]
              /\ decided' \in [Jobs -> {"open", "mine", "theirs"}]
              /\ \A i \in Jobs : decided'[i] # "open" <=> Terminal(i)'
              /\ decided' # decided => /\ decided[j] = "open"
                                       /\ decided' = [decided EXCEPT ![j] = "mine"]
            BY <3>1, <3>2, ApplyEffect
        <3>4. ClientTypeOK'
            BY <2>3, <3>1, <3>3 DEF LateRequest, ClientTypeOK
        <3>5. QED
            BY <2>3, <3>1, <3>3, <3>4 DEF LateRequest, ClientTypeOK
    <2>4. ASSUME NEW j \in Jobs, Served(j) PROVE CallInv'
        <3>1. CASE cur' = [cur EXCEPT ![j] = Answer(pc[j], j)] /\ Apply(pc[j], j) /\ UNCHANGED faults
            <4>1. pc[j] \in Calls /\ (pc[j] = "complete" => verdict[j] # "none")
                BY <2>4 DEF Served
            <4>2. /\ status' \in [Jobs -> {"assigned", "running", "completed", "failed"}]
                  /\ decided' \in [Jobs -> {"open", "mine", "theirs"}]
                  /\ \A i \in Jobs : decided'[i] # "open" <=> Terminal(i)'
                  /\ decided' # decided => /\ decided[j] = "open"
                                           /\ decided' = [decided EXCEPT ![j] = "mine"]
                  /\ pc[j] = "complete" /\ lease[j] /\ ~Terminal(j) => decided'[j] = "mine"
                BY <3>1, <4>1, ApplyEffect
            <4>3. ClientTypeOK'
                BY <2>4, <3>1, <4>2 DEF Served, Answer, ClientTypeOK
            <4>4. QED
                BY <2>4, <3>1, <4>1, <4>2, <4>3 DEF Served, Answer, ClientTypeOK
        <3>2. CASE Fault /\ cur' = [cur EXCEPT ![j] = "busy"] /\ UNCHANGED <<status, decided>>
            BY <1>0, <2>4, <3>2 DEF Served, Fault, ClientTypeOK, Terminal
        <3>3. QED
            BY <2>4, <3>1, <3>2 DEF Served
    <2>5. ASSUME NEW j \in Jobs, TransportError(j) PROVE CallInv'
        <3>0. /\ Fault /\ pc[j] \in Calls /\ AttemptFails(j) /\ UNCHANGED <<verdict, server, flusher>>
              /\ \/ UNCHANGED adrift
                 \/ adrift' = [adrift EXCEPT ![j] = @ \cup {pc[j]}]
            BY <2>5 DEF TransportError
        <3>1. /\ adrift' \in [Jobs -> SUBSET Calls]
              /\ \A i \in Jobs : "complete" \in adrift'[i] => verdict[i] # "none"
            <4>1. CASE UNCHANGED adrift
                BY <4>1 DEF ClientTypeOK
            <4>2. CASE adrift' = [adrift EXCEPT ![j] = @ \cup {pc[j]}]
                <5>1. adrift[j] \cup {pc[j]} \in SUBSET Calls
                    BY <3>0 DEF ClientTypeOK
                <5>2. QED
                    BY <4>2, <5>1 DEF ClientTypeOK
            <4>3. QED
                BY <3>0, <4>1, <4>2
        <3>2. ClientTypeOK'
            BY <1>0, <3>0, <3>1, AttemptTypes DEF Fault, ClientTypeOK
        <3>3. /\ cur' = [cur EXCEPT ![j] = "none"]
              /\ \A i \in Jobs \ {j} : pc'[i] = pc[i] /\ result'[i] = result[i]
              /\ pc'[j] = "complete" => pc[j] = "complete"
              /\ pc'[j] # "ended" => result'[j] = "none"
            BY <3>0, AttemptEffect
        <3>4. QED
            BY <3>0, <3>1, <3>2, <3>3 DEF ClientTypeOK, Terminal
    <2>6. ASSUME NEW j \in Jobs, ServerError(j) PROVE CallInv'
        <3>1. ClientTypeOK'
            BY <2>6, AttemptTypes DEF ServerError, ClientTypeOK
        <3>2. pc[j] \in Calls
            BY <2>6 DEF ServerError
        <3>3. /\ cur' = [cur EXCEPT ![j] = "none"]
              /\ \A i \in Jobs \ {j} : pc'[i] = pc[i] /\ result'[i] = result[i]
              /\ pc'[j] = "complete" => pc[j] = "complete"
              /\ pc'[j] # "ended" => result'[j] = "none"
            BY <2>6, <3>2, AttemptEffect DEF ServerError
        <3>4. QED
            BY <2>6, <3>1, <3>3 DEF ServerError, ClientTypeOK, Terminal
    <2>7. ASSUME NEW j \in Jobs, Answered(j) PROVE CallInv'
        <3>1. Returned(j, cur[j]) /\ cur[j] \in {"ok", "already", "refused", "error"}
            BY <2>7 DEF Answered
        <3>2. ClientTypeOK'
            BY <1>0, <2>7, <3>1, ReturnedTypes DEF Answered, ClientTypeOK
        <3>3. QED
            BY <2>7, <3>1, <3>2, ReturnedEffect DEF Answered, ClientTypeOK, Terminal
    <2>8. ASSUME NEW j \in Jobs, HandlerReturns(j) PROVE CallInv'
        <3>1. relayPending' \in Seq(Events) /\ nudge' \in BOOLEAN
            <4>1. <<j, "failed">> \in Events
                BY DEF Events
            <4>2. QED
                BY <2>8, <4>1, ToSetFacts
                   DEF HandlerReturns, ReportJobFailure, BufferRelayEvent, ClientTypeOK
        <3>2. ClientTypeOK'
            BY <2>8, <3>1 DEF HandlerReturns, ClientTypeOK, Calls
        <3>3. QED
            BY <2>8, <3>2 DEF HandlerReturns, ClientTypeOK, Calls, Terminal
    <2>9. ASSUME FlushTick PROVE CallInv'
        BY <2>9 DEF FlushTick, TakeBatch, ClientTypeOK, Terminal
    <2>10. ASSUME FlushNudge PROVE CallInv'
        <3>1. nudge' = FALSE /\ UNCHANGED <<call, server, batchTry, lateBatches, received, doubtful, faults>>
            BY <2>10 DEF FlushNudge
        <3>2. batch' \in Seq(Events) /\ relayPending' \in Seq(Events)
            BY <2>10 DEF FlushNudge, TakeBatch, ClientTypeOK
        <3>3. ClientTypeOK'
            BY <3>1, <3>2 DEF ClientTypeOK
        <3>4. QED
            BY <3>1, <3>3 DEF Terminal
    <2>11. ASSUME BatchReceived PROVE CallInv'
        <3>1. ToSet(batch) \subseteq Events
            BY DEF ToSet, ClientTypeOK
        <3>2. /\ batch' \in Seq(Events) /\ batchTry' \in 0..MaxRetries
              /\ relayPending' = relayPending /\ faults' \in 0..Faults
            <4>1. CASE batch' = <<>> /\ batchTry' = 0 /\ UNCHANGED <<relayPending, faults>>
                BY <1>0, <4>1 DEF ClientTypeOK
            <4>2. CASE Fault /\ BatchAttemptFails
                BY <1>0, <4>2, BatchAttempt DEF Fault, ClientTypeOK
            <4>3. QED
                BY <2>11, <4>1, <4>2 DEF BatchReceived
        <3>3. ClientTypeOK'
            BY <2>11, <3>1, <3>2 DEF BatchReceived, ClientTypeOK
        <3>4. QED
            BY <2>11, <3>3 DEF BatchReceived, Terminal
    <2>12. ASSUME BatchNotReceived PROVE CallInv'
        <3>1. ToSet(batch) \subseteq Events
            BY DEF ToSet, ClientTypeOK
        <3>2. /\ batch' \in Seq(Events) /\ batchTry' \in 0..MaxRetries
              /\ relayPending' = relayPending /\ faults' \in 0..Faults
            BY <1>0, <2>12, BatchAttempt DEF BatchNotReceived, Fault, ClientTypeOK
        <3>3. lateBatches' \subseteq Seq(Events) /\ doubtful' \subseteq Events
            BY <2>12, <3>1 DEF BatchNotReceived, ClientTypeOK
        <3>4. ClientTypeOK'
            BY <2>12, <3>2, <3>3 DEF BatchNotReceived, ClientTypeOK
        <3>5. QED
            BY <2>12, <3>4 DEF BatchNotReceived, Terminal
    <2>13. ASSUME LateBatchReceived PROVE CallInv'
        <3>1. PICK b \in lateBatches : /\ received' = received \cup ToSet(b)
                                       /\ lateBatches' = lateBatches \ {b}
            BY <2>13 DEF LateBatchReceived
        <3>2. ToSet(b) \subseteq Events
            BY DEF ToSet, ClientTypeOK
        <3>3. ClientTypeOK'
            BY <2>13, <3>1, <3>2 DEF LateBatchReceived, ClientTypeOK
        <3>4. QED
            BY <2>13, <3>3 DEF LateBatchReceived, Terminal
    <2>14. CASE UNCHANGED vars
        BY <2>14 DEF vars, ClientTypeOK, Terminal
    <2>15. QED
        BY <2>1, <2>2, <2>3, <2>4, <2>5, <2>6, <2>7, <2>8, <2>9, <2>10, <2>11, <2>12,
           <2>13, <2>14 DEF Next
<1>3. QED
    BY <1>1, <1>2, PTL DEF Spec

\* Types of the calls, of the relay and of the control plane: no call makes
\* more attempts than configured, and no job ends without a verdict.
THEOREM ClientTypeCorrect == Spec => []ClientTypeOK
<1>1. CallInv => ClientTypeOK
    BY DEF CallInv
<1>2. QED
    BY <1>1, CallInvariant, PTL

\* A step of the agent and of the control plane is a step of JobOutcome, or
\* none: a request is applied once, and CompleteJob returns once, with an
\* answer the control plane's decision allows.
LEMMA OutcomeStep ==
    ASSUME CallInv, [Next]_vars
    PROVE  [Outcome!Next]_<<decided, result>>
<1> USE DEF Outcome!Next, Outcome!Decide, Outcome!Tell, Outcome!Answers
<1>1. ASSUME NEW j \in Jobs, LeaseLost(j) PROVE UNCHANGED <<decided, result>>
    BY <1>1 DEF LeaseLost
<1>2. ASSUME NEW j \in Jobs, OtherCompletes(j) PROVE Outcome!Next
    <2>1. decided[j] = "open"
        BY <1>2 DEF OtherCompletes, CallInv
    <2>2. decided' = [decided EXCEPT ![j] = "theirs"] /\ UNCHANGED result
        BY <1>2 DEF OtherCompletes
    <2>3. QED
        BY <2>1, <2>2
<1>3. ASSUME NEW j \in Jobs, LateRequest(j) PROVE [Outcome!Next]_<<decided, result>>
    <2>1. PICK c \in adrift[j] : Apply(c, j)
        BY <1>3 DEF LateRequest
    <2>2. c \in Calls /\ (c = "complete" => verdict[j] # "none") /\ UNCHANGED result
        BY <1>3, <2>1 DEF CallInv, ClientTypeOK, LateRequest
    <2>3. decided' # decided => decided[j] = "open" /\ decided' = [decided EXCEPT ![j] = "mine"]
        BY <2>1, <2>2, ApplyEffect
    <2>4. QED
        BY <2>2, <2>3
<1>4. ASSUME NEW j \in Jobs, Served(j) PROVE [Outcome!Next]_<<decided, result>>
    <2>1. UNCHANGED result /\ pc[j] \in Calls /\ (pc[j] = "complete" => verdict[j] # "none")
        BY <1>4 DEF CallInv, Served
    <2>2. CASE Apply(pc[j], j)
        <3>1. decided' # decided => decided[j] = "open" /\ decided' = [decided EXCEPT ![j] = "mine"]
            BY <2>1, <2>2, ApplyEffect
        <3>2. QED
            BY <2>1, <3>1
    <2>3. CASE UNCHANGED <<status, decided>>
        BY <2>1, <2>3
    <2>4. QED
        BY <1>4, <2>2, <2>3 DEF Served
<1>5. ASSUME NEW j \in Jobs, pc[j] \in Calls, AttemptFails(j), UNCHANGED decided
      PROVE  [Outcome!Next]_<<decided, result>>
    <2>1. result' # result => result[j] = "none" /\ result' = [result EXCEPT ![j] = "error"]
        BY <1>5, AttemptEffect
    <2>2. QED
        BY <1>5, <2>1
<1>6. ASSUME NEW j \in Jobs, TransportError(j) PROVE [Outcome!Next]_<<decided, result>>
    BY <1>5, <1>6 DEF TransportError
<1>7. ASSUME NEW j \in Jobs, ServerError(j) PROVE [Outcome!Next]_<<decided, result>>
    <2>1. pc[j] \in Calls /\ AttemptFails(j) /\ UNCHANGED decided
        BY <1>7 DEF ServerError, CallInv
    <2>2. QED
        BY <1>5, <2>1
<1>8. ASSUME NEW j \in Jobs, Answered(j) PROVE [Outcome!Next]_<<decided, result>>
    <2>1. /\ Returned(j, cur[j]) /\ cur[j] \in {"ok", "already", "refused", "error"}
          /\ cur[j] \in {"ok", "already", "refused"} /\ UNCHANGED decided
        BY <1>8 DEF Answered
    <2>2. CASE result' # result
        <3>1. pc[j] = "complete" /\ result' = [result EXCEPT ![j] = Classify(cur[j])]
            BY <2>1, <2>2, ReturnedEffect
        <3>2. result[j] = "none"
            BY <3>1 DEF CallInv
        <3>3. Classify(cur[j]) \in Outcome!Answers(j)
            BY <2>1, <3>1 DEF CallInv, Classify
        <3>4. QED
            BY <2>1, <3>1, <3>2, <3>3
    <2>3. CASE result' = result
        BY <2>1, <2>3
    <2>4. QED
        BY <2>2, <2>3
<1>9. ASSUME NEW j \in Jobs, HandlerReturns(j) PROVE UNCHANGED <<decided, result>>
    BY <1>9 DEF HandlerReturns
<1>10. ASSUME FlushTick \/ FlushNudge \/ BatchReceived \/ BatchNotReceived \/ LateBatchReceived
                \/ UNCHANGED vars
       PROVE  UNCHANGED <<decided, result>>
    BY <1>10 DEF FlushTick, FlushNudge, BatchReceived, BatchNotReceived, LateBatchReceived, vars
<1>11. QED
    BY <1>1, <1>2, <1>3, <1>4, <1>6, <1>7, <1>8, <1>9, <1>10 DEF Next

\* The completion protocol implements JobOutcome: through retries, 5xx
\* answers, requests that arrive late and a lease that changes hands, a job
\* is decided once, and CompleteJob returns "ok" only of a decision of this
\* agent, "already" only of a job that is decided.
THEOREM OutcomeImplemented == Spec => ImplementsOutcome
<1>1. Init => Outcome!Init
    BY DEF Init, Outcome!Init
<1>2. CallInv /\ [Next]_vars => [Outcome!Next]_<<decided, result>>
    BY OutcomeStep
<1>3. QED
    BY <1>1, <1>2, CallInvariant, PTL DEF Spec, ImplementsOutcome, Outcome!Spec

-----------------------------------------------------------------------------
(* The order of the relayed events.                                        *)

Started(j) == <<j, "started">>
Failed(j) == <<j, "failed">>

\* No f comes before an e in s.
Before(s, e, f) == \A k, l \in DOMAIN s : s[k] = e /\ s[l] = f => k < l

Queued == ToSet(batch) \cup ToSet(relayPending)

\* RelayInOrder does not say where an event can be at all.  The induction
\* needs that an event is not around before the step that reports it, that
\* the batch is older than the buffer, and that a batch on its way is in doubt.
JobInOrder(j) ==
    /\ Started(j) \in Queued \cup received \cup doubtful => pc[j] # "verify"
    /\ Failed(j) \in Queued \cup received \cup doubtful => pc[j] \in {"complete", "ended"}
    /\ Before(batch, Started(j), Failed(j)) /\ Before(relayPending, Started(j), Failed(j))
    /\ ~(Failed(j) \in ToSet(batch) /\ Started(j) \in ToSet(relayPending))
    /\ Failed(j) \in received /\ Started(j) \in Queued /\ Started(j) \notin received
          => Failed(j) \in doubtful

RelayInv ==
    /\ \A b \in lateBatches : ToSet(b) \subseteq doubtful
    /\ \A j \in Jobs : JobInOrder(j)

\* An event is appended in order when it is not the one that must come first,
\* or when the one that must come after it is not there.
LEMMA BeforeAppend ==
    ASSUME NEW s \in Seq(Events), NEW e \in Events, NEW f \in Events, NEW g \in Events,
           e # f, Before(s, e, f), g = e => f \notin ToSet(s)
    PROVE  Before(Append(s, g), e, f)
<1>1. /\ DOMAIN Append(s, g) = DOMAIN s \cup {Len(s) + 1} /\ DOMAIN s = 1..Len(s) /\ Len(s) \in Nat
      /\ \A i \in DOMAIN s : Append(s, g)[i] = s[i]
      /\ Append(s, g)[Len(s) + 1] = g
    OBVIOUS
<1>2. SUFFICES ASSUME NEW k \in DOMAIN Append(s, g), NEW l \in DOMAIN Append(s, g),
                      Append(s, g)[k] = e, Append(s, g)[l] = f
               PROVE  k < l
    BY DEF Before
<1>3. CASE k \in DOMAIN s /\ l \in DOMAIN s
    BY <1>1, <1>2, <1>3 DEF Before
<1>4. CASE k = Len(s) + 1 /\ l \in DOMAIN s
    BY <1>1, <1>2, <1>4 DEF ToSet
<1>5. CASE k \in DOMAIN s /\ l = Len(s) + 1
    BY <1>1, <1>5
<1>6. CASE k = Len(s) + 1 /\ l = Len(s) + 1
    BY <1>1, <1>2, <1>6
<1>7. QED
    BY <1>1, <1>3, <1>4, <1>5, <1>6

\* Every step of a call leaves the relay alone and goes forward, or reports
\* the start of a job that leaves verify, or a failure of one that has not
\* completed.
LEMMA CallStep ==
    ASSUME CallInv, NEW j \in Jobs,
           \/ LeaseLost(j) \/ OtherCompletes(j) \/ LateRequest(j) \/ Served(j)
           \/ TransportError(j) \/ ServerError(j) \/ Answered(j) \/ HandlerReturns(j)
    PROVE  /\ UNCHANGED flusher
           /\ \A i \in Jobs \ {j} : pc'[i] = pc[i]
           /\ pc[j] # "verify" => pc'[j] # "verify"
           /\ pc[j] \in {"complete", "ended"} => pc'[j] \in {"complete", "ended"}
           /\ \/ UNCHANGED relayPending
              \/ /\ relayPending' = Append(relayPending, Started(j))
                 /\ pc[j] = "verify" /\ pc'[j] = "start"
              \/ /\ relayPending' = Append(relayPending, Failed(j))
                 /\ pc[j] \in {"verify", "run"} /\ pc'[j] \in {"complete", "ended"}
<1> DEFINE Good == /\ \A i \in Jobs \ {j} : pc'[i] = pc[i]
                   /\ pc[j] # "verify" => pc'[j] # "verify"
                   /\ pc[j] \in {"complete", "ended"} => pc'[j] \in {"complete", "ended"}
                   /\ \/ UNCHANGED relayPending
                      \/ /\ relayPending' = Append(relayPending, Started(j))
                         /\ pc[j] = "verify" /\ pc'[j] = "start"
                      \/ /\ relayPending' = Append(relayPending, Failed(j))
                         /\ pc[j] \in {"verify", "run"} /\ pc'[j] \in {"complete", "ended"}
<1>0. pc \in [Jobs -> {"verify", "start", "complete", "run", "ended"}]
    BY DEF CallInv, ClientTypeOK, Calls
<1>1. ASSUME NEW a, Returned(j, a) PROVE Good
    <2>1. CASE pc[j] = "verify" /\ VerifyJobLease(j, a)
        <3>1. CASE a = "ok"
            BY <1>0, <2>1, <3>1
               DEF VerifyJobLease, Goes, ReportJobStart, BufferRelayEvent, Started
        <3>2. CASE a # "ok"
            BY <1>0, <2>1, <3>2
               DEF VerifyJobLease, Goes, ReportJobFailure, BufferRelayEvent, Failed
        <3>3. QED
            BY <3>1, <3>2
    <2>2. CASE pc[j] = "start" /\ StartJob(j)
        BY <1>0, <2>2 DEF StartJob, Goes
    <2>3. CASE pc[j] = "complete" /\ CompleteJob(j, a)
        BY <1>0, <2>3 DEF CompleteJob, Goes
    <2>4. QED
        BY <1>1, <2>1, <2>2, <2>3 DEF Returned
<1>2. ASSUME AttemptFails(j) PROVE Good
    <2>1. UNCHANGED <<pc, relay>> \/ Returned(j, "error")
        BY <1>2 DEF AttemptFails
    <2>2. CASE UNCHANGED <<pc, relay>>
        BY <2>2
    <2>3. QED
        BY <1>1, <2>1, <2>2
<1>3. CASE LeaseLost(j) \/ OtherCompletes(j) \/ LateRequest(j) \/ Served(j)
    BY <1>3 DEF LeaseLost, OtherCompletes, LateRequest, Served
<1>4. CASE TransportError(j) \/ ServerError(j)
    BY <1>2, <1>4 DEF TransportError, ServerError
<1>5. CASE Answered(j)
    BY <1>1, <1>5 DEF Answered
<1>6. CASE HandlerReturns(j)
    BY <1>0, <1>6 DEF HandlerReturns, ReportJobFailure, BufferRelayEvent, Failed
<1>7. QED
    BY <1>3, <1>4, <1>5, <1>6

\* The batch leaves with its events, which the control plane may receive and
\* which may be in doubt.
LEMMA BatchStep ==
    ASSUME CallInv, RelayInv, NEW got \in {{}, ToSet(batch)}, NEW lost \in {{}, ToSet(batch)},
           received' = received \cup got, doubtful' = doubtful \cup lost,
           batch' = batch \/ batch' = <<>>, UNCHANGED <<pc, relayPending>>
    PROVE  \A j \in Jobs : JobInOrder(j)'
<1> SUFFICES ASSUME NEW j \in Jobs PROVE JobInOrder(j)'
    OBVIOUS
<1>1. JobInOrder(j)
    BY DEF RelayInv
<1>2. ToSet(batch') = ToSet(batch) \/ ToSet(batch') = {}
    BY DEF ToSet
<1>3. ToSet(relayPending') = ToSet(relayPending)
    OBVIOUS
<1>4. Before(batch', Started(j), Failed(j)) /\ Before(relayPending', Started(j), Failed(j))
    BY <1>1 DEF JobInOrder, Before
<1> HIDE DEF Before, Started, Failed
<1>5. QED
    BY <1>1, <1>2, <1>3, <1>4 DEF JobInOrder, Queued

\* The induction of RelayInv.
THEOREM RelayInvariant == Spec => []RelayInv
<1>1. Init => RelayInv
    BY DEF Init, RelayInv, JobInOrder, Queued, Before, ToSet
<1>2. CallInv /\ RelayInv /\ [Next]_vars => RelayInv'
    <2> SUFFICES ASSUME CallInv, RelayInv, [Next]_vars
                 PROVE  RelayInv'
        OBVIOUS
    <2>0. \A i \in Jobs : /\ Started(i) \in Events /\ Failed(i) \in Events
                          /\ \A k \in Jobs : /\ Started(i) # Failed(k)
                                             /\ i # k => Started(i) # Started(k) /\ Failed(i) # Failed(k)
        BY DEF Started, Failed, Events
    <2>1. ASSUME NEW j \in Jobs,
                 \/ LeaseLost(j) \/ OtherCompletes(j) \/ LateRequest(j) \/ Served(j)
                 \/ TransportError(j) \/ ServerError(j) \/ Answered(j) \/ HandlerReturns(j)
          PROVE  RelayInv'
        <3>1. /\ UNCHANGED <<batch, batchTry, lateBatches, received, doubtful>>
              /\ \A i \in Jobs \ {j} : pc'[i] = pc[i]
              /\ pc[j] # "verify" => pc'[j] # "verify"
              /\ pc[j] \in {"complete", "ended"} => pc'[j] \in {"complete", "ended"}
              /\ \/ UNCHANGED relayPending
                 \/ /\ relayPending' = Append(relayPending, Started(j))
                    /\ pc[j] = "verify" /\ pc'[j] = "start"
                 \/ /\ relayPending' = Append(relayPending, Failed(j))
                    /\ pc[j] \in {"verify", "run"} /\ pc'[j] \in {"complete", "ended"}
            BY <2>1, CallStep
        <3>2. relayPending \in Seq(Events)
            BY DEF CallInv, ClientTypeOK
        <3>3. SUFFICES ASSUME NEW i \in Jobs PROVE JobInOrder(i)'
            BY <3>1 DEF RelayInv
        <3>4. JobInOrder(i) /\ JobInOrder(j)
            BY DEF RelayInv
        <3>5. CASE UNCHANGED relayPending
            BY <3>1, <3>4, <3>5 DEF JobInOrder, Queued
        <3>6. CASE /\ relayPending' = Append(relayPending, Started(j))
                   /\ pc[j] = "verify" /\ pc'[j] = "start"
            <4>1. ToSet(relayPending') = ToSet(relayPending) \cup {Started(j)}
                BY <2>0, <3>2, <3>6, ToSetFacts
            <4>2. Failed(j) \notin Queued \cup received \cup doubtful
                BY <3>4, <3>6 DEF JobInOrder
            <4>3. Before(relayPending', Started(i), Failed(i))
                <5>1. Started(j) = Started(i) => Failed(i) \notin ToSet(relayPending)
                    BY <2>0, <4>2 DEF Queued
                <5>2. QED
                    BY <2>0, <3>2, <3>4, <3>6, <5>1, BeforeAppend DEF JobInOrder
            <4>4. QED
                BY <2>0, <3>1, <3>4, <3>6, <4>1, <4>2, <4>3 DEF JobInOrder, Queued
        <3>7. CASE /\ relayPending' = Append(relayPending, Failed(j))
                   /\ pc[j] \in {"verify", "run"} /\ pc'[j] \in {"complete", "ended"}
            <4>1. ToSet(relayPending') = ToSet(relayPending) \cup {Failed(j)}
                BY <2>0, <3>2, <3>7, ToSetFacts
            <4>2. Before(relayPending', Started(i), Failed(i))
                BY <2>0, <3>2, <3>4, <3>7, BeforeAppend DEF JobInOrder
            <4>3. QED
                BY <2>0, <3>1, <3>4, <3>7, <4>1, <4>2 DEF JobInOrder, Queued
        <3>8. QED
            BY <3>1, <3>5, <3>6, <3>7
    <2>2. ASSUME FlushTick \/ FlushNudge PROVE RelayInv'
        <3>1. UNCHANGED <<pc, lateBatches, received, doubtful>>
            BY <2>2 DEF FlushTick, FlushNudge
        <3>2. CASE UNCHANGED <<batch, relayPending>>
            BY <3>1, <3>2 DEF RelayInv, JobInOrder, Queued
        <3>3. CASE TakeBatch
            <4>1. /\ batch = <<>> /\ batch' = relayPending /\ relayPending' = <<>>
                  /\ ToSet(<<>>) = {}
                BY <3>3 DEF TakeBatch, ToSet
            <4>2. SUFFICES ASSUME NEW i \in Jobs PROVE JobInOrder(i)'
                BY <3>1 DEF RelayInv
            <4>3. JobInOrder(i)
                BY DEF RelayInv
            <4>4. Before(relayPending', Started(i), Failed(i))
                BY <4>1 DEF Before
            <4>5. QED
                BY <3>1, <4>1, <4>3, <4>4 DEF JobInOrder, Queued
        <3>4. QED
            BY <2>2, <3>2, <3>3 DEF FlushTick, FlushNudge
    <2>3. ASSUME BatchReceived PROVE RelayInv'
        <3>1. /\ received' = received \cup ToSet(batch) /\ UNCHANGED <<pc, lateBatches, doubtful>>
              /\ doubtful' = doubtful \cup {}
            BY <2>3 DEF BatchReceived
        <3>2. (batch' = batch \/ batch' = <<>>) /\ UNCHANGED relayPending
            BY <2>3, BatchAttempt DEF BatchReceived, CallInv
        <3>3. \A j \in Jobs : JobInOrder(j)'
            BY <3>1, <3>2, BatchStep
        <3>4. QED
            BY <3>1, <3>3 DEF RelayInv
    <2>4. ASSUME BatchNotReceived PROVE RelayInv'
        <3>1. /\ received' = received \cup {} /\ UNCHANGED pc
              /\ (batch' = batch \/ batch' = <<>>) /\ UNCHANGED relayPending
            BY <2>4, BatchAttempt DEF BatchNotReceived, CallInv
        <3>2. CASE UNCHANGED <<lateBatches, doubtful>>
            <4>1. doubtful' = doubtful \cup {}
                BY <3>2
            <4>2. \A j \in Jobs : JobInOrder(j)'
                BY <3>1, <4>1, BatchStep
            <4>3. QED
                BY <3>2, <4>2 DEF RelayInv
        <3>3. CASE lateBatches' = lateBatches \cup {batch} /\ doubtful' = doubtful \cup ToSet(batch)
            <4>1. \A j \in Jobs : JobInOrder(j)'
                BY <3>1, <3>3, BatchStep
            <4>2. QED
                BY <3>3, <4>1 DEF RelayInv
        <3>4. QED
            BY <2>4, <3>2, <3>3 DEF BatchNotReceived
    <2>5. ASSUME LateBatchReceived PROVE RelayInv'
        <3>1. PICK b \in lateBatches : /\ received' = received \cup ToSet(b)
                                       /\ lateBatches' = lateBatches \ {b}
            BY <2>5 DEF LateBatchReceived
        <3>2. UNCHANGED <<pc, batch, relayPending, doubtful>> /\ ToSet(b) \subseteq doubtful
            BY <2>5 DEF LateBatchReceived, RelayInv
        <3>3. ASSUME NEW i \in Jobs PROVE JobInOrder(i)'
            <4>1. JobInOrder(i)
                BY DEF RelayInv
            <4>2. QED
                BY <3>1, <3>2, <4>1 DEF JobInOrder, Queued
        <3>4. QED
            BY <3>1, <3>2, <3>3 DEF RelayInv
    <2>6. CASE UNCHANGED vars
        BY <2>6 DEF vars, RelayInv, JobInOrder, Queued
    <2>7. QED
        BY <2>1, <2>2, <2>3, <2>4, <2>5, <2>6 DEF Next
<1>3. QED
    BY <1>1, <1>2, CallInvariant, PTL DEF Spec

\* The k-th element of the queue is one of the batch or, after it, of the buffer.
LEMMA QueueElement ==
    ASSUME CallInv, NEW k \in DOMAIN (batch \o relayPending)
    PROVE  \/ k \in DOMAIN batch /\ (batch \o relayPending)[k] = batch[k]
           \/ /\ k > Len(batch) /\ k - Len(batch) \in DOMAIN relayPending
              /\ (batch \o relayPending)[k] = relayPending[k - Len(batch)]
BY DEF CallInv, ClientTypeOK

\* A job is not seen to fail before it is seen to start, whatever the number
\* of jobs, of retries and of faults, and the size of the batches.
THEOREM RelayOrderKept == Spec => []RelayInOrder
<1>1. CallInv /\ RelayInv => RelayInOrder
    <2> DEFINE queue == batch \o relayPending
    <2> SUFFICES ASSUME CallInv, RelayInv, NEW j \in Jobs, NEW k \in DOMAIN queue,
                        queue[k] = Started(j), Started(j) \notin received,
                        Failed(j) \notin doubtful
                 PROVE  Failed(j) \notin received \cup {queue[l] : l \in 1..k}
        BY DEF RelayInOrder, Started, Failed
    <2>1. JobInOrder(j)
        BY DEF RelayInv
    <2>2. /\ batch \in Seq(Events) /\ relayPending \in Seq(Events)
          /\ Len(batch) \in Nat /\ DOMAIN batch = 1..Len(batch)
          /\ Len(relayPending) \in Nat /\ DOMAIN relayPending = 1..Len(relayPending)
          /\ k \in Nat /\ 1..k \subseteq DOMAIN queue
        BY DEF CallInv, ClientTypeOK
    <2>3. \/ k \in DOMAIN batch /\ queue[k] = batch[k]
          \/ /\ k > Len(batch) /\ k - Len(batch) \in DOMAIN relayPending
             /\ queue[k] = relayPending[k - Len(batch)]
        BY QueueElement
    <2>4. Started(j) \in Queued
        BY <2>3 DEF Queued, ToSet
    <2>5. Failed(j) \notin received
        BY <2>1, <2>4 DEF JobInOrder
    <2>6. ASSUME NEW l \in 1..k, queue[l] = Failed(j) PROVE FALSE
        <3>1. \/ l \in DOMAIN batch /\ queue[l] = batch[l]
              \/ /\ l > Len(batch) /\ l - Len(batch) \in DOMAIN relayPending
                 /\ queue[l] = relayPending[l - Len(batch)]
            <4>1. l \in DOMAIN queue
                BY <2>2
            <4>2. QED
                BY <4>1, QueueElement
        <3> HIDE DEF queue
        <3>2. CASE l \in DOMAIN batch /\ k \in DOMAIN batch
            <4>1. batch[l] = Failed(j) /\ batch[k] = Started(j)
                BY <2>2, <2>3, <2>6, <3>1, <3>2
            <4>2. k < l
                BY <2>1, <3>2, <4>1 DEF JobInOrder, Before
            <4>3. QED
                BY <2>2, <4>2
        <3>3. CASE l \in DOMAIN batch /\ k \notin DOMAIN batch
            <4>1. Failed(j) \in ToSet(batch) /\ Started(j) \in ToSet(relayPending)
                BY <2>2, <2>3, <2>6, <3>1, <3>3 DEF ToSet
            <4>2. QED
                BY <2>1, <4>1 DEF JobInOrder
        <3>4. CASE l \notin DOMAIN batch
            <4>1. /\ l - Len(batch) \in DOMAIN relayPending
                  /\ k - Len(batch) \in DOMAIN relayPending
                  /\ relayPending[l - Len(batch)] = Failed(j)
                  /\ relayPending[k - Len(batch)] = Started(j)
                BY <2>2, <2>3, <2>6, <3>1, <3>4
            <4>2. k - Len(batch) < l - Len(batch)
                BY <2>1, <4>1 DEF JobInOrder, Before
            <4>3. QED
                BY <2>2, <4>2
        <3>5. QED
            BY <3>2, <3>3, <3>4
    <2>7. QED
        BY <2>5, <2>6
<1>2. QED
    BY <1>1, CallInvariant, RelayInvariant, PTL
=============================================================================
