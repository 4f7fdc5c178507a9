---------------------------- MODULE ControlClient ----------------------------
(***************************************************************************)
(* The calls a worker makes to the control plane during the life of a job, *)
(* through the retrying HTTP client (internal/httpclient) and the execution *)
(* client (internal/backend): verify_job_lease, start_job, complete_job,   *)
(* and the buffered relay of job events.                                   *)
(*                                                                         *)
(* A call is one attempt after another.  An attempt that the client gives  *)
(* up may have been applied, may be lost, or may reach the control plane   *)
(* later, after the calls that follow it.  The control plane is external:  *)
(* it decides a job once, refuses whoever does not hold the lease, and     *)
(* answers a repeated completion as idempotent or already completed.       *)
(***************************************************************************)
EXTENDS Integers, FiniteSets, SequencesExt

CONSTANTS
    Jobs,           \* jobs, each processed by one worker
    MaxRetries,     \* retries of one call (DefaultMaxRetries, 3)
    BatchSize,      \* relayBatchSize (5)
    Faults          \* bound on losses, server errors and lost leases

ASSUME ClientAssumption ==
    {MaxRetries, Faults} \subseteq Nat /\ BatchSize \in Nat \ {0}

VARIABLES
    pc,         \* verify | start | run | complete | ended
    verdict,    \* outcome of the handler: none | completed | failed
    attempt,    \* attempts of the current call that failed
    cur,        \* answer under way: none | ok | already | refused | busy (5xx)
    adrift,     \* calls given up whose request is still on its way
    result,     \* what CompleteJob returned: none | ok | already | error
    lease,      \* control plane: does this agent hold the lease?
    status,     \* control plane: assigned | running | completed | failed
    decided,    \* control plane: open | mine | theirs
    relayPending,   \* buffered events
    nudge,          \* relayCh holds a signal
    batch,          \* the batch being sent by relayFlusher
    batchTry,       \* attempts of it that failed
    lateBatches,    \* batches given up whose request is still on its way
    received,           \* history: events the control plane received
    doubtful,           \* history: events of batches that were given up in flight
    faults              \* faults so far

call == <<pc, verdict, attempt, cur, adrift, result>>
server == <<lease, status, decided>>
relay == <<relayPending, nudge>>
flusher == <<batch, batchTry, lateBatches, received, doubtful>>
vars == <<call, server, relay, flusher, faults>>

Fault == faults < Faults /\ faults' = faults + 1

Calls == {"verify", "start", "complete"}
Events == Jobs \X {"started", "failed"}
Terminal(j) == status[j] \in {"completed", "failed"}

ClientTypeOK ==
    /\ pc \in [Jobs -> Calls \cup {"run", "ended"}]
    /\ verdict \in [Jobs -> {"none", "completed", "failed"}]
    /\ attempt \in [Jobs -> 0..MaxRetries]
    /\ cur \in [Jobs -> {"none", "ok", "already", "refused", "busy"}]
    /\ adrift \in [Jobs -> SUBSET Calls]
    /\ result \in [Jobs -> {"none", "ok", "already", "error"}]
    /\ lease \in [Jobs -> BOOLEAN]
    /\ status \in [Jobs -> {"assigned", "running", "completed", "failed"}]
    /\ decided \in [Jobs -> {"open", "mine", "theirs"}]
    /\ relayPending \in Seq(Events) /\ batch \in Seq(Events)
    /\ nudge \in BOOLEAN /\ batchTry \in 0..MaxRetries
    /\ lateBatches \subseteq Seq(Events)
    /\ received \subseteq Events /\ doubtful \subseteq Events
    /\ faults \in 0..Faults

Init ==
    /\ pc = [j \in Jobs |-> "verify"] /\ verdict = [j \in Jobs |-> "none"]
    /\ attempt = [j \in Jobs |-> 0] /\ cur = [j \in Jobs |-> "none"]
    /\ adrift = [j \in Jobs |-> {}] /\ result = [j \in Jobs |-> "none"]
    /\ lease = [j \in Jobs |-> TRUE] /\ status = [j \in Jobs |-> "assigned"]
    /\ decided = [j \in Jobs |-> "open"]
    /\ relayPending = <<>> /\ nudge = FALSE /\ batch = <<>> /\ batchTry = 0
    /\ lateBatches = {} /\ received = {} /\ doubtful = {}
    /\ faults = 0

-----------------------------------------------------------------------------
(* The relay buffer.                                                       *)

(* bufferRelayEvent: append, and signal the flusher when a batch is full. *)
BufferRelayEvent(e) ==
    /\ relayPending' = Append(relayPending, e)
    /\ nudge' = (nudge \/ Len(relayPending') >= BatchSize)

(* flushRelayEvents: the buffer becomes the batch. *)
TakeBatch ==
    /\ batch = <<>> /\ relayPending # <<>>
    /\ batch' = relayPending /\ relayPending' = <<>>

\* Mutant: only a full batch is sent, no ticker.
MutTick == FALSE

(* relayFlusher: its ticker fires every relayFlushEvery. *)
Tick == TRUE

FlushTick ==
    /\ Tick
    /\ TakeBatch
    /\ UNCHANGED <<call, server, nudge, batchTry, lateBatches, received, doubtful, faults>>

FlushNudge ==
    /\ nudge /\ nudge' = FALSE
    /\ \/ TakeBatch
       \/ batch = <<>> /\ relayPending = <<>> /\ UNCHANGED <<batch, relayPending>>
    /\ UNCHANGED <<call, server, batchTry, lateBatches, received, doubtful, faults>>

\* Mutant: a batch that failed goes back to the end of the buffer.
MutDropBatch == relayPending' = relayPending \o batch

(* A batch that failed is dropped. *)
DropBatch == UNCHANGED relayPending

(* One attempt to send the batch failed: retry, or give the batch up,      *)
(* because no retry is left, the ten seconds of the flush are over, or the *)
(* answer is one that is not retried (300 to 499).                         *)
BatchAttemptFails ==
    \/ batchTry < MaxRetries /\ batchTry' = batchTry + 1 /\ UNCHANGED <<batch, relayPending>>
    \/ batchTry' = 0 /\ batch' = <<>> /\ DropBatch

(* The control plane takes the events; the answer arrives or is lost. *)
BatchReceived ==
    /\ batch # <<>>
    /\ received' = received \cup ToSet(batch)
    /\ \/ batch' = <<>> /\ batchTry' = 0 /\ UNCHANGED <<relayPending, faults>>
       \/ Fault /\ BatchAttemptFails
    /\ UNCHANGED <<call, server, nudge, lateBatches, doubtful>>

(* It does not: the request is refused, lost, or still on its way. *)
BatchNotReceived ==
    /\ Fault
    /\ batch # <<>>
    /\ BatchAttemptFails
    /\ \/ UNCHANGED <<lateBatches, doubtful>>
       \/ lateBatches' = lateBatches \cup {batch} /\ doubtful' = doubtful \cup ToSet(batch)
    /\ UNCHANGED <<call, server, nudge, received>>

LateBatchReceived ==
    /\ \E b \in lateBatches : received' = received \cup ToSet(b) /\ lateBatches' = lateBatches \ {b}
    /\ UNCHANGED <<call, server, relay, batch, batchTry, doubtful, faults>>

-----------------------------------------------------------------------------
(* The control plane (external).                                           *)

(* What it does with a request of call c for j. *)
Apply(c, j) ==
    CASE c = "start" /\ lease[j] /\ status[j] = "assigned" ->
           status' = [status EXCEPT ![j] = "running"] /\ UNCHANGED decided
      [] c = "complete" /\ lease[j] /\ ~Terminal(j) ->
           /\ status' = [status EXCEPT ![j] = verdict[j]]
           /\ decided' = [decided EXCEPT ![j] = "mine"]
      [] OTHER -> UNCHANGED <<status, decided>>

(* How it answers. *)
Answer(c, j) ==
    IF c = "complete" /\ Terminal(j) THEN "already" ELSE IF lease[j] THEN "ok" ELSE "refused"

(* The lease runs out and the job is given to another agent, which may end it. *)
LeaseLost(j) ==
    /\ Fault
    /\ lease[j] /\ ~Terminal(j)
    /\ lease' = [lease EXCEPT ![j] = FALSE]
    /\ UNCHANGED <<call, status, decided, relay, flusher>>

OtherCompletes(j) ==
    /\ ~lease[j] /\ ~Terminal(j)
    /\ status' = [status EXCEPT ![j] = "completed"]
    /\ decided' = [decided EXCEPT ![j] = "theirs"]
    /\ UNCHANGED <<call, lease, relay, flusher, faults>>

LateRequest(j) ==
    /\ \E c \in adrift[j] : Apply(c, j) /\ adrift' = [adrift EXCEPT ![j] = @ \ {c}]
    /\ UNCHANGED <<pc, verdict, attempt, cur, result, lease, relay, flusher, faults>>

-----------------------------------------------------------------------------
(* One call: DoWithReq.                                                    *)

(* The request reaches the control plane, which serves it or answers 5xx. *)
Served(j) ==
    /\ pc[j] \in Calls /\ cur[j] = "none"
    /\ \/ cur' = [cur EXCEPT ![j] = Answer(pc[j], j)] /\ Apply(pc[j], j) /\ UNCHANGED faults
       \/ Fault /\ cur' = [cur EXCEPT ![j] = "busy"] /\ UNCHANGED <<status, decided>>
    /\ UNCHANGED <<pc, verdict, attempt, adrift, result, lease, relay, flusher>>

(* ReportJobStart, ReportJobFailure: telemetry only. *)
ReportJobStart(j) == BufferRelayEvent(<<j, "started">>)
ReportJobFailure(j) == BufferRelayEvent(<<j, "failed">>)

Goes(j, to) == pc' = [pc EXCEPT ![j] = to]

(* A call has ended with answer a, "error" when every attempt failed.       *)
(* VerifyJobLease: a lease that could not be verified, or is not ours, ends *)
(* the job with a relayed failure and nothing else.                         *)
VerifyJobLease(j, a) ==
    /\ IF a = "ok" THEN Goes(j, "start") /\ ReportJobStart(j) ELSE Goes(j, "ended") /\ ReportJobFailure(j)
    /\ UNCHANGED result

(* StartJob: an error is logged only. *)
StartJob(j) == Goes(j, "run") /\ UNCHANGED <<relay, result>>

\* Mutant: HTTP 200 is taken for a completion, whatever its body says.
MutClassify(a) == IF a = "refused" THEN "ok" ELSE a

(* CompleteJobResult: a refusal of the lease is an error like any other. *)
Classify(a) == IF a = "refused" THEN "error" ELSE a

CompleteJob(j, a) ==
    Goes(j, "ended") /\ result' = [result EXCEPT ![j] = Classify(a)] /\ UNCHANGED relay

Returned(j, a) ==
    \/ pc[j] = "verify" /\ VerifyJobLease(j, a)
    \/ pc[j] = "start" /\ StartJob(j)
    \/ pc[j] = "complete" /\ CompleteJob(j, a)

\* Mutant: one retry more than configured.
MutRetryLeft(j) == attempt[j] <= MaxRetries

RetryLeft(j) == attempt[j] < MaxRetries

(* An attempt failed: another one after a back-off, or the end of the call. *)
AttemptFails(j) ==
    /\ cur' = [cur EXCEPT ![j] = "none"]
    /\ IF RetryLeft(j)
       THEN attempt' = [attempt EXCEPT ![j] = @ + 1] /\ UNCHANGED <<pc, result, relay>>
       ELSE attempt' = [attempt EXCEPT ![j] = 0] /\ Returned(j, "error")

(* The client's time-out, or a broken connection: the request may have been *)
(* served, be lost, or still arrive (a verification changes nothing then).  *)
TransportError(j) ==
    /\ Fault
    /\ pc[j] \in Calls
    /\ AttemptFails(j)
    /\ \/ UNCHANGED adrift
       \/ cur[j] = "none" /\ pc[j] # "verify" /\ adrift' = [adrift EXCEPT ![j] = @ \cup {pc[j]}]
    /\ UNCHANGED <<verdict, server, flusher>>

(* HTTP 5xx is retried; the body of the last one is closed, so that reading *)
(* it fails.                                                                *)
ServerError(j) ==
    /\ cur[j] = "busy"
    /\ AttemptFails(j)
    /\ UNCHANGED <<verdict, adrift, server, flusher, faults>>

Answered(j) ==
    /\ cur[j] \in {"ok", "already", "refused"}
    /\ cur' = [cur EXCEPT ![j] = "none"]
    /\ attempt' = [attempt EXCEPT ![j] = 0]
    /\ Returned(j, cur[j])
    /\ UNCHANGED <<verdict, adrift, server, flusher, faults>>

(* The handler returns; a failure is relayed before complete_job. *)
HandlerReturns(j) ==
    /\ pc[j] = "run" /\ pc' = [pc EXCEPT ![j] = "complete"]
    /\ \/ verdict' = [verdict EXCEPT ![j] = "completed"] /\ UNCHANGED relay
       \/ verdict' = [verdict EXCEPT ![j] = "failed"] /\ ReportJobFailure(j)
    /\ UNCHANGED <<attempt, cur, adrift, result, server, flusher, faults>>

Next ==
    \/ \E j \in Jobs : \/ LeaseLost(j) \/ OtherCompletes(j) \/ LateRequest(j)
                       \/ Served(j) \/ TransportError(j) \/ ServerError(j)
                       \/ Answered(j) \/ HandlerReturns(j)
    \/ FlushTick \/ FlushNudge \/ BatchReceived \/ BatchNotReceived \/ LateBatchReceived

(* relayFlusher is a goroutine of its own with a ticker; an attempt ends, *)
(* one way or the other, within the client's time-out.                    *)
Fairness == WF_vars(FlushTick) /\ WF_vars(BatchReceived \/ BatchNotReceived)

Spec == Init /\ [][Next]_vars /\ Fairness

-----------------------------------------------------------------------------
(* Correctness.                                                            *)

Outcome == INSTANCE JobOutcome WITH outcome <- decided, told <- result

(* Retries, lost and late requests, 5xx answers and a lease that changes    *)
(* hands do not show through CompleteJob: a job is decided once, "ok" means *)
(* that this agent's verdict was persisted, "already" that it is decided.   *)
ImplementsOutcome == Outcome!Spec

(* A job is not seen to fail before it is seen to start: while its start    *)
(* event is still to be sent for the first time, its failure is neither     *)
(* received nor ahead in the queue, as long as no batch that holds them was *)
(* given up with its request still on its way.                              *)
RelayInOrder ==
    LET queue == batch \o relayPending
    IN  \A j \in Jobs : \A k \in DOMAIN queue :
          (/\ queue[k] = <<j, "started">> /\ <<j, "started">> \notin received
           /\ <<j, "failed">> \notin doubtful)
              => <<j, "failed">> \notin received \cup {queue[l] : l \in 1..k}

(* No event stays in the buffer because the events after it do not fill a   *)
(* batch: each one is sent or dropped with its batch.                       *)
RelayDrains == \A e \in Events : Contains(relayPending, e) ~> ~Contains(relayPending, e)
=============================================================================
