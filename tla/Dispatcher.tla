----------------------------- MODULE Dispatcher -----------------------------
(***************************************************************************)
(* The job dispatcher of the agent: internal/dispatcher/worker_pool.go     *)
(* with the per-job heartbeats of internal/reporter/reporter.go.           *)
(*                                                                         *)
(* Submitters (the start-up loop of cmd/main.go, the poller of             *)
(* internal/realtime) call SubmitJobWithMeta; workers take requests from   *)
(* the bounded channel jobQueue and run executeJobSafe.  The two maps      *)
(* runningJobs and activeJobs, guarded by activeJobsMutex, reserve a job   *)
(* id and an execution step from the submission to the worker's deferred   *)
(* cleanup.  One action is one critical section, one channel operation or  *)
(* one call to the control plane, so that every interleaving of the code   *)
(* is an interleaving of actions.                                          *)
(*                                                                         *)
(* A job stands for one row of the control plane: its step, its type and   *)
(* its execution ids are fixed.  Payloads, logging, tracing and the        *)
(* metrics totalProcessed and totalFailed are left out.  The backpressure  *)
(* callback pauseSSE is never registered in the agent and is left out too. *)
(***************************************************************************)
EXTENDS Naturals, Sequences, FiniteSets

CONSTANTS
    Job,          \* job ids (non-empty: a delivery without one is refused at once)
    Step,         \* execution step ids
    NoStep,       \* the empty execution_step_id
    NoJob,        \* no job in hand
    StepOf,       \* execution_step_id of a job
    Kind,         \* job_type, as far as the dispatcher tells types apart
    HasExec,      \* the envelope carries an execution_id
    PayloadExec,  \* the payload carries an execution_id
    PanicJob,     \* jobs whose handler may panic
    Forgettable,  \* jobs whose dedup entry expires or is evicted within the behaviour
    Submitter,    \* concurrent callers of SubmitJobWithMeta
    Worker,       \* worker goroutines that are ever started
    InitWorker,   \* the ones InitWorkerPool starts
    Transient,    \* the ones a resize or a shutdown may start or stop
    QueueCap      \* capacity of jobQueue

ASSUME ConstantsAssumption ==
    /\ NoStep \notin Step
    /\ NoJob \notin Job
    /\ StepOf \in [Job -> Step \cup {NoStep}]
    /\ Kind \in [Job -> {"step", "scan_dataset", "merge_dataset", "empty"}]
    /\ HasExec \in [Job -> BOOLEAN]
    /\ PayloadExec \in [Job -> BOOLEAN]
    /\ PanicJob \subseteq Job
    /\ Forgettable \subseteq Job
    /\ InitWorker \subseteq Worker
    /\ Transient \subseteq Worker
    /\ QueueCap \in Nat \ {0}

VARIABLES
    jobQueue,     \* the channel: requests not yet taken by a worker
    runningJobs,  \* reserved job ids
    activeJobs,   \* reserved execution steps
    dedup,        \* ids Contains() answers true for (see DedupStore)
    spc, sjob,    \* where each submitter is in SubmitJobWithMeta, and its job
    wpc, wjob,    \* where each worker is in its loop, and its request
    dying,        \* workers unwinding a panic
    hbs,          \* jobs with a running heartbeat goroutine
    hbStop,       \* workers holding the stop function that stops one
    fate,         \* what the control plane was told of the job's last acceptance
    seen          \* history: ids accepted, whose entry has not left the store since

vars == <<jobQueue, runningJobs, activeJobs, dedup, spc, sjob, wpc, wjob,
          dying, hbs, hbStop, fate, seen>>

SubmitPC == {"idle", "checked", "claimed", "undo", "reserved", "enqueued",
             "dropStep", "dropJob"}

WorkerPC == {"off", "idle", "lease", "start", "check", "run", "report",
             "cleanStep", "cleanJob"}

\* "told": a failure event or complete_job was handed to the client for the
\* last acceptance; "lost": its worker panicked.
Fate == {"none", "pending", "told", "lost"}

QueuedJobs == {jobQueue[i] : i \in DOMAIN jobQueue}

TypeOK ==
    /\ jobQueue \in Seq(Job)
    /\ Len(jobQueue) <= QueueCap
    /\ runningJobs \subseteq Job
    /\ activeJobs \subseteq Step
    /\ dedup \subseteq Job
    /\ spc \in [Submitter -> SubmitPC]
    /\ sjob \in [Submitter -> Job \cup {NoJob}]
    /\ \A s \in Submitter : spc[s] # "idle" => sjob[s] \in Job
    /\ wpc \in [Worker -> WorkerPC]
    /\ wjob \in [Worker -> Job \cup {NoJob}]
    /\ \A w \in Worker : wpc[w] \notin {"off", "idle"} => wjob[w] \in Job
    /\ dying \subseteq Worker
    /\ hbs \subseteq Job
    /\ hbStop \subseteq Worker
    /\ fate \in [Job -> Fate]
    /\ seen \subseteq Job

-----------------------------------------------------------------------------
\* The mandatory validation of an envelope.
Valid(j) ==
    /\ HasExec[j] \/ Kind[j] \in {"scan_dataset", "merge_dataset"}
    /\ Kind[j] # "empty"

(* InitWorkerPool: an empty channel and n started workers.                 *)

Init ==
    /\ jobQueue = <<>>
    /\ runningJobs = {}
    /\ activeJobs = {}
    /\ dedup \in SUBSET {j \in Job : Valid(j)}    \* what load() read from disk
    /\ spc = [s \in Submitter |-> "idle"]
    /\ sjob = [s \in Submitter |-> NoJob]
    /\ wpc = [w \in Worker |-> IF w \in InitWorker THEN "idle" ELSE "off"]
    /\ wjob = [w \in Worker |-> NoJob]
    /\ dying = {}
    /\ hbs = {}
    /\ hbStop = {}
    /\ fate = [j \in Job |-> "none"]
    /\ seen = dedup

-----------------------------------------------------------------------------
(* SubmitJobWithMeta                                                       *)

queueVars  == <<jobQueue, fate, seen>>
workerVars == <<wpc, wjob, dying, hbs, hbStop>>

SubmitterGoes(s, to) == spc' = [spc EXCEPT ![s] = to]

SubmitterReturns(s) ==
    /\ spc' = [spc EXCEPT ![s] = "idle"]
    /\ sjob' = [sjob EXCEPT ![s] = NoJob]

\* Validation and the lookup in the persistent store.  A delivery refused
\* here changes nothing.
CheckDedup(s, j) ==
    /\ spc[s] = "idle"
    /\ Valid(j)
    /\ j \notin dedup
    /\ SubmitterGoes(s, "checked")
    /\ sjob' = [sjob EXCEPT ![s] = j]
    /\ UNCHANGED <<queueVars, workerVars, runningJobs, activeJobs, dedup>>

\* Faulty variant: the map is read without being re-checked under the lock.
ClaimJobUnchecked(s) ==
    /\ spc[s] = "checked"
    /\ runningJobs' = runningJobs \cup {sjob[s]}
    /\ SubmitterGoes(s, "claimed")
    /\ UNCHANGED <<queueVars, workerVars, activeJobs, dedup, sjob>>

\* The critical section that tests and sets runningJobs[jobID].
ClaimJob(s) ==
    /\ spc[s] = "checked"
    /\ \/ /\ sjob[s] \in runningJobs
          /\ SubmitterReturns(s)
          /\ UNCHANGED runningJobs
       \/ /\ sjob[s] \notin runningJobs
          /\ runningJobs' = runningJobs \cup {sjob[s]}
          /\ SubmitterGoes(s, "claimed")
          /\ UNCHANGED sjob
    /\ UNCHANGED <<queueVars, workerVars, activeJobs, dedup>>

\* Faulty variant: the step is set without testing it.
ReserveStepUnchecked(s) ==
    /\ spc[s] = "claimed"
    /\ activeJobs' = activeJobs \cup ({StepOf[sjob[s]]} \ {NoStep})
    /\ SubmitterGoes(s, "reserved")
    /\ UNCHANGED <<queueVars, workerVars, runningJobs, dedup, sjob>>

\* The critical section that tests and sets activeJobs[executionStepID].
ReserveStep(s) ==
    /\ spc[s] = "claimed"
    /\ \/ /\ StepOf[sjob[s]] = NoStep
          /\ SubmitterGoes(s, "reserved")
          /\ UNCHANGED activeJobs
       \/ /\ StepOf[sjob[s]] \in activeJobs
          /\ SubmitterGoes(s, "undo")
          /\ UNCHANGED activeJobs
       \/ /\ StepOf[sjob[s]] \in Step \ activeJobs
          /\ activeJobs' = activeJobs \cup {StepOf[sjob[s]]}
          /\ SubmitterGoes(s, "reserved")
    /\ UNCHANGED <<queueVars, workerVars, runningJobs, dedup, sjob>>

\* Faulty variant: a refused step leaves the job id reserved.
UndoClaimForgotten(s) ==
    /\ spc[s] = "undo"
    /\ SubmitterReturns(s)
    /\ UNCHANGED <<queueVars, workerVars, runningJobs, activeJobs, dedup>>

\* The step is taken: give the job id back and refuse.
UndoClaim(s) ==
    /\ spc[s] = "undo"
    /\ runningJobs' = runningJobs \ {sjob[s]}
    /\ SubmitterReturns(s)
    /\ UNCHANGED <<queueVars, workerVars, activeJobs, dedup>>

\* Faulty variant: a send that ignores the capacity.
EnqueueUnbounded(s) ==
    /\ spc[s] = "reserved"
    /\ jobQueue' = Append(jobQueue, sjob[s])
    /\ fate' = [fate EXCEPT ![sjob[s]] = "pending"]
    /\ seen' = seen \cup {sjob[s]}
    /\ SubmitterGoes(s, "enqueued")
    /\ UNCHANGED <<workerVars, runningJobs, activeJobs, dedup, sjob>>

\* The non-blocking send on jobQueue.
Enqueue(s) ==
    /\ spc[s] = "reserved"
    /\ \/ /\ Len(jobQueue) < QueueCap
          /\ jobQueue' = Append(jobQueue, sjob[s])
          /\ fate' = [fate EXCEPT ![sjob[s]] = "pending"]
          /\ seen' = seen \cup {sjob[s]}
          /\ SubmitterGoes(s, "enqueued")
       \/ /\ Len(jobQueue) = QueueCap
          /\ SubmitterGoes(s, "dropStep")
          /\ UNCHANGED queueVars
    /\ UNCHANGED <<workerVars, runningJobs, activeJobs, dedup, sjob>>

\* Faulty variant: an accepted id is not recorded.
DedupAddForgotten(s) ==
    /\ spc[s] = "enqueued"
    /\ SubmitterReturns(s)
    /\ UNCHANGED <<queueVars, workerVars, runningJobs, activeJobs, dedup>>

\* globalDedupStore.Add, after the send.
DedupAdd(s) ==
    /\ spc[s] = "enqueued"
    /\ dedup' = dedup \cup {sjob[s]}
    /\ SubmitterReturns(s)
    /\ UNCHANGED <<queueVars, workerVars, runningJobs, activeJobs>>

\* The queue is full: undo the two reservations, then report the failure.
DropStep(s) ==
    /\ spc[s] = "dropStep"
    /\ activeJobs' = activeJobs \ {StepOf[sjob[s]]}
    /\ SubmitterGoes(s, "dropJob")
    /\ UNCHANGED <<queueVars, workerVars, runningJobs, dedup, sjob>>

DropJob(s) ==
    /\ spc[s] = "dropJob"
    /\ runningJobs' = runningJobs \ {sjob[s]}
    /\ fate' = [fate EXCEPT ![sjob[s]] = "told"]
    /\ SubmitterReturns(s)
    /\ UNCHANGED <<jobQueue, seen, workerVars, activeJobs, dedup>>

\* An entry leaves the store: its TTL runs out, or cleanup evicts it, unexpired,
\* because the store is above its limit.  An agent that could not create a
\* store goes on without one: it behaves as if every entry left at once.
DedupForget(j) ==
    /\ j \in dedup
    /\ dedup' = dedup \ {j}
    /\ seen' = seen \ {j}
    /\ UNCHANGED <<jobQueue, fate, workerVars, runningJobs, activeJobs, spc, sjob>>

SubmitStep(s) ==
    \/ ClaimJob(s) \/ ReserveStep(s) \/ UndoClaim(s) \/ Enqueue(s)
    \/ DedupAdd(s) \/ DropStep(s) \/ DropJob(s)

-----------------------------------------------------------------------------
(* The worker loop and executeJobSafe                                      *)

submitVars == <<spc, sjob, dedup, seen>>
mapVars    == <<runningJobs, activeJobs>>
hbVars     == <<hbs, hbStop>>

WorkerGoes(w, to) == wpc' = [wpc EXCEPT ![w] = to]

Tell(w, what) == fate' = [fate EXCEPT ![wjob[w]] = what]

\* case req := <-jobQueue.  A closed shutdownSignal does not prevent it: the
\* select chooses among the ready cases at random.
Dequeue(w) ==
    /\ wpc[w] = "idle"
    /\ jobQueue # <<>>
    /\ jobQueue' = Tail(jobQueue)
    /\ wjob' = [wjob EXCEPT ![w] = Head(jobQueue)]
    /\ WorkerGoes(w, "lease")
    /\ UNCHANGED <<submitVars, mapVars, hbVars, dying, fate>>

\* Faulty variant: a refused lease is not reported.
VerifyLeaseSilent(w) ==
    /\ wpc[w] = "lease"
    /\ \/ WorkerGoes(w, "start")
       \/ WorkerGoes(w, "cleanStep")
    /\ UNCHANGED <<jobQueue, submitVars, mapVars, hbVars, dying, wjob, fate>>

\* VerifyJobLease: valid, or an error or an invalid lease, which is reported
\* and ends the job.
VerifyLease(w) ==
    /\ wpc[w] = "lease"
    /\ \/ /\ WorkerGoes(w, "start")
          /\ UNCHANGED fate
       \/ /\ WorkerGoes(w, "cleanStep")
          /\ Tell(w, "told")
    /\ UNCHANGED <<jobQueue, submitVars, mapVars, hbVars, dying, wjob>>

\* Faulty variant: the heartbeat is not started.
StartJobNoHeartbeat(w) ==
    /\ wpc[w] = "start"
    /\ WorkerGoes(w, "check")
    /\ UNCHANGED <<jobQueue, submitVars, mapVars, hbVars, dying, wjob, fate>>

\* A second heartbeat of the same job is not started, and its stop function
\* does nothing.
StartExecutionHeartbeat(w) ==
    /\ hbs' = hbs \cup {wjob[w]}
    /\ hbStop' = IF wjob[w] \in hbs THEN hbStop ELSE hbStop \cup {w}

\* The function it returned to w.
StopHeartbeat(w) ==
    /\ hbs' = IF w \in hbStop THEN hbs \ {wjob[w]} ELSE hbs
    /\ hbStop' = hbStop \ {w}

\* ReportJobStart, StartJob and RecordPluginExecutionStart, whose outcomes are
\* ignored, around the start of the heartbeat.
StartJob(w) ==
    /\ wpc[w] = "start"
    /\ StartExecutionHeartbeat(w)
    /\ WorkerGoes(w, "check")
    /\ UNCHANGED <<jobQueue, submitVars, mapVars, dying, wjob, fate>>

\* execution_id after the payload has overridden the envelope's.
ExecIDPresent(j) == HasExec[j] \/ PayloadExec[j]

\* The strict validation.  Its early return does not call stopHeartbeat.
CheckExecID(w) ==
    /\ wpc[w] = "check"
    /\ \/ /\ ExecIDPresent(wjob[w]) \/ Kind[wjob[w]] = "scan_dataset"
          /\ WorkerGoes(w, "run")
          /\ UNCHANGED <<fate, hbStop>>
       \/ /\ ~ExecIDPresent(wjob[w]) /\ Kind[wjob[w]] # "scan_dataset"
          /\ WorkerGoes(w, "cleanStep")
          /\ Tell(w, "told")
          /\ hbStop' = hbStop \ {w}
    /\ UNCHANGED <<jobQueue, submitVars, mapVars, dying, wjob, hbs>>

\* ExecuteJob returns, with an error or without; RecordPluginExecutionEnd; stopHeartbeat().
ExecuteJob(w) ==
    /\ wpc[w] = "run"
    /\ WorkerGoes(w, "report")
    /\ StopHeartbeat(w)
    /\ UNCHANGED <<jobQueue, submitVars, mapVars, dying, wjob, fate>>

\* The handler panics: the deferred cleanup runs, then the goroutine ends.
\* The heartbeat is not stopped and nothing is reported.
Panic(w) ==
    /\ wpc[w] = "run"
    /\ wjob[w] \in PanicJob
    /\ dying' = dying \cup {w}
    /\ hbStop' = hbStop \ {w}
    /\ Tell(w, "lost")
    /\ WorkerGoes(w, "cleanStep")
    /\ UNCHANGED <<jobQueue, submitVars, mapVars, wjob, hbs>>

\* ReportJobFailure and CompleteJob("failed"), or CompleteJob("completed").
ReportOutcome(w) ==
    /\ wpc[w] = "report"
    /\ Tell(w, "told")
    /\ WorkerGoes(w, "cleanStep")
    /\ UNCHANGED <<jobQueue, submitVars, mapVars, hbVars, dying, wjob>>

\* The deferred cleanup: two critical sections, the step first.
CleanStep(w) ==
    /\ wpc[w] = "cleanStep"
    /\ activeJobs' = activeJobs \ {StepOf[wjob[w]]}
    /\ WorkerGoes(w, "cleanJob")
    /\ UNCHANGED <<jobQueue, submitVars, runningJobs, hbVars, dying, wjob, fate>>

CleanJob(w) ==
    /\ wpc[w] = "cleanJob"
    /\ runningJobs' = runningJobs \ {wjob[w]}
    /\ wjob' = [wjob EXCEPT ![w] = NoJob]
    /\ WorkerGoes(w, IF w \in dying THEN "off" ELSE "idle")
    /\ dying' = dying \ {w}
    /\ UNCHANGED <<jobQueue, submitVars, activeJobs, hbVars, fate>>

WorkerStep(w) ==
    \/ Dequeue(w) \/ VerifyLease(w) \/ StartJob(w) \/ CheckExecID(w)
    \/ ExecuteJob(w) \/ Panic(w) \/ ReportOutcome(w) \/ CleanStep(w) \/ CleanJob(w)

\* startWorker, and a return of the loop on resizeSignal or shutdownSignal.
\* PoolLifecycle says when SetMaxWorkers and the shutdown do it.
StartWorker(w) ==
    /\ wpc[w] = "off"
    /\ WorkerGoes(w, "idle")
    /\ UNCHANGED <<jobQueue, submitVars, mapVars, hbVars, dying, wjob, fate>>

WorkerExit(w) ==
    /\ wpc[w] = "idle"
    /\ WorkerGoes(w, "off")
    /\ UNCHANGED <<jobQueue, submitVars, mapVars, hbVars, dying, wjob, fate>>

Next ==
    \/ \E s \in Submitter, j \in Job : CheckDedup(s, j)
    \/ \E s \in Submitter : SubmitStep(s)
    \/ \E j \in Forgettable : DedupForget(j)
    \/ \E w \in Worker : WorkerStep(w)
    \/ \E w \in Transient : StartWorker(w) \/ WorkerExit(w)

Spec == Init /\ [][Next]_vars

-----------------------------------------------------------------------------
(* Who holds a reservation                                                 *)

\* Submitters and workers that hold their job id, and the step of it.
HoldsJobS(s)  == spc[s] \in {"claimed", "undo", "reserved", "dropStep", "dropJob"}
HoldsStepS(s) == spc[s] \in {"reserved", "dropStep"}
HoldsJobW(w)  == wpc[w] \notin {"off", "idle"}
HoldsStepW(w) == wpc[w] \notin {"off", "idle", "cleanJob"}

\* A job id is in flight once: no two holders among the submitters past
\* their claim, the slots of the queue and the workers have the same id.
SingleFlight ==
    /\ \A s, t \in Submitter :
          s # t /\ HoldsJobS(s) /\ HoldsJobS(t) => sjob[s] # sjob[t]
    /\ \A w, v \in Worker :
          w # v /\ HoldsJobW(w) /\ HoldsJobW(v) => wjob[w] # wjob[v]
    /\ \A i, k \in DOMAIN jobQueue : i # k => jobQueue[i] # jobQueue[k]
    /\ \A s \in Submitter : HoldsJobS(s) => sjob[s] \notin QueuedJobs
    /\ \A w \in Worker : HoldsJobW(w) => wjob[w] \notin QueuedJobs
    /\ \A s \in Submitter, w \in Worker :
          HoldsJobS(s) /\ HoldsJobW(w) => sjob[s] # wjob[w]

\* One active job per execution step: two jobs of one step are never queued
\* or executing together.
OneJobPerStep ==
    /\ \A w, v \in Worker :
          /\ w # v /\ HoldsStepW(w) /\ HoldsStepW(v)
          /\ StepOf[wjob[w]] # NoStep
          => StepOf[wjob[w]] # StepOf[wjob[v]]
    /\ \A i, k \in DOMAIN jobQueue :
          i # k /\ StepOf[jobQueue[i]] # NoStep
          => StepOf[jobQueue[i]] # StepOf[jobQueue[k]]
    /\ \A w \in Worker, i \in DOMAIN jobQueue :
          HoldsStepW(w) /\ StepOf[jobQueue[i]] # NoStep
          => StepOf[wjob[w]] # StepOf[jobQueue[i]]

\* No reservation outlives its job: every reserved id and every reserved step
\* belongs to a submitter, a queue slot or a worker that will release it, so
\* that a job or a step is never refused as a duplicate of nothing.
NoLeakedReservation ==
    /\ \A j \in runningJobs :
          \/ \E s \in Submitter : HoldsJobS(s) /\ sjob[s] = j
          \/ j \in QueuedJobs
          \/ \E w \in Worker : HoldsJobW(w) /\ wjob[w] = j
    /\ \A e \in activeJobs :
          \/ \E s \in Submitter : HoldsStepS(s) /\ StepOf[sjob[s]] = e
          \/ \E j \in QueuedJobs : StepOf[j] = e
          \/ \E w \in Worker : HoldsStepW(w) /\ StepOf[wjob[w]] = e

(* The inductive invariant behind them (see DispatcherProofs).             *)

\* Whoever holds a job id or a step has it reserved in the maps.
Reserved ==
    /\ \A s \in Submitter : HoldsJobS(s) => sjob[s] \in runningJobs
    /\ QueuedJobs \subseteq runningJobs
    /\ \A w \in Worker : HoldsJobW(w) => wjob[w] \in runningJobs
    /\ \A s \in Submitter :
          HoldsStepS(s) => StepOf[sjob[s]] \in activeJobs \cup {NoStep}
    /\ \A j \in QueuedJobs : StepOf[j] \in activeJobs \cup {NoStep}
    /\ \A w \in Worker :
          HoldsStepW(w) => StepOf[wjob[w]] \in activeJobs \cup {NoStep}

\* Two different jobs that exclude each other: they are of one step.
SameStep(j, k) == StepOf[j] # NoStep /\ StepOf[j] = StepOf[k]

\* OneJobPerStep for every holder, the submitters included.
StepExclusive ==
    /\ \A s, t \in Submitter :
          s # t /\ HoldsStepS(s) /\ HoldsStepS(t) => ~SameStep(sjob[s], sjob[t])
    /\ \A w, v \in Worker :
          w # v /\ HoldsStepW(w) /\ HoldsStepW(v) => ~SameStep(wjob[w], wjob[v])
    /\ \A j, k \in QueuedJobs : j # k => ~SameStep(j, k)
    /\ \A s \in Submitter, k \in QueuedJobs :
          HoldsStepS(s) => ~SameStep(sjob[s], k)
    /\ \A w \in Worker, k \in QueuedJobs :
          HoldsStepW(w) => ~SameStep(wjob[w], k)
    /\ \A s \in Submitter, w \in Worker :
          HoldsStepS(s) /\ HoldsStepW(w) => ~SameStep(sjob[s], wjob[w])

OwnershipInv == TypeOK /\ SingleFlight /\ Reserved /\ StepExclusive

\* From StartExecutionHeartbeat until its handler returns, a job has the
\* heartbeat that keeps its lease alive, even when an earlier run of the same
\* job left one behind or stops its own.
HeartbeatWhileRunning ==
    \A w \in Worker : wpc[w] \in {"check", "run"} => wjob[w] \in hbs

\* An accepted job whose fate the control plane has not been told is still in
\* the queue or in a worker's hands: the only silent loss is a panic.
FateKnown ==
    \A j \in Job : fate[j] = "pending" =>
        \/ j \in QueuedJobs
        \/ \E w \in Worker :
              wpc[w] \in {"lease", "start", "check", "run", "report"}
              /\ wjob[w] = j

\* With one caller at a time, as in the agent, an accepted id is not accepted
\* again until its entry has left the store, by expiry or by eviction, although
\* it is recorded after the send.  It says nothing of the ids whose entry has
\* gone, and nothing of an agent without a store.
AcceptedOnceWhileStored ==
    [][\A j \in Job : Len(jobQueue') > Len(jobQueue) /\ jobQueue'[Len(jobQueue')] = j
                      => j \notin seen]_vars
=============================================================================
