---------------------------- MODULE PoolLifecycle ----------------------------
(***************************************************************************)
(* The dispatcher composed with the two goroutines that start and stop its *)
(* workers: the device heartbeat, which calls SetMaxWorkers with the       *)
(* concurrency the control plane wants, and main, which drains the agent   *)
(* after a termination signal (gracefulDrain in cmd/main.go) and then      *)
(* calls StopWorkerPool.                                                   *)
(*                                                                         *)
(* PauseJobProcessing sets a flag that nothing reads, and the merge-lock   *)
(* manager is never initialised in the agent, so that ReleaseAllMergeLocks *)
(* returns at once: neither has a state here.                              *)
(***************************************************************************)
EXTENDS Dispatcher

CONSTANTS
    MaxConcurrency,   \* the largest concurrency the control plane asks for
    MaxCrashes        \* bound on the number of workers lost in a panic

ASSUME PoolAssumption ==
    /\ MaxConcurrency \in Nat \ {0}
    /\ MaxCrashes \in Nat
    /\ Transient = Worker
    /\ InitWorker # {} /\ IsFiniteSet(InitWorker)

VARIABLES
    maxWorkers,   \* the pool size the dispatcher believes in
    rpc,          \* where SetMaxWorkers is (muResize admits one call)
    left,         \* workers still to start, or signals still to send
    target,       \* newCount of the call in progress
    crashed,      \* history: workers that ended in a panic
    mpc,          \* where main is in its shutdown
    graceOver,    \* shutdownCtx is done
    late          \* history: jobs accepted after the drain loop ended

resizeVars == <<maxWorkers, rpc, left, target>>
mainVars   == <<mpc, graceOver>>
poolVars   == <<vars, resizeVars, mainVars, crashed, late>>

Live == {w \in Worker : wpc[w] # "off"}

PoolTypeOK ==
    /\ TypeOK
    /\ maxWorkers \in (1 .. MaxConcurrency) \cup {Cardinality(InitWorker)}
    /\ rpc \in {"idle", "growing", "shrinking"}
    /\ left \in 0 .. MaxConcurrency + Cardinality(InitWorker)
    /\ target \in Nat
    /\ crashed \in 0 .. MaxCrashes
    /\ mpc \in {"up", "draining", "sleeping", "reporting", "stopping", "waiting",
               "exited"}
    /\ graceOver \in BOOLEAN
    /\ late \subseteq Job

PoolInit ==
    /\ Init
    /\ maxWorkers = Cardinality(InitWorker)
    /\ rpc = "idle"
    /\ left = 0
    /\ target = 0
    /\ crashed = 0
    /\ mpc = "up"
    /\ graceOver = FALSE
    /\ late = {}

-----------------------------------------------------------------------------
(* SetMaxWorkers                                                           *)

\* newCount <= 0 means 1; nothing happens when the size is the current one.
\* A heartbeat whose context is cancelled gets no answer, so that a call that
\* is in progress after the signal began before it.
ResizeBegin(n) ==
    LET newCount == IF n <= 0 THEN 1 ELSE n
    IN  /\ rpc = "idle"
        /\ mpc = "up"
        /\ newCount # maxWorkers
        /\ target' = newCount
        /\ \/ /\ newCount > maxWorkers
              /\ rpc' = "growing"
              /\ left' = newCount - maxWorkers
           \/ /\ newCount < maxWorkers
              /\ rpc' = "shrinking"
              /\ left' = maxWorkers - newCount
        /\ UNCHANGED <<vars, mainVars, crashed, late, maxWorkers>>

GrowOne ==
    /\ rpc = "growing"
    /\ left > 0
    /\ \E w \in Worker : StartWorker(w)
    /\ left' = left - 1
    /\ UNCHANGED <<mainVars, crashed, late, maxWorkers, rpc, target>>

\* Faulty variant: every signal is broadcast until all idle workers are gone.
ShrinkOneKeepsCounting ==
    /\ rpc = "shrinking"
    /\ left > 0
    /\ \/ /\ jobQueue = <<>>
          /\ \E w \in Worker : WorkerExit(w)
          /\ UNCHANGED left
       \/ /\ UNCHANGED vars
          /\ left' = left - 1
    /\ UNCHANGED <<mainVars, crashed, late, maxWorkers, rpc, target>>

\* One non-blocking send on the unbuffered resizeSignal: a worker parked in
\* its select (then the queue is empty) takes it and returns, or nobody is
\* parked and the signal is lost.
ShrinkOne ==
    /\ rpc = "shrinking"
    /\ left > 0
    /\ \/ /\ jobQueue = <<>>
          /\ \E w \in Worker : WorkerExit(w)
       \/ UNCHANGED vars
    /\ left' = left - 1
    /\ UNCHANGED <<mainVars, crashed, late, maxWorkers, rpc, target>>

\* Faulty variant: the new size is one too large.
ResizeEndOffByOne ==
    /\ rpc # "idle"
    /\ left = 0
    /\ maxWorkers' = target + 1
    /\ rpc' = "idle"
    /\ target' = 0
    /\ UNCHANGED <<vars, mainVars, crashed, late, left>>

ResizeEnd ==
    /\ rpc # "idle"
    /\ left = 0
    /\ maxWorkers' = target
    /\ rpc' = "idle"
    /\ target' = 0
    /\ UNCHANGED <<vars, mainVars, crashed, late, left>>

Resize ==
    /\ mpc # "exited"
    /\ \/ \E n \in 1 .. MaxConcurrency : ResizeBegin(n)
       \/ GrowOne \/ ShrinkOne \/ ResizeEnd

-----------------------------------------------------------------------------
(* main after <-ctx.Done()                                                 *)

Signal ==
    /\ mpc = "up"
    /\ mpc' = "draining"
    /\ UNCHANGED <<vars, resizeVars, crashed, late, graceOver>>

\* The timeout of shutdownCtx.
GraceExpires ==
    /\ mpc \notin {"up", "exited"}
    /\ ~graceOver
    /\ graceOver' = TRUE
    /\ UNCHANGED <<vars, resizeVars, crashed, late, mpc>>

\* Faulty variant: ActiveJobsCount counts the reserved steps.
DrainCountSteps ==
    /\ mpc = "draining"
    /\ mpc' \in IF activeJobs = {} THEN {"reporting"}
                ELSE IF graceOver THEN {"reporting", "sleeping"} ELSE {"sleeping"}
    /\ UNCHANGED <<vars, resizeVars, crashed, late, graceOver>>

\* The top of the drain loop: ActiveJobsCount() == 0 or the elapsed time ends
\* it.  waitStart is read after shutdownCtx was started with the same
\* duration, so that the elapsed time may fall short when the context is done.
DrainCount ==
    /\ mpc = "draining"
    /\ mpc' \in IF runningJobs = {} THEN {"reporting"}
                ELSE IF graceOver THEN {"reporting", "sleeping"} ELSE {"sleeping"}
    /\ UNCHANGED <<vars, resizeVars, crashed, late, graceOver>>

\* The select at its bottom: the timer fires, or shutdownCtx is done and the
\* drain returns an error, skipping the reports.
DrainWake ==
    /\ mpc = "sleeping"
    /\ mpc' = "draining"
    /\ UNCHANGED <<vars, resizeVars, crashed, late, graceOver>>

DrainExpired ==
    /\ mpc = "sleeping"
    /\ graceOver
    /\ mpc' = "stopping"
    /\ UNCHANGED <<vars, resizeVars, crashed, late, graceOver>>

\* ReportInFlightFailures, under activeJobsMutex.  (It also reports the step
\* ids in activeJobs as if they were jobs.)
ReportInFlight ==
    /\ mpc = "reporting"
    /\ fate' = [j \in Job |-> IF j \in runningJobs THEN "told" ELSE fate[j]]
    /\ mpc' = "stopping"
    /\ UNCHANGED <<jobQueue, seen, spc, sjob, dedup, workerVars, mapVars,
                   resizeVars, crashed, late, graceOver>>

\* StopWorkerPool: close(shutdownSignal).
StopPool ==
    /\ mpc = "stopping"
    /\ mpc' = "waiting"
    /\ UNCHANGED <<vars, resizeVars, crashed, late, graceOver>>

ShutdownExit(w) ==
    /\ mpc = "waiting"
    /\ WorkerExit(w)
    /\ UNCHANGED <<resizeVars, mainVars, crashed, late>>

\* Faulty variant: StopWorkerPool waits for the workers only.
ExitWaitsForWorkers ==
    /\ mpc = "waiting"
    /\ Live = {}
    /\ mpc' = "exited"
    /\ UNCHANGED <<vars, resizeVars, crashed, late, graceOver>>

\* wgWorkers.Wait() returned, or the context is done; main returns.
Exit ==
    /\ mpc = "waiting"
    /\ Live = {} \/ graceOver
    /\ mpc' = "exited"
    /\ UNCHANGED <<vars, resizeVars, crashed, late, graceOver>>

MainStep ==
    DrainCount \/ DrainWake \/ DrainExpired \/ ReportInFlight \/ StopPool \/ Exit

-----------------------------------------------------------------------------

\* A step of the dispatcher's own goroutines.  The poller finishes the batch
\* it has fetched after the signal, so deliveries go on while main drains.
DispatcherStep ==
    /\ mpc # "exited"
    /\ \/ \E s \in Submitter, j \in Job : CheckDedup(s, j)
       \/ \E s \in Submitter : SubmitStep(s)
       \/ \E j \in Forgettable : DedupForget(j)
       \/ \E w \in Worker : WorkerStep(w)
    /\ crashed' = crashed + Cardinality({w \in dying : wpc'[w] = "off"})
    /\ crashed + Cardinality(dying') <= MaxCrashes
    /\ late' = IF mpc \in {"up", "draining", "sleeping"} THEN late
               ELSE late \cup {j \in Job : fate[j] # "pending" /\ fate'[j] = "pending"}
    /\ UNCHANGED <<resizeVars, mainVars>>

PoolNext ==
    \/ DispatcherStep
    \/ Resize
    \/ Signal \/ GraceExpires \/ MainStep
    \/ \E w \in Worker : ShutdownExit(w)

\* main runs, time passes, and a select that is reached again and again with
\* its context done picks that case at last (Go chooses at random).  Nothing
\* is assumed of the handlers: they may never return.
PoolSpec ==
    /\ PoolInit
    /\ [][PoolNext]_poolVars
    /\ WF_poolVars(MainStep)
    /\ WF_poolVars(GraceExpires)
    /\ SF_poolVars(DrainExpired)

-----------------------------------------------------------------------------

\* A resize never takes more workers than it was asked to: while no call is in
\* progress the pool has at least maxWorkers workers, the panicked ones aside.
PoolHonoursMax ==
    rpc = "idle" /\ mpc \notin {"waiting", "exited"}
        => Cardinality(Live) + crashed >= maxWorkers

\* A drain that ends before the grace period has let every job finish: from
\* then on neither the reports of the in-flight jobs nor the exit of the agent
\* finds one that was accepted before it ended.
CleanDrainCompletes ==
    mpc \in {"reporting", "stopping", "waiting", "exited"} /\ ~graceOver
        => \A j \in Job : fate[j] = "pending" => j \in late

\* Once the signal is received the agent exits, whatever the handlers do.
ShutdownEnds == mpc = "draining" ~> mpc = "exited"

\* The hypothesis of AcceptedJobEnds: a worker is scheduled and its handlers
\* return (ExecuteJob runs them under a timeout).
WorkersRun == \A w \in Worker : WF_poolVars(WorkerStep(w) /\ DispatcherStep)

\* If handlers return, every accepted job ends: the control plane is told its
\* fate (or it is lost in a panic), whatever resizes and deliveries go on
\* beside it, unless panics have left no worker or the pool is stopped first.
AcceptedJobEnds ==
    WorkersRun =>
        \A j \in Job :
            fate[j] = "pending"
                ~> (fate[j] # "pending" \/ Live = {} \/ mpc \in {"waiting", "exited"})
=============================================================================
