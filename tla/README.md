# A TLA+ verification project for the Sentra agent

The agent (`src/cmd/main.go`) runs on a customer's machine.  It polls a control
plane for jobs, runs them on a pool of worker goroutines, reports their fate,
keeps their leases alive, processes and merges dataset chunks and keeps a few files
of its own.  This project models the parts of it that decide *whether the agent
comes up, whether a job runs, how often, what it produces and what is known of it
afterwards*, checks them with TLC on small instances, and
proves the central results for every instance with TLAPS.

## 1. Inventory

| Part | State it keeps | Operations | What is hard about it | What makes it correct |
|---|---|---|---|---|
| Dispatcher (`internal/dispatcher/worker_pool.go`) | `jobQueue` (bounded channel), `runningJobs`, `activeJobs` (maps under one mutex) | `SubmitJobWithMeta`, worker loop, `executeJobSafe` | several submitters and workers; reservations taken and released in separate critical sections; early returns; panics; a full queue | an id is in flight once, one active job per step, no leaked reservation, every accepted job's fate is reported |
| Per-job heartbeats (`internal/reporter`) | map of running heartbeat goroutines | start, stop | leftovers of an earlier run of the same id | a running job always has a heartbeat |
| Pool life cycle (`worker_pool.go`, `heartbeat.go`, `cmd/main.go`) | `maxWorkers`, the resize in progress, the phase of the shutdown | `SetMaxWorkers`, `gracefulDrain`, `ReportInFlightFailures`, `StopWorkerPool` | signals lost on an unbuffered channel; deliveries during the drain; two clocks for one grace period | no worker too many is stopped; a clean drain abandons nothing; the agent exits |
| Persistent dedup (`job_dedup.go`) | map of ids to expiry times, a one-slot channel, two files | `Contains`, `Add`, snapshot worker, `cleanup`, `load` | two savers under different locks on one temporary file; crash at any point; eviction at the limit | the file stays readable, nobody is refused longer than a TTL, what eviction forgets early makes room for as many younger ids |
| Poller (`internal/realtime`) | `sentJobs` or Redis marks, `currentInterval`, the claim-skip counter, the wake-up channel | both loops, `fetchNewJobs`, subscription, jobs assigned at start | marks set before the dispatcher accepts; jitter around the ceiling; wake-ups during a poll; a subscription that dies | a job refused once is delivered again; claims are not left out for long; no wake-up is lost; a busy agent polls fast |
| Dataset merge (`internal/dataset`) | checkpoint file, partial file, chunks, locks | `StreamMerge`, tree merge, recovery, lock manager | crash between any two file operations; resume positions | the output holds every chunk once, in order |
| Runtime environments (`cmd/agent/runtime/v2`) | map of environments with a state, per-key locks, a disk account | acquire, release, invalidate, evict, shut down | eviction racing acquisition; waiting for a pending environment; sharing a directory; removals that go file by file beside an installation | an object has one user; the ready marker is honest; every acquisition ends |
| v2 executor (`cmd/agent/executor/v2`) | none of its own | route, execute, classify errors | retries of what is not retryable | an error is retried exactly when it may succeed |
| Chunk handlers (`handlers_unix.go`, `internal/plugin/sandbox.go`) | step output directories, work directory, result | compound, single-step, byte-range and file-list jobs, v2 fallback | interrupted steps, resumption from a cache, two devices with one chunk, plugins that report their output in five ways | the result is the whole pipeline, applied once; a compound chunk gets published |
| Other handlers (`handlers_unix.go`) | none beyond the call | scan, ingest, inspect | formats of files | not stated here |
| Control-plane clients (`internal/backend`, `internal/httpclient`) | relay buffer and its nudge, attempt counter | `DoWithReq`, `VerifyJobLease`, `StartJob`, `CompleteJob`, buffer, flush | requests lost, repeated or late; 5xx; a lease that changes hands; answers of several kinds | what `CompleteJob` returns is true; events stay in order; the buffer empties |
| Device heartbeat (`internal/heartbeat`) | cadence | send, apply policy | resizes the pool concurrently | see pool life cycle |
| Identity and start-up (`internal/auth`, `bootstrap`, `startup`, `storage`, `cmd/main.go`) | identity file, keyring, token file, Redis cache, storage mode | load, validate, clear, claim, save, fetch | a crash between two saves; one store failing and the other not; any error taken for an invalid token | a restart keeps the device; the agent comes up in the end |
| Plugins (`internal/plugin`) | a binary and a manifest for each plugin, signing keys, the id map | sync, auto-update, installation by a worker, verification, quarantine | three installers without a common lock; binary replaced before it is verified; one bad directory is fatal at start | leavings of failed installations are repaired; what workers load is the current version |
| Sandboxes, S3 requests, self-update, observability, tools | mostly none | system calls, HTTP, logging | decided by the kernel or by remote services | not stated here |

Interactions: main and the poller call the dispatcher; the dispatcher calls the
control-plane client, the reporter, the dedup store and, through `ExecuteJob`,
the handlers; the device heartbeat calls `SetMaxWorkers`; main's shutdown reads
the dispatcher's maps and closes its channels.  The list of hazards in
`PROJECT.json` gives the line at which each one bites and the properties that
are about it.

## 2. Plan

Modelled, in this order: `Dispatcher` (the core), `PoolLifecycle` (extends
`Dispatcher` with resizes and the shutdown), `DedupStore`, `StreamMerge`
(sequential and tree merges), `EnvironmentPool` (the v2 executor with its cached
environments), `PollLoop` (delivery), `ControlClient` with its abstract
specification `JobOutcome`, `ChunkPipeline` (the processing of a chunk),
`PluginStore`, and `AgentStart`, which extends it with the start of the agent.

Proved, in this order: `DispatcherProofs` (the dispatcher, then the pool),
`DedupProofs`, `ControlClientProofs` (with the refinement of `JobOutcome`),
`PollLoopProofs`, `EnvironmentProofs`, `AgentStartProofs`, `ChunkProofs`,
`MergeProofs`.  Every safety invariant, every action property and the refinement
that a passing run checks is a theorem.

Next: compressed merges and the merge of remote objects, of which `StreamMerge`
has only the local, uncompressed case.

## 3. The modules and the code

### `Dispatcher`

One action is one critical section, one channel operation or one call of the
control plane.

| Variable | Code |
|---|---|
| `jobQueue`, `QueueCap` | the channel `jobQueue` |
| `runningJobs`, `activeJobs` | the two maps under `activeJobsMutex` |
| `dedup` | the ids for which `globalDedupStore.Contains` is true (`DedupStore` details it) |
| `spc`, `sjob` | the position of each caller of `SubmitJobWithMeta` and its job |
| `wpc`, `wjob`, `dying` | the position of each worker, its request, whether it unwinds a panic |
| `hbs`, `hbStop` | `reporter.hbs`, and whose stop function is the one that stops |
| `fate`, `seen` | history: what the control plane was told; ids accepted whose entry has not left the store |

`CheckDedup`, `ClaimJob`, `ReserveStep`, `UndoClaim`, `Enqueue`, `DedupAdd`,
`DropStep` and `DropJob` are `SubmitJobWithMeta`, in its order; `Dequeue`,
`VerifyLease`, `StartJob`, `CheckExecID`, `ExecuteJob`, `Panic`,
`ReportOutcome`, `CleanStep`, `CleanJob` are a turn of the worker loop.
`DedupForget` takes an entry out of the store, at its expiry or, when `cleanup` finds
the store above its limit, before it (`job_dedup.go:270-297`).
A job's step, type and ids are constants, since a job id is one row of the
control plane.  Payloads, metrics and logging are left out.

### `PoolLifecycle`

Extends `Dispatcher` with `SetMaxWorkers` (`ResizeBegin`, `GrowOne`,
`ShrinkOne`, `ResizeEnd`), called by the device heartbeat, and with main's
shutdown (`Signal`, `DrainCount`, `DrainWake`, `DrainExpired`,
`ReportInFlight`, `StopPool`, `Exit`).  `PauseJobProcessing` sets a flag that
nothing reads and `ReleaseAllMergeLocks` returns at once because no lock manager
is initialised; neither has a state here.  After the signal the poller still
hands over the batch it has fetched, so submissions go on during the drain.

### `DedupStore`

The map, the copy on its way to the one-slot channel, the two savers
(`saveSnapshot` in the snapshot worker, `save` in the cleanup), and the files as
inodes: a descriptor opened before a rename goes on writing to the renamed file.
`WriteTmp` may fail and leave part of its bytes.  `Restart` is the death of the
process at any point followed by `load`; an orderly exit does the same, since
`Close` has no caller.  `DefaultMax` is the limit `cleanup` applies; the one that
`SENTRA_DEDUP_MAX_JOBS` asks for is read by a log line alone and has no part in the
model.  `mine` are the ids added since the process started.

### `StreamMerge`

A file is the sequence of chunks, or torn parts of chunks, written to it; the
output, each stage output of a tree merge and the chunks are files, and each
output has a partial file and a checkpoint.  `Deliver` is `executeMergeDataset`
up to its call of `StreamMerge` or `StreamMergeTree`; it lists the calls of
`StreamMerge` that follow, one for a sequential merge, one for each stage and one
more for a tree.  `OpenPartial`, `SkipChunk`, `CopyChunk`, `SaveCheckpoint`,
`BeginCleanup`, `CleanupChunk`, `RenameOutput` and `ClearCheckpoint` are one such
call, `Finish` the end of the tree merge and the report of completion.
The list of a delivery is given by ranks (`InOrder`: the `i`-th chunk is the one with
`i` of them up to it), which is what filtering the payload's list in its order comes
to and needs no recursion.
`TornCopy` and `Abort` end a delivery at any point.  The payload (skipped,
missing and empty chunks, partial or not, tree or not) is chosen in the initial
state and kept, since the job delivered again is the same job.  Errors the code
only logs (a checkpoint that is not saved or not removed, a chunk that is not
deleted) are choices of their actions.

### `EnvironmentPool`

`Begin` is `ExecuteJob` and `executeRuntime` up to `ExecuteWithMetrics`; the
actions of `Acquire` are `AcquireEnvironment`, those of `Use` the rest.

| Variable | Code |
|---|---|
| `environments`, `state`, `old`, `readych` | the map, and of each `CachedEnvironment` its `State`, whether `LastUsed` is over, whether `readych` is closed; an object is named after the job that created it |
| `envLocks`, `limits`, `currentDiskBytes` | the fields of the pool; sizes are counted in directories |
| `cleaners`, `discarded` | goroutines started by `runEviction` and by `InvalidateEnvironment` that have not begun to remove |
| `walks` | calls of `os.RemoveAll` under way: whose, and the names read and not yet unlinked |
| `dir`, `plugin`, `output` | a directory: what it holds, whose code the plugin file has, `output.json` |
| `venvPath`, `packages` | fields of the two `Runtime` objects, which all executions share |
| `pc`, `job`, `env`, `result`, `size` | the local variables of each execution |
| `jkey`, `overlapped` | the key of each job; history: a directory was set up during another installation or during its removal, or a removal began in a directory in which somebody installs |

Setting up and installing are the two runtimes' `Setup`, `createVirtualEnv` or
`initPackage`, `InstallDeps`; running is `WritePlugin`, then `RunPlugin` or
`RunKilled`, then `ReadOutput`.  `venvPath` is read and written without a lock;
a reader is assumed to get a value somebody wrote.  `os.RemoveAll` is a walk: it
reads the names in the directory, unlinks them one at a time and in any order, those
made meanwhile too if it reads the directory again (`Unlink`), and removes the
directory if nothing is left (`EndWalk`).  There are three of them: an acquisition's
purge of a broken environment (`Purge`, `Purged`), an eviction's, which holds the
pool's mutex all the while (`Clean`, `Cleaned`; `MuFree` is the mutex), and an
invalidation's, which holds nothing (`RemoveDiscarded`, `Removed`).  No error class
is called `retryable`, so there is no retry to model in `executeRuntimeWithRetry`.

### `PollLoop`

The device's side of job delivery.  `AdaptiveTick` and `SafetyTick`, `WakeupPoll`
start a poll in one of the two loops, `PollAnswered` and `PollFailed` end its
exchange, `HandleJob` takes one job of the answer through the marks to the
dispatcher, `EndPoll` computes the next interval.  `Notification` and
`SubscriptionError` are `listenForRedisJobs`.  `Boot`, `DispatchAssigned` and
`FirstPoll` are main and `start`: jobs assigned to the device go to the dispatcher
past the marks.

| Variable | Code |
|---|---|
| `redis`, `event`, `sub` | is there a Redis client; which loop runs; is the subscription alive |
| `interval`, `ceiling`, `recent` | `currentInterval`, `ceilingPolls` modulo 3, is `lastJobTime` within the grace |
| `wakeups` | `redisWakeupCh` |
| `sent` | `sentJobs`, or the `sentra:dedup:*` keys |
| `held`, `seen` | the dispatcher as delivery sees it: jobs queued or running; ids in the file store |
| `server` | the state of each job in the control plane (external) |
| `noticed`, `skips` | history: a notification since the last claim; polls in a row without a claim |

The code never reduces `ceilingPolls` and only tests it modulo 3, so the model keeps
the remainder.  A Redis mark goes by the expiry its SETNX sets (`MarkExpire`,
`internal/redis/client.go`).

Time is not counted.  The one relation between time-outs the code relies on, that
a Redis mark (10 minutes by default) is gone before a lease ends, is the assumption
`MarkBelowLease` and the guard of `LeaseExpire`.

### `ControlClient` and `JobOutcome`

`ControlClient` has a worker for each job that goes through `verify_job_lease`,
`start_job`, its handler and `complete_job`.  A call is a sequence of attempts:
`Served` is the control plane's side, `TransportError`, `ServerError` and
`Answered` the client's; a request that was given up is adrift and may be applied
later (`LateRequest`).  `BufferRelayEvent`, `FlushTick`, `FlushNudge`,
`BatchReceived`, `BatchNotReceived` are the relay and its flusher, which gives a batch
up after its retries, or at once when the answer is a 4xx.

`JobOutcome` is what the completion protocol promises: a job is decided once,
and the agent is told `ok` only of a decision of its own, `already` only of a
decided job, and is told once.  `ControlClient` implements it under the mapping
`outcome <- decided, told <- result`.  That the control plane decides once and
checks the lease is taken from how the client reads its answers
(`CompleteJobResult`); it is external.

### `ChunkPipeline`

A file is the sequence of steps applied to the source to make it, so that a
skipped, repeated or interrupted step shows.  `Deliver` is the control plane and
the part of the handler before its loop; `BeginCompound`, `BeginSingle`,
`BeginRange` and `BeginFileList` find the input of a step, `PluginSucceeds`,
`PluginErrsWithOutput`, `PluginErrs`, `PluginGarbles` and `V2Fails` are the ways a
run ends, `PublishCompound` with `RemoveCache`, `PublishSingle`, `PublishRange`
and `PublishFileList` write the result.  `StorageFails` and `Crash` may come at
any point.

| Variable | Code |
|---|---|
| `mode`, `layout`, `source`, `style` | storage mode, kind of job, `file_list` or prefix or single file, and how each step's plugin delivers its output |
| `published` | the object under the result key, or `chunk_i.out` on the mount |
| `cache`, `work` | `~/.sentra/cache/<execution>/<chunk>/step_k_output`, and the work directory |
| `prev`, `filesDir`, `input` | `previousData`, whether source files are in the work directory, what the plugin reads |
| `reported` | the steps the control plane knows of, from which it chooses `current_step_index` |
| `done`, `regular` | history: steps a device completed and still has; nothing happened that the handlers do not provide for |
| `lapses` | history: the two ways in which the handlers take a file for another than it is |

`regular` becomes false where the handlers cannot see, or do not provide for, what
happened: a delivery that names a step this device has no output for, a plugin that
fails after it wrote *part* of its output, a copy to the mount that stops half way,
the v2 fallback of a byte-range or file-list job.  A plugin that fails after it wrote
the whole output is a regular step, as the code has it
(`handlers_unix.go:1788-1792`), and so is a crash while a plugin writes, which leaves
a torn output in the step's directory or in the work directory.

`lapses` records what goes wrong after such regular events.  `leftover`: the work
directory of a job is named after it and used again (`sandbox.go:107-115`), and what
a crash left torn at `output_path` is taken for the output of a later run that fails,
or prints, instead of writing it.  `bypassed`: a compound step taken as done without
a result leaves `previousData`, or the source files, to the next step.  `WholeResult`
is about histories without them; section 6 has both.

### `PluginStore` and `AgentStart`

`PluginStore` is the plugin directory with its three installers: the sync at
start, the auto-update ticker and a worker that meets an unknown id.  Each works
through the catalogue it fetched: `BeginInstall` or `BeginUpdate`, `Download`,
`Verify`, `WriteManifest`.  A binary or a manifest is the number of the version it
belongs to, or damaged.  What the control plane lists of a version (`Entries`) is
fixed with the version: a signature with or without its key's id, trust, the form of
the checksum, rollout, a signed URL, a platform; `setup` has these and
`SENTRA_STRICT_PLUGIN_SIGNATURES`.  The code judges a plugin in three places by three
rules, kept apart here: `BinaryOK` is what installers accept, `IntegrityOK` what
`InitAndWait` demands of every directory (`AllVerify`), `Loadable` what
`LoadAndUpdatePlugin` accepts.  `Offered` is what an installer will install.  The
keys are those in memory; `PLUGIN_SIGNING_KEY_*` is taken to be unset.

`AgentStart` extends it with main up to the start of the workers: `Start`,
`Heartbeat`, `Clear`, `ClaimExisting` or `ClaimNew`, `SaveIdentity`, `SaveToken`,
`FetchRedisConfig`, `LoadSigningKeys`, `Validate`, `BeginSync`, `EndSync`,
`InitAndWait`, `InitStorage`, `ReconcileAgent`; then the tickers (`ReloadKeys`, `AutoUpdate`) and
`JobInstall`.  Each may fail, with the consequence it has in the code: fatal,
logged, or a fallback.  The service manager starts an agent that ended.  Tokens are
numbered in the order of issue; `owner` and `valid` are the control plane's.

### Definitions named as mutants

Each module holds a few operators marked "Faulty variant" or "Mutant": what a plausible slip
in the code would make of the action after it (a dropped guard, a forgotten
release).  No specification uses them.  Substituting one for its action makes TLC
report the property it is paired with in `PROJECT.json`, which shows that the
property depends on the code and that the instance reaches the case.

## 4. The runs

| Run | What it shows |
|---|---|
| `dispatcher` | types, `SingleFlight`, `OneJobPerStep`, `NoLeakedReservation`, `HeartbeatWhileRunning`, `FateKnown`, with two submitters and two workers, a queue of one slot, panics, workers that come and go, and dedup entries that expire or are evicted |
| `pool` | `PoolHonoursMax`, `CleanDrainCompletes`, `ShutdownEnds` with resizes, a panic and the shutdown; `AcceptedOnceWhileStored` and `AcceptedJobEnds`, with one submitter |
| `dedup` | `BrokenOnlyByOverlap`, `RefusalExpires`, `KeepsYoungest` with two restarts |
| `merge` | `FreshMergeExact`, `NothingDestroyed`, `CompletedHasAll` over every payload of three chunks, two deliveries, interruptions everywhere |
| `environments` | `ExclusiveObject`, `ReadyMeansInstalled`, `LimitOnlyRaced` with two executions at a time over two python environments (with and without dependencies) and a node environment, every failure, evictions, purges and invalidations that remove name by name, and two settings of the limits |
| `environments_live` | `AcquireEnds` under fairness, with two executions that want one environment |
| `poll` | `ClaimCadence`, `NoLostWakeup`, `BusyPollsFast`, and `DeliveredInTheEnd` under fairness, for both loops, with and without Redis |
| `control` | `ImplementsOutcome` (the refinement), `RelayInOrder`, `RelayDrains`, with requests that are lost, repeated or late |
| `chunks` | `WholeResult` and `ChunkPublished` for compound, single-step, byte-range and file-list jobs, on a mount or an object store, two devices at a time |
| `startup` | `RestartKeepsDevice` and `AgentComesUp` with faults in any call or file operation, revoked tokens, new versions, crashes and restarts, for signed, unsigned, enforced and unsupported plugins |
| `environment_output` | violation: a plugin killed in a reused environment is reported as a success with its predecessor's output |
| `merge_resume` | violation: with a skipped chunk, a resumed merge loses a chunk and reports completion |

Bounds.  *Dispatcher*: two jobs that share a step, a merge job that has neither
step nor execution id, and one malformed delivery are the cases the code tells
apart; two submitters and two workers are the smallest number at which every
pair of critical sections can meet; a queue of one slot makes "full" and
"empty" both reachable in one step.  The agent has one submitter at a time
(start-up, then the poller), which is why `pool`, the run about acceptance, has one;
the properties of `dispatcher` are checked, and proved, for concurrent ones.  *Pool*: `Worker`
bounds how many goroutines exist at once, so `GrowOne` waits when all of them are
running: with two workers and sizes 1 and 2 a pool can be grown, shrunk with its
signal delivered or lost, and lose one worker (`MaxCrashes = 1`).  *Dedup*:
three ids against a limit of two make eviction happen, a snapshot every second
id makes both a taken and a skipped snapshot happen, a TTL of two ticks in a
clock of three lets entries live, expire and be added again.  *Merge*: three
chunks with two to a pass make a tree of two stages and the join; a first
chunk that is skipped or empty, one that is merged and one that is still to come
are what a resumption has to tell apart.  Two deliveries are one interruption
and one repetition, or a repetition after a completion.

*Environments*: two jobs are one that leaves an environment behind and one that
finds it, or two at a time; all states an entry can be in are met that way.  The
limits are chosen so that the count, the disk, or neither stands in the way.  The
race that `LimitOnlyRaced` names takes four jobs, so at this size it says that the
limit holds; the theorem is about every size.  Liveness is checked apart, without
symmetry: both jobs want the one environment and there is room for one, so that
locks, waits, purges and evictions stand in each other's way.

*Poll*: two jobs against room for one make a refusal that leaves its mark; one of
them has no execution id, so that the second parse of an answer is met alone and
together with it; the schedule 3, 4, 5 with factor 2 puts the jittered intervals
below, at and above the ceiling; three faults are one failed job, one lost answer
and one crash or dead subscription.  *Control*: two jobs share the relay, one retry
is what tells a retried call from one that has failed for good, batches of two make
both the nudge and the ticker necessary; two faults lose a request and then the
lease, or two attempts of one call.  *Chunks*: three steps are a first, a middle
and a last one; the three pipelines have all inner plugins reporting their output,
one in the middle that does not, and none; two devices are a second delivery while
the first is under way.  *Start-up*: two versions of one plugin with three
installers at once, two device ids, two faults, and one orderly restart; six settings
of the catalogue: signed and enforced, unsigned and then signed without a platform,
unsigned without and with a checksum, and three that the start does not support
(untrusted or with a prefixed checksum; without a key's id or a rollout; without a
signed URL), in which the types and `RestartKeepsDevice` are checked through a loop of
fatal starts.

What `chunks` does not claim: `WholeResult` is about histories that are `regular`,
object stores for the layouts other than compound, and compound pipelines whose
inner plugins all name their output or, with a single source file, none does
(`Chained`), without the two lapses: a torn file that a crash left in a reused work
directory and that was accepted as an output (`Leftover`), and a compound step that was
accepted without a result (`Bypass`).  A crash while a plugin writes, in whatever layout,
and a plugin that fails with its whole output written are regular: only a step that then
takes the wrong file is a lapse.  Outside these the code does publish something else;
section 6 lists the cases, and dropping either member of `lapses` from the exception
makes TLC show one.  `startup` does not claim that a running agent repairs every plugin:
`WaitsForRestart` names what only the next start does.  Nor does it claim that the
agent comes up over any catalogue: `Supported` names the plugins that the sync can
repair and `InitAndWait` accepts, and without it TLC finds a loop of fatal starts.

What `environments` does not claim: that a directory has one user.  The same key
acquired twice at a time gives two objects on one directory, an eviction or an
invalidation then removes it, name by name, under the other, and `python.go:189` can
write `.ready` over a venv of which part is gone.  `ReadyMeansInstalled` says that the
marker lies only after two installations overlapped or a removal went on beside an
installation in its directory (`overlapped`), and it says nothing of a directory that
is being removed.  Nor is the disk
account claimed to be that of the disk: every release adds the whole size again.

What `merge` does not claim is as important: `NothingDestroyed` and
`CompletedHasAll` are about sequential merges without skipped or missing chunks,
and about histories in which no checkpoint outlived its partial file.  Outside
these the code does lose chunks; `merge_resume` shows one way.

What the runs of the dispatcher do not claim: `AcceptedOnceWhileStored` is not "once per
TTL".  Above a thousand entries `cleanup` evicts ids that have not expired, and an
agent whose store cannot be created goes on without one; `DedupForget` has both, and
the property speaks of the entries that are still there.  `KeepsYoungest` of the
store says what eviction costs.

Deadlock is checked in `dispatcher`.  It is switched off where the system
may stop: after `exited`, at the end of the store's clock,
when a merge is not delivered again, when all v2 jobs have been executed, and in
the four newer models when no job, chunk, version or restart is left.

Fairness.  `PoolSpec` assumes
only that main runs and time passes, and, strongly, that a `select` which is
reached again and again with its context done takes that case (Go picks a ready
case at random); the handlers may hang.  `AcceptedJobEnds` alone has a hypothesis
(`WorkersRun`): workers are scheduled and handlers return, since they run under a
timeout.  It excepts the jobs that are left when panics have ended every worker, which
nothing starts again, and those that are queued when the pool is stopped.  `EnvironmentPool`'s `Spec` assumes that
a goroutine inside `AcquireEnvironment` goes on, which includes that `time.After`
fires, and that an eviction which holds the pool's mutex ends, since its system calls
return (`Evict`); plugins, installers and the other removals may hang, and contexts
need not be cancelled.
`PollLoop` assumes that the loop is scheduled and its tickers fire, that an
exchange is answered or times out (10 s), that marks, leases and store entries
expire, and that a job in the dispatcher ends, which it does by its time-out; the
faults are finite.  `ControlClient` assumes the flusher's ticker and the end of
each attempt.  `ChunkPipeline` assumes that a handler goes on and that the control
plane keeps delivering a chunk that is nowhere under way.  `AgentStart` assumes
that main's calls end, that the service manager restarts the agent, and that
tickers and installers go on.  Two calls are not among them: `FetchRedisConfig` and
`ReconcileAgent` use `http.DefaultClient`, which has no time-out
(`bootstrap.go:293`, `reconcile.go:50`), under a context that only a signal ends.
They have no fairness, and that they are answered is a hypothesis of `AgentComesUp`.

## 5. What is proved

The theorems hold for every value of the constants that satisfies the named
assumptions of the modules: any number of jobs, steps, submitters, workers,
devices, keys, versions, faults and restarts, any queue capacity, schedule or
limit.  `PROJECT.json` lists them.  Each proof has one step for each action and
ends in a temporal step that uses only the induction.

* `DispatcherProofs`: `TypeCorrect`, `SingleFlightHolds`, `OneJobPerStepHolds`,
  `HeartbeatHolds`, `FateKnownHolds`, `NoLeakHolds`.  `SingleFlight` is not
  inductive by itself: that a submitter finds its id free in `runningJobs` says
  something about the queue and the workers only if all of them have theirs
  reserved there.  `OwnershipInv` adds that (`Reserved`) and the same for steps
  (`StepExclusive`); `OwnershipInvariant` is its induction.  The other theorems are
  inductions over it.  `AcceptedOnce` is `AcceptedOnceWhileStored` under the hypothesis
  that there is one caller at a time, which is the agent's case; `AcceptedKnown`
  says that an id whose entry has not left the store is in it or about to be put there.
* `DispatcherProofs`, second part, for `PoolSpec`: `PoolStepDispatch` shows that a
  step of the agent is a step of the dispatcher or the report of the in-flight
  jobs, which changes only their fate, so `DispatchInvariant` carries the dispatcher's invariants over
  (`PoolKeepsDispatcher`), and `CleanDrainHolds` follows: whoever sees
  `runningJobs` empty sees no accepted job without an outcome.  `PoolAcceptsOnce` is
  `AcceptedOnce` in the whole agent: jobs that are submitted during the drain or
  after the report of the in-flight ones are no exception.
  `PoolHonoursMaxHolds` needs `SizeInv`, since the property says nothing while a
  resize is in progress: what a resize still has to start or may still stop.
* `DedupProofs`: `StoreTypeCorrect`; `SaveInvariant`, the induction of
  `SaveInv`: a save that no other overlapped owns the temporary file, which is
  empty when it is written and whole when it is renamed, and until an overlapped
  save is renamed nobody has the store's file open.  `BrokenOnlyByOverlapHolds`
  follows.  `GenuineInvariant` (every copy of an entry, in memory, in the
  channel, in a saver's hands or on disk, is no younger than its last `Add`)
  gives `RefusalExpiresHolds`.  `KeepsYoungestHolds` is an induction of its own, since
  a cleanup may evict one of the younger ids that excused an earlier eviction:
  `EvictionFair` shows that then all the ids left are younger still, and
  `MineExact` that an id of this run has the expiry of its `Add`.
* `ControlClientProofs`: `OutcomeImplemented`, the refinement of `JobOutcome`.  Its
  induction is `CallInv`: the answer under way (`cur`) was given after the decision
  it speaks of, and a completion adrift has a verdict, so that a late request
  decides as the worker would have.  `RelayOrderKept` needs `RelayInv`, which
  follows a job's events through the buffer, the batch on its way and the batches
  that may still arrive, together.
* `PollLoopProofs`: `PollInv` has the types, `skips <= ceiling` (what a poll leaves
  out is what the code counts modulo three) and the two other properties, which
  then are inductive.
* `EnvironmentProofs`: `EnvTypeCorrect` needs `Potential`, since `EnvTypeOK` bounds
  the disk account by the number of jobs: each job adds to it once, so the bound counts
  the jobs that have not yet.  `ObjectsExclusive` needs
  `ObjectInv`: executions have different jobs, an object that is being created
  is in nobody's hands and not in the map.  `LimitHolds` (an action property) counts
  the entries of the map, which are finitely many because each has the object of
  another job.  `ReadyIsInstalled` needs `InstallInv`: without an overlap there is one
  installer, nobody removes its directory, and the directory has what its position says
  it has installed; and `WalkInv`: a removal that comes upon a marker has read its name
  and will unlink it, so that it does not end with the marker left and the venv gone.
* `ChunkProofs`: `WholeResultHolds`, from `WholeInv`.  For a compound chunk: the
  output directories of the steps a device completed hold the pipeline up to that
  step; a handler about to begin a step finds it through `previousData` or the
  cache; a running plugin has it as its input and an empty directory of its own.
  For the other layouts on an object store: an output in a work directory, also
  one that a crash left there, is the pipeline up to its step or is torn, and one that
  is about to be uploaded is not torn.  The lemmas that matter for the code are
  `CompoundErrs` (because the directory is made anew, `hasRealOutput` never takes an
  earlier run's output for that of a failed plugin), `SingleErrs` (in the other layouts
  it can, and that is the lapse `leftover`) and `CompoundErrsWithOutput` (a failed
  plugin's whole output is the step's output unless the next step is given another).
  Crashes during a plugin's write and failed plugins with a whole output are part of
  the theorem in every layout.
* `AgentStartProofs`: `StartTypeCorrect`, which includes the plugin store's types, and
  `RestartKeepsDeviceHolds` from `ClaimInv`: every stored token belongs to the device
  it is stored for, and as long as a claim has not been paid for by a fault its token is
  accepted and is on its way to the stores or what the next start will load.

* `MergeProofs`: three inductions.  `MergeInv` has the types and what they need:
  lists no longer than the payload's, positions inside them, an open partial file
  that exists, chunk files that are gone or as they were processed.

  `PlainInv` gives `NothingDestroyedHolds` and `CompletedHasAllHolds`.  Both say
  something of one moment; what carries them from one delivery to the next is that
  the partial file has, in order, every non-empty chunk up to the *largest* of the
  checkpoint, `resumeIndex` and the position of the loop (`Has`), although chunks
  may be there twice and torn copies between them.  A checkpoint that could not be
  written only makes its own claim weaker.  When chunks are being deleted the partial
  file has them all, and the rename moves that to the output before the checkpoint
  goes.

  `FreshInv` gives `FreshMergeExactHolds`.  It says that there is a function `M`
  from files to sets of chunks, what each file is to stand for, such that every
  planned call joins the sets of its inputs into that of its output, in ascending
  order (`Joins`), no file is written after it was read or read twice (`PlanOK`), and
  the current call has written what the inputs up to its position stand for.  For a
  chunk `M` is the chunk itself or nothing, for a stage output the chunks with the
  ranks of the stage (`Meaning`); `SequentialPlan` and `TreePlan` show that
  `ActiveChunks` and `planTreeMerge` give such plans, for every `N`, `PerPass` and
  `Threshold`.  A merge is a concatenation over its list, but no induction over data
  is needed: each step of the loop appends one input, and `WholeSeqConcat` says that
  the list of a set of chunks followed by the list of a set of later ones is the
  list of the union.  That rests on counting (`RankFacts`, `RankOnto`: ranks are a
  bijection onto `1 .. Cardinality(S)`) instead of recursion.

Assumptions that the proofs add to those TLC needs: finitely many jobs in
`PollLoop`, finitely many workers started by `InitWorkerPool`, finitely many ids in
`DedupStore`, finitely many executions in `EnvironmentPool` (they are goroutines, or rows of a table), that two keys with one directory have the same runtime and dependencies
(the directory is named after a hash of both, `manager.go:367-385` and `474-480`; a collision
of its 16 digits is left out), and that the value for a missing file is not the
contents of one.  TLC evaluates all of them in the runs.
TLC also finds the inductive invariants true on the instances of section 4 (give
`MC*` the proof module to extend and the invariant to check); `FreshInv`, which
ranges over all functions `M`, on two chunks with one to a stage.

Only model-checked: the liveness properties (`AcceptedJobEnds`, `ShutdownEnds`,
`AcquireEnds`, `DeliveredInTheEnd`, `RelayDrains`, `ChunkPublished`,
`AgentComesUp`), which need fairness and are out of the prover's reach.

## 6. Disagreements between the code and its documentation, and other limits

The two violation runs are `merge_resume` and `environment_output`; see section 4, and
`PROJECT.json` quotes the lines under `findings`.  Three more disagreements were met
that have no run of their own:

* *Limit of the dedup store.*  `README.md:98` and `:486` say that
  `SENTRA_DEDUP_MAX_JOBS` is the maximum of the dedup store.  It is read into a field
  that only a log line uses (and only if it is above 1000); `cleanup` compares with
  `defaultDedupMaxJobs` (`job_dedup.go:270`).  `KeepsYoungest` is about that limit.
* *Leftovers of a crash.*  `handlers_unix.go:1196` asks whether a failed plugin "still
  managed to write a real output file", and looks for one in a work directory that a
  crashed run of the job may have left (`1199`, `1408`, `1574`; `sandbox.go:107-115`).
  The torn file is uploaded as the result.  A plugin that succeeds and prints its output
  fares the same, because its output is written only if nothing is there.
* *Steps accepted with an error.*  A compound step whose plugin fails with its output
  written counts as success without a result (`handlers_unix.go:1788-1792`), and the next
  step reads an older output or the source (`2157`), where
  `RISE-OTB-pipeline-plan.md:38` says it reads that step's.

The models contain further behaviour a maintainer should know of.  No property
claims the opposite.

* *Heartbeat of a merge job.*  A merge job without an execution id passes
  `SubmitJobWithMeta` and is failed at `worker_pool.go:343-357` without a call of
  its heartbeat's stop function, which `reporter.go:33` says "MUST be called".
* *Expired grace period.*  `gracefulDrain` may return at `cmd/main.go:555` before
  it reports the unfinished jobs, where `README.md:88` says it does.
* *Dedup file.*  A cleanup's save and a snapshot's save may overlap
  (`job_dedup.go:190`) and leave a file that does not parse;
  `BrokenOnlyByOverlap` says that nothing else does.  Ids accepted since the last
  snapshot (every tenth `Add`, line 164) are forgotten by a restart, where
  `README.md:98` says duplicates are rejected across restarts.
* *Dedup eviction.*  Above a thousand entries ids are evicted before their TTL and
  accepted again (`job_dedup.go:270-297`), and without a store (`cmd/main.go:444`) every
  id is.
* *Shrinking pool.*  A resize to fewer workers while all are busy loses its signals
  (`worker_pool.go:694`), and the pool stays larger than its limit; `PoolHonoursMax` is
  about the other side.  Jobs accepted after the drain has counted are abandoned.
* *Shared environments.*  Two executions of one key share a directory, and a removal
  beside an installation can leave `.ready` over a venv of which part is gone
  (`manager.go:304`, `446`, `672-681`, `python.go:189`); every later hit then runs in it.
* *Merges.*  A tree merge that is interrupted after its first stage has deleted that
  stage's chunks, so that the job delivered again fails or, if it is partial, plans
  others (`merge.go:769`).  A merge that takes less than a millisecond panics in a
  division, after its output is in place (`merge.go:666`).
* *Marks in memory.*  Without Redis a job the dispatcher refused is dropped until
  the process ends, because `CleanupOldJobs` has no caller;
  `DeliveredInTheEnd` is about Redis.
* *Single-step jobs on a shared mount* write `chunk_i.out` in place: the file of
  the step before is taken for the output of a plugin that failed
  (`handlers_unix.go:1199`), and what a plugin prints is dropped because the file
  exists.  Byte-range and file-list jobs on a mount lose their result with the
  work directory.
* *v2 fallback.*  Byte-range and file-list jobs pass on an `input_path` that they
  never set (`handlers_unix.go:1417`).
* *Compound chunks.*  When a plugin between others reports no path, `previousData`
  still names an earlier step's output, and the step after it reads that.  A
  resumption with `file_list` reads the source files again.  A delivery whose
  `current_step_index` is past the last step and whose cache is gone writes
  metadata over the result in an object store.
* *Plugins.*  The auto-update looks at the manifest only, so that a binary another
  installer put beside a current manifest stays until the next start; so does a
  quarantined manifest.  A plugin whose entry names no OS or architecture is installed
  under the device's own and never updated (`update.go:42`, `91-95`).
* *Plugins that install and do not start.*  `InstallPlugin` and `VerifyPluginIntegrity`
  disagree.  An unsigned plugin that is not trusted, a checksum after `sha256-`
  (stripped at `manager.go:165`, compared as it is at `verify.go:251`), a signature
  without its key's id (`db_sync.go:264`, `verify.go:255`) and a plugin without a checksum
  but with a signature pass the installation and are fatal at every start after it.  An
  unsigned plugin under strict enforcement fails its installation and leaves a directory
  without a manifest, which is as fatal.  What the rollout or a missing signed URL keeps
  from the sync is not repaired.  No document of the repository says which entries are
  valid, so there is no violation run; `Supported` is the condition.
* *Start-up.*  A failed storage configuration means `shared_mount` until the
  process ends, and a Redis configuration fetched once is used for ever.  Two requests
  of main have no time-out: a control plane that takes the connection and does not
  answer stops the start for good.

## 7. Not modelled

The parts marked `not_modelled` or `partly` in `PROJECT.json`, with the reason.  In
short: sandboxes, S3 requests, logging and command-line tools for good, because
what they do is decided by the kernel, by remote services or by file contents; scan,
ingest and inspection handlers, which compute on file contents; compressed merges
and checksums; the device heartbeat's cadence and metrics, which nothing in the
agent reads back.  Code without a caller is left out: `internal/update`,
`internal/backend/client.go`, `FetchConfig` and `claimDevice` of
`internal/bootstrap`, `CleanupOldJobs`, `RequestJobAssignment`, the merge lock
manager.  The control plane (`supabase/`) is not part of the repository and appears
only as nondeterministic answers.
