------------------------------ MODULE PollLoop ------------------------------
(***************************************************************************)
(* Delivery of jobs to one device: the polling client of                    *)
(* internal/realtime, its two schedules (adaptive backoff, or Redis wake-ups *)
(* with a safety ticker), the duplicate filter in front of the dispatcher,  *)
(* and the hand-over of already assigned jobs when the agent starts.        *)
(*                                                                          *)
(* The control plane (which leases a job to the device that polls) and the  *)
(* Redis server are external.  The dispatcher is the set of jobs it holds   *)
(* and its file-backed store of seen ids; module Dispatcher has its inside. *)
(* Ages are not counted: an expiry is an action, ordered only where the      *)
(* time-outs of the code order it.  Losses, errors, crashes and failed jobs *)
(* draw on one budget, Faults.                                              *)
(***************************************************************************)
EXTENDS Integers, FiniteSets, SequencesExt

CONSTANTS
    Jobs,           \* job ids
    NoExec,         \* jobs without an execution id (scan_dataset, merge_dataset)
    Limit,          \* jobs per claim ("limit": 10)
    Room,           \* jobs the dispatcher holds before it refuses one
    WakeCap,        \* capacity of redisWakeupCh (64)
    MinPoll, PostClaim, MaxIdle, Multiplier,   \* the schedule, in one unit
    SentJobsTTL, LeaseTTL,                     \* minutes
    Faults          \* bound on losses, errors, crashes and failed jobs

ASSUME JobsAssumption == IsFiniteSet(Jobs) /\ NoExec \subseteq Jobs

ASSUME ScheduleAssumption ==
    /\ {Limit, Room, WakeCap, MinPoll, PostClaim, MaxIdle} \subseteq Nat \ {0}
    /\ Multiplier \in Nat \ {0, 1} /\ Faults \in Nat
    /\ MinPoll <= MaxIdle /\ PostClaim < MaxIdle

\* A mark made when a lease begins is gone when that lease ends.
ASSUME MarkBelowLease == SentJobsTTL \in Nat /\ LeaseTTL \in Nat /\ SentJobsTTL < LeaseTTL

VARIABLES
    redis,      \* redisClient # nil
    event,      \* polling is driven by Redis notifications
    sub,        \* the subscription of listenForRedisJobs is alive
    pc,         \* boot | assign | wait | sent | handle
    claim,      \* the poll in flight asks for jobs
    list,       \* jobs of the answer still to be handled
    count,      \* jobs the answer held
    interval,   \* currentInterval
    ceiling,    \* ceilingPolls, of which only the remainder by 3 is used
    recent,     \* the last work is less than activeGrace ago
    wakeups,    \* entries in redisWakeupCh
    sent,       \* ids marked as processed (sentJobs, or sentra:dedup:* keys)
    held,       \* jobs the dispatcher has queued or is running
    seen,       \* ids in the dispatcher's file store
    server,     \* control plane: new | pending | leased | done
    faults,     \* faults so far
    noticed,    \* history: a notification was received since the last claim
    skips       \* history: polls in a row that did not ask for jobs

mode == <<redis, event>>
loop == <<pc, claim, list, count>>
schedule == <<interval, ceiling, recent, skips>>
wake == <<sub, wakeups, noticed>>
vars == <<mode, loop, schedule, wake, sent, held, seen, server, faults>>

(* jittered: d plus or minus a fifth of it. *)
Jittered(d) == {d - d \div 5, d, d + d \div 5}

Least(a, b) == IF a < b THEN a ELSE b

(* nextPollInterval, after a poll that returned n jobs. *)
NextPollInterval(n, inUse) ==
    IF n > 0 \/ inUse THEN {PostClaim} ELSE Jittered(Least(interval * Multiplier, MaxIdle))

(* L4 claim-skip: at the idle ceiling only every third poll asks for jobs. *)
AtCeiling == interval >= MaxIdle
\* Mutant: the counter starts again at every poll.
MutCeilingRestarts == IF AtCeiling THEN 1 ELSE 0

(* ceilingPolls grows without a bound at the ceiling; it is only read       *)
(* modulo 3, and that remainder is what the model keeps.                    *)
NextCeiling == IF AtCeiling THEN (ceiling + 1) % 3 ELSE 0
ClaimJobs == ~AtCeiling \/ NextCeiling = 0

(* The jobs of an answer.  When none carries an execution id the answer is *)
(* parsed again with the other column names, and what that finds is        *)
(* appended to what the first parse found.                                 *)
Parsed(batch, jobIdColumn) ==
    IF jobIdColumn /\ \A i \in DOMAIN batch : batch[i] \in NoExec THEN batch \o batch ELSE batch

\* Mutant: only a poll that returned jobs counts as activity.
MutRefreshActivity(n) == recent \/ n > 0

(* refreshActivity: queued or running work counts as work just received. *)
RefreshActivity(n) == recent \/ n > 0 \/ held # {}

\* Mutants: the wake-up is kept only if the loop is waiting for it; the send
\* does not look at the capacity.
MutSignalled == IF pc = "wait" THEN Least(wakeups + 1, WakeCap) ELSE wakeups
MutSignalledUnbounded == wakeups + 1

(* The non-blocking send to redisWakeupCh. *)
Signalled == Least(wakeups + 1, WakeCap)

TypeOK ==
    /\ redis \in BOOLEAN /\ event \in BOOLEAN /\ sub \in BOOLEAN
    /\ claim \in BOOLEAN /\ recent \in BOOLEAN /\ noticed \in BOOLEAN
    /\ pc \in {"boot", "assign", "wait", "sent", "handle"}
    /\ list \in Seq(Jobs) /\ count \in Nat
    /\ interval \in Nat \ {0} /\ ceiling \in 0..2
    /\ wakeups \in 0..WakeCap
    /\ sent \subseteq Jobs /\ held \subseteq Jobs /\ seen \subseteq Jobs
    /\ server \in [Jobs -> {"new", "pending", "leased", "done"}]
    /\ faults \in 0..Faults /\ skips \in Nat

Init ==
    /\ redis \in BOOLEAN /\ event \in (IF redis THEN BOOLEAN ELSE {FALSE}) /\ sub = event
    /\ pc = "boot" /\ claim = FALSE /\ list = <<>> /\ count = 0
    /\ interval = MinPoll /\ ceiling = 0 /\ recent = FALSE /\ wakeups = 0
    /\ sent = {} /\ held = {} /\ seen = {}
    /\ server \in [Jobs -> {"new", "pending"}]
    /\ faults = 0 /\ noticed = FALSE /\ skips = 0

Fault == faults < Faults /\ faults' = faults + 1

-----------------------------------------------------------------------------
(* The control plane and the passage of time (external).                   *)

Arrive(j) ==
    /\ server[j] = "new"
    /\ server' = [server EXCEPT ![j] = "pending"]
    /\ UNCHANGED <<mode, loop, schedule, wake, sent, held, seen, faults>>

(* The lease of j ends before j was completed. *)
LeaseExpire(j) ==
    /\ server[j] = "leased"
    /\ redis => j \notin sent
    /\ server' = [server EXCEPT ![j] = "pending"]
    /\ UNCHANGED <<mode, loop, schedule, wake, sent, held, seen, faults>>

(* A dedup key of Redis, set by SETNX with a TTL, is gone; handling one     *)
(* answer takes no time on this scale.  In memory nothing expires:          *)
(* CleanupOldJobs has no caller.                                            *)
MarkExpire(j) ==
    /\ redis /\ j \in sent /\ ~Contains(list, j)
    /\ sent' = sent \ {j}
    /\ UNCHANGED <<mode, loop, schedule, wake, held, seen, server, faults>>

(* An id of the dispatcher's file store reaches its TTL (60 minutes). *)
SeenExpire(j) ==
    /\ j \in seen
    /\ seen' = seen \ {j}
    /\ UNCHANGED <<mode, loop, schedule, wake, sent, held, server, faults>>

GraceEnds ==
    /\ recent /\ recent' = FALSE
    /\ UNCHANGED <<mode, loop, interval, ceiling, skips, wake, sent, held, seen, server, faults>>

-----------------------------------------------------------------------------
(* The dispatcher, as far as delivery sees it.                             *)

(* SubmitJobWithMeta: refused when the id is in the file store or running, *)
(* or when the queue is full; an accepted id enters the store.             *)
Accepted(j) == j \notin seen \cup held /\ Cardinality(held) < Room

SubmitJobWithMeta(j) ==
    /\ held' = IF Accepted(j) THEN held \cup {j} ELSE held
    /\ seen' = IF Accepted(j) THEN seen \cup {j} ELSE seen

(* A job ends and is reported with complete_job. *)
Finish(j) ==
    /\ j \in held
    /\ held' = held \ {j}
    /\ server' = [server EXCEPT ![j] = "done"]
    /\ UNCHANGED <<mode, loop, schedule, wake, sent, seen, faults>>

(* A job fails: the control plane offers it again at once, or its report   *)
(* is lost and only the end of the lease frees it.                         *)
Fail(j) ==
    /\ Fault
    /\ j \in held
    /\ held' = held \ {j}
    /\ server' \in {server, [server EXCEPT ![j] = IF @ = "leased" THEN "pending" ELSE @]}
    /\ UNCHANGED <<mode, loop, schedule, wake, sent, seen>>

-----------------------------------------------------------------------------
(* Start of the agent, up to the first poll (cmd/main.go).                 *)

(* ReconcileAgent may assign jobs to the device; GetAssignedJobs returns   *)
(* what is assigned to it, in some order, or fails and is skipped.         *)
Boot ==
    /\ pc = "boot"
    /\ \E restored \in SUBSET {j \in Jobs : server[j] = "pending"} :
          LET srv == [j \in Jobs |-> IF j \in restored THEN "leased" ELSE server[j]]
              assigned == {j \in Jobs : srv[j] = "leased"}
          IN  /\ server' = srv
              /\ \/ list' \in SetToSeqs(assigned) /\ UNCHANGED faults
                 \/ list' = <<>> /\ Fault
    /\ pc' = "assign"
    /\ UNCHANGED <<mode, claim, count, schedule, wake, sent, held, seen>>

(* The assigned jobs go to the dispatcher past the duplicate filter. *)
DispatchAssigned ==
    /\ pc = "assign" /\ list # <<>>
    /\ SubmitJobWithMeta(Head(list))
    /\ list' = Tail(list)
    /\ UNCHANGED <<mode, pc, claim, count, schedule, wake, sent, server, faults>>

(* A poll begins; claimJobs is decided. *)
StartPoll(c) ==
    /\ pc' = "sent" /\ claim' = c /\ count' = 0
    /\ skips' = IF c THEN 0 ELSE skips + 1

(* start: the loop polls at once. *)
FirstPoll ==
    /\ pc = "assign" /\ list = <<>>
    /\ StartPoll(TRUE)
    /\ UNCHANGED <<mode, list, interval, ceiling, recent, wake, sent, held, seen,
                   server, faults>>

(* The process dies and is started again.  Marks in memory are lost, marks *)
(* in Redis are not; the file store has been written up to some point.     *)
Crash ==
    /\ Fault
    /\ pc # "boot" /\ pc' = "boot"
    /\ list' = <<>> /\ count' = 0 /\ claim' = FALSE
    /\ interval' = MinPoll /\ ceiling' = 0 /\ recent' = FALSE /\ skips' = 0
    /\ wakeups' = 0 /\ noticed' = FALSE /\ sub' = event
    /\ sent' = IF redis THEN sent ELSE {}
    /\ held' = {} /\ seen' \in SUBSET seen
    /\ UNCHANGED <<mode, server>>

-----------------------------------------------------------------------------
(* The two loops.                                                          *)

(* pollLoopAdaptive: the ticker fires. *)
AdaptiveTick ==
    /\ pc = "wait" /\ ~event
    /\ ceiling' = NextCeiling
    /\ StartPoll(ClaimJobs)
    /\ UNCHANGED <<mode, list, interval, recent, wake, sent, held, seen, server,
                   faults>>

\* Mutant: without a subscription the loop waits for wake-ups only.
MutSafetyDue == pc = "wait" /\ event /\ sub

(* pollLoopEventDriven: the safety ticker, reset at every poll and never   *)
(* stopped.                                                                *)
SafetyDue == pc = "wait" /\ event

SafetyTick ==
    /\ SafetyDue
    /\ StartPoll(TRUE)
    /\ UNCHANGED <<mode, list, interval, ceiling, recent, wake, sent, held, seen,
                   server, faults>>

(* pollLoopEventDriven: a wake-up is received. *)
WakeupPoll ==
    /\ pc = "wait" /\ event /\ wakeups > 0
    /\ wakeups' = wakeups - 1
    /\ StartPoll(TRUE)
    /\ UNCHANGED <<mode, list, interval, ceiling, recent, sub, noticed, sent, held,
                   seen, server, faults>>

(* listenForRedisJobs: a notification, passed on unless the channel is full. *)
Notification ==
    /\ sub /\ pc \notin {"boot", "assign"}
    /\ \E j \in Jobs : server[j] = "pending"
    /\ wakeups' = Signalled
    /\ noticed' = TRUE
    /\ UNCHANGED <<mode, loop, schedule, sub, sent, held, seen, server, faults>>

(* The subscription fails: the listener returns and is not started again. *)
SubscriptionError ==
    /\ Fault
    /\ sub /\ sub' = FALSE
    /\ UNCHANGED <<mode, loop, schedule, wakeups, noticed, sent, held, seen, server>>

-----------------------------------------------------------------------------
(* fetchNewJobs.                                                           *)

(* The control plane leases up to Limit pending jobs to this device. *)
ClaimSets ==
    LET pending == {j \in Jobs : server[j] = "pending"}
    IN  IF claim THEN {S \in SUBSET pending : Cardinality(S) = Least(Limit, Cardinality(pending))}
        ELSE {{}}

LeaseTo(S) == server' = [j \in Jobs |-> IF j \in S THEN "leased" ELSE server[j]]

(* The answer arrives; it names its columns in one of two ways. *)
PollAnswered ==
    /\ pc = "sent" /\ pc' = "handle"
    /\ \E S \in ClaimSets : \E batch \in SetToSeqs(S), jobIdColumn \in BOOLEAN :
          /\ LeaseTo(S)
          /\ list' = Parsed(batch, jobIdColumn)
          /\ count' = Len(Parsed(batch, jobIdColumn))
    /\ noticed' = (noticed /\ ~claim)
    /\ UNCHANGED <<mode, claim, schedule, sub, wakeups, sent, held, seen, faults>>

(* The request fails, is refused, or its answer cannot be used; the server *)
(* may have leased the jobs all the same.                                  *)
PollFailed ==
    /\ Fault
    /\ pc = "sent" /\ pc' = "handle"
    /\ \E S \in ClaimSets \cup {{}} : LeaseTo(S)
    /\ list' = <<>> /\ count' = 0
    /\ noticed' = (noticed /\ ~claim)
    /\ UNCHANGED <<mode, claim, schedule, sub, wakeups, sent, held, seen>>

(* The next job of the answer: validated, checked and marked, submitted.   *)
(* The mark stays when the dispatcher refuses the job.                     *)
HandleJob ==
    /\ pc = "handle" /\ list # <<>>
    /\ list' = Tail(list)
    /\ LET j == Head(list)
       IN  IF j \in sent
           THEN UNCHANGED <<sent, held, seen>>
           ELSE sent' = sent \cup {j} /\ SubmitJobWithMeta(j)
    /\ UNCHANGED <<mode, pc, claim, count, schedule, wake, server, faults>>

(* A job without a type or with a payload that is not JSON, or a Redis      *)
(* that cannot be asked: the job, leased to this device, is passed over.    *)
SkipJob ==
    /\ Fault
    /\ pc = "handle" /\ list # <<>>
    /\ list' = Tail(list)
    /\ UNCHANGED <<mode, pc, claim, count, schedule, wake, sent, held, seen, server>>

(* The poll is over.  The adaptive loop refreshes the time of the last work *)
(* and chooses its next interval.                                           *)
EndPoll ==
    /\ pc = "handle" /\ list = <<>>
    /\ pc' = "wait" /\ count' = 0 /\ claim' = FALSE
    /\ IF event THEN UNCHANGED <<interval, recent>>
       ELSE /\ recent' = RefreshActivity(count)
            /\ interval' \in NextPollInterval(count, recent')
    /\ UNCHANGED <<mode, list, ceiling, skips, wake, sent, held, seen, server, faults>>

-----------------------------------------------------------------------------
Next ==
    \/ \E j \in Jobs : \/ Arrive(j) \/ LeaseExpire(j) \/ MarkExpire(j) \/ SeenExpire(j)
                       \/ Finish(j) \/ Fail(j)
    \/ GraceEnds
    \/ Boot \/ DispatchAssigned \/ FirstPoll \/ Crash
    \/ AdaptiveTick \/ SafetyTick \/ WakeupPoll \/ Notification \/ SubscriptionError
    \/ PollAnswered \/ PollFailed \/ HandleJob \/ SkipJob \/ EndPoll

(* The goroutine of the loop and the tickers are scheduled, an exchange     *)
(* that does not fail is answered (10 s client time-out), keys, leases and  *)
(* store entries expire, and a job that was started ends (its time-out).    *)
Fairness ==
    /\ WF_vars(Boot) /\ WF_vars(DispatchAssigned) /\ WF_vars(FirstPoll)
    /\ WF_vars(AdaptiveTick) /\ WF_vars(SafetyTick)
    /\ WF_vars(PollAnswered) /\ WF_vars(HandleJob) /\ WF_vars(EndPoll)
    /\ \A j \in Jobs : /\ WF_vars(Finish(j)) /\ WF_vars(LeaseExpire(j))
                       /\ WF_vars(MarkExpire(j)) /\ WF_vars(SeenExpire(j))

Spec == Init /\ [][Next]_vars /\ Fairness

-----------------------------------------------------------------------------
(* Correctness.                                                            *)

(* Claim-skip (L4) never lasts: whatever the jitter does to the interval,  *)
(* at most two polls in a row leave the claim out, as the comment in       *)
(* pollLoopAdaptive promises for the discovery of new work.                *)
ClaimCadence == skips <= 2

(* No notification is lost while the loop is busy: one received since the  *)
(* last claim is still in the channel, or a claim is about to be made.     *)
NoLostWakeup == noticed => wakeups > 0 \/ (pc = "sent" /\ claim)

(* While the dispatcher holds work the adaptive loop stays at              *)
(* postClaimInterval, however long ago the work was claimed; a longer      *)
(* interval would let the control plane take the device for dead and give  *)
(* its running jobs to another.                                            *)
BusyPollsFast == (pc = "wait" /\ ~event /\ held # {}) => interval = PostClaim

(* With the Redis filter every job ends up done, although the               *)
(* filter keeps the mark of a job the dispatcher refused, the file store    *)
(* refuses a job again that failed or was cut off by a crash, answers are   *)
(* lost after the lease was given, and the subscription dies.               *)
DeliveredInTheEnd ==
    \A j \in Jobs : (redis /\ server[j] = "pending") ~> (server[j] = "done")
=============================================================================
