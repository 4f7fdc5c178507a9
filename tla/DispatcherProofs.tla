-------------------------- MODULE DispatcherProofs --------------------------
(***************************************************************************)
(* Proofs about Dispatcher for every set of jobs, steps, submitters and    *)
(* workers and every queue capacity, and, in the second part, about        *)
(* PoolLifecycle for every sequence of pool sizes the control plane asks   *)
(* for and every number of panics: what is proved of the dispatcher        *)
(* survives resizes and the shutdown, the size of the pool, and what a     *)
(* clean drain leaves behind.                                              *)
(***************************************************************************)
EXTENDS PoolLifecycle, FiniteSetTheorems, TLAPS

\* A send appends one element to the channel's contents.
LEMMA AppendFacts ==
    ASSUME NEW q \in Seq(Job), NEW j \in Job
    PROVE  /\ Append(q, j) \in Seq(Job)
           /\ Len(Append(q, j)) = Len(q) + 1
           /\ DOMAIN Append(q, j) = DOMAIN q \cup {Len(q) + 1}
           /\ \A i \in DOMAIN q : Append(q, j)[i] = q[i]
           /\ Append(q, j)[Len(q) + 1] = j
           /\ Len(q) + 1 \notin DOMAIN q
    OBVIOUS

\* A receive takes the head and shifts the rest.
LEMMA TailFacts ==
    ASSUME NEW q \in Seq(Job), q # <<>>
    PROVE  /\ Tail(q) \in Seq(Job)
           /\ Len(Tail(q)) = Len(q) - 1
           /\ Head(q) = q[1]
           /\ Head(q) \in Job
           /\ 1 \in DOMAIN q
           /\ \A i \in DOMAIN Tail(q) :
                 i + 1 \in DOMAIN q /\ i + 1 # 1 /\ Tail(q)[i] = q[i + 1]
           /\ \A k \in DOMAIN q :
                 k = 1 \/ (k - 1 \in DOMAIN Tail(q) /\ Tail(q)[k - 1] = q[k])
    OBVIOUS

\* Every step of a goroutine keeps the types.
LEMMA TypeStep ==
    ASSUME TypeOK, [Next]_vars
    PROVE  TypeOK'
<1> USE ConstantsAssumption DEF ConstantsAssumption
<1> USE DEF TypeOK, SubmitPC, WorkerPC, Fate, queueVars, workerVars,
            submitVars, mapVars, hbVars, SubmitterGoes, SubmitterReturns,
            WorkerGoes, Tell
<1>1. ASSUME NEW s \in Submitter, NEW j \in Job, CheckDedup(s, j)
      PROVE  TypeOK'
    BY <1>1 DEF CheckDedup
<1>2. ASSUME NEW s \in Submitter, ClaimJob(s)
      PROVE  TypeOK'
    BY <1>2 DEF ClaimJob
<1>3. ASSUME NEW s \in Submitter, ReserveStep(s)
      PROVE  TypeOK'
    BY <1>3 DEF ReserveStep
<1>4. ASSUME NEW s \in Submitter, UndoClaim(s)
      PROVE  TypeOK'
    BY <1>4 DEF UndoClaim
<1>5. ASSUME NEW s \in Submitter, Enqueue(s)
      PROVE  TypeOK'
    <2>1. CASE Len(jobQueue) < QueueCap /\ jobQueue' = Append(jobQueue, sjob[s])
        <3>1. sjob[s] \in Job
            BY <1>5 DEF Enqueue
        <3>2. jobQueue' \in Seq(Job) /\ Len(jobQueue') <= QueueCap
            <4>1. /\ Append(jobQueue, sjob[s]) \in Seq(Job)
                  /\ Len(Append(jobQueue, sjob[s])) = Len(jobQueue) + 1
                BY <3>1, AppendFacts
            <4>2. QED
                BY <2>1, <4>1
        <3>3. QED
            BY <1>5, <3>1, <3>2 DEF Enqueue
    <2>2. CASE UNCHANGED queueVars
        BY <1>5, <2>2 DEF Enqueue
    <2>3. QED
        BY <1>5, <2>1, <2>2 DEF Enqueue
<1>6. ASSUME NEW s \in Submitter, DedupAdd(s)
      PROVE  TypeOK'
    BY <1>6 DEF DedupAdd
<1>7. ASSUME NEW s \in Submitter, DropStep(s)
      PROVE  TypeOK'
    BY <1>7 DEF DropStep
<1>8. ASSUME NEW s \in Submitter, DropJob(s)
      PROVE  TypeOK'
    BY <1>8 DEF DropJob
<1>9. ASSUME NEW j \in Forgettable, DedupForget(j)
      PROVE  TypeOK'
    BY <1>9 DEF DedupForget
<1>10. ASSUME NEW w \in Worker, Dequeue(w)
       PROVE  TypeOK'
    <2>1. jobQueue' \in Seq(Job) /\ Len(jobQueue') <= QueueCap /\ Head(jobQueue) \in Job
        <3>1. jobQueue # <<>> /\ jobQueue' = Tail(jobQueue)
            BY <1>10 DEF Dequeue
        <3>2. /\ Tail(jobQueue) \in Seq(Job)
              /\ Len(Tail(jobQueue)) = Len(jobQueue) - 1
              /\ Head(jobQueue) \in Job
            BY <3>1, TailFacts
        <3>3. QED
            BY <3>1, <3>2
    <2>2. QED
        BY <1>10, <2>1 DEF Dequeue
<1>11. ASSUME NEW w \in Worker, VerifyLease(w)
       PROVE  TypeOK'
    <2>1. wjob[w] \in Job /\ wpc' \in [Worker -> WorkerPC] /\ wjob' = wjob
        BY <1>11 DEF VerifyLease
    <2>2. fate' \in [Job -> Fate] /\ hbStop' \subseteq Worker
        BY <1>11, <2>1 DEF VerifyLease
    <2>3. \A v \in Worker : wpc'[v] \notin {"off", "idle"} => wjob'[v] \in Job
        BY <1>11, <2>1 DEF VerifyLease
    <2>4. QED
        BY <1>11, <2>1, <2>2, <2>3 DEF VerifyLease
<1>12. ASSUME NEW w \in Worker, StartJob(w)
       PROVE  TypeOK'
    BY <1>12 DEF StartJob, StartExecutionHeartbeat
<1>13. ASSUME NEW w \in Worker, CheckExecID(w)
       PROVE  TypeOK'
    <2>1. wjob[w] \in Job /\ wpc' \in [Worker -> WorkerPC] /\ wjob' = wjob
        BY <1>13 DEF CheckExecID
    <2>2. fate' \in [Job -> Fate] /\ hbStop' \subseteq Worker
        BY <1>13, <2>1 DEF CheckExecID
    <2>3. \A v \in Worker : wpc'[v] \notin {"off", "idle"} => wjob'[v] \in Job
        BY <1>13, <2>1 DEF CheckExecID
    <2>4. QED
        BY <1>13, <2>1, <2>2, <2>3 DEF CheckExecID
<1>14. ASSUME NEW w \in Worker, ExecuteJob(w)
       PROVE  TypeOK'
    BY <1>14 DEF ExecuteJob, StopHeartbeat
<1>15. ASSUME NEW w \in Worker, Panic(w)
       PROVE  TypeOK'
    BY <1>15 DEF Panic
<1>16. ASSUME NEW w \in Worker, ReportOutcome(w)
       PROVE  TypeOK'
    BY <1>16 DEF ReportOutcome
<1>17. ASSUME NEW w \in Worker, CleanStep(w)
       PROVE  TypeOK'
    BY <1>17 DEF CleanStep
<1>18. ASSUME NEW w \in Worker, CleanJob(w)
       PROVE  TypeOK'
    BY <1>18 DEF CleanJob
<1>19. ASSUME NEW w \in Transient, StartWorker(w)
       PROVE  TypeOK'
    BY <1>19 DEF StartWorker
<1>20. ASSUME NEW w \in Transient, WorkerExit(w)
       PROVE  TypeOK'
    BY <1>20 DEF WorkerExit
<1>21. CASE UNCHANGED vars
    BY <1>21 DEF vars
<1>22. QED
    BY <1>1, <1>2, <1>3, <1>4, <1>5, <1>6, <1>7, <1>8, <1>9, <1>10, <1>11,
       <1>12, <1>13, <1>14, <1>15, <1>16, <1>17, <1>18, <1>19, <1>20, <1>21
       DEF Next, SubmitStep, WorkerStep

\* InitWorkerPool establishes the types.
LEMMA InitType == Init => TypeOK
<1> SUFFICES ASSUME Init PROVE TypeOK
    OBVIOUS
<1> USE ConstantsAssumption DEF ConstantsAssumption
<1>1. jobQueue \in Seq(Job) /\ Len(jobQueue) <= QueueCap
    BY DEF Init
<1>2. dedup \subseteq Job /\ seen \subseteq Job
    BY DEF Init
<1>3. QED
    BY <1>1, <1>2 DEF Init, TypeOK, SubmitPC, WorkerPC, Fate

\* The state keeps its type: the two maps only hold known ids, a goroutine
\* past its first step has a job in hand, and the channel keeps its capacity.
THEOREM TypeCorrect == Spec => []TypeOK
<1>1. Init => TypeOK
    BY InitType
<1>2. TypeOK /\ [Next]_vars => TypeOK'
    BY TypeStep
<1>3. QED
    BY <1>1, <1>2, PTL DEF Spec

-----------------------------------------------------------------------------
(* Ownership of the reservations                                           *)

\* The jobs in the channel after a send and after a receive.
LEMMA QueuedAfterSend ==
    ASSUME jobQueue \in Seq(Job), NEW j \in Job, jobQueue' = Append(jobQueue, j)
    PROVE  QueuedJobs' = QueuedJobs \cup {j}
<1>1. /\ DOMAIN jobQueue' = DOMAIN jobQueue \cup {Len(jobQueue) + 1}
      /\ \A i \in DOMAIN jobQueue : jobQueue'[i] = jobQueue[i]
      /\ jobQueue'[Len(jobQueue) + 1] = j
    BY AppendFacts
<1>2. QED
    BY <1>1 DEF QueuedJobs

LEMMA QueuedAfterReceive ==
    ASSUME jobQueue \in Seq(Job), jobQueue # <<>>, jobQueue' = Tail(jobQueue),
           \A i, k \in DOMAIN jobQueue : i # k => jobQueue[i] # jobQueue[k]
    PROVE  /\ QueuedJobs' \subseteq QueuedJobs
           /\ Head(jobQueue) \in QueuedJobs
           /\ Head(jobQueue) \notin QueuedJobs'
           /\ QueuedJobs \subseteq QueuedJobs' \cup {Head(jobQueue)}
           /\ \A i, k \in DOMAIN jobQueue' : i # k => jobQueue'[i] # jobQueue'[k]
<1>1. /\ Head(jobQueue) = jobQueue[1]
      /\ 1 \in DOMAIN jobQueue
      /\ \A i \in DOMAIN jobQueue' :
            i + 1 \in DOMAIN jobQueue /\ i + 1 # 1 /\ jobQueue'[i] = jobQueue[i + 1]
      /\ DOMAIN jobQueue' \subseteq Nat
    BY TailFacts
<1>2. \A k \in DOMAIN jobQueue :
        k = 1 \/ (k - 1 \in DOMAIN jobQueue' /\ jobQueue'[k - 1] = jobQueue[k])
    BY TailFacts
<1>3. QueuedJobs \subseteq QueuedJobs' \cup {Head(jobQueue)}
    <2>1. \A i \in DOMAIN jobQueue' : jobQueue'[i] \in QueuedJobs'
        BY DEF QueuedJobs
    <2>2. \A k \in DOMAIN jobQueue : jobQueue[k] \in QueuedJobs' \cup {Head(jobQueue)}
        BY <1>1, <1>2, <2>1
    <2>3. QED
        BY <2>2 DEF QueuedJobs
<1>4. QED
    BY <1>1, <1>3 DEF QueuedJobs

Ownership == SingleFlight /\ Reserved /\ StepExclusive

\* A step that leaves the channel and the maps alone, and after which nobody
\* holds what it did not hold before, keeps the ownership.
LEMMA OwnershipFrame ==
    ASSUME Ownership,
           UNCHANGED <<jobQueue, runningJobs, activeJobs>>,
           \A s \in Submitter :
              /\ HoldsJobS(s)' => HoldsJobS(s) /\ sjob'[s] = sjob[s]
              /\ HoldsStepS(s)' => HoldsStepS(s) /\ sjob'[s] = sjob[s],
           \A w \in Worker :
              /\ HoldsJobW(w)' => HoldsJobW(w) /\ wjob'[w] = wjob[w]
              /\ HoldsStepW(w)' => HoldsStepW(w) /\ wjob'[w] = wjob[w]
    PROVE  Ownership'
<1>1. QueuedJobs' = QueuedJobs
    BY DEF QueuedJobs
<1>2. SingleFlight'
    BY <1>1 DEF Ownership, SingleFlight
<1>3. Reserved'
    BY <1>1 DEF Ownership, Reserved
<1>4. StepExclusive'
    BY <1>1 DEF Ownership, StepExclusive, SameStep
<1>5. QED
    BY <1>2, <1>3, <1>4 DEF Ownership

\* The steps of a submitter keep the ownership.
LEMMA SubmitOwnership ==
    ASSUME TypeOK, Ownership, NEW s \in Submitter,
           SubmitStep(s) \/ \E j \in Job : CheckDedup(s, j)
    PROVE  Ownership'
<1> USE ConstantsAssumption DEF ConstantsAssumption, HoldsJobS, HoldsStepS,
        HoldsJobW, HoldsStepW, SubmitterGoes, SubmitterReturns, queueVars, workerVars
<1>t. /\ spc \in [Submitter -> SubmitPC] /\ sjob \in [Submitter -> Job \cup {NoJob}]
      /\ jobQueue \in Seq(Job) /\ runningJobs \subseteq Job /\ activeJobs \subseteq Step
      /\ spc[s] # "idle" => sjob[s] \in Job
    BY DEF TypeOK
<1>1. CASE \E j \in Job : CheckDedup(s, j)
    BY <1>1, <1>t, OwnershipFrame DEF CheckDedup
<1>2. CASE ClaimJob(s)
    <2>1. CASE sjob[s] \in runningJobs
        BY <1>2, <2>1, <1>t, OwnershipFrame DEF ClaimJob
    <2>2. CASE sjob[s] \notin runningJobs
        <3>1. /\ runningJobs' = runningJobs \cup {sjob[s]} /\ sjob' = sjob
              /\ spc' = [spc EXCEPT ![s] = "claimed"] /\ spc[s] = "checked"
              /\ UNCHANGED <<jobQueue, activeJobs, wpc, wjob>>
            BY <1>2, <2>2 DEF ClaimJob
        <3>2. QueuedJobs' = QueuedJobs
            BY <3>1 DEF QueuedJobs
        <3>3. SingleFlight'
            BY <3>1, <3>2, <2>2, <1>t DEF Ownership, SingleFlight, Reserved
        <3>4. Reserved'
            BY <3>1, <3>2, <1>t DEF Ownership, Reserved
        <3>5. StepExclusive'
            BY <3>1, <3>2, <1>t DEF Ownership, StepExclusive, SameStep
        <3>6. QED
            BY <3>3, <3>4, <3>5 DEF Ownership
    <2>3. QED
        BY <2>1, <2>2
<1>3. CASE ReserveStep(s)
    <2>1. CASE spc' = [spc EXCEPT ![s] = "undo"] /\ UNCHANGED activeJobs
        BY <1>3, <2>1, <1>t, OwnershipFrame DEF ReserveStep
    <2>2. CASE /\ spc' = [spc EXCEPT ![s] = "reserved"]
               /\ StepOf[sjob[s]] \notin activeJobs
               /\ activeJobs' = activeJobs \cup ({StepOf[sjob[s]]} \ {NoStep})
        <3>1. /\ spc[s] = "claimed" /\ sjob' = sjob
              /\ UNCHANGED <<jobQueue, runningJobs, wpc, wjob>>
            BY <1>3 DEF ReserveStep
        <3>2. QueuedJobs' = QueuedJobs
            BY <3>1 DEF QueuedJobs
        <3>3. SingleFlight'
            BY <3>1, <3>2, <2>2, <1>t DEF Ownership, SingleFlight
        <3>4. Reserved'
            BY <3>1, <3>2, <2>2, <1>t DEF Ownership, Reserved
        <3>5. StepExclusive'
            BY <3>1, <3>2, <2>2, <1>t DEF Ownership, StepExclusive, SameStep, Reserved
        <3>6. QED
            BY <3>3, <3>4, <3>5 DEF Ownership
    <2>3. QED
        BY <1>3, <2>1, <2>2, <1>t DEF ReserveStep
<1>4. CASE UndoClaim(s) \/ DropJob(s)
    <2>1. /\ spc[s] \in {"undo", "dropJob"} /\ runningJobs' = runningJobs \ {sjob[s]}
          /\ spc' = [spc EXCEPT ![s] = "idle"] /\ sjob' = [sjob EXCEPT ![s] = NoJob]
          /\ UNCHANGED <<jobQueue, activeJobs, wpc, wjob>>
        BY <1>4 DEF UndoClaim, DropJob
    <2>2. QueuedJobs' = QueuedJobs
        BY <2>1 DEF QueuedJobs
    <2>3. SingleFlight'
        BY <2>1, <2>2, <1>t DEF Ownership, SingleFlight
    <2>4. Reserved'
        BY <2>1, <2>2, <1>t DEF Ownership, Reserved, SingleFlight
    <2>5. StepExclusive'
        BY <2>1, <2>2, <1>t DEF Ownership, StepExclusive, SameStep
    <2>6. QED
        BY <2>3, <2>4, <2>5 DEF Ownership
<1>5. CASE Enqueue(s)
    <2>1. CASE /\ jobQueue' = Append(jobQueue, sjob[s])
               /\ spc' = [spc EXCEPT ![s] = "enqueued"]
        <3>1. /\ spc[s] = "reserved" /\ sjob' = sjob
              /\ UNCHANGED <<runningJobs, activeJobs, wpc, wjob>>
            BY <1>5 DEF Enqueue
        <3>2. sjob[s] \in Job /\ QueuedJobs' = QueuedJobs \cup {sjob[s]}
            BY <3>1, <2>1, <1>t, QueuedAfterSend
        <3>3. \A i, k \in DOMAIN jobQueue' : i # k => jobQueue'[i] # jobQueue'[k]
            <4>1. /\ DOMAIN jobQueue' = DOMAIN jobQueue \cup {Len(jobQueue) + 1}
                  /\ \A i \in DOMAIN jobQueue : jobQueue'[i] = jobQueue[i]
                  /\ jobQueue'[Len(jobQueue) + 1] = sjob[s]
                BY <2>1, <3>2, <1>t, AppendFacts
            <4>2. \A i \in DOMAIN jobQueue : jobQueue[i] # sjob[s]
                BY <3>1 DEF Ownership, SingleFlight, QueuedJobs
            <4>3. QED
                BY <4>1, <4>2 DEF Ownership, SingleFlight
        <3>4. SingleFlight'
            BY <3>1, <3>2, <3>3, <2>1, <1>t DEF Ownership, SingleFlight
        <3>5. Reserved'
            BY <3>1, <3>2, <2>1, <1>t DEF Ownership, Reserved
        <3>6. StepExclusive'
            BY <3>1, <3>2, <2>1, <1>t DEF Ownership, StepExclusive, SameStep
        <3>7. QED
            BY <3>4, <3>5, <3>6 DEF Ownership
    <2>2. CASE spc' = [spc EXCEPT ![s] = "dropStep"] /\ UNCHANGED queueVars
        BY <1>5, <2>2, <1>t, OwnershipFrame DEF Enqueue
    <2>3. QED
        BY <1>5, <2>1, <2>2 DEF Enqueue
<1>6. CASE DedupAdd(s)
    BY <1>6, <1>t, OwnershipFrame DEF DedupAdd
<1>7. CASE DropStep(s)
    <2>1. /\ spc[s] = "dropStep" /\ activeJobs' = activeJobs \ {StepOf[sjob[s]]}
          /\ spc' = [spc EXCEPT ![s] = "dropJob"] /\ sjob' = sjob
          /\ UNCHANGED <<jobQueue, runningJobs, wpc, wjob>>
        BY <1>7 DEF DropStep
    <2>2. QueuedJobs' = QueuedJobs
        BY <2>1 DEF QueuedJobs
    <2>3. SingleFlight'
        BY <2>1, <2>2, <1>t DEF Ownership, SingleFlight
    <2>4. Reserved'
        BY <2>1, <2>2, <1>t DEF Ownership, Reserved, StepExclusive, SameStep
    <2>5. StepExclusive'
        BY <2>1, <2>2, <1>t DEF Ownership, StepExclusive, SameStep
    <2>6. QED
        BY <2>3, <2>4, <2>5 DEF Ownership
<1>8. QED
    BY <1>1, <1>2, <1>3, <1>4, <1>5, <1>6, <1>7 DEF SubmitStep

\* The steps of a worker keep the ownership.
LEMMA WorkerOwnership ==
    ASSUME TypeOK, Ownership, NEW w \in Worker,
           WorkerStep(w) \/ StartWorker(w) \/ WorkerExit(w)
    PROVE  Ownership'
<1> USE ConstantsAssumption DEF ConstantsAssumption, HoldsJobS, HoldsStepS,
        HoldsJobW, HoldsStepW, WorkerGoes, submitVars, mapVars, hbVars
<1>t. /\ wpc \in [Worker -> WorkerPC] /\ wjob \in [Worker -> Job \cup {NoJob}]
      /\ jobQueue \in Seq(Job) /\ runningJobs \subseteq Job /\ activeJobs \subseteq Step
      /\ wpc[w] \notin {"off", "idle"} => wjob[w] \in Job
    BY DEF TypeOK
<1>1. CASE Dequeue(w)
    <2>1. /\ wpc[w] = "idle" /\ jobQueue # <<>> /\ jobQueue' = Tail(jobQueue)
          /\ wjob' = [wjob EXCEPT ![w] = Head(jobQueue)]
          /\ wpc' = [wpc EXCEPT ![w] = "lease"]
          /\ UNCHANGED <<runningJobs, activeJobs, spc, sjob>>
        BY <1>1 DEF Dequeue
    <2>2. /\ QueuedJobs' \subseteq QueuedJobs
          /\ Head(jobQueue) \in QueuedJobs \ QueuedJobs'
          /\ \A i, k \in DOMAIN jobQueue' : i # k => jobQueue'[i] # jobQueue'[k]
        BY <2>1, <1>t, QueuedAfterReceive DEF Ownership, SingleFlight
    <2>3. SingleFlight'
        BY <2>1, <2>2, <1>t DEF Ownership, SingleFlight
    <2>4. Reserved'
        BY <2>1, <2>2, <1>t DEF Ownership, Reserved
    <2>5. StepExclusive'
        BY <2>1, <2>2, <1>t DEF Ownership, StepExclusive, SameStep
    <2>6. QED
        BY <2>3, <2>4, <2>5 DEF Ownership
<1>2. CASE VerifyLease(w)
    BY <1>2, <1>t, OwnershipFrame DEF VerifyLease
<1>3. CASE StartJob(w)
    BY <1>3, <1>t, OwnershipFrame DEF StartJob
<1>4. CASE CheckExecID(w)
    BY <1>4, <1>t, OwnershipFrame DEF CheckExecID
<1>5. CASE ExecuteJob(w)
    BY <1>5, <1>t, OwnershipFrame DEF ExecuteJob
<1>6. CASE Panic(w)
    BY <1>6, <1>t, OwnershipFrame DEF Panic
<1>7. CASE ReportOutcome(w)
    BY <1>7, <1>t, OwnershipFrame DEF ReportOutcome
<1>8. CASE CleanStep(w)
    <2>1. /\ wpc[w] = "cleanStep" /\ activeJobs' = activeJobs \ {StepOf[wjob[w]]}
          /\ wpc' = [wpc EXCEPT ![w] = "cleanJob"] /\ wjob' = wjob
          /\ UNCHANGED <<jobQueue, runningJobs, spc, sjob>>
        BY <1>8 DEF CleanStep
    <2>2. QueuedJobs' = QueuedJobs
        BY <2>1 DEF QueuedJobs
    <2>3. SingleFlight'
        BY <2>1, <2>2, <1>t DEF Ownership, SingleFlight
    <2>4. Reserved'
        BY <2>1, <2>2, <1>t DEF Ownership, Reserved, StepExclusive, SameStep
    <2>5. StepExclusive'
        BY <2>1, <2>2, <1>t DEF Ownership, StepExclusive, SameStep
    <2>6. QED
        BY <2>3, <2>4, <2>5 DEF Ownership
<1>9. CASE CleanJob(w)
    <2>1. /\ wpc[w] = "cleanJob" /\ runningJobs' = runningJobs \ {wjob[w]}
          /\ wpc'[w] \in {"off", "idle"}
          /\ \A v \in Worker \ {w} : wpc'[v] = wpc[v] /\ wjob'[v] = wjob[v]
          /\ UNCHANGED <<jobQueue, activeJobs, spc, sjob>>
        BY <1>9, <1>t DEF CleanJob
    <2>2. QueuedJobs' = QueuedJobs
        BY <2>1 DEF QueuedJobs
    <2>3. SingleFlight'
        BY <2>1, <2>2, <1>t DEF Ownership, SingleFlight
    <2>4. Reserved'
        BY <2>1, <2>2, <1>t DEF Ownership, Reserved, SingleFlight
    <2>5. StepExclusive'
        BY <2>1, <2>2, <1>t DEF Ownership, StepExclusive, SameStep
    <2>6. QED
        BY <2>3, <2>4, <2>5 DEF Ownership
<1>10. CASE StartWorker(w)
    BY <1>10, <1>t, OwnershipFrame DEF StartWorker
<1>11. CASE WorkerExit(w)
    BY <1>11, <1>t, OwnershipFrame DEF WorkerExit
<1>12. QED
    BY <1>1, <1>2, <1>3, <1>4, <1>5, <1>6, <1>7, <1>8, <1>9, <1>10, <1>11
       DEF WorkerStep

\* Every step of a goroutine keeps the ownership.
LEMMA OwnershipStep ==
    ASSUME TypeOK, Ownership, [Next]_vars
    PROVE  Ownership'
<1> USE ConstantsAssumption DEF ConstantsAssumption
<1>1. CASE \E s \in Submitter : SubmitStep(s) \/ \E j \in Job : CheckDedup(s, j)
    BY <1>1, SubmitOwnership
<1>2. CASE \E w \in Worker : WorkerStep(w) \/ StartWorker(w) \/ WorkerExit(w)
    BY <1>2, WorkerOwnership
<1>3. CASE \E j \in Forgettable : DedupForget(j)
    BY <1>3, OwnershipFrame DEF DedupForget, workerVars, HoldsJobS, HoldsStepS,
       HoldsJobW, HoldsStepW
<1>4. CASE UNCHANGED vars
    BY <1>4, OwnershipFrame DEF vars, HoldsJobS, HoldsStepS, HoldsJobW, HoldsStepW
<1>5. QED
    BY <1>1, <1>2, <1>3, <1>4 DEF Next

\* Every reservation has one holder and every holder its reservation.
THEOREM OwnershipInvariant == Spec => []OwnershipInv
<1> USE ConstantsAssumption DEF ConstantsAssumption
<1>1. Init => Ownership
    BY DEF Init, Ownership, SingleFlight, Reserved, StepExclusive, SameStep,
           QueuedJobs, HoldsJobS, HoldsStepS, HoldsJobW, HoldsStepW
<1>2. TypeOK /\ Ownership /\ [Next]_vars => Ownership'
    BY OwnershipStep
<1>3. QED
    BY <1>1, <1>2, TypeCorrect, PTL DEF Spec, OwnershipInv, Ownership

\* SubmitJobWithMeta and executeJobSafe never let one job id be in flight
\* twice, however many submitters and workers there are.
THEOREM SingleFlightHolds == Spec => []SingleFlight
    BY OwnershipInvariant, PTL DEF OwnershipInv

\* "one active job per execution step" holds in the queue and in the workers.
THEOREM OneJobPerStepHolds == Spec => []OneJobPerStep
<1>1. OwnershipInv => OneJobPerStep
    BY DEF OwnershipInv, TypeOK, SingleFlight, StepExclusive, SameStep, OneJobPerStep,
           QueuedJobs
<1>2. QED
    BY <1>1, OwnershipInvariant, PTL

-----------------------------------------------------------------------------
(* Leases, outcomes and leaks                                              *)

\* No step stops the heartbeat of a job that another worker runs.
LEMMA HeartbeatStep ==
    ASSUME OwnershipInv, HeartbeatWhileRunning, [Next]_vars
    PROVE  HeartbeatWhileRunning'
<1>t. wpc \in [Worker -> WorkerPC] /\ wjob \in [Worker -> Job \cup {NoJob}]
    BY DEF OwnershipInv, TypeOK
<1> USE DEF HeartbeatWhileRunning
<1>1. CASE UNCHANGED <<wpc, wjob, hbs>>
    BY <1>1
<1>2. ASSUME NEW w \in Worker, WorkerStep(w) \/ StartWorker(w) \/ WorkerExit(w)
      PROVE  HeartbeatWhileRunning'
    <2> USE <1>t DEF WorkerGoes, hbVars
    <2>1. CASE Dequeue(w)
        BY <2>1 DEF Dequeue
    <2>2. CASE VerifyLease(w)
        BY <2>2 DEF VerifyLease
    <2>3. CASE StartJob(w)
        BY <2>3 DEF StartJob, StartExecutionHeartbeat
    <2>4. CASE CheckExecID(w)
        BY <2>4 DEF CheckExecID
    <2>5. CASE ExecuteJob(w)
        <3>1. \A v \in Worker : v # w /\ wpc[v] \in {"check", "run"}
                                => wjob[v] # wjob[w]
            BY <2>5 DEF ExecuteJob, OwnershipInv, SingleFlight, HoldsJobW
        <3>2. QED
            BY <2>5, <3>1 DEF ExecuteJob, StopHeartbeat
    <2>6. CASE Panic(w)
        BY <2>6 DEF Panic
    <2>7. CASE ReportOutcome(w)
        BY <2>7 DEF ReportOutcome
    <2>8. CASE CleanStep(w)
        BY <2>8 DEF CleanStep
    <2>9. CASE CleanJob(w)
        BY <2>9 DEF CleanJob
    <2>10. CASE StartWorker(w) \/ WorkerExit(w)
        BY <2>10 DEF StartWorker, WorkerExit
    <2>11. QED
        BY <1>2, <2>1, <2>2, <2>3, <2>4, <2>5, <2>6, <2>7, <2>8, <2>9, <2>10
           DEF WorkerStep
<1>3. CASE \E s \in Submitter : SubmitStep(s) \/ \E j \in Job : CheckDedup(s, j)
    BY <1>3, <1>1 DEF SubmitStep, CheckDedup, ClaimJob, ReserveStep, UndoClaim,
       Enqueue, DedupAdd, DropStep, DropJob, workerVars
<1>4. CASE \E j \in Forgettable : DedupForget(j)
    BY <1>4, <1>1 DEF DedupForget, workerVars
<1>5. QED
    BY <1>1, <1>2, <1>3, <1>4, ConstantsAssumption DEF Next, vars, ConstantsAssumption

\* The heartbeat of a job outlives its handler: the worker that stops one has
\* the only run of that job, by SingleFlight.
THEOREM HeartbeatHolds == Spec => []HeartbeatWhileRunning
<1>1. Init => HeartbeatWhileRunning
    BY DEF Init, HeartbeatWhileRunning
<1>2. OwnershipInv /\ HeartbeatWhileRunning /\ [Next]_vars => HeartbeatWhileRunning'
    BY HeartbeatStep
<1>3. QED
    BY <1>1, <1>2, OwnershipInvariant, PTL DEF Spec

\* No step leaves an accepted job without a holder and without an outcome.
LEMMA FateStep ==
    ASSUME OwnershipInv, FateKnown, [Next]_vars
    PROVE  FateKnown'
<1>t. /\ wpc \in [Worker -> WorkerPC] /\ wjob \in [Worker -> Job \cup {NoJob}]
      /\ fate \in [Job -> Fate] /\ jobQueue \in Seq(Job)
      /\ \A s \in Submitter : spc[s] # "idle" => sjob[s] \in Job
      /\ \A w \in Worker : wpc[w] \notin {"off", "idle"} => wjob[w] \in Job
    BY DEF OwnershipInv, TypeOK
<1> USE DEF FateKnown
<1>1. CASE UNCHANGED <<wpc, wjob, fate, jobQueue>>
    BY <1>1 DEF QueuedJobs
<1>2. ASSUME NEW w \in Worker, WorkerStep(w) \/ StartWorker(w) \/ WorkerExit(w)
      PROVE  FateKnown'
    <2> USE <1>t DEF WorkerGoes, Tell, QueuedJobs
    <2>1. CASE Dequeue(w)
        <3>1. QueuedJobs \subseteq QueuedJobs' \cup {Head(jobQueue)}
            BY <2>1, QueuedAfterReceive DEF Dequeue, OwnershipInv, SingleFlight
        <3>2. QED
            <4> HIDE DEF QueuedJobs
            <4>1. QED
                BY <2>1, <3>1 DEF Dequeue
    <2>2. CASE VerifyLease(w)
        BY <2>2 DEF VerifyLease
    <2>3. CASE StartJob(w)
        BY <2>3 DEF StartJob
    <2>4. CASE CheckExecID(w)
        BY <2>4 DEF CheckExecID
    <2>5. CASE ExecuteJob(w)
        BY <2>5 DEF ExecuteJob
    <2>6. CASE Panic(w)
        BY <2>6 DEF Panic
    <2>7. CASE ReportOutcome(w)
        BY <2>7 DEF ReportOutcome
    <2>8. CASE CleanStep(w)
        BY <2>8 DEF CleanStep
    <2>9. CASE CleanJob(w)
        BY <2>9 DEF CleanJob
    <2>10. CASE StartWorker(w) \/ WorkerExit(w)
        BY <2>10 DEF StartWorker, WorkerExit
    <2>11. QED
        BY <1>2, <2>1, <2>2, <2>3, <2>4, <2>5, <2>6, <2>7, <2>8, <2>9, <2>10
           DEF WorkerStep
<1>3. ASSUME NEW s \in Submitter, Enqueue(s)
      PROVE  FateKnown'
    <2>1. CASE /\ jobQueue' = Append(jobQueue, sjob[s])
               /\ fate' = [fate EXCEPT ![sjob[s]] = "pending"]
        <3>1. sjob[s] \in Job
            BY <1>3, <1>t DEF Enqueue
        <3>2. QueuedJobs' = QueuedJobs \cup {sjob[s]}
            BY <3>1, <2>1, <1>t, QueuedAfterSend
        <3>3. QED
            BY <1>3, <1>t, <2>1, <3>2 DEF Enqueue, workerVars
    <2>2. CASE UNCHANGED queueVars
        BY <1>3, <2>2, <1>1 DEF Enqueue, queueVars, workerVars
    <2>3. QED
        BY <1>3, <2>1, <2>2 DEF Enqueue
<1>4. ASSUME NEW s \in Submitter, DropJob(s)
      PROVE  FateKnown'
    BY <1>4, <1>t DEF DropJob, workerVars, QueuedJobs
<1>5. CASE \E s \in Submitter : \/ ClaimJob(s) \/ ReserveStep(s) \/ UndoClaim(s)
                                \/ DedupAdd(s) \/ DropStep(s)
                                \/ \E j \in Job : CheckDedup(s, j)
    BY <1>5, <1>1 DEF CheckDedup, ClaimJob, ReserveStep, UndoClaim,
       DedupAdd, DropStep, workerVars, queueVars
<1>6. CASE \E j \in Forgettable : DedupForget(j)
    BY <1>6, <1>1 DEF DedupForget, workerVars
<1>7. QED
    BY <1>1, <1>2, <1>3, <1>4, <1>5, <1>6, ConstantsAssumption
       DEF Next, SubmitStep, vars, ConstantsAssumption

\* An accepted job whose outcome is unknown is in the queue or in a worker.
THEOREM FateKnownHolds == Spec => []FateKnown
<1>1. Init => FateKnown
    BY DEF Init, FateKnown
<1>2. OwnershipInv /\ FateKnown /\ [Next]_vars => FateKnown'
    BY FateStep
<1>3. QED
    BY <1>1, <1>2, OwnershipInvariant, PTL DEF Spec

\* No step leaves a reservation without a holder.
LEMMA NoLeakStep ==
    ASSUME OwnershipInv, NoLeakedReservation, [Next]_vars
    PROVE  NoLeakedReservation'
<1> USE DEF HoldsJobS, HoldsStepS, HoldsJobW, HoldsStepW
<1>t. /\ wpc \in [Worker -> WorkerPC] /\ wjob \in [Worker -> Job \cup {NoJob}]
      /\ spc \in [Submitter -> SubmitPC] /\ sjob \in [Submitter -> Job \cup {NoJob}]
      /\ jobQueue \in Seq(Job)
      /\ \A s \in Submitter : spc[s] # "idle" => sjob[s] \in Job
      /\ \A w \in Worker : wpc[w] \notin {"off", "idle"} => wjob[w] \in Job
    BY DEF OwnershipInv, TypeOK
<1>1. CASE UNCHANGED <<runningJobs, activeJobs, spc, sjob, wpc, wjob, jobQueue>>
    BY <1>1 DEF QueuedJobs, NoLeakedReservation
<1>2. ASSUME NEW w \in Worker, WorkerStep(w) \/ StartWorker(w) \/ WorkerExit(w)
      PROVE  NoLeakedReservation'
    <2> USE <1>t DEF WorkerGoes, submitVars, mapVars
    <2>q. jobQueue' = jobQueue => QueuedJobs' = QueuedJobs
        BY DEF QueuedJobs
    <2>1. CASE Dequeue(w)
        <3>1. QueuedJobs \subseteq QueuedJobs' \cup {Head(jobQueue)}
            BY <2>1, QueuedAfterReceive DEF Dequeue, OwnershipInv, SingleFlight
        <3>2. QED
            BY <2>1, <3>1 DEF Dequeue, NoLeakedReservation
    <2>2. CASE \/ VerifyLease(w) \/ StartJob(w) \/ CheckExecID(w) \/ ExecuteJob(w)
               \/ Panic(w) \/ ReportOutcome(w)
        <3>1. /\ UNCHANGED <<runningJobs, activeJobs, spc, sjob, wjob, jobQueue>>
              /\ \A v \in Worker : /\ HoldsJobW(v) => HoldsJobW(v)'
                                   /\ HoldsStepW(v) => HoldsStepW(v)'
            BY <2>2 DEF VerifyLease, StartJob, CheckExecID, ExecuteJob, Panic,
                        ReportOutcome
        <3>2. QED
            BY <3>1, <2>q DEF NoLeakedReservation
    <2>3. CASE CleanStep(w)
        BY <2>3, <2>q DEF CleanStep, NoLeakedReservation
    <2>4. CASE CleanJob(w)
        BY <2>4, <2>q DEF CleanJob, NoLeakedReservation
    <2>5. CASE StartWorker(w) \/ WorkerExit(w)
        BY <2>5, <2>q DEF StartWorker, WorkerExit, NoLeakedReservation
    <2>6. QED
        BY <1>2, <2>1, <2>2, <2>3, <2>4, <2>5 DEF WorkerStep
<1>3. ASSUME NEW s \in Submitter, SubmitStep(s) \/ \E j \in Job : CheckDedup(s, j)
      PROVE  NoLeakedReservation'
    <2> USE <1>t DEF SubmitterGoes, SubmitterReturns, queueVars, workerVars
    <2>q. jobQueue' = jobQueue => QueuedJobs' = QueuedJobs
        BY DEF QueuedJobs
    <2>1. CASE \E j \in Job : CheckDedup(s, j)
        BY <2>1, <2>q DEF CheckDedup, NoLeakedReservation
    <2>2. CASE ClaimJob(s)
        BY <2>2, <2>q DEF ClaimJob, NoLeakedReservation
    <2>3. CASE ReserveStep(s)
        BY <2>3, <2>q DEF ReserveStep, NoLeakedReservation
    <2>4. CASE UndoClaim(s) \/ DropJob(s)
        BY <2>4, <2>q DEF UndoClaim, DropJob, NoLeakedReservation
    <2>5. CASE Enqueue(s)
        <3>1. CASE /\ jobQueue' = Append(jobQueue, sjob[s])
                   /\ spc' = [spc EXCEPT ![s] = "enqueued"]
            <4>1. QueuedJobs' = QueuedJobs \cup {sjob[s]}
                BY <2>5, <3>1, QueuedAfterSend DEF Enqueue
            <4>2. QED
                BY <2>5, <3>1, <4>1 DEF Enqueue, NoLeakedReservation
        <3>2. CASE spc' = [spc EXCEPT ![s] = "dropStep"] /\ UNCHANGED queueVars
            BY <2>5, <3>2, <2>q DEF Enqueue, NoLeakedReservation
        <3>3. QED
            BY <2>5, <3>1, <3>2 DEF Enqueue
    <2>6. CASE DedupAdd(s)
        BY <2>6, <2>q DEF DedupAdd, NoLeakedReservation
    <2>7. CASE DropStep(s)
        BY <2>7, <2>q DEF DropStep, NoLeakedReservation
    <2>8. QED
        BY <1>3, <2>1, <2>2, <2>3, <2>4, <2>5, <2>6, <2>7 DEF SubmitStep
<1>4. CASE \E j \in Forgettable : DedupForget(j)
    BY <1>4, <1>1 DEF DedupForget, workerVars
<1>5. QED
    BY <1>1, <1>2, <1>3, <1>4, ConstantsAssumption DEF Next, vars, ConstantsAssumption

\* No reservation is left behind: every early return of SubmitJobWithMeta and
\* every end of executeJobSafe gives back what it took.
THEOREM NoLeakHolds == Spec => []NoLeakedReservation
<1> USE DEF HoldsJobS, HoldsStepS, HoldsJobW, HoldsStepW
<1>1. Init => NoLeakedReservation
    BY DEF Init, NoLeakedReservation
<1>2. OwnershipInv /\ NoLeakedReservation /\ [Next]_vars => NoLeakedReservation'
    BY NoLeakStep
<1>3. QED
    BY <1>1, <1>2, OwnershipInvariant, PTL DEF Spec

-----------------------------------------------------------------------------
(* Acceptance, with one caller of SubmitJobWithMeta at a time              *)

\* An accepted id that did not leave the store since is in it, or its caller is
\* about to put it there; and a call past its look into the store has an id that was
\* not accepted since.
AcceptedKnown ==
    /\ \A j \in seen : \/ j \in dedup
                       \/ \E s \in Submitter : spc[s] = "enqueued" /\ sjob[s] = j
    /\ \A s \in Submitter : spc[s] \in {"checked", "claimed", "reserved"} => sjob[s] \notin seen

\* With one caller, no step makes the store and the calls under way forget an
\* id that was accepted.
LEMMA AcceptedStep ==
    ASSUME \A s, t \in Submitter : s = t, TypeOK, AcceptedKnown, [Next]_vars
    PROVE  AcceptedKnown'
<1>t. spc \in [Submitter -> SubmitPC] /\ sjob \in [Submitter -> Job \cup {NoJob}]
    BY DEF TypeOK
<1>1. CASE UNCHANGED <<spc, sjob, dedup, seen>>
    BY <1>1 DEF AcceptedKnown
<1>2. ASSUME NEW s \in Submitter, SubmitStep(s) \/ \E j \in Job : CheckDedup(s, j)
      PROVE  AcceptedKnown'
    <2> USE <1>t DEF SubmitterGoes, SubmitterReturns, queueVars, AcceptedKnown
    <2>1. CASE \E j \in Job : CheckDedup(s, j)
        BY <2>1 DEF CheckDedup
    <2>2. CASE ClaimJob(s)
        BY <2>2 DEF ClaimJob
    <2>3. CASE ReserveStep(s)
        BY <2>3 DEF ReserveStep
    <2>4. CASE UndoClaim(s) \/ DropStep(s) \/ DropJob(s)
        BY <2>4 DEF UndoClaim, DropStep, DropJob
    <2>5. CASE Enqueue(s)
        BY <2>5 DEF Enqueue
    <2>6. CASE DedupAdd(s)
        BY <2>6 DEF DedupAdd
    <2>7. QED
        BY <1>2, <2>1, <2>2, <2>3, <2>4, <2>5, <2>6 DEF SubmitStep
<1>3. CASE \E j \in Forgettable : DedupForget(j)
    BY <1>3 DEF DedupForget, AcceptedKnown
<1>4. ASSUME NEW w \in Worker, WorkerStep(w) \/ StartWorker(w) \/ WorkerExit(w)
      PROVE  UNCHANGED <<spc, sjob, dedup, seen>>
    BY <1>4 DEF WorkerStep, Dequeue, VerifyLease, StartJob, CheckExecID, ExecuteJob, Panic,
                ReportOutcome, CleanStep, CleanJob, StartWorker, WorkerExit, submitVars
<1>5. QED
    BY <1>1, <1>2, <1>3, <1>4, ConstantsAssumption DEF Next, vars, ConstantsAssumption

\* The queue grows only by a send, and the id sent is not an accepted one whose
\* entry is still there or still to be made.
LEMMA SendOfNew ==
    ASSUME TypeOK, AcceptedKnown, [Next]_vars, NEW j \in Job,
           Len(jobQueue') > Len(jobQueue), jobQueue'[Len(jobQueue')] = j
    PROVE  j \notin seen
<1>1. jobQueue \in Seq(Job) /\ Len(jobQueue) \in Nat
    BY DEF TypeOK
<1>2. jobQueue' # jobQueue
    BY <1>1
<1>3. ASSUME NEW w \in Worker, Dequeue(w)
      PROVE  FALSE
    BY <1>1, <1>3 DEF Dequeue
<1>4. PICK s \in Submitter : Enqueue(s)
    BY <1>2, <1>3, ConstantsAssumption
       DEF Next, vars, ConstantsAssumption, SubmitStep, CheckDedup, ClaimJob, ReserveStep,
           UndoClaim, DedupAdd, DropStep, DropJob, DedupForget, WorkerStep, VerifyLease,
           StartJob, CheckExecID, ExecuteJob, Panic, ReportOutcome, CleanStep, CleanJob,
           StartWorker, WorkerExit, queueVars
<1>5. spc[s] = "reserved" /\ jobQueue' = Append(jobQueue, sjob[s]) /\ sjob[s] \in Job
    BY <1>2, <1>4 DEF Enqueue, queueVars, TypeOK
<1>6. jobQueue'[Len(jobQueue')] = sjob[s]
    BY <1>1, <1>5
<1>7. QED
    BY <1>5, <1>6 DEF AcceptedKnown

\* With one caller at a time, as in the agent, SubmitJobWithMeta accepts no id
\* twice within the life of its entry in the store, although the entry is made
\* only after the send.
THEOREM AcceptedOnce ==
    ASSUME \A s, t \in Submitter : s = t
    PROVE  Spec => AcceptedOnceWhileStored
<1>1. Init => AcceptedKnown
    BY DEF Init, AcceptedKnown
<1>2. TypeOK /\ AcceptedKnown /\ [Next]_vars => AcceptedKnown'
    BY AcceptedStep
<1>3. TypeOK /\ AcceptedKnown /\ [Next]_vars =>
        [\A j \in Job : Len(jobQueue') > Len(jobQueue) /\ jobQueue'[Len(jobQueue')] = j
                        => j \notin seen]_vars
    BY SendOfNew
<1>4. QED
    BY <1>1, <1>2, <1>3, TypeCorrect, PTL DEF Spec, AcceptedOnceWhileStored

-----------------------------------------------------------------------------
(* PoolLifecycle                                                           *)

USE DEF resizeVars, mainVars

\* A step of the agent is a step of the dispatcher (or leaves it alone), or
\* it is the report of the in-flight jobs, which changes only their fate.
LEMMA PoolStepDispatch ==
    ASSUME [PoolNext]_poolVars
    PROVE  \/ [Next]_vars
           \/ ReportInFlight
<1> USE PoolAssumption DEF PoolAssumption
<1>1. CASE DispatcherStep
    BY <1>1 DEF DispatcherStep, Next
<1>2. CASE Resize
    <2>1. CASE \E n \in 1 .. MaxConcurrency : ResizeBegin(n)
        BY <2>1 DEF ResizeBegin
    <2>2. CASE GrowOne
        BY <2>2 DEF GrowOne, Next
    <2>3. CASE ShrinkOne
        BY <2>3 DEF ShrinkOne, Next
    <2>4. CASE ResizeEnd
        BY <2>4 DEF ResizeEnd
    <2>5. QED
        BY <1>2, <2>1, <2>2, <2>3, <2>4 DEF Resize
<1>3. CASE Signal \/ GraceExpires
    BY <1>3 DEF Signal, GraceExpires
<1>4. CASE MainStep
    BY <1>4 DEF MainStep, DrainCount, DrainWake, DrainExpired, StopPool, Exit
<1>5. CASE \E w \in Worker : ShutdownExit(w)
    BY <1>5 DEF ShutdownExit, Next
<1>6. CASE UNCHANGED poolVars
    BY <1>6 DEF poolVars
<1>7. QED
    BY <1>1, <1>2, <1>3, <1>4, <1>5, <1>6 DEF PoolNext

\* What is proved of the dispatcher alone, above.
DispatchInv == OwnershipInv /\ HeartbeatWhileRunning /\ FateKnown /\ NoLeakedReservation

\* A step of the agent keeps it.
LEMMA PoolStepInv ==
    ASSUME DispatchInv, [PoolNext]_poolVars
    PROVE  DispatchInv'
<1>1. CASE [Next]_vars
    <2>1. TypeOK' /\ Ownership'
        BY <1>1, TypeStep, OwnershipStep DEF DispatchInv, OwnershipInv, Ownership
    <2>2. HeartbeatWhileRunning' /\ FateKnown' /\ NoLeakedReservation'
        BY <1>1, HeartbeatStep, FateStep, NoLeakStep DEF DispatchInv
    <2>3. QED
        BY <2>1, <2>2 DEF DispatchInv, OwnershipInv, Ownership
<1>2. CASE ReportInFlight
    <2>1. /\ UNCHANGED <<jobQueue, seen, spc, sjob, dedup, wpc, wjob, dying, hbs, hbStop,
                         runningJobs, activeJobs>>
          /\ fate' = [j \in Job |-> IF j \in runningJobs THEN "told" ELSE fate[j]]
        BY <1>2 DEF ReportInFlight, workerVars, mapVars
    <2>2. TypeOK'
        BY <2>1 DEF DispatchInv, OwnershipInv, TypeOK, Fate
    <2>3. Ownership'
        BY <2>1, OwnershipFrame DEF DispatchInv, OwnershipInv, Ownership, HoldsJobS,
           HoldsStepS, HoldsJobW, HoldsStepW
    <2>4. HeartbeatWhileRunning' /\ NoLeakedReservation'
        BY <2>1 DEF DispatchInv, HeartbeatWhileRunning, NoLeakedReservation, QueuedJobs,
           HoldsJobS, HoldsStepS, HoldsJobW, HoldsStepW
    <2>5. FateKnown'
        BY <2>1 DEF DispatchInv, FateKnown, QueuedJobs
    <2>6. QED
        BY <2>2, <2>3, <2>4, <2>5 DEF DispatchInv, OwnershipInv, Ownership
<1>3. QED
    BY <1>1, <1>2, PoolStepDispatch

\* The induction of DispatchInv in the whole agent.
THEOREM DispatchInvariant == PoolSpec => []DispatchInv
<1>1. Init => DispatchInv
    <2> SUFFICES ASSUME Init PROVE DispatchInv
        OBVIOUS
    <2>1. TypeOK
        BY InitType
    <2>2. Ownership
        BY ConstantsAssumption DEF ConstantsAssumption, Init, Ownership, SingleFlight,
           Reserved, StepExclusive, SameStep, QueuedJobs, HoldsJobS, HoldsStepS,
           HoldsJobW, HoldsStepW
    <2>3. HeartbeatWhileRunning /\ FateKnown /\ NoLeakedReservation
        BY DEF Init, HeartbeatWhileRunning, FateKnown, NoLeakedReservation
    <2>4. QED
        BY <2>1, <2>2, <2>3 DEF DispatchInv, OwnershipInv, Ownership
<1>2. DispatchInv /\ [PoolNext]_poolVars => DispatchInv'
    BY PoolStepInv
<1>3. PoolInit => Init
    BY DEF PoolInit
<1>4. QED
    BY <1>1, <1>2, <1>3, PTL DEF PoolSpec

\* Resizes, panics and the shutdown do not break the dispatcher: one job id in
\* flight once, one job per step, no leaked reservation, a heartbeat for
\* every running job and a known fate for every accepted one.
THEOREM PoolKeepsDispatcher ==
    PoolSpec => [](SingleFlight /\ OneJobPerStep /\ NoLeakedReservation
                    /\ HeartbeatWhileRunning /\ FateKnown)
<1>1. DispatchInv => SingleFlight /\ OneJobPerStep /\ NoLeakedReservation
                       /\ HeartbeatWhileRunning /\ FateKnown
    BY DEF DispatchInv, OwnershipInv, TypeOK, SingleFlight, StepExclusive, SameStep,
       OneJobPerStep, QueuedJobs
<1>2. QED
    BY <1>1, DispatchInvariant, PTL

\* Nor does acceptance depend on the dispatcher being alone: with one caller at
\* a time, no id is accepted twice within the life of its entry in the store,
\* also while the pool is resized, drained, reported on and stopped.
THEOREM PoolAcceptsOnce ==
    ASSUME \A s, t \in Submitter : s = t
    PROVE  PoolSpec => AcceptedOnceWhileStored
<1>1. PoolInit => AcceptedKnown
    BY DEF PoolInit, Init, AcceptedKnown
<1>2. ASSUME ReportInFlight
      PROVE  UNCHANGED <<jobQueue, spc, sjob, dedup, seen>>
    BY <1>2 DEF ReportInFlight, workerVars, mapVars
<1>3. DispatchInv /\ AcceptedKnown /\ [PoolNext]_poolVars => AcceptedKnown'
    <2> SUFFICES ASSUME DispatchInv, AcceptedKnown, [PoolNext]_poolVars
                 PROVE  AcceptedKnown'
        OBVIOUS
    <2>1. CASE [Next]_vars
        BY <2>1, AcceptedStep DEF DispatchInv, OwnershipInv
    <2>2. CASE ReportInFlight
        BY <1>2, <2>2 DEF AcceptedKnown
    <2>3. QED
        BY <2>1, <2>2, PoolStepDispatch
<1>4. DispatchInv /\ AcceptedKnown /\ [PoolNext]_poolVars =>
        [\A j \in Job : Len(jobQueue') > Len(jobQueue) /\ jobQueue'[Len(jobQueue')] = j
                        => j \notin seen]_vars
    <2> SUFFICES ASSUME DispatchInv, AcceptedKnown, [PoolNext]_poolVars, NEW j \in Job,
                        Len(jobQueue') > Len(jobQueue), jobQueue'[Len(jobQueue')] = j
                 PROVE  j \notin seen
        OBVIOUS
    <2>1. CASE [Next]_vars
        BY <2>1, SendOfNew DEF DispatchInv, OwnershipInv
    <2>2. CASE ReportInFlight
        <3>1. Len(jobQueue) \in Nat /\ jobQueue' = jobQueue
            BY <1>2, <2>2 DEF DispatchInv, OwnershipInv, TypeOK
        <3>2. QED
            BY <3>1
    <2>3. QED
        BY <2>1, <2>2, PoolStepDispatch
<1>5. QED
    BY <1>1, <1>3, <1>4, DispatchInvariant, PTL DEF PoolSpec, AcceptedOnceWhileStored

-----------------------------------------------------------------------------
(* The drain                                                               *)

\* Whoever sees runningJobs empty sees no accepted job without an outcome.
LEMMA EmptyMeansDone ==
    ASSUME DispatchInv, runningJobs = {}, NEW j \in Job
    PROVE  fate[j] # "pending"
BY DEF DispatchInv, OwnershipInv, Reserved, FateKnown, HoldsJobW

\* A drain that ends within the grace period leaves no accepted job behind:
\* a job that is pending after it was accepted after it.
THEOREM CleanDrainHolds == PoolSpec => []CleanDrainCompletes
<1>1. PoolInit => CleanDrainCompletes
    BY DEF PoolInit, CleanDrainCompletes
<1>2. DispatchInv /\ CleanDrainCompletes /\ [PoolNext]_poolVars => CleanDrainCompletes'
    <2> SUFFICES ASSUME DispatchInv, CleanDrainCompletes, [PoolNext]_poolVars
                 PROVE  CleanDrainCompletes'
        OBVIOUS
    <2> USE DEF CleanDrainCompletes
    <2>1. CASE DispatcherStep
        BY <2>1 DEF DispatcherStep
    <2>2. CASE Resize
        <3>1. UNCHANGED <<fate, mpc, graceOver, late>>
            BY <2>2 DEF Resize, ResizeBegin, GrowOne, ShrinkOne, ResizeEnd, StartWorker,
               WorkerExit, vars
        <3>2. QED
            BY <3>1
    <2>3. CASE Signal \/ GraceExpires
        BY <2>3 DEF Signal, GraceExpires, vars
    <2>4. CASE DrainCount
        <3>1. CASE runningJobs = {}
            <4>1. \A j \in Job : fate'[j] # "pending"
                BY <2>4, <3>1, EmptyMeansDone DEF DrainCount, vars
            <4>2. QED
                BY <4>1
        <3>2. CASE runningJobs # {}
            BY <2>4, <3>2 DEF DrainCount, vars
        <3>3. QED
            BY <3>1, <3>2
    <2>5. CASE DrainWake \/ DrainExpired \/ StopPool \/ Exit
        BY <2>5 DEF DrainWake, DrainExpired, StopPool, Exit, vars
    <2>6. CASE ReportInFlight
        BY <2>6 DEF ReportInFlight
    <2>7. CASE \E w \in Worker : ShutdownExit(w)
        BY <2>7 DEF ShutdownExit, WorkerExit
    <2>8. CASE UNCHANGED poolVars
        BY <2>8 DEF poolVars, vars
    <2>9. QED
        BY <2>1, <2>2, <2>3, <2>4, <2>5, <2>6, <2>7, <2>8 DEF PoolNext, MainStep
<1>3. QED
    BY <1>1, <1>2, DispatchInvariant, PTL DEF PoolSpec

-----------------------------------------------------------------------------
(* The size of the pool                                                    *)

\* The workers there are or were, the exits that a shrink asked for aside.
Size == Cardinality(Live) + crashed

\* PoolHonoursMax says nothing while a resize is in progress.  The induction
\* needs what each of its steps still has to start or may still stop, and
\* that a worker leaves through a panic only from its deferred cleanup.
SizeInv ==
    /\ IsFiniteSet(Live)
    /\ \A w \in dying : wpc[w] \in {"cleanStep", "cleanJob"}
    /\ crashed + Cardinality(dying) <= MaxCrashes
    /\ rpc # "idle" => target \in 1 .. MaxConcurrency
    /\ mpc \notin {"waiting", "exited"} =>
          /\ rpc = "idle" => Size >= maxWorkers
          /\ rpc = "growing" => Size + left >= target
          /\ rpc = "shrinking" => Size >= target + left

\* What a step of a worker does to the set of live workers: only the end of a
\* panic takes one out of it.
LEMMA WorkerStepLive ==
    ASSUME TypeOK, \A v \in dying : wpc[v] \in {"cleanStep", "cleanJob"},
           NEW w \in Worker, WorkerStep(w)
    PROVE  \/ /\ Live' = Live /\ {v \in dying : wpc'[v] = "off"} = {}
              /\ dying' = dying \/ dying' = dying \cup {w}
              /\ \A v \in dying' : wpc'[v] \in {"cleanStep", "cleanJob"}
           \/ /\ w \in Live /\ Live' = Live \ {w} /\ {v \in dying : wpc'[v] = "off"} = {w}
              /\ w \in dying /\ dying' = dying \ {w}
              /\ \A v \in dying' : wpc'[v] \in {"cleanStep", "cleanJob"}
<1>t. wpc \in [Worker -> WorkerPC] /\ dying \subseteq Worker
    BY DEF TypeOK
<1>1. CASE CleanJob(w) /\ w \in dying
    BY <1>1, <1>t DEF CleanJob, WorkerGoes, Live
<1>2. CASE CleanJob(w) /\ w \notin dying
    BY <1>2, <1>t DEF CleanJob, WorkerGoes, Live
<1>3. CASE CleanStep(w)
    BY <1>3, <1>t DEF CleanStep, WorkerGoes, Live
<1>4. CASE Panic(w)
    BY <1>4, <1>t DEF Panic, WorkerGoes, Live
<1>5. CASE Dequeue(w) \/ VerifyLease(w) \/ StartJob(w)
    BY <1>5, <1>t DEF Dequeue, VerifyLease, StartJob, WorkerGoes, Live
<1>6. CASE CheckExecID(w) \/ ExecuteJob(w) \/ ReportOutcome(w)
    BY <1>6, <1>t DEF CheckExecID, ExecuteJob, ReportOutcome, WorkerGoes, Live
<1>7. QED
    BY <1>1, <1>2, <1>3, <1>4, <1>5, <1>6 DEF WorkerStep

\* The sizes a pool can be asked for are positive.
LEMMA PoolBounds ==
    /\ MaxConcurrency \in Nat /\ MaxConcurrency >= 1 /\ MaxCrashes \in Nat
    /\ IsFiniteSet(InitWorker) /\ Cardinality(InitWorker) \in Nat
    /\ Cardinality(InitWorker) >= 1
<1>1. IsFiniteSet(InitWorker) /\ InitWorker # {}
    BY PoolAssumption DEF PoolAssumption
<1>2. Cardinality(InitWorker) \in Nat /\ Cardinality(InitWorker) # 0
    BY <1>1, FS_CardinalityType, FS_EmptySet
<1>3. QED
    BY <1>1, <1>2, PoolAssumption DEF PoolAssumption

PoolInv == PoolTypeOK /\ SizeInv

\* A step that leaves the pool and the resize alone.
LEMMA SizeFrame ==
    ASSUME PoolInv, UNCHANGED <<wpc, dying, crashed, maxWorkers, rpc, left, target>>,
           mpc' \notin {"waiting", "exited"} => mpc \notin {"waiting", "exited"}
    PROVE  SizeInv'
BY DEF PoolInv, SizeInv, Size, Live

\* The cardinalities that the sums are about are numbers.
LEMMA SizeNumbers ==
    ASSUME PoolInv
    PROVE  /\ IsFiniteSet(Live) /\ Cardinality(Live) \in Nat
           /\ IsFiniteSet(dying) /\ Cardinality(dying) \in Nat
           /\ crashed \in Nat /\ Size \in Nat /\ left \in Nat /\ target \in Nat
           /\ maxWorkers \in Nat
<1>1. IsFiniteSet(Live) /\ dying \subseteq Live
    BY DEF PoolInv, PoolTypeOK, TypeOK, SizeInv, Live
<1>2. IsFiniteSet(dying)
    BY <1>1, FS_Subset
<1>3. Cardinality(Live) \in Nat /\ Cardinality(dying) \in Nat
    BY <1>1, <1>2, FS_CardinalityType
<1>4. QED
    BY <1>1, <1>2, <1>3, PoolBounds DEF PoolInv, PoolTypeOK, Size

\* A step of the dispatcher keeps the size, and counts the panic that ends.
LEMMA DispatcherSize ==
    ASSUME PoolInv, DispatcherStep
    PROVE  SizeInv' /\ crashed' \in 0 .. MaxCrashes
<1>n. /\ IsFiniteSet(Live) /\ Cardinality(Live) \in Nat
      /\ IsFiniteSet(dying) /\ Cardinality(dying) \in Nat
      /\ crashed \in Nat /\ Size \in Nat /\ left \in Nat /\ target \in Nat
      /\ maxWorkers \in Nat
    BY SizeNumbers
<1>t. TypeOK /\ \A v \in dying : wpc[v] \in {"cleanStep", "cleanJob"}
    BY DEF PoolInv, PoolTypeOK, SizeInv
<1>u. UNCHANGED <<maxWorkers, rpc, left, target, mpc, graceOver>>
    BY DEF DispatcherStep
<1>c. /\ crashed' = crashed + Cardinality({v \in dying : wpc'[v] = "off"})
      /\ crashed + Cardinality(dying') <= MaxCrashes
    BY DEF DispatcherStep
<1>e. Cardinality({}) = 0 /\ \A x : Cardinality({x}) = 1
    BY FS_EmptySet, FS_Singleton
<1>1. ASSUME UNCHANGED <<wpc, dying>>
      PROVE  SizeInv' /\ crashed' \in 0 .. MaxCrashes
    <2>1. {v \in dying : wpc'[v] = "off"} = {}
        BY <1>1, <1>t
    <2>2. crashed' = crashed
        BY <1>n, <1>c, <1>e, <2>1
    <2>3. SizeInv'
        BY <1>1, <1>u, <2>2, SizeFrame
    <2>4. QED
        BY <2>2, <2>3 DEF PoolInv, PoolTypeOK
<1>2. ASSUME NEW w \in Worker, WorkerStep(w)
      PROVE  SizeInv' /\ crashed' \in 0 .. MaxCrashes
    <2>1. CASE /\ Live' = Live /\ {v \in dying : wpc'[v] = "off"} = {}
               /\ \A v \in dying' : wpc'[v] \in {"cleanStep", "cleanJob"}
        <3>1. crashed' = crashed
            BY <1>n, <1>c, <1>e, <2>1
        <3>2. Size' = Size
            BY <2>1, <3>1 DEF Size
        <3>3. SizeInv'
            BY <1>u, <1>c, <2>1, <3>1, <3>2 DEF PoolInv, SizeInv
        <3>4. QED
            BY <3>1, <3>3 DEF PoolInv, PoolTypeOK
    <2>2. CASE /\ w \in Live /\ Live' = Live \ {w} /\ {v \in dying : wpc'[v] = "off"} = {w}
               /\ w \in dying /\ dying' = dying \ {w}
               /\ \A v \in dying' : wpc'[v] \in {"cleanStep", "cleanJob"}
        <3>1. crashed' = crashed + 1
            BY <1>c, <1>e, <2>2
        <3>2. IsFiniteSet(Live') /\ Cardinality(Live') = Cardinality(Live) - 1
            BY <1>n, <2>2, FS_RemoveElement
        <3>3. Cardinality(dying') = Cardinality(dying) - 1
            BY <1>n, <2>2, FS_RemoveElement
        <3>4. crashed + Cardinality(dying) <= MaxCrashes
            BY DEF PoolInv, SizeInv
        <3>5. Size' = Size
            BY <1>n, <3>1, <3>2 DEF Size
        <3>6. crashed' + Cardinality(dying') <= MaxCrashes
            BY <1>n, <3>1, <3>3, <3>4, PoolBounds
        <3>7. SizeInv'
            BY <1>u, <2>2, <3>2, <3>5, <3>6 DEF PoolInv, SizeInv
        <3>8. dying # {}
            BY <2>2
        <3>9. Cardinality(dying) >= 1
            BY <1>n, <3>8, FS_EmptySet
        <3>10. QED
            BY <1>n, <3>1, <3>4, <3>7, <3>9, PoolBounds
    <2>3. QED
        BY <1>2, <1>t, <2>1, <2>2, WorkerStepLive
<1>3. CASE \E s \in Submitter : SubmitStep(s) \/ \E j \in Job : CheckDedup(s, j)
    BY <1>3, <1>1 DEF SubmitStep, CheckDedup, ClaimJob, ReserveStep, UndoClaim,
       Enqueue, DedupAdd, DropStep, DropJob, workerVars
<1>4. CASE \E j \in Forgettable : DedupForget(j)
    BY <1>4, <1>1 DEF DedupForget, workerVars
<1>5. QED
    BY <1>2, <1>3, <1>4 DEF DispatcherStep

\* A resize changes the size by what it still has to do.
LEMMA ResizeSize ==
    ASSUME PoolInv, Resize
    PROVE  /\ SizeInv'
           /\ maxWorkers' \in (1 .. MaxConcurrency) \cup {Cardinality(InitWorker)}
           /\ rpc' \in {"idle", "growing", "shrinking"}
           /\ left' \in 0 .. MaxConcurrency + Cardinality(InitWorker)
           /\ target' \in Nat
           /\ UNCHANGED <<crashed, mpc, graceOver, late>>
<1>n. /\ IsFiniteSet(Live) /\ Cardinality(Live) \in Nat
      /\ crashed \in Nat /\ Size \in Nat /\ left \in Nat /\ target \in Nat
      /\ maxWorkers \in Nat
    BY SizeNumbers
<1>t. /\ wpc \in [Worker -> WorkerPC] /\ dying \subseteq Worker
      /\ maxWorkers \in (1 .. MaxConcurrency) \cup {Cardinality(InitWorker)}
      /\ rpc \in {"idle", "growing", "shrinking"}
      /\ left \in 0 .. MaxConcurrency + Cardinality(InitWorker)
    BY DEF PoolInv, PoolTypeOK, TypeOK
<1>s. /\ \A v \in dying : wpc[v] \in {"cleanStep", "cleanJob"}
      /\ crashed + Cardinality(dying) <= MaxCrashes
      /\ rpc # "idle" => target \in 1 .. MaxConcurrency
      /\ mpc \notin {"waiting", "exited"} =>
            /\ rpc = "idle" => Size >= maxWorkers
            /\ rpc = "growing" => Size + left >= target
            /\ rpc = "shrinking" => Size >= target + left
    BY DEF PoolInv, SizeInv
<1> USE PoolBounds
<1>1. ASSUME NEW n \in 1 .. MaxConcurrency, ResizeBegin(n)
      PROVE  /\ SizeInv' /\ UNCHANGED <<maxWorkers, crashed, mpc, graceOver, late>>
             /\ rpc' \in {"idle", "growing", "shrinking"} /\ target' \in Nat
             /\ left' \in 0 .. MaxConcurrency + Cardinality(InitWorker)
    <2>1. /\ UNCHANGED <<wpc, dying, maxWorkers, crashed, mpc, graceOver, late>>
          /\ rpc = "idle" /\ mpc = "up" /\ target' = n
          /\ \/ n > maxWorkers /\ rpc' = "growing" /\ left' = n - maxWorkers
             \/ n < maxWorkers /\ rpc' = "shrinking" /\ left' = maxWorkers - n
        BY <1>1 DEF ResizeBegin, vars
    <2>2. Size' = Size /\ Live' = Live
        BY <2>1 DEF Size, Live
    <2>3. left' \in 0 .. MaxConcurrency + Cardinality(InitWorker)
        BY <1>n, <1>t, <2>1
    <2>4. SizeInv'
        BY <1>n, <1>s, <2>1, <2>2 DEF SizeInv
    <2>5. QED
        BY <2>1, <2>3, <2>4
<1>2. ASSUME GrowOne
      PROVE  SizeInv' /\ UNCHANGED <<maxWorkers, rpc, target, crashed, mpc, graceOver, late>>
             /\ left' \in 0 .. MaxConcurrency + Cardinality(InitWorker)
    <2>1. PICK w \in Worker : StartWorker(w)
        BY <1>2 DEF GrowOne
    <2>2. /\ UNCHANGED <<maxWorkers, rpc, target, crashed, mpc, graceOver, late, dying>>
          /\ rpc = "growing" /\ left > 0 /\ left' = left - 1
        BY <1>2, <2>1 DEF GrowOne, StartWorker
    <2>3. /\ w \notin Live /\ Live' = Live \cup {w}
          /\ \A v \in dying : wpc'[v] = wpc[v]
        BY <2>1, <1>t, <1>s DEF StartWorker, WorkerGoes, Live
    <2>4. IsFiniteSet(Live') /\ Cardinality(Live') = Cardinality(Live) + 1
        BY <1>n, <2>3, FS_AddElement
    <2>5. Size' = Size + 1
        BY <1>n, <2>2, <2>4 DEF Size
    <2>6. SizeInv'
        BY <1>n, <1>s, <2>2, <2>3, <2>4, <2>5 DEF SizeInv
    <2>7. QED
        BY <1>n, <1>t, <2>2, <2>6
<1>3. ASSUME ShrinkOne
      PROVE  SizeInv' /\ UNCHANGED <<maxWorkers, rpc, target, crashed, mpc, graceOver, late>>
             /\ left' \in 0 .. MaxConcurrency + Cardinality(InitWorker)
    <2>1. /\ UNCHANGED <<maxWorkers, rpc, target, crashed, mpc, graceOver, late>>
          /\ rpc = "shrinking" /\ left > 0 /\ left' = left - 1
        BY <1>3 DEF ShrinkOne
    <2>2. CASE \E w \in Worker : WorkerExit(w)
        <3>1. PICK w \in Worker : WorkerExit(w)
            BY <2>2
        <3>2. w \in Live /\ Live' = Live \ {w} /\ dying' = dying
              /\ \A v \in dying : wpc'[v] = wpc[v]
            BY <3>1, <1>t, <1>s DEF WorkerExit, WorkerGoes, Live
        <3>3. IsFiniteSet(Live') /\ Cardinality(Live') = Cardinality(Live) - 1
            BY <1>n, <3>2, FS_RemoveElement
        <3>4. Size' = Size - 1
            BY <1>n, <2>1, <3>3 DEF Size
        <3>5. SizeInv'
            BY <1>n, <1>s, <2>1, <3>2, <3>3, <3>4 DEF SizeInv
        <3>6. QED
            BY <1>n, <1>t, <2>1, <3>5
    <2>3. CASE UNCHANGED vars
        <3>1. UNCHANGED <<wpc, dying>> /\ Live' = Live /\ Size' = Size
            BY <2>1, <2>3 DEF vars, Live, Size
        <3>2. SizeInv'
            BY <1>n, <1>s, <2>1, <3>1 DEF SizeInv
        <3>3. QED
            BY <1>n, <1>t, <2>1, <3>2
    <2>4. QED
        BY <1>3, <2>2, <2>3 DEF ShrinkOne
<1>4. ASSUME ResizeEnd
      PROVE  /\ SizeInv' /\ UNCHANGED <<left, crashed, mpc, graceOver, late>>
             /\ maxWorkers' \in 1 .. MaxConcurrency /\ rpc' = "idle" /\ target' \in Nat
    <2>1. /\ rpc # "idle" /\ left = 0 /\ maxWorkers' = target /\ rpc' = "idle" /\ target' = 0
          /\ UNCHANGED <<wpc, dying, left, crashed, mpc, graceOver, late>>
        BY <1>4 DEF ResizeEnd, vars
    <2>2. Size' = Size /\ Live' = Live
        BY <2>1 DEF Size, Live
    <2>3. SizeInv'
        BY <1>n, <1>t, <1>s, <2>1, <2>2 DEF SizeInv
    <2>4. QED
        BY <1>s, <2>1, <2>3
<1>5. QED
    BY <1>n, <1>t, <1>1, <1>2, <1>3, <1>4 DEF Resize

\* The induction of PoolInv.
THEOREM PoolInvariant == PoolSpec => []PoolInv
<1>1. PoolInit => PoolInv
    <2> SUFFICES ASSUME PoolInit PROVE PoolInv
        OBVIOUS
    <2>1. TypeOK
        BY InitType DEF PoolInit
    <2>2. Live = InitWorker /\ dying = {} /\ crashed = 0
        BY ConstantsAssumption DEF PoolInit, Init, Live, ConstantsAssumption
    <2>3. Size = Cardinality(InitWorker)
        BY <2>2, PoolBounds DEF Size
    <2>4. SizeInv
        BY <2>2, <2>3, PoolBounds, FS_EmptySet DEF SizeInv, PoolInit
    <2>5. PoolTypeOK
        <3>1. graceOver \in BOOLEAN /\ late \subseteq Job
            BY DEF PoolInit
        <3>2. QED
            BY <2>1, <2>2, <3>1, PoolBounds DEF PoolTypeOK, PoolInit
    <2>6. QED
        BY <2>4, <2>5 DEF PoolInv
<1>2. DispatchInv' /\ PoolInv /\ [PoolNext]_poolVars => PoolInv'
    <2> SUFFICES ASSUME DispatchInv', PoolInv, [PoolNext]_poolVars
                 PROVE  PoolInv'
        OBVIOUS
    <2>0. TypeOK'
        BY DEF DispatchInv, OwnershipInv
    <2> USE DEF PoolInv, PoolTypeOK
    <2>1. CASE DispatcherStep
        BY <2>0, <2>1, DispatcherSize DEF DispatcherStep
    <2>2. CASE Resize
        BY <2>0, <2>2, ResizeSize
    <2>3. CASE Signal \/ GraceExpires \/ MainStep
        <3>1. /\ UNCHANGED <<wpc, dying, crashed, maxWorkers, rpc, left, target, late>>
              /\ mpc' \notin {"waiting", "exited"} => mpc \notin {"waiting", "exited"}
            BY <2>3 DEF Signal, GraceExpires, MainStep, DrainCount, DrainWake, DrainExpired,
               ReportInFlight, StopPool, Exit, vars, workerVars
        <3>2. SizeInv'
            BY <3>1, SizeFrame
        <3>3. /\ mpc' \in {"up", "draining", "sleeping", "reporting", "stopping", "waiting",
                           "exited"}
              /\ graceOver' \in BOOLEAN
            BY <2>3 DEF Signal, GraceExpires, MainStep, DrainCount, DrainWake, DrainExpired,
               ReportInFlight, StopPool, Exit
        <3>4. QED
            BY <2>0, <3>1, <3>2, <3>3
    <2>4. CASE \E w \in Worker : ShutdownExit(w)
        <3>1. PICK w \in Worker : ShutdownExit(w)
            BY <2>4
        <3>2. /\ mpc = "waiting" /\ WorkerExit(w)
              /\ UNCHANGED <<maxWorkers, rpc, left, target, mpc, graceOver, crashed, late>>
            BY <3>1 DEF ShutdownExit
        <3>3. Live' = Live \ {w} /\ dying' = dying /\ \A v \in dying : wpc'[v] = wpc[v]
            BY <3>2 DEF WorkerExit, WorkerGoes, Live, SizeInv, TypeOK
        <3>4. IsFiniteSet(Live')
            BY <3>3, SizeNumbers, FS_RemoveElement
        <3>5. SizeInv'
            BY <3>2, <3>3, <3>4 DEF SizeInv
        <3>6. QED
            BY <2>0, <3>2, <3>5
    <2>5. CASE UNCHANGED poolVars
        <3>1. SizeInv'
            BY <2>5, SizeFrame DEF poolVars, vars
        <3>2. QED
            BY <2>0, <2>5, <3>1 DEF poolVars
    <2>6. QED
        BY <2>1, <2>2, <2>3, <2>4, <2>5 DEF PoolNext
<1>3. QED
    BY <1>1, <1>2, DispatchInvariant, PTL DEF PoolSpec

\* Types of the resize, of the shutdown and of the count of panics.
THEOREM PoolTypeCorrect == PoolSpec => []PoolTypeOK
<1>1. PoolInv => PoolTypeOK
    BY DEF PoolInv
<1>2. QED
    BY <1>1, PoolInvariant, PTL

\* A resize never takes more workers than it was asked to, for every sequence
\* of sizes and with signals lost and workers panicking in between.
THEOREM PoolHonoursMaxHolds == PoolSpec => []PoolHonoursMax
<1>1. PoolInv => PoolHonoursMax
    BY DEF PoolInv, SizeInv, Size, PoolHonoursMax
<1>2. QED
    BY <1>1, PoolInvariant, PTL
=============================================================================
