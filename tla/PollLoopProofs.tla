--------------------------- MODULE PollLoopProofs ---------------------------
(***************************************************************************)
(* Proofs about PollLoop for every finite set of jobs, every schedule and  *)
(* every number of faults: its types, the cadence of claims, the wake-ups  *)
(* and the rate of polling while the dispatcher is busy.                   *)
(***************************************************************************)
EXTENDS PollLoop, FiniteSetTheorems, TLAPS

USE DEF mode, loop, schedule, wake

\* The bounds that the assumptions give, one by one.
LEMMA Bounds ==
    /\ WakeCap \in Nat \ {0} /\ Faults \in Nat /\ MinPoll \in Nat \ {0}
    /\ PostClaim \in Nat \ {0} /\ MaxIdle \in Nat \ {0} /\ Multiplier \in Nat \ {0}
BY ScheduleAssumption DEF ScheduleAssumption

\* An ordering of a set of jobs is a sequence of jobs.
LEMMA OrderIsSeq ==
    ASSUME NEW S \in SUBSET Jobs, NEW s \in SetToSeqs(S)
    PROVE  s \in Seq(Jobs)
<1>1. Cardinality(S) \in Nat
    BY JobsAssumption, FS_Subset, FS_CardinalityType DEF JobsAssumption
<1>2. s \in [1..Cardinality(S) -> S]
    BY DEF SetToSeqs
<1>3. QED
    BY <1>1, <1>2

\* What is parsed out of an answer are jobs of it.
LEMMA ParsedIsSeq ==
    ASSUME NEW s \in Seq(Jobs), NEW b
    PROVE  Parsed(s, b) \in Seq(Jobs) /\ Len(Parsed(s, b)) \in Nat
BY DEF Parsed

\* No interval is zero: the ticker of pollLoopAdaptive needs a positive one.
LEMMA IntervalPositive ==
    ASSUME interval \in Nat \ {0}, NEW n, NEW inUse, NEW d \in NextPollInterval(n, inUse)
    PROVE  d \in Nat \ {0}
<1>1. interval * Multiplier \in Nat \ {0}
    BY Bounds
<1>2. \A a, b \in Nat \ {0} : Least(a, b) \in Nat \ {0}
    BY DEF Least
<1>3. \A c \in Nat \ {0} : Jittered(c) \subseteq Nat \ {0}
    BY DEF Jittered
<1>4. QED
    BY <1>1, <1>2, <1>3, Bounds DEF NextPollInterval

\* The counter of ceiling polls stays below 3.
LEMMA CeilingRange ==
    ASSUME ceiling \in 0..2
    PROVE  /\ NextCeiling \in 0..2
           /\ ~ClaimJobs => NextCeiling = ceiling + 1
<1>1. (ceiling + 1) % 3 = IF ceiling = 2 THEN 0 ELSE ceiling + 1
    <2>1. ceiling = 0 \/ ceiling = 1 \/ ceiling = 2
        OBVIOUS
    <2>2. QED
        BY <2>1
<1>2. QED
    BY <1>1 DEF NextCeiling, ClaimJobs

\* A submission adds nothing but the job.
LEMMA SubmitTypes ==
    ASSUME TypeOK, NEW j \in Jobs, SubmitJobWithMeta(j)
    PROVE  held' \subseteq Jobs /\ seen' \subseteq Jobs
BY DEF TypeOK, SubmitJobWithMeta

\* Besides its type, the loop relates the polls in a row without a claim to
\* the counter that decides about the claim: without that, a counter that
\* starts again (a crash, a change of the interval) could extend a row.
PollInv ==
    /\ TypeOK
    /\ skips <= ceiling
    /\ NoLostWakeup
    /\ BusyPollsFast

\* Init establishes the types.
LEMMA InitTypes == Init => TypeOK
<1> SUFFICES ASSUME Init PROVE TypeOK
    OBVIOUS
<1>1. /\ redis \in BOOLEAN /\ event \in BOOLEAN /\ sub \in BOOLEAN
      /\ claim \in BOOLEAN /\ recent \in BOOLEAN /\ noticed \in BOOLEAN
    BY Zenon DEF Init
<1>2. server \in [Jobs -> {"new", "pending", "leased", "done"}]
    BY DEF Init
<1>3. QED
    BY <1>1, <1>2, Bounds DEF Init, TypeOK

\* Every step keeps the types.
LEMMA StepTypes ==
    ASSUME TypeOK, [Next]_vars
    PROVE  TypeOK'
<1> USE Bounds DEF TypeOK
<1>1. ASSUME NEW j \in Jobs, Arrive(j) \/ LeaseExpire(j) \/ MarkExpire(j) \/ SeenExpire(j)
      PROVE  TypeOK'
    BY <1>1 DEF Arrive, LeaseExpire, MarkExpire, SeenExpire
<1>2. ASSUME NEW j \in Jobs, Finish(j) \/ Fail(j) PROVE TypeOK'
    BY <1>2 DEF Finish, Fail, Fault
<1>3. ASSUME GraceEnds PROVE TypeOK'
    BY <1>3 DEF GraceEnds
<1>4. ASSUME Boot PROVE TypeOK'
    <2>1. PICK restored \in SUBSET {j \in Jobs : server[j] = "pending"} :
             LET srv == [j \in Jobs |-> IF j \in restored THEN "leased" ELSE server[j]]
                 assigned == {j \in Jobs : srv[j] = "leased"}
             IN  /\ server' = srv
                 /\ \/ list' \in SetToSeqs(assigned) /\ UNCHANGED faults
                    \/ list' = <<>> /\ Fault
        BY <1>4 DEF Boot
    <2>2. list' \in Seq(Jobs)
        <3>1. CASE list' = <<>>
            BY <3>1
        <3>2. CASE list' # <<>>
            <4>1. PICK S \in SUBSET Jobs : list' \in SetToSeqs(S)
                BY <2>1, <3>2
            <4>2. QED
                BY <4>1, OrderIsSeq
        <3>3. QED
            BY <3>1, <3>2
    <2>3. server' \in [Jobs -> {"new", "pending", "leased", "done"}]
        BY <2>1
    <2>4. faults' \in 0..Faults
        BY <2>1 DEF Fault
    <2>5. QED
        BY <1>4, <2>2, <2>3, <2>4 DEF Boot
<1>5. ASSUME DispatchAssigned PROVE TypeOK'
    <2>1. Head(list) \in Jobs /\ Tail(list) \in Seq(Jobs)
        BY <1>5 DEF DispatchAssigned
    <2>2. held' \subseteq Jobs /\ seen' \subseteq Jobs
        BY <1>5, <2>1, SubmitTypes DEF DispatchAssigned
    <2>3. QED
        BY <1>5, <2>1, <2>2 DEF DispatchAssigned
<1>6. ASSUME NEW c \in BOOLEAN, StartPoll(c)
      PROVE  pc' = "sent" /\ claim' \in BOOLEAN /\ count' \in Nat /\ skips' \in Nat
    BY <1>6 DEF StartPoll
<1>7. ASSUME FirstPoll PROVE TypeOK'
    BY <1>6, <1>7 DEF FirstPoll
<1>8. ASSUME Crash PROVE TypeOK'
    <2>1. claim' \in BOOLEAN /\ recent' \in BOOLEAN /\ noticed' \in BOOLEAN /\ sub' \in BOOLEAN
        BY <1>8, Zenon DEF Crash
    <2>2. sent' \subseteq Jobs /\ seen' \subseteq Jobs
        BY <1>8 DEF Crash
    <2>3. QED
        BY <1>8, <2>1, <2>2 DEF Crash, Fault
<1>9. ASSUME AdaptiveTick PROVE TypeOK'
    <2>1. ClaimJobs \in BOOLEAN
        BY DEF ClaimJobs
    <2>2. QED
        BY <1>6, <1>9, <2>1, CeilingRange DEF AdaptiveTick
<1>10. ASSUME SafetyTick PROVE TypeOK'
    BY <1>6, <1>10 DEF SafetyTick, SafetyDue
<1>11. ASSUME WakeupPoll PROVE TypeOK'
    <2>0. StartPoll(TRUE) /\ wakeups > 0 /\ wakeups' = wakeups - 1
        BY <1>11, Zenon DEF WakeupPoll
    <2>1. wakeups' \in 0..WakeCap
        BY <2>0
    <2>2. pc' = "sent" /\ claim' \in BOOLEAN /\ count' \in Nat /\ skips' \in Nat
        BY <1>6, <2>0
    <2>3. QED
        BY <1>11, <2>1, <2>2 DEF WakeupPoll
<1>12. ASSUME Notification PROVE TypeOK'
    BY <1>12 DEF Notification, Signalled, Least
<1>13. ASSUME SubscriptionError PROVE TypeOK'
    <2>1. sub' \in BOOLEAN
        BY <1>13, Zenon DEF SubscriptionError
    <2>2. QED
        BY <1>13, <2>1 DEF SubscriptionError, Fault
<1>14. ASSUME NEW S, LeaseTo(S)
       PROVE  server' \in [Jobs -> {"new", "pending", "leased", "done"}]
    BY <1>14 DEF LeaseTo
<1>15. \A S \in ClaimSets : S \subseteq Jobs
    BY DEF ClaimSets
<1>16. ASSUME PollAnswered PROVE TypeOK'
    <2>1. PICK S \in ClaimSets : \E order \in SetToSeqs(S), b \in BOOLEAN :
                /\ LeaseTo(S)
                /\ list' = Parsed(order, b)
                /\ count' = Len(Parsed(order, b))
        BY <1>16 DEF PollAnswered
    <2>2. PICK order \in SetToSeqs(S), b \in BOOLEAN :
                /\ LeaseTo(S)
                /\ list' = Parsed(order, b)
                /\ count' = Len(Parsed(order, b))
        BY <2>1
    <2>3. list' \in Seq(Jobs) /\ count' \in Nat
        BY <1>15, <2>2, OrderIsSeq, ParsedIsSeq
    <2>4. QED
        BY <1>14, <1>16, <2>2, <2>3 DEF PollAnswered
<1>17. ASSUME PollFailed PROVE TypeOK'
    BY <1>14, <1>17 DEF PollFailed, Fault
<1>18. ASSUME HandleJob PROVE TypeOK'
    <2>1. Head(list) \in Jobs /\ Tail(list) \in Seq(Jobs)
        BY <1>18 DEF HandleJob
    <2>2. sent' \subseteq Jobs /\ held' \subseteq Jobs /\ seen' \subseteq Jobs
        BY <1>18, <2>1, SubmitTypes DEF HandleJob
    <2>3. QED
        BY <1>18, <2>1, <2>2 DEF HandleJob
<1>19. ASSUME SkipJob PROVE TypeOK'
    <2>1. Tail(list) \in Seq(Jobs)
        BY <1>19 DEF SkipJob
    <2>2. QED
        BY <1>19, <2>1 DEF SkipJob, Fault
<1>20. ASSUME EndPoll PROVE TypeOK'
    <2>1. recent' \in BOOLEAN
        BY <1>20 DEF EndPoll, RefreshActivity
    <2>2. interval' \in Nat \ {0}
        BY <1>20, IntervalPositive DEF EndPoll
    <2>3. QED
        BY <1>20, <2>1, <2>2 DEF EndPoll
<1>21. CASE UNCHANGED vars
    BY <1>21 DEF vars
<1>22. QED
    BY <1>1, <1>2, <1>3, <1>4, <1>5, <1>7, <1>8, <1>9, <1>10, <1>11, <1>12, <1>13, <1>16,
       <1>17, <1>18, <1>19, <1>20, <1>21 DEF Next

\* Types of the polling loop, its schedule and its wake-up channel.
THEOREM PollTypeCorrect == Spec => []TypeOK
BY InitTypes, StepTypes, PTL DEF Spec

\* The induction of PollInv.
THEOREM PollInvariant == Spec => []PollInv
<1>1. Init => PollInv
    <2> SUFFICES ASSUME Init PROVE PollInv
        OBVIOUS
    <2>1. TypeOK /\ skips <= ceiling
        <3>1. TypeOK
            BY InitTypes
        <3>2. QED
            BY <3>1 DEF Init
    <2>2. ~noticed /\ pc # "wait"
        BY DEF Init
    <2>3. NoLostWakeup /\ BusyPollsFast
        BY <2>2 DEF NoLostWakeup, BusyPollsFast
    <2>4. QED
        BY <2>1, <2>3 DEF PollInv
<1>2. PollInv /\ [Next]_vars => PollInv'
    <2> SUFFICES ASSUME PollInv, [Next]_vars
                 PROVE  PollInv'
        OBVIOUS
    <2>0. TypeOK'
        BY StepTypes DEF PollInv
    <2> USE DEF PollInv, TypeOK, NoLostWakeup, BusyPollsFast
    <2>1. ASSUME NEW j \in Jobs,
                 \/ Arrive(j) \/ LeaseExpire(j) \/ MarkExpire(j) \/ SeenExpire(j)
                 \/ Finish(j) \/ Fail(j)
          PROVE  PollInv'
        BY <2>0, <2>1 DEF Arrive, LeaseExpire, MarkExpire, SeenExpire, Finish, Fail
    <2>2. ASSUME GraceEnds PROVE PollInv'
        BY <2>0, <2>2 DEF GraceEnds
    <2>3. ASSUME Boot \/ DispatchAssigned \/ FirstPoll PROVE PollInv'
        BY <2>0, <2>3 DEF Boot, DispatchAssigned, FirstPoll, StartPoll
    <2>4. ASSUME Crash PROVE PollInv'
        BY <2>0, <2>4 DEF Crash
    <2>5. ASSUME AdaptiveTick PROVE PollInv'
        <3>1. skips' <= ceiling'
            <4>1. CASE ClaimJobs
                BY <2>0, <2>5, <4>1 DEF AdaptiveTick, StartPoll
            <4>2. CASE ~ClaimJobs
                <5>1. ceiling' = ceiling + 1 /\ skips' = skips + 1
                    BY <2>5, <4>2, CeilingRange DEF AdaptiveTick, StartPoll
                <5>2. QED
                    BY <5>1
            <4>3. QED
                BY <4>1, <4>2
        <3>2. QED
            BY <2>0, <2>5, <3>1 DEF AdaptiveTick, StartPoll
    <2>6. ASSUME SafetyTick \/ WakeupPoll PROVE PollInv'
        BY <2>0, <2>6 DEF SafetyTick, SafetyDue, WakeupPoll, StartPoll
    <2>7. ASSUME Notification \/ SubscriptionError PROVE PollInv'
        BY <2>0, <2>7, Bounds DEF Notification, SubscriptionError, Signalled, Least
    <2>8. ASSUME PollAnswered \/ PollFailed PROVE PollInv'
        BY <2>0, <2>8 DEF PollAnswered, PollFailed
    <2>9. ASSUME HandleJob \/ SkipJob PROVE PollInv'
        BY <2>0, <2>9 DEF HandleJob, SkipJob
    <2>10. ASSUME EndPoll PROVE PollInv'
        <3>1. (pc' = "wait" /\ ~event' /\ held' # {}) => interval' = PostClaim
            BY <2>10 DEF EndPoll, RefreshActivity, NextPollInterval
        <3>2. QED
            BY <2>0, <2>10, <3>1 DEF EndPoll
    <2>11. CASE UNCHANGED vars
        BY <2>0, <2>11 DEF vars
    <2>12. QED
        BY <2>1, <2>2, <2>3, <2>4, <2>5, <2>6, <2>7, <2>8, <2>9, <2>10, <2>11 DEF Next
<1>3. QED
    BY <1>1, <1>2, PTL DEF Spec

\* However the jitter moves the interval across the ceiling, at most two
\* polls in a row leave the claim out, for every schedule.
THEOREM ClaimsKeepCadence == Spec => []ClaimCadence
<1>1. PollInv => ClaimCadence
    BY DEF PollInv, TypeOK, ClaimCadence
<1>2. QED
    BY <1>1, PollInvariant, PTL

\* No notification is lost while the loop is busy, for every capacity of the
\* wake-up channel: one dropped at a full channel leaves a wake-up in it.
THEOREM WakeupsKept == Spec => []NoLostWakeup
<1>1. PollInv => NoLostWakeup
    BY DEF PollInv
<1>2. QED
    BY <1>1, PollInvariant, PTL

\* While the dispatcher holds work the adaptive loop polls at postClaimInterval.
THEOREM BusyLoopPollsFast == Spec => []BusyPollsFast
<1>1. PollInv => BusyPollsFast
    BY DEF PollInv
<1>2. QED
    BY <1>1, PollInvariant, PTL
=============================================================================
