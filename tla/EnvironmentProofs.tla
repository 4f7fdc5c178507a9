------------------------- MODULE EnvironmentProofs -------------------------
(***************************************************************************)
(* Proofs about EnvironmentPool for every number of executions, keys and   *)
(* jobs and every configuration: its types with the bounds of its          *)
(* counters, the exclusive use of environments, what may exceed            *)
(* maxEnvironments, and what the .ready marker means.                      *)
(***************************************************************************)
EXTENDS EnvironmentPool, FiniteSetTheorems, TLAPS

-----------------------------------------------------------------------------
(* Types                                                                   *)

PoolTypes ==
    /\ environments \in [Key -> {0} \cup Env]
    /\ state \in [Env -> {"pending", "ready", "warm", "active", "invalid", "cleaning"}]
    /\ old \in [Env -> BOOLEAN]
    /\ readych \in [Env -> BOOLEAN]
    /\ currentDiskBytes \in Nat
    /\ cleaners \subseteq [env : Env, size : {0, 1}]

DiskTypes ==
    /\ discarded \subseteq Env
    /\ walks \subseteq Walk
    /\ dir \in [Path -> SUBSET ({"dir", "base", "ready"} \cup Dep)]
    /\ plugin \in [Path -> {0} \cup Job]
    /\ output \in [Path -> Output]

RuntimeTypes ==
    /\ venvPath \in Path \cup {None}
    /\ packages \subseteq Dep

ExecTypes ==
    /\ envLocks \in [Key -> Exec \cup {None}]
    /\ pc \in [Exec -> {"idle", "close"} \cup Acquiring \cup Using]
    /\ job \in [Exec -> {0} \cup Job]
    /\ env \in [Exec -> {0} \cup Env]
    /\ result \in [Exec -> Output]
    /\ size \in [Exec -> {0, 1}]
    /\ jkey \in [Job -> Key \cup {None}]
    /\ overlapped \in BOOLEAN
    /\ limits \in Limits

\* Every environment object the pool, an eviction goroutine, a removal or an
\* execution knows of belongs to a job that was started; the pool files it under
\* its key.
Named ==
    /\ \A k \in Key : environments[k] # 0 => jkey[environments[k]] = k
    /\ \A c \in cleaners : jkey[c.env] \in Key
    /\ \A e \in discarded : jkey[e] \in Key
    /\ \A w \in walks : jkey[w.id] \in Key
    /\ \A x \in Exec : /\ pc[x] # "idle" => job[x] \in Job /\ jkey[job[x]] \in Key
                       /\ pc[x] \in Using => env[x] \in Env
                       /\ env[x] # 0 => jkey[env[x]] \in Key

\* The types but for the bound of the account of the disk.
EnvTypes == PoolTypes /\ DiskTypes /\ RuntimeTypes /\ ExecTypes /\ Named

\* The assumptions on the constants, one by one.
LEMMA EnvConstants ==
    /\ IsFiniteSet(Exec)
    /\ PathOf \in [Key -> Path]
    /\ RuntimeOf \in [Key -> {"python", "node"}]
    /\ DepOf \in [Key -> SUBSET Dep]
    /\ \A k, l \in Key : PathOf[k] = PathOf[l] =>
          RuntimeOf[k] = RuntimeOf[l] /\ DepOf[k] = DepOf[l]
    /\ Limits \subseteq [maxEnvironments : Nat \ {0}, maxDiskBytes : Nat \ {0}]
    /\ MaxJobs \in Nat
    /\ None \notin Key
    /\ "dir" \notin Dep /\ "base" \notin Dep /\ "ready" \notin Dep
BY EnvAssumption DEF EnvAssumption

\* An execution that is not idle has a job, a key and a directory.
LEMMA HasKey ==
    ASSUME EnvTypes, NEW x \in Exec, pc[x] # "idle"
    PROVE  job[x] \in Job /\ KeyOf(x) \in Key /\ PathOfX(x) \in Path
BY EnvConstants DEF EnvTypes, Named, KeyOf, PathOfX

\* An execution that uses an environment has one whose job was started.
LEMMA HasEnv ==
    ASSUME EnvTypes, NEW x \in Exec, pc[x] \in Using
    PROVE  env[x] \in Env /\ env[x] # 0 /\ jkey[env[x]] \in Key
BY DEF EnvTypes, Named, Env, Job

\* The initial state has the types.
LEMMA InitTypes == Init => EnvTypes
<1> SUFFICES ASSUME Init PROVE EnvTypes
    OBVIOUS
<1>1. PoolTypes
    BY DEF Init, PoolTypes
<1>2. NoOutput \in Output
    BY EnvConstants DEF NoOutput, Output
<1>3. DiskTypes
    BY <1>2 DEF Init, DiskTypes
<1>4. RuntimeTypes
    BY DEF Init, RuntimeTypes
<1>5. ExecTypes
    BY <1>2 DEF Init, ExecTypes
<1>6. Named
    BY DEF Init, Named, Using, Installing
<1>7. QED
    BY <1>1, <1>3, <1>4, <1>5, <1>6 DEF EnvTypes

\* An execution that returns keeps the types.
LEMMA ReturnTypes ==
    ASSUME EnvTypes, NEW x \in Exec, Return(x), UNCHANGED <<poolVars, diskVars, histVars>>,
           envLocks' = envLocks \/ Unlock(x)
    PROVE  ExecTypes' /\ Named'
<1>1. NoOutput \in Output
    BY EnvConstants DEF NoOutput, Output
<1>2. QED
    BY <1>1 DEF EnvTypes, PoolTypes, ExecTypes, Named, Return, Goto, Unlock, poolVars, diskVars,
        histVars, Acquiring, Installing, Using

\* An error return keeps the types.
LEMMA RefuseTypes ==
    ASSUME EnvTypes, NEW x \in Exec, Refuse(x)
    PROVE  EnvTypes'
<1>1. ExecTypes' /\ Named'
    BY ReturnTypes DEF Refuse
<1>2. PoolTypes' /\ DiskTypes' /\ RuntimeTypes'
    BY DEF EnvTypes, PoolTypes, DiskTypes, RuntimeTypes, Refuse, poolVars, diskVars, rtVars
<1>3. QED
    BY <1>1, <1>2 DEF EnvTypes

\* The insertion of a new environment keeps the types.
LEMMA InsertTypes ==
    ASSUME EnvTypes, NEW x \in Exec, pc[x] # "idle", Insert(x)
    PROVE  EnvTypes'
<1>1. job[x] \in Job /\ KeyOf(x) \in Key /\ jkey[job[x]] = KeyOf(x)
    BY HasKey DEF KeyOf
<1>2. PoolTypes'
    BY <1>1 DEF EnvTypes, PoolTypes, Insert, Env
<1>3. DiskTypes' /\ RuntimeTypes'
    BY DEF EnvTypes, DiskTypes, RuntimeTypes, Insert, diskVars, rtVars
<1>4. ExecTypes'
    BY <1>1 DEF EnvTypes, ExecTypes, Insert, Goto, Unlock, Env, histVars, Using
<1>5. Named'
    BY <1>1 DEF EnvTypes, Named, ExecTypes, PoolTypes, Insert, Goto, Env, Using, diskVars
<1>6. QED
    BY <1>2, <1>3, <1>4, <1>5 DEF EnvTypes

\* An eviction marks entries of the pool only.
LEMMA EvictionTypes ==
    ASSUME EnvTypes, RunEviction, jkey' = jkey
    PROVE  /\ PoolTypes'
           /\ \A c \in cleaners' : jkey'[c.env] \in Key
<1>1. \A p : DirSize(p) \in {0, 1}
    BY DEF DirSize
<1>2. \A e \in Evictable : e \in Env /\ jkey[e] \in Key
    BY DEF EnvTypes, Named, PoolTypes, Evictable, Env, Job
<1>3. cleaners' \subseteq [env : Env, size : {0, 1}]
    BY <1>1, <1>2 DEF EnvTypes, PoolTypes, RunEviction
<1>4. PoolTypes'
    BY <1>3 DEF EnvTypes, PoolTypes, RunEviction
<1>5. \A c \in cleaners' : jkey'[c.env] \in Key
    BY <1>2 DEF EnvTypes, Named, RunEviction
<1>6. QED
    BY <1>4, <1>5

\* What is in a directory has a name.
LEMMA ContentsNamed ==
    ASSUME DiskTypes, NEW p \in Path
    PROVE  Contents(p) \subseteq Names
BY DEF DiskTypes, Contents, Names

\* The beginning of a walk keeps the types.
LEMMA BeginWalkTypes ==
    ASSUME EnvTypes, NEW kind \in {"purge", "evict", "invalid"}, NEW id \in Job, jkey[id] \in Key,
           NEW sz \in {0, 1}, BeginWalk(kind, id, sz), UNCHANGED fileVars, jkey' = jkey,
           discarded' \subseteq discarded
    PROVE  /\ DiskTypes' /\ overlapped' \in BOOLEAN
           /\ \A e \in discarded' : jkey'[e] \in Key
           /\ \A w \in walks' : jkey'[w.id] \in Key
<1> DEFINE p == PathOf[jkey[id]]
           v == [kind |-> kind, id |-> id, size |-> sz, left |-> Contents(p)]
<1>1. walks' = walks \cup {v} /\ overlapped' = (overlapped \/ DisturbsIn(p))
    BY DEF BeginWalk
<1>2. p \in Path
    BY EnvConstants
<1>3. Contents(p) \subseteq Names
    BY <1>2, ContentsNamed DEF EnvTypes
<1>4. v \in Walk
    BY <1>3 DEF Walk
<1>5. v.id = id
    OBVIOUS
<1> HIDE DEF v
<1>6. DiskTypes'
    BY <1>1, <1>4 DEF EnvTypes, DiskTypes, fileVars
<1>7. \A w \in walks' : jkey'[w.id] \in Key
    BY <1>1, <1>5 DEF EnvTypes, Named
<1>8. \A e \in discarded' : jkey'[e] \in Key
    BY DEF EnvTypes, Named
<1>9. overlapped' \in BOOLEAN
    BY <1>1 DEF EnvTypes, ExecTypes, DisturbsIn
<1>10. QED
    BY <1>6, <1>7, <1>8, <1>9

\* One name less keeps the types.
LEMMA UnlinkTypes ==
    ASSUME EnvTypes, NEW w \in walks, Unlink(w)
    PROVE  EnvTypes'
<1> DEFINE p == PathOfW(w)
<1>1. PICK n \in w.left \cup Contents(p) :
         /\ walks' = (walks \ {w}) \cup {[w EXCEPT !.left = @ \ {n}]}
         /\ dir' = [dir EXCEPT ![p] = @ \ {n}]
         /\ plugin' = [plugin EXCEPT ![p] = IF n = "plugin" THEN 0 ELSE @]
         /\ output' = [output EXCEPT ![p] = IF n = "output" THEN NoOutput ELSE @]
    BY DEF Unlink
<1>2. UNCHANGED <<poolVars, discarded, rtVars, execVars, envLocks, pc, histVars>>
    BY DEF Unlink
<1> DEFINE v == [w EXCEPT !.left = @ \ {n}]
<1>3. v \in Walk /\ v.id = w.id
    BY DEF EnvTypes, DiskTypes, Walk
<1>4. NoOutput \in Output
    BY EnvConstants DEF NoOutput, Output
<1> HIDE DEF v
<1>5. DiskTypes'
    <2>1. walks' \subseteq Walk
        BY <1>1, <1>3 DEF EnvTypes, DiskTypes, v
    <2>2. dir' \in [Path -> SUBSET ({"dir", "base", "ready"} \cup Dep)]
        BY <1>1 DEF EnvTypes, DiskTypes
    <2>3. plugin' \in [Path -> {0} \cup Job] /\ output' \in [Path -> Output]
        BY <1>1, <1>4 DEF EnvTypes, DiskTypes
    <2>4. QED
        BY <1>2, <2>1, <2>2, <2>3 DEF EnvTypes, DiskTypes
<1>6. Named'
    BY <1>1, <1>2, <1>3 DEF EnvTypes, Named, poolVars, execVars, v
<1>7. QED
    BY <1>2, <1>5, <1>6 DEF EnvTypes, PoolTypes, RuntimeTypes, ExecTypes, poolVars, rtVars, execVars,
        histVars

\* The end of a walk keeps the types.
LEMMA EndWalkTypes ==
    ASSUME EnvTypes, NEW w \in walks, EndWalk(w)
    PROVE  DiskTypes' /\ walks' \subseteq walks /\ discarded' = discarded
BY DEF EnvTypes, DiskTypes, EndWalk

\* Every step of AcquireEnvironment keeps the types.
LEMMA AcquireTypes ==
    ASSUME EnvTypes, NEW x \in Exec, Acquire(x) \/ WaitCancelled(x)
    PROVE  EnvTypes'
<1> USE DEF EnvTypes, poolVars, diskVars, fileVars, rtVars, execVars, histVars
<1>1. ASSUME LockKey(x) PROVE EnvTypes'
    BY <1>1, HasKey, EnvConstants DEF LockKey, PoolTypes, DiskTypes, RuntimeTypes, ExecTypes,
        Named, Goto, Unlock, Put, Acquiring, Installing, Using
<1>2. ASSUME LookMiss(x) PROVE EnvTypes'
    BY <1>2, HasKey, EnvConstants DEF LookMiss, PoolTypes, DiskTypes, RuntimeTypes, ExecTypes,
        Named, Goto, Unlock, Put, Acquiring, Installing, Using
<1>3. ASSUME LookPending(x) PROVE EnvTypes'
    BY <1>3, HasKey, EnvConstants DEF LookPending, PoolTypes, DiskTypes, RuntimeTypes, ExecTypes,
        Named, Goto, Unlock, Put, Acquiring, Installing, Using
<1>4. ASSUME LookBroken(x) PROVE EnvTypes'
    BY <1>4, HasKey, EnvConstants DEF LookBroken, PoolTypes, DiskTypes, RuntimeTypes, ExecTypes,
        Named, Goto, Unlock, Put, Acquiring, Installing, Using
<1>5. ASSUME LookHit(x) PROVE EnvTypes'
    BY <1>5, HasKey, EnvConstants DEF LookHit, PoolTypes, DiskTypes, RuntimeTypes, ExecTypes,
        Named, Goto, Unlock, Put, Acquiring, Installing, Using
<1>6. ASSUME WaitReady(x) PROVE EnvTypes'
    BY <1>6, HasKey, EnvConstants DEF WaitReady, PoolTypes, DiskTypes, RuntimeTypes, ExecTypes,
        Named, Goto, Unlock, Put, Acquiring, Installing, Using
<1>7. ASSUME WaitTimeout(x) PROVE EnvTypes'
    BY <1>7, HasKey, EnvConstants DEF WaitTimeout, PoolTypes, DiskTypes, RuntimeTypes, ExecTypes,
        Named, Goto, Unlock, Put, Acquiring, Installing, Using
<1>8. ASSUME CreateDir(x) PROVE EnvTypes'
    BY <1>8, HasKey, EnvConstants DEF CreateDir, PoolTypes, DiskTypes, RuntimeTypes, ExecTypes,
        Named, Goto, Unlock, Put, Acquiring, Installing, Using
<1>9. ASSUME Purge(x) PROVE EnvTypes'
    <2>1. job[x] \in Job /\ jkey[job[x]] \in Key
        BY <1>9, HasKey DEF Purge, KeyOf
    <2>2. /\ DiskTypes' /\ overlapped' \in BOOLEAN
          /\ \A e \in discarded' : jkey'[e] \in Key
          /\ \A w \in walks' : jkey'[w.id] \in Key
        BY <1>9, <2>1, BeginWalkTypes DEF Purge
    <2>3. QED
        BY <1>9, <2>2 DEF Purge, PoolTypes, RuntimeTypes, ExecTypes, Named, Goto, Acquiring, Using,
            Installing
<1>10. ASSUME WaitCancelled(x) PROVE EnvTypes'
    <2>1. ExecTypes' /\ Named'
        BY <1>10, ReturnTypes DEF WaitCancelled
    <2>2. QED
        BY <1>10, <2>1 DEF WaitCancelled, PoolTypes, DiskTypes, RuntimeTypes
<1>11. ASSUME CreateFails(x) PROVE EnvTypes'
    BY <1>11, RefuseTypes DEF CreateFails
<1>12. ASSUME RoomForDisk(x), pc[x] # "idle", pc[x] \notin Using PROVE EnvTypes'
    <2>1. CASE Insert(x)
        BY <2>1, <1>12, InsertTypes
    <2>2. CASE GiveWay(x, "evictForDisk")
        BY <2>2, <1>12 DEF GiveWay, PoolTypes, DiskTypes, RuntimeTypes, ExecTypes, Named, Goto,
            Acquiring, Using, Installing
    <2>3. QED
        BY <1>12, <2>1, <2>2 DEF RoomForDisk
<1>13. ASSUME CheckRoom(x) PROVE EnvTypes'
    <2>1. CASE GiveWay(x, "evictForCount")
        BY <2>1, <1>13 DEF CheckRoom, GiveWay, PoolTypes, DiskTypes, RuntimeTypes, ExecTypes, Named,
            Goto, Acquiring, Using, Installing
    <2>2. QED
        BY <1>12, <1>13, <2>1 DEF CheckRoom, Using, Installing
<1>14. ASSUME RecheckCount(x) PROVE EnvTypes'
    BY <1>12, <1>14, RefuseTypes DEF RecheckCount, Using, Installing
<1>15. ASSUME RecheckDisk(x) PROVE EnvTypes'
    BY <1>15, RefuseTypes, InsertTypes DEF RecheckDisk
<1>16. ASSUME EvictForCount(x) \/ EvictForDisk(x) PROVE EnvTypes'
    <2>1. PoolTypes' /\ \A c \in cleaners' : jkey'[c.env] \in Key
        BY <1>16, EvictionTypes DEF EvictForCount, EvictForDisk
    <2>2. ExecTypes' /\ DiskTypes' /\ RuntimeTypes'
        BY <1>16 DEF EvictForCount, EvictForDisk, ExecTypes, DiskTypes, RuntimeTypes, Goto, Acquiring
    <2>3. Named'
        BY <1>16, <2>1 DEF EvictForCount, EvictForDisk, RunEviction, ExecTypes, Named, Goto, Using,
            Installing
    <2>4. QED
        BY <2>1, <2>2, <2>3
<1>17. ASSUME Purged(x) PROVE EnvTypes'
    <2>1. DiskTypes' /\ walks' \subseteq walks /\ discarded' = discarded
        BY <1>17, EndWalkTypes DEF Purged
    <2>2. QED
        BY <1>17, <2>1 DEF Purged, PoolTypes, RuntimeTypes, ExecTypes, Named, Goto, Acquiring, Using,
            Installing
<1>18. QED
    BY <1>1, <1>2, <1>3, <1>4, <1>5, <1>6, <1>7, <1>8, <1>9, <1>10, <1>11, <1>13, <1>14, <1>15, <1>16,
        <1>17, UnlinkTypes DEF Acquire

\* Every step of an execution with an environment keeps the types.
LEMMA UseTypes ==
    ASSUME EnvTypes, NEW x \in Exec, Use(x)
    PROVE  EnvTypes'
<1> USE DEF EnvTypes, poolVars, diskVars, rtVars, execVars, histVars
<1>1. ASSUME Setup(x) PROVE EnvTypes'
    BY <1>1, HasKey, EnvConstants DEF Setup, Disturbs, Walked, PoolTypes, DiskTypes, RuntimeTypes, ExecTypes,
        Named, Goto, Unlock, Put, Acquiring, Installing, Using
<1>2. ASSUME SetupFails(x) PROVE EnvTypes'
    BY <1>2, HasKey, EnvConstants DEF SetupFails, PoolTypes, DiskTypes, RuntimeTypes, ExecTypes,
        Named, Goto, Unlock, Put, Acquiring, Installing, Using
<1>3. ASSUME MakeBase(x) PROVE EnvTypes'
    BY <1>3, HasKey, EnvConstants DEF MakeBase, Interpreter, PoolTypes, DiskTypes, RuntimeTypes, ExecTypes,
        Named, Goto, Unlock, Put, Acquiring, Installing, Using
<1>4. ASSUME VenvFails(x) PROVE EnvTypes'
    BY <1>4, HasKey, EnvConstants DEF VenvFails, PoolTypes, DiskTypes, RuntimeTypes, ExecTypes,
        Named, Goto, Unlock, Put, Acquiring, Installing, Using
<1>5. ASSUME Install(x) PROVE EnvTypes'
    <2>1. KeyOf(x) \in Key /\ DepOf[KeyOf(x)] \subseteq Dep
        BY <1>5, HasKey, EnvConstants DEF Install
    <2>2. DiskTypes' /\ RuntimeTypes'
        BY <1>5, <2>1 DEF Install, NewPackages, Put, DiskTypes, RuntimeTypes
    <2>3. PoolTypes' /\ ExecTypes' /\ Named'
        BY <1>5 DEF Install, PoolTypes, ExecTypes, Named, Goto, Installing, Using
    <2>4. QED
        BY <2>2, <2>3
<1>6. ASSUME InstallFails(x) PROVE EnvTypes'
    BY <1>6, HasKey, EnvConstants DEF InstallFails, PoolTypes, DiskTypes, RuntimeTypes, ExecTypes,
        Named, Goto, Unlock, Put, Acquiring, Installing, Using
<1>7. ASSUME Mark(x) PROVE EnvTypes'
    <2>1. DiskTypes' /\ RuntimeTypes' /\ PoolTypes'
        BY <1>7 DEF Mark, Put, DiskTypes, RuntimeTypes, PoolTypes
    <2>2. Goto(x, "write") \/ Goto(x, "invalid")
        BY <1>7 DEF Mark
    <2>3. ExecTypes' /\ Named'
        BY <1>7, <2>2 DEF Mark, ExecTypes, Named, Goto, Installing, Using
    <2>4. QED
        BY <2>1, <2>3
<1>8. ASSUME WritePlugin(x) PROVE EnvTypes'
    BY <1>8, HasKey, EnvConstants DEF WritePlugin, PoolTypes, DiskTypes, RuntimeTypes, ExecTypes,
        Named, Goto, Unlock, Put, Acquiring, Installing, Using
<1>9. ASSUME RunPlugin(x) PROVE EnvTypes'
    <2>1. PICK ok \in BOOLEAN :
             output' = [output EXCEPT ![PathOfX(x)] = [job |-> plugin[PathOfX(x)], ok |-> ok]]
        BY <1>9 DEF RunPlugin
    <2>2. plugin[PathOfX(x)] \in 0 .. MaxJobs
        BY <1>9, HasKey, EnvConstants DEF RunPlugin, DiskTypes, Job
    <2>3. [job |-> plugin[PathOfX(x)], ok |-> ok] \in Output
        BY <2>2 DEF Output
    <2>4. DiskTypes'
        BY <1>9, <2>1, <2>3 DEF RunPlugin, DiskTypes
    <2>5. QED
        BY <1>9, <2>4 DEF RunPlugin, PoolTypes, RuntimeTypes, ExecTypes, Named, Goto, Using, Installing
<1>10. ASSUME RunKilled(x) PROVE EnvTypes'
    BY <1>10, HasKey, EnvConstants DEF RunKilled, PoolTypes, DiskTypes, RuntimeTypes, ExecTypes,
        Named, Goto, Unlock, Put, Acquiring, Installing, Using
<1>11. ASSUME ReadOutput(x) PROVE EnvTypes'
    BY <1>11, HasKey, EnvConstants DEF ReadOutput, PoolTypes, DiskTypes, RuntimeTypes, ExecTypes,
        Named, Goto, Unlock, Put, Acquiring, Installing, Using
<1>12. ASSUME Invalidate(x) PROVE EnvTypes'
    BY <1>12, HasKey, EnvConstants DEF Invalidate, PoolTypes, DiskTypes, RuntimeTypes, ExecTypes,
        Named, Goto, Unlock, Put, Acquiring, Installing, Using
<1>13. ASSUME Measure(x) PROVE EnvTypes'
    BY <1>13, HasKey, EnvConstants DEF Measure, DirSize, PoolTypes, DiskTypes, RuntimeTypes, ExecTypes,
        Named, Goto, Unlock, Put, Acquiring, Installing, Using
<1>14. ASSUME Release(x) PROVE EnvTypes'
    <2>1. currentDiskBytes' \in Nat
        BY <1>14 DEF Release, PoolTypes, ExecTypes
    <2>2. old' \in [Env -> BOOLEAN]
        BY <1>14 DEF Release, PoolTypes
    <2>3. state' \in [Env -> {"pending", "ready", "warm", "active", "invalid", "cleaning"}]
        BY <1>14 DEF Release, PoolTypes
    <2>4. QED
        BY <1>14, <2>1, <2>2, <2>3 DEF Release, PoolTypes, DiskTypes, RuntimeTypes, ExecTypes, Named,
            Goto, Using, Installing
<1>15. ASSUME Discard(x) PROVE EnvTypes'
    <2>1. environments' \in [Key -> {0} \cup Env]
        BY <1>15 DEF Discard, PoolTypes
    <2>2. PoolTypes'
        BY <1>15, <2>1 DEF Discard, PoolTypes
    <2>3. env[x] \in Env /\ jkey[env[x]] \in Key /\ discarded' = discarded \cup {env[x]}
        BY <1>15, HasEnv DEF Discard, Using
    <2>4. \A l \in Key : environments'[l] # 0 => environments'[l] = environments[l]
        BY <1>15 DEF Discard
    <2>5. NoOutput \in Output
        BY EnvConstants DEF NoOutput, Output
    <2>6. ExecTypes' /\ Named'
        BY <1>15, <2>3, <2>4, <2>5 DEF Discard, ExecTypes, Named, Return, Goto, Using, Installing
    <2>7. QED
        BY <1>15, <2>2, <2>3, <2>6 DEF Discard, DiskTypes, fileVars, RuntimeTypes
<1>16. ASSUME CloseReadych(x) PROVE EnvTypes'
    <2>1. NoOutput \in Output
        BY EnvConstants DEF NoOutput, Output
    <2>2. PoolTypes' /\ DiskTypes' /\ RuntimeTypes'
        BY <1>16 DEF CloseReadych, PoolTypes, DiskTypes, RuntimeTypes
    <2>3. ExecTypes' /\ Named'
        BY <1>16, <2>1 DEF CloseReadych, ExecTypes, Named, Return, Goto, Using, Installing
    <2>4. QED
        BY <2>2, <2>3
<1>17. QED
    BY <1>1, <1>2, <1>3, <1>4, <1>5, <1>6, <1>7, <1>8, <1>9, <1>10, <1>11, <1>12, <1>13, <1>14, <1>15,
        <1>16 DEF Use

\* Every step keeps the types.
LEMMA StepTypes == EnvTypes /\ [Next]_vars => EnvTypes'
<1> SUFFICES ASSUME EnvTypes, [Next]_vars PROVE EnvTypes'
    OBVIOUS
<1> USE DEF EnvTypes, poolVars, diskVars, fileVars, rtVars, execVars, histVars
<1>1. ASSUME NEW x \in Exec, NEW k \in Key, Begin(x, k) PROVE EnvTypes'
    <2>1. PICK j \in Job : /\ jkey[j] = None
                           /\ job' = [job EXCEPT ![x] = j]
                           /\ jkey' = [jkey EXCEPT ![j] = k]
        BY <1>1 DEF Begin
    <2>2. \A e \in Env : jkey[e] \in Key => jkey'[e] = jkey[e]
        BY <2>1, EnvConstants DEF ExecTypes, Env
    <2>3. PoolTypes' /\ DiskTypes' /\ RuntimeTypes'
        BY <1>1 DEF Begin, PoolTypes, DiskTypes, RuntimeTypes
    <2>4. ExecTypes'
        BY <1>1, <2>1 DEF Begin, ExecTypes, Goto, Acquiring
    <2>5. Named'
        BY <1>1, <2>1, <2>2 DEF Begin, Named, PoolTypes, ExecTypes, Goto, Using, Installing, Env,
            DiskTypes, Walk
    <2>6. QED
        BY <2>3, <2>4, <2>5
<1>2. ASSUME NEW e \in discarded, RemoveDiscarded(e) PROVE EnvTypes'
    <2>1. e \in Job /\ jkey[e] \in Key
        BY DEF DiskTypes, Named, Env
    <2>2. /\ DiskTypes' /\ overlapped' \in BOOLEAN
          /\ \A d \in discarded' : jkey'[d] \in Key
          /\ \A w \in walks' : jkey'[w.id] \in Key
        BY <1>2, <2>1, BeginWalkTypes DEF RemoveDiscarded
    <2>3. QED
        BY <1>2, <2>2 DEF RemoveDiscarded, PoolTypes, RuntimeTypes, ExecTypes, Named
<1>3. ASSUME NEW e \in Env, Age(e) PROVE EnvTypes'
    BY <1>3 DEF Age, PoolTypes, DiskTypes, RuntimeTypes, ExecTypes, Named
<1>4. ASSUME EvictionTick PROVE EnvTypes'
    <2>1. PoolTypes' /\ \A c \in cleaners' : jkey'[c.env] \in Key
        BY <1>4, EvictionTypes DEF EvictionTick
    <2>2. ExecTypes' /\ DiskTypes' /\ RuntimeTypes' /\ Named'
        BY <1>4, <2>1 DEF EvictionTick, RunEviction, ExecTypes, DiskTypes, RuntimeTypes, Named
    <2>3. QED
        BY <2>1, <2>2
<1>5. ASSUME NEW c \in cleaners, Clean(c) PROVE EnvTypes'
    <2>1. c.env \in Job /\ jkey[c.env] \in Key /\ c.size \in {0, 1}
        BY DEF PoolTypes, Named, Env
    <2>2. /\ DiskTypes' /\ overlapped' \in BOOLEAN
          /\ \A e \in discarded' : jkey'[e] \in Key
          /\ \A w \in walks' : jkey'[w.id] \in Key
        <3>1. CASE state[c.env] = "cleaning"
            BY <1>5, <2>1, <3>1, BeginWalkTypes DEF Clean
        <3>2. CASE state[c.env] # "cleaning"
            BY <1>5, <3>2 DEF Clean, DiskTypes, ExecTypes, Named
        <3>3. QED
            BY <3>1, <3>2
    <2>3. PoolTypes'
        BY <1>5 DEF Clean, PoolTypes
    <2>4. ExecTypes' /\ RuntimeTypes' /\ Named'
        BY <1>5, <2>2 DEF Clean, ExecTypes, RuntimeTypes, Named
    <2>5. QED
        BY <2>2, <2>3, <2>4
<1>6. ASSUME NEW w \in walks, Removed(w) \/ Cleaned(w) PROVE EnvTypes'
    <2>1. DiskTypes' /\ walks' \subseteq walks /\ discarded' = discarded
        BY <1>6, EndWalkTypes DEF Removed, Cleaned
    <2>2. w.size \in {0, 1}
        BY DEF DiskTypes, Walk
    <2>3. PoolTypes'
        BY <1>6, <2>2 DEF Removed, Cleaned, PoolTypes
    <2>4. \A k \in Key : environments'[k] \in {0, environments[k]}
        BY <1>6 DEF Removed, Cleaned, PoolTypes
    <2>5. ExecTypes' /\ RuntimeTypes' /\ Named'
        BY <1>6, <2>1, <2>4 DEF Removed, Cleaned, ExecTypes, RuntimeTypes, Named
    <2>6. QED
        BY <2>1, <2>3, <2>5
<1>7. CASE UNCHANGED vars
    BY <1>7 DEF vars, PoolTypes, DiskTypes, RuntimeTypes, ExecTypes, Named
<1>8. QED
    BY <1>1, <1>2, <1>3, <1>4, <1>5, <1>6, <1>7, UnlinkTypes, AcquireTypes, UseTypes DEF Next

-----------------------------------------------------------------------------
(* The bound of the account of the disk                                    *)

\* Executions that may still add to the size on disk: each does so once, and
\* each job is executed once.
Sizing  == {x \in Exec : pc[x] \notin {"idle", "close"}}
Started == {j \in Job : jkey[j] # None}

\* What is on the account and what the executions under way may add to it never
\* exceeds the jobs that were started.
Potential == currentDiskBytes + Cardinality(Sizing) <= Cardinality(Started)

\* Cardinalities of a set and of the same set with or without an element.
LEMMA CardFacts ==
    ASSUME NEW S, IsFiniteSet(S)
    PROVE  /\ Cardinality(S) \in Nat
           /\ \A T \in SUBSET S : IsFiniteSet(T) /\ Cardinality(T) \in Nat
                                   /\ Cardinality(T) <= Cardinality(S)
           /\ \A a \in S : Cardinality(S \ {a}) = Cardinality(S) - 1
           /\ \A a : /\ IsFiniteSet(S \cup {a})
                     /\ Cardinality(S \cup {a}) \in Nat
                     /\ Cardinality(S \cup {a}) <= Cardinality(S) + 1
                     /\ a \notin S => Cardinality(S \cup {a}) = Cardinality(S) + 1
<1>1. Cardinality(S) \in Nat
    BY FS_CardinalityType
<1>2. ASSUME NEW T \in SUBSET S
      PROVE  IsFiniteSet(T) /\ Cardinality(T) \in Nat /\ Cardinality(T) <= Cardinality(S)
    BY FS_Subset, FS_CardinalityType
<1>3. ASSUME NEW a \in S PROVE Cardinality(S \ {a}) = Cardinality(S) - 1
    BY FS_RemoveElement
<1>4. ASSUME NEW a
      PROVE  /\ IsFiniteSet(S \cup {a})
             /\ Cardinality(S \cup {a}) \in Nat
             /\ Cardinality(S \cup {a}) <= Cardinality(S) + 1
             /\ a \notin S => Cardinality(S \cup {a}) = Cardinality(S) + 1
    <2>1. CASE a \in S
        <3>1. S \cup {a} = S
            BY <2>1
        <3>2. QED
            BY <1>1, <2>1, <3>1
    <2>2. CASE a \notin S
        <3>1. IsFiniteSet(S \cup {a}) /\ Cardinality(S \cup {a}) = Cardinality(S) + 1
            BY <2>2, FS_AddElement
        <3>2. QED
            BY <1>1, <3>1
    <2>3. QED
        BY <2>1, <2>2
<1>5. QED
    BY <1>1, <1>2, <1>3, <1>4

\* The sets of the potential are finite.
LEMMA PotentialFinite ==
    ASSUME EnvTypes
    PROVE  /\ IsFiniteSet(Sizing) /\ Cardinality(Sizing) \in Nat
           /\ IsFiniteSet(Started) /\ Cardinality(Started) \in 0 .. MaxJobs
<1>1. IsFiniteSet(Job) /\ Cardinality(Job) = MaxJobs
    BY FS_Interval, EnvConstants DEF Job
<1>2. Sizing \subseteq Exec /\ Started \subseteq Job
    BY DEF Sizing, Started
<1>3. QED
    BY <1>1, <1>2, CardFacts, EnvConstants

\* A step that adds nothing to the account and starts no job keeps the potential.
LEMMA PotentialFrame ==
    ASSUME EnvTypes, EnvTypes', Potential, jkey' = jkey, currentDiskBytes' <= currentDiskBytes,
           \A x \in Exec : pc[x] \in {"idle", "close"} => pc'[x] \in {"idle", "close"}
    PROVE  Potential'
<1>1. Sizing' \subseteq Sizing /\ Started' = Started
    BY DEF Sizing, Started
<1>2. Cardinality(Sizing') <= Cardinality(Sizing) /\ Cardinality(Sizing') \in Nat
    BY <1>1, CardFacts, PotentialFinite
<1>3. QED
    BY <1>1, <1>2, PotentialFinite DEF Potential, EnvTypes, PoolTypes

\* Every step keeps the potential.
LEMMA PotentialStep ==
    ASSUME EnvTypes, EnvTypes', Potential, [Next]_vars
    PROVE  Potential'
<1> USE DEF poolVars, execVars
<1>1. ASSUME NEW x \in Exec, NEW k \in Key, Begin(x, k) PROVE Potential'
    <2>1. PICK j \in Job : jkey[j] = None /\ jkey' = [jkey EXCEPT ![j] = k]
        BY <1>1 DEF Begin
    <2>2. Started' = Started \cup {j} /\ j \notin Started
        BY <2>1, EnvConstants DEF Started, EnvTypes, ExecTypes
    <2>3. Sizing' = Sizing \cup {x}
        BY <1>1 DEF Begin, Goto, Sizing, EnvTypes, ExecTypes
    <2>4. Cardinality(Started') = Cardinality(Started) + 1
        BY <2>2, CardFacts, PotentialFinite
    <2>5. Cardinality(Sizing') <= Cardinality(Sizing) + 1 /\ Cardinality(Sizing') \in Nat
        BY <2>3, CardFacts, PotentialFinite
    <2>6. currentDiskBytes' = currentDiskBytes
        BY <1>1 DEF Begin
    <2>7. QED
        BY <2>4, <2>5, <2>6, PotentialFinite DEF Potential, EnvTypes, PoolTypes
<1>2. ASSUME NEW x \in Exec, Release(x) PROVE Potential'
    <2>1. Sizing' = Sizing \ {x} /\ x \in Sizing /\ Started' = Started
        BY <1>2 DEF Release, Goto, Sizing, Started, EnvTypes, ExecTypes
    <2>2. Cardinality(Sizing') = Cardinality(Sizing) - 1
        BY <2>1, CardFacts, PotentialFinite
    <2>3. currentDiskBytes' <= currentDiskBytes + 1
        BY <1>2 DEF Release, EnvTypes, PoolTypes, ExecTypes
    <2>4. QED
        BY <2>1, <2>2, <2>3, PotentialFinite DEF Potential, EnvTypes, PoolTypes
<1> DEFINE Quiet ==
        /\ jkey' = jkey /\ currentDiskBytes' <= currentDiskBytes
        /\ \A x \in Exec : pc[x] \in {"idle", "close"} => pc'[x] \in {"idle", "close"}
<1>3. Quiet => Potential'
    BY PotentialFrame
<1> USE DEF EnvTypes, PoolTypes, ExecTypes
<1>4. ASSUME NEW w \in walks, Unlink(w) \/ Removed(w) \/ Cleaned(w) PROVE Quiet
    <2>1. w.size \in {0, 1}
        BY DEF DiskTypes, Walk
    <2>2. QED
        BY <1>4, <2>1 DEF Unlink, Removed, Cleaned
<1>5. ASSUME NEW x \in Exec, Acquire(x) \/ WaitCancelled(x) PROVE Quiet
    BY <1>4, <1>5 DEF Acquire, WaitCancelled, LockKey, LookMiss, LookPending, LookBroken, LookHit,
        Purge, Purged, WaitReady, WaitTimeout, CreateDir, CreateFails, CheckRoom, EvictForCount,
        RecheckCount, EvictForDisk, RecheckDisk, RoomForDisk, GiveWay, Insert, Refuse, RunEviction,
        Return, Goto
<1>6. ASSUME NEW x \in Exec, Use(x), ~Release(x) PROVE Quiet
    BY <1>6 DEF Use, Setup, SetupFails, MakeBase, VenvFails, Install, InstallFails, Mark,
        WritePlugin, RunPlugin, RunKilled, ReadOutput, Invalidate, Discard, Measure, CloseReadych,
        Return, Goto
<1>7. ASSUME NEW e \in discarded, RemoveDiscarded(e) PROVE Quiet
    BY <1>7 DEF RemoveDiscarded
<1>8. ASSUME NEW e \in Env, Age(e) PROVE Quiet
    BY <1>8 DEF Age
<1>9. ASSUME EvictionTick PROVE Quiet
    BY <1>9 DEF EvictionTick, RunEviction
<1>10. ASSUME NEW c \in cleaners, Clean(c) PROVE Quiet
    BY <1>10 DEF Clean
<1>11. ASSUME UNCHANGED vars PROVE Quiet
    BY <1>11 DEF vars
<1> HIDE DEF Quiet, EnvTypes
<1>12. QED
    BY <1>1, <1>2, <1>3, <1>4, <1>5, <1>6, <1>7, <1>8, <1>9, <1>10, <1>11 DEF Next, Use

\* The types and the potential are an invariant of the pool.
THEOREM PotentialInvariant == Spec => [](EnvTypes /\ Potential)
<1>1. Init => Potential
    <2> SUFFICES ASSUME Init PROVE Potential
        OBVIOUS
    <2>1. Sizing = {} /\ Started = {}
        BY DEF Init, Sizing, Started
    <2>2. Cardinality({}) = 0
        BY FS_EmptySet
    <2>3. QED
        BY <2>1, <2>2 DEF Init, Potential
<1>2. EnvTypes /\ Potential /\ [Next]_vars => EnvTypes' /\ Potential'
    BY StepTypes, PotentialStep
<1>3. QED
    BY <1>1, <1>2, InitTypes, PTL DEF Spec

\* The pool, the directories and the executions keep their types; the account
\* of the disk stays within the number of jobs, whatever is evicted, released and
\* discarded (ReleaseEnvironment, evictEnvironment).
THEOREM EnvTypeCorrect == Spec => []EnvTypeOK
<1>1. EnvTypes /\ Potential => EnvTypeOK
    <2> SUFFICES ASSUME EnvTypes, Potential PROVE EnvTypeOK
        OBVIOUS
    <2>1. currentDiskBytes \in 0 .. MaxJobs
        BY PotentialFinite, EnvConstants DEF EnvTypes, PoolTypes, Potential
    <2>2. \A x \in Exec : pc[x] \in Using => env[x] \in Env /\ jkey[env[x]] \in Key
        BY HasEnv
    <2>3. QED
        BY <2>1, <2>2 DEF EnvTypes, PoolTypes, DiskTypes, RuntimeTypes, ExecTypes, Named, EnvTypeOK
<1>2. QED
    BY <1>1, PotentialInvariant, PTL

-----------------------------------------------------------------------------
(* Exclusive use                                                           *)

\* Executions have jobs of their own; the object an execution will make, which
\* is named after its job, is not known to anybody before; and the property.
ObjectInv ==
    /\ \A x, y \in Exec : x # y /\ pc[x] # "idle" /\ pc[y] # "idle" => job[x] # job[y]
    /\ \A x \in Exec : pc[x] \in Acquiring =>
          /\ \A k \in Key : environments[k] # job[x]
          /\ \A y \in Exec : env[y] # job[x]
    /\ ExclusiveObject

\* A step that hands out no object keeps the objects apart.
LEMMA ObjectFrame ==
    ASSUME EnvTypes, ObjectInv,
           \A k \in Key : environments'[k] \in {0, environments[k]},
           \A x \in Exec :
              /\ env'[x] \in {0, env[x]}
              /\ pc'[x] # "idle" => pc[x] # "idle" /\ job'[x] = job[x] /\ env'[x] = env[x]
              /\ pc'[x] \in Acquiring => pc[x] \in Acquiring
              /\ pc'[x] \in Using => /\ pc[x] \in Using
                                     /\ state'[env[x]] \in {"pending", "active", "invalid"}
    PROVE  ObjectInv'
<1>1. \A x \in Exec : pc[x] \in Acquiring \cup Using => pc[x] # "idle"
    BY DEF Acquiring, Using, Installing
<1>2. \A x \in Exec : pc'[x] \in Acquiring \cup Using => pc'[x] # "idle"
    BY DEF Acquiring, Using, Installing
<1>3. \A x \in Exec : pc[x] # "idle" => job[x] # 0
    BY DEF EnvTypes, Named, Job
<1>4. ExclusiveObject'
    BY <1>2 DEF ObjectInv, ExclusiveObject
<1>5. ASSUME NEW x \in Exec, pc'[x] \in Acquiring
      PROVE  (\A k \in Key : environments'[k] # job'[x]) /\ (\A y \in Exec : env'[y] # job'[x])
    BY <1>1, <1>2, <1>3, <1>5 DEF ObjectInv
<1>6. QED
    BY <1>4, <1>5 DEF ObjectInv

\* An insertion hands out an object nobody had.
LEMMA InsertObject ==
    ASSUME EnvTypes, ObjectInv, NEW x \in Exec, pc[x] \in Acquiring, Insert(x)
    PROVE  ObjectInv'
<1>1. pc[x] # "idle" /\ job[x] \in Env /\ KeyOf(x) \in Key
    BY HasKey DEF Acquiring, Env
<1>2. /\ pc' = [pc EXCEPT ![x] = "setup"] /\ job' = job
      /\ env' = [env EXCEPT ![x] = job[x]] /\ state' = [state EXCEPT ![job[x]] = "pending"]
      /\ environments' = [environments EXCEPT ![KeyOf(x)] = job[x]]
    BY DEF Insert, Goto
<1>3. "setup" \notin Acquiring /\ "idle" \notin Acquiring \cup Using
    BY DEF Acquiring, Using, Installing
<1>4. \A y \in Exec : env[y] # job[x]
    BY DEF ObjectInv
<1>5. ASSUME NEW y \in Exec, y # x, pc'[y] \in Using
      PROVE  /\ env'[y] = env[y] /\ env[y] # job[x] /\ pc[y] \in Using
             /\ state'[env[y]] \in {"pending", "active", "invalid"}
    BY <1>2, <1>4, <1>5, HasEnv DEF EnvTypes, ExecTypes, PoolTypes, ObjectInv, ExclusiveObject
<1>6. env'[x] = job[x] /\ state'[job[x]] = "pending"
    BY <1>1, <1>2 DEF EnvTypes, ExecTypes, PoolTypes
<1>7. ExclusiveObject'
    BY <1>5, <1>6 DEF ObjectInv, ExclusiveObject
<1>8. \A y, z \in Exec : y # z /\ pc'[y] # "idle" /\ pc'[z] # "idle" => job'[y] # job'[z]
    BY <1>1, <1>2 DEF ObjectInv, EnvTypes, ExecTypes
<1>9. ASSUME NEW y \in Exec, pc'[y] \in Acquiring
      PROVE  (\A k \in Key : environments'[k] # job'[y]) /\ (\A z \in Exec : env'[z] # job'[y])
    <2>1. y # x /\ pc[y] \in Acquiring /\ job'[y] = job[y] /\ job[y] # job[x]
        BY <1>1, <1>2, <1>3, <1>9 DEF ObjectInv, EnvTypes, ExecTypes
    <2>2. QED
        BY <1>2, <2>1 DEF ObjectInv, EnvTypes, ExecTypes, PoolTypes
<1>10. QED
    BY <1>7, <1>8, <1>9 DEF ObjectInv

\* Every step keeps the objects apart.
LEMMA ObjectStep ==
    ASSUME EnvTypes, ObjectInv, [Next]_vars
    PROVE  ObjectInv'
<1> USE DEF poolVars, diskVars, rtVars, execVars
<1>1. ASSUME NEW x \in Exec, NEW k \in Key, Begin(x, k) PROVE ObjectInv'
    <2>1. PICK j \in Job : jkey[j] = None /\ job' = [job EXCEPT ![x] = j]
        BY <1>1 DEF Begin
    <2>2. /\ j # 0 /\ \A l \in Key : environments[l] # j
          /\ \A y \in Exec : env[y] # j /\ (pc[y] # "idle" => job[y] # j)
        BY <2>1, EnvConstants DEF EnvTypes, Named, Job
    <2>3. /\ pc' = [pc EXCEPT ![x] = "lock"] /\ env' = env /\ state' = state
          /\ environments' = environments /\ pc[x] = "idle"
        BY <1>1 DEF Begin, Goto
    <2>4. "lock" \notin Using /\ "idle" \notin Acquiring
        BY DEF Acquiring, Using, Installing
    <2>5. ExclusiveObject'
        BY <2>3, <2>4 DEF ObjectInv, ExclusiveObject, EnvTypes, ExecTypes
    <2>6. QED
        BY <2>1, <2>2, <2>3, <2>4, <2>5 DEF ObjectInv, EnvTypes, ExecTypes
<1>2. ASSUME NEW x \in Exec, LookPending(x) PROVE ObjectInv'
    <2>1. /\ pc' = [pc EXCEPT ![x] = "wait"] /\ pc[x] = "look" /\ job' = job /\ state' = state
          /\ env' = [env EXCEPT ![x] = environments[KeyOf(x)]] /\ environments' = environments
        BY <1>2 DEF LookPending, Goto
    <2>2. {"look", "wait"} \subseteq Acquiring /\ {"look", "wait"} \cap Using = {}
        BY DEF Acquiring, Using, Installing
    <2>3. KeyOf(x) \in Key
        BY <2>1, HasKey
    <2>4. ExclusiveObject'
        BY <2>1, <2>2 DEF ObjectInv, ExclusiveObject, EnvTypes, ExecTypes
    <2>5. QED
        BY <2>1, <2>2, <2>3, <2>4 DEF ObjectInv, EnvTypes, ExecTypes
<1>3. ASSUME NEW x \in Exec, LookHit(x) PROVE ObjectInv'
    <2> DEFINE e == environments[KeyOf(x)]
    <2>1. /\ pc' = [pc EXCEPT ![x] = "setup"] /\ pc[x] = "look" /\ job' = job
          /\ state' = [state EXCEPT ![e] = "active"] /\ state[e] \in {"ready", "warm"}
          /\ env' = [env EXCEPT ![x] = e] /\ environments' = environments /\ e # 0
        BY <1>3 DEF LookHit, Goto
    <2>2. KeyOf(x) \in Key /\ e \in Env
        BY <2>1, HasKey DEF EnvTypes, PoolTypes
    <2>3. "look" \in Acquiring /\ "setup" \notin Acquiring
        BY DEF Acquiring
    <2>4. \A y \in Exec : pc[y] \in Using => env[y] # e
        BY <2>1 DEF ObjectInv, ExclusiveObject
    <2> HIDE DEF e
    <2>5. ExclusiveObject'
        BY <2>1, <2>2, <2>4, HasEnv DEF ObjectInv, ExclusiveObject, EnvTypes, ExecTypes, PoolTypes
    <2>6. \A y \in Exec : pc[y] \in Acquiring => e # job[y]
        BY <2>2 DEF ObjectInv, e
    <2>7. QED
        BY <2>1, <2>3, <2>5, <2>6 DEF ObjectInv, EnvTypes, ExecTypes
<1>4. ASSUME NEW x \in Exec, CheckRoom(x) \/ RecheckCount(x) \/ RecheckDisk(x), Insert(x)
      PROVE  ObjectInv'
    BY <1>4, InsertObject DEF CheckRoom, RecheckCount, RecheckDisk, Acquiring
<1> DEFINE Quiet ==
        /\ \A k \in Key : environments'[k] \in {0, environments[k]}
        /\ \A x \in Exec :
              /\ env'[x] \in {0, env[x]}
              /\ pc'[x] # "idle" => pc[x] # "idle" /\ job'[x] = job[x] /\ env'[x] = env[x]
              /\ pc'[x] \in Acquiring => pc[x] \in Acquiring
              /\ pc'[x] \in Using => /\ pc[x] \in Using
                                     /\ state'[env[x]] \in {"pending", "active", "invalid"}
<1>5. Quiet => ObjectInv'
    BY ObjectFrame
<1> USE DEF EnvTypes, PoolTypes, ExecTypes, Acquiring, Using, Installing
<1>6. \A x \in Exec : pc[x] \in Using => state[env[x]] \in {"pending", "active", "invalid"}
    BY DEF ObjectInv, ExclusiveObject
<1>7. ASSUME RunEviction, NEW x \in Exec, pc[x] \in Using
      PROVE  state'[env[x]] \in {"pending", "active", "invalid"}
    BY <1>6, <1>7, HasEnv DEF RunEviction, Evictable
<1>8. ASSUME NEW x \in Exec, Acquire(x) \/ WaitCancelled(x), ~LookPending(x), ~LookHit(x),
             CheckRoom(x) \/ RecheckCount(x) \/ RecheckDisk(x) => ~Insert(x)
      PROVE  Quiet
    BY <1>6, <1>7, <1>8 DEF Acquire, WaitCancelled, LockKey, LookMiss, LookBroken, Purge, Purged,
        Unlink, WaitReady, WaitTimeout, CreateDir, CreateFails, CheckRoom, EvictForCount, RecheckCount,
        EvictForDisk, RecheckDisk, RoomForDisk, GiveWay, Refuse, RunEviction, Return, Goto
<1>9. ASSUME NEW x \in Exec, Use(x), ~Release(x), ~Invalidate(x), ~Discard(x) PROVE Quiet
    BY <1>6, <1>9 DEF Use, Setup, SetupFails, MakeBase, VenvFails, Install, InstallFails, Mark,
        WritePlugin, RunPlugin, RunKilled, ReadOutput, Measure, CloseReadych, Return, Goto
<1>10. ASSUME NEW x \in Exec, Discard(x) PROVE Quiet
    BY <1>6, <1>10 DEF Discard, Return, Goto
<1>11. ASSUME NEW x \in Exec, Invalidate(x) PROVE Quiet
    BY <1>6, <1>11, HasEnv DEF Invalidate, Goto
<1>12. ASSUME NEW x \in Exec, Release(x) PROVE Quiet
    <2>1. pc[x] \in Using /\ pc' = [pc EXCEPT ![x] = "close"] /\ job' = job /\ env' = env
          /\ environments' = environments
        BY <1>12 DEF Release, Goto
    <2>2. \A y \in Exec : pc'[y] \in Using => y # x /\ pc[y] \in Using /\ env[y] # env[x]
        BY <2>1 DEF ObjectInv, ExclusiveObject
    <2>3. \A e \in Env : e # env[x] => state'[e] = state[e]
        BY <1>12 DEF Release
    <2>4. QED
        BY <1>6, <2>1, <2>2, <2>3, HasEnv
<1>13. ASSUME NEW e \in discarded, RemoveDiscarded(e) PROVE Quiet
    BY <1>6, <1>13 DEF RemoveDiscarded
<1>14. ASSUME NEW e \in Env, Age(e) PROVE Quiet
    BY <1>6, <1>14 DEF Age
<1>15. ASSUME EvictionTick PROVE Quiet
    BY <1>7, <1>15 DEF EvictionTick, RunEviction
<1>16. ASSUME NEW c \in cleaners, Clean(c) PROVE Quiet
    BY <1>6, <1>16 DEF Clean
<1>17. ASSUME NEW w \in walks, Unlink(w) \/ Removed(w) \/ Cleaned(w) PROVE Quiet
    BY <1>6, <1>17 DEF Unlink, Removed, Cleaned
<1>18. ASSUME UNCHANGED vars PROVE Quiet
    BY <1>6, <1>18 DEF vars
<1> HIDE DEF Quiet, EnvTypes
<1>19. ASSUME NEW x \in Exec, Acquire(x) \/ WaitCancelled(x) \/ Use(x) PROVE ObjectInv'
    BY <1>2, <1>3, <1>4, <1>5, <1>8, <1>9, <1>10, <1>11, <1>12, <1>19
<1>20. QED
    BY <1>1, <1>5, <1>13, <1>14, <1>15, <1>16, <1>17, <1>18, <1>19 DEF Next

\* AcquireEnvironment never hands the same CachedEnvironment to two executions
\* at a time and no eviction takes one in use, for any number of executions.
THEOREM ObjectsExclusive == Spec => []ExclusiveObject
<1>1. Init => ObjectInv
    BY DEF Init, ObjectInv, ExclusiveObject, Acquiring, Using, Installing
<1>2. EnvTypes /\ ObjectInv /\ [Next]_vars => EnvTypes' /\ ObjectInv'
    BY StepTypes, ObjectStep
<1>3. ObjectInv => ExclusiveObject
    BY DEF ObjectInv
<1>4. QED
    BY <1>1, <1>2, <1>3, InitTypes, PTL DEF Spec

-----------------------------------------------------------------------------
(* The limit on environments                                               *)

\* The pool has no more entries than there are jobs.
LEMMA EntriesFinite ==
    ASSUME EnvTypes
    PROVE  IsFiniteSet(Entries) /\ Cardinality(Entries) \in Nat
<1>1. IsFiniteSet(Job)
    BY FS_Interval, EnvConstants DEF Job
<1> DEFINE Used == {jkey[j] : j \in Job}
<1>2. jkey \in Surjection(Job, Used)
    BY DEF EnvTypes, ExecTypes, Surjection
<1>3. Entries \subseteq Used
    BY DEF EnvTypes, Named, PoolTypes, Entries, Env
<1> HIDE DEF Used
<1>4. IsFiniteSet(Used)
    BY <1>1, <1>2, FS_Surjection
<1>5. QED
    BY <1>3, <1>4, CardFacts

\* Entries grow by an insertion only, and by the key of its execution.
LEMMA EntriesStep ==
    ASSUME EnvTypes, [Next]_vars
    PROVE  \/ Entries' \subseteq Entries
           \/ \E x \in Exec : /\ pc[x] \in {"room", "recheckCount"} => ~Full
                              /\ pc[x] \in {"room", "recheckCount", "recheckDisk"}
                              /\ Entries' = Entries \cup {KeyOf(x)}
                              /\ pc'[x] = "setup"
<1> USE DEF poolVars
<1> DEFINE Shrinks == \A k \in Key : environments'[k] \in {0, environments[k]}
<1>1. Shrinks => Entries' \subseteq Entries
    BY DEF Entries
<1>2. ASSUME NEW x \in Exec, pc[x] # "idle", Insert(x)
      PROVE  Entries' = Entries \cup {KeyOf(x)} /\ pc'[x] = "setup"
    <2>1. job[x] # 0 /\ KeyOf(x) \in Key
        BY <1>2, HasKey DEF Job
    <2>2. environments' = [environments EXCEPT ![KeyOf(x)] = job[x]] /\ pc'[x] = "setup"
        BY <1>2 DEF Insert, Goto, EnvTypes, ExecTypes
    <2>3. QED
        BY <2>1, <2>2 DEF Entries, EnvTypes, PoolTypes
<1>3. ASSUME NEW x \in Exec, CheckRoom(x) \/ RecheckCount(x) \/ RecheckDisk(x)
      PROVE  \/ Shrinks
             \/ /\ pc[x] \in {"room", "recheckCount"} => ~Full
                /\ pc[x] \in {"room", "recheckCount", "recheckDisk"}
                /\ Insert(x)
    <2>1. ASSUME NEW l, GiveWay(x, l) PROVE Shrinks
        BY <2>1 DEF GiveWay
    <2>2. ASSUME Refuse(x) PROVE Shrinks
        BY <2>2 DEF Refuse
    <2> HIDE DEF Shrinks
    <2>3. RoomForDisk(x) => Shrinks \/ Insert(x)
        BY <2>1 DEF RoomForDisk
    <2>4. CASE CheckRoom(x)
        BY <2>1, <2>3, <2>4 DEF CheckRoom
    <2>5. CASE RecheckCount(x)
        BY <2>2, <2>3, <2>5 DEF RecheckCount
    <2>6. CASE RecheckDisk(x)
        BY <2>2, <2>6 DEF RecheckDisk
    <2>7. QED
        BY <1>3, <2>4, <2>5, <2>6
<1>4. ASSUME NEW x \in Exec, Acquire(x) \/ WaitCancelled(x), ~CheckRoom(x), ~RecheckCount(x),
             ~RecheckDisk(x)
      PROVE  Shrinks
    BY <1>4 DEF Acquire, WaitCancelled, LockKey, LookMiss, LookPending, LookBroken, LookHit, Purge,
        Purged, Unlink, WaitReady, WaitTimeout, CreateDir, CreateFails, EvictForCount, EvictForDisk,
        Refuse, RunEviction, EnvTypes, PoolTypes
<1>5. ASSUME NEW x \in Exec, Use(x) PROVE Shrinks
    BY <1>5 DEF Use, Setup, SetupFails, MakeBase, VenvFails, Install, InstallFails, Mark,
        WritePlugin, RunPlugin, RunKilled, ReadOutput, Invalidate, Discard, Measure, Release,
        CloseReadych
<1>6. ASSUME NEW x \in Exec, NEW k \in Key, Begin(x, k) PROVE Shrinks
    BY <1>6 DEF Begin
<1>7. ASSUME NEW e \in discarded, RemoveDiscarded(e) PROVE Shrinks
    BY <1>7 DEF RemoveDiscarded
<1>8. ASSUME NEW e \in Env, Age(e) PROVE Shrinks
    BY <1>8 DEF Age
<1>9. ASSUME EvictionTick PROVE Shrinks
    BY <1>9 DEF EvictionTick, RunEviction
<1>10. ASSUME NEW c \in cleaners, Clean(c) PROVE Shrinks
    BY <1>10 DEF Clean
<1>11. ASSUME NEW w \in walks, Unlink(w) \/ Removed(w) \/ Cleaned(w) PROVE Shrinks
    BY <1>11 DEF Unlink, Removed, Cleaned, EnvTypes, PoolTypes
<1>12. ASSUME UNCHANGED vars PROVE Shrinks
    BY <1>12 DEF vars
<1> HIDE DEF Shrinks
<1>13. QED
    BY <1>1, <1>2, <1>3, <1>4, <1>5, <1>6, <1>7, <1>8, <1>9, <1>10, <1>11, <1>12 DEF Next

\* Whatever is invalidated and evicted meanwhile, an insertion that looked at
\* the count in its own critical section never exceeds maxEnvironments: only
\* one after the eviction for the disk does.
THEOREM LimitHolds == Spec => LimitOnlyRaced
<1>1. ASSUME EnvTypes, [Next]_vars
      PROVE  Cardinality(Entries') > limits.maxEnvironments /\ Entries' # Entries
               => \/ Entries' \subseteq Entries
                  \/ \E x \in Exec : pc[x] = "recheckDisk" /\ pc'[x] = "setup"
    <2>1. ASSUME NEW x \in Exec, ~Full, Entries' = Entries \cup {KeyOf(x)}
          PROVE  ~(Cardinality(Entries') > limits.maxEnvironments)
        <3>1. Cardinality(Entries') <= Cardinality(Entries) + 1 /\ Cardinality(Entries') \in Nat
            BY <1>1, <2>1, EntriesFinite, CardFacts
        <3>2. limits.maxEnvironments \in Nat
            BY <1>1, EnvConstants DEF EnvTypes, ExecTypes
        <3>3. QED
            BY <1>1, <2>1, <3>1, <3>2, EntriesFinite DEF Full
    <2>2. QED
        BY <1>1, <2>1, EntriesStep
<1>2. Spec => []EnvTypes
    BY PotentialInvariant, PTL
<1>3. QED
    BY <1>1, <1>2, PTL DEF Spec, LimitOnlyRaced

-----------------------------------------------------------------------------
(* The .ready marker                                                       *)

\* What an installer of a python environment has put in its directory.
Progress(x) ==
    LET k == KeyOf(x) IN
    /\ venvPath = PathOf[k]
    /\ pc[x] \in {"install", "mark"} => Has(PathOf[k], "base")
    /\ pc[x] = "mark" => DepOf[k] \subseteq dir[PathOf[k]]

\* As long as nobody disturbed an installation, there is one at most, its
\* directory is not being removed, the shared venvPath is its own, and its
\* directory has what it has put there.
InstallInv ==
    ~overlapped =>
       \A x \in Exec : pc[x] \in Installing =>
          /\ \A y \in Exec : pc[y] \in Installing => y = x
          /\ ~Walked(PathOfX(x))
          /\ RuntimeOf[KeyOf(x)] = "python" => Progress(x)

\* A walk has read the marker if there is one, and will unlink it: no
\* installation has put it there since.
WalkInv ==
    ~overlapped => \A w \in walks : Has(PathOfW(w), "ready") => "ready" \in w.left

ReadyInv == InstallInv /\ WalkInv /\ ReadyMeansInstalled

\* A walk knows the directory it removes.
LEMMA WalkPath ==
    ASSUME EnvTypes, NEW w \in walks
    PROVE  w \in Walk /\ w.id \in Job /\ jkey[w.id] \in Key /\ PathOfW(w) \in Path
BY EnvConstants DEF EnvTypes, DiskTypes, Named, Walk, PathOfW

\* The installers of a step that starts none: they are where they were.
Stays(x) == pc'[x] \in Installing => pc'[x] = pc[x] /\ jkey'[job'[x]] = jkey[job[x]]

\* An installation of which the directory and the interpreter are left alone,
\* and in whose directory no walk began, goes on as before.
LEMMA InstallKept ==
    ASSUME EnvTypes, InstallInv, overlapped => overlapped', venvPath' = venvPath,
           \A x \in Exec : Stays(x),
           ~overlapped' => \A x \in Exec : pc'[x] \in Installing /\ ~Walked(PathOfX(x)) =>
              /\ ~Walked(PathOfX(x))'
              /\ dir'[PathOfX(x)] = dir[PathOfX(x)]
    PROVE  InstallInv'
<1> SUFFICES ASSUME ~overlapped', NEW x \in Exec, pc'[x] \in Installing
             PROVE  /\ \A y \in Exec : pc'[y] \in Installing => y = x
                    /\ ~Walked(PathOfX(x))'
                    /\ (RuntimeOf[KeyOf(x)] = "python" => Progress(x))'
    BY DEF InstallInv
<1>1. pc[x] \in Installing /\ pc'[x] = pc[x] /\ KeyOf(x)' = KeyOf(x)
    BY DEF Stays, KeyOf
<1>2. ~overlapped /\ ~Walked(PathOfX(x))
    BY <1>1 DEF InstallInv
<1>3. \A y \in Exec : pc'[y] \in Installing => y = x
    BY <1>1, <1>2 DEF InstallInv, Stays
<1>4. ~Walked(PathOfX(x))' /\ dir'[PathOfX(x)] = dir[PathOfX(x)]
    BY <1>2
<1>5. ASSUME RuntimeOf[KeyOf(x)] = "python" PROVE Progress(x)'
    <2>1. Progress(x)
        BY <1>1, <1>2, <1>5 DEF InstallInv
    <2>2. QED
        BY <1>1, <1>4, <2>1 DEF Progress, Has, PathOfX
<1>6. QED
    BY <1>1, <1>3, <1>4, <1>5

\* A step that leaves directories, walks and installers alone keeps ReadyInv.
LEMMA ReadyFrame ==
    ASSUME EnvTypes, ReadyInv, overlapped' = overlapped, venvPath' = venvPath, dir' = dir,
           walks' = walks, \A w \in walks : jkey'[w.id] = jkey[w.id],
           \A x \in Exec : Stays(x)
    PROVE  ReadyInv'
<1>1. \A p : Walked(p)' = Walked(p)
    BY DEF Walked, PathOfW
<1>2. \A x \in Exec : pc'[x] \in Installing => PathOfX(x)' = PathOfX(x)
    BY DEF Stays, PathOfX, KeyOf
<1>3. InstallInv'
    BY <1>1, <1>2, InstallKept DEF ReadyInv
<1>4. WalkInv'
    BY DEF ReadyInv, WalkInv, PathOfW, Has
<1>5. ReadyMeansInstalled'
    BY <1>1 DEF ReadyInv, ReadyMeansInstalled, Has
<1>6. QED
    BY <1>3, <1>4, <1>5 DEF ReadyInv

\* The beginning of a walk keeps ReadyInv: what it finds is removed from now on,
\* unless it disturbs an installation.
LEMMA BeginWalkReady ==
    ASSUME EnvTypes, ReadyInv, NEW kind, NEW id \in Job, NEW sz, BeginWalk(kind, id, sz),
           dir' = dir, venvPath' = venvPath, jkey' = jkey, job' = job, \A x \in Exec : Stays(x)
    PROVE  ReadyInv'
<1> DEFINE p == PathOf[jkey[id]]
           v == [kind |-> kind, id |-> id, size |-> sz, left |-> Contents(p)]
<1>1. walks' = walks \cup {v} /\ overlapped' = (overlapped \/ DisturbsIn(p))
    BY DEF BeginWalk
<1>2. v.id = id /\ v.left = Contents(p)
    OBVIOUS
<1> HIDE DEF v
<1>3. \A q : Walked(q)' <=> Walked(q) \/ q = p
    BY <1>1, <1>2 DEF Walked, PathOfW
<1>4. ASSUME ~overlapped', NEW x \in Exec, pc'[x] \in Installing PROVE PathOfX(x)' = PathOfX(x) /\ PathOfX(x) # p
    BY <1>1, <1>4 DEF Stays, DisturbsIn, PathOfX, KeyOf
<1>5. InstallInv'
    BY <1>1, <1>3, <1>4, InstallKept DEF ReadyInv
<1>6. Has(p, "ready") => "ready" \in Contents(p)
    BY DEF Has, Contents
<1>7. WalkInv'
    BY <1>1, <1>2, <1>6 DEF ReadyInv, WalkInv, PathOfW, Has
<1>8. ReadyMeansInstalled'
    BY <1>1, <1>3 DEF ReadyInv, ReadyMeansInstalled, Has
<1>9. QED
    BY <1>5, <1>7, <1>8 DEF ReadyInv

\* A name that is unlinked keeps ReadyInv: its directory is being removed.
LEMMA UnlinkReady ==
    ASSUME EnvTypes, ReadyInv, NEW w \in walks, Unlink(w)
    PROVE  ReadyInv'
<1> DEFINE p == PathOfW(w)
<1>1. PICK n \in w.left \cup Contents(p) :
         /\ walks' = (walks \ {w}) \cup {[w EXCEPT !.left = @ \ {n}]}
         /\ dir' = [dir EXCEPT ![p] = @ \ {n}]
    BY DEF Unlink
<1> DEFINE v == [w EXCEPT !.left = @ \ {n}]
<1>2. p \in Path /\ v.id = w.id /\ v.left = w.left \ {n}
    BY WalkPath DEF Walk
<1> HIDE DEF v
<1>3. /\ overlapped' = overlapped /\ venvPath' = venvPath /\ jkey' = jkey /\ job' = job /\ pc' = pc
    BY DEF Unlink, rtVars, execVars, histVars
<1>4. \A x \in Exec : Stays(x) /\ PathOfX(x)' = PathOfX(x)
    BY <1>3 DEF Stays, PathOfX, KeyOf
<1>5. \A q : Walked(q)' <=> Walked(q)
    BY <1>1, <1>2, <1>3 DEF Walked, PathOfW, v
<1>6. Walked(p)
    BY DEF Walked
<1>7. \A q \in Path : q # p => dir'[q] = dir[q]
    BY <1>1 DEF EnvTypes, DiskTypes
<1>8. dir'[p] = dir[p] \ {n}
    BY <1>1, <1>2 DEF EnvTypes, DiskTypes
<1>9. InstallInv'
    <2>1. \A x \in Exec : pc'[x] \in Installing => PathOfX(x) \in Path
        BY <1>3, HasKey DEF Installing
    <2>2. \A x \in Exec : pc'[x] \in Installing /\ ~Walked(PathOfX(x)) =>
             ~Walked(PathOfX(x))' /\ dir'[PathOfX(x)] = dir[PathOfX(x)]
        BY <1>4, <1>5, <1>6, <1>7, <2>1
    <2>3. QED
        BY <1>3, <1>4, <2>2, InstallKept DEF ReadyInv
<1>10. WalkInv'
    <2>1. ASSUME ~overlapped, NEW u \in walks', "ready" \in dir'[PathOfW(u)'] PROVE "ready" \in u.left
        <3>1. CASE u = v
            <4>1. PathOfW(u)' = p
                BY <1>2, <1>3, <3>1 DEF PathOfW
            <4>2. "ready" \in dir[p] /\ n # "ready"
                BY <1>8, <2>1, <4>1
            <4>3. QED
                BY <1>2, <2>1, <3>1, <4>2 DEF ReadyInv, WalkInv, Has
        <3>2. CASE u # v
            <4>1. u \in walks /\ PathOfW(u)' = PathOfW(u)
                BY <1>1, <1>3, <3>2 DEF PathOfW, v
            <4>2. "ready" \in dir[PathOfW(u)]
                BY <1>7, <1>8, <2>1, <4>1, WalkPath
            <4>3. QED
                BY <2>1, <4>1, <4>2 DEF ReadyInv, WalkInv, Has
        <3>3. QED
            BY <3>1, <3>2
    <2>2. QED
        BY <1>3, <2>1 DEF WalkInv, Has
<1>11. ReadyMeansInstalled'
    <2>1. \A k \in Key : PathOf[k] \in Path
        BY EnvConstants
    <2>2. QED
        BY <1>3, <1>5, <1>6, <1>7, <2>1 DEF ReadyInv, ReadyMeansInstalled, Has
<1>12. QED
    BY <1>9, <1>10, <1>11 DEF ReadyInv

\* The end of a walk keeps ReadyInv: it leaves no marker behind.
LEMMA EndWalkReady ==
    ASSUME EnvTypes, ReadyInv, NEW w \in walks, EndWalk(w),
           overlapped' = overlapped, venvPath' = venvPath, jkey' = jkey, job' = job,
           \A x \in Exec : Stays(x)
    PROVE  ReadyInv'
<1> DEFINE p == PathOfW(w)
<1>1. /\ w.left = {} /\ walks' = walks \ {w}
      /\ dir' = [dir EXCEPT ![p] = IF Contents(p) = {} THEN {} ELSE @]
    BY DEF EndWalk
<1>2. p \in Path
    BY WalkPath
<1>3. \A q \in Path : /\ q # p => dir'[q] = dir[q]
                      /\ "ready" \in dir'[q] => dir'[q] = dir[q]
    BY <1>1, <1>2 DEF EnvTypes, DiskTypes
<1>4. ~overlapped => "ready" \notin dir[p]
    BY <1>1 DEF ReadyInv, WalkInv, Has
<1>5. \A q : Walked(q)' => Walked(q)
    BY <1>1 DEF Walked, PathOfW
<1>6. \A q : Walked(q) => Walked(q)' \/ q = p
    BY <1>1 DEF Walked, PathOfW
<1>7. InstallInv'
    <2>1. \A x \in Exec : pc'[x] \in Installing => PathOfX(x) \in Path /\ PathOfX(x)' = PathOfX(x)
        BY HasKey DEF Stays, Installing, PathOfX, KeyOf
    <2>2. Walked(p)
        BY DEF Walked
    <2>3. \A x \in Exec : pc'[x] \in Installing /\ ~Walked(PathOfX(x)) =>
             ~Walked(PathOfX(x))' /\ dir'[PathOfX(x)] = dir[PathOfX(x)]
        BY <1>3, <1>5, <2>1, <2>2
    <2>4. QED
        BY <2>3, InstallKept DEF ReadyInv
<1>8. WalkInv'
    <2>1. \A u \in walks' : u \in walks /\ PathOfW(u)' = PathOfW(u) /\ PathOfW(u) \in Path
        BY <1>1, WalkPath DEF PathOfW
    <2>2. QED
        BY <1>3, <2>1 DEF ReadyInv, WalkInv, Has
<1>9. ReadyMeansInstalled'
    <2>1. \A k \in Key : PathOf[k] \in Path
        BY EnvConstants
    <2>2. QED
        BY <1>3, <1>4, <1>6, <2>1 DEF ReadyInv, ReadyMeansInstalled, Has
<1>10. QED
    BY <1>7, <1>8, <1>9 DEF ReadyInv

\* A directory that is filled without the marker keeps its meaning.
LEMMA MarkerKept ==
    ASSUME EnvTypes, WalkInv, ReadyMeansInstalled, overlapped => overlapped', walks' = walks,
           jkey' = jkey,
           \A p \in Path : /\ "ready" \in dir'[p] => "ready" \in dir[p]
                           /\ "ready" \in dir[p] /\ ~overlapped' /\ ~Walked(p) => dir[p] \subseteq dir'[p]
    PROVE  WalkInv' /\ ReadyMeansInstalled'
<1>1. \A p : Walked(p)' <=> Walked(p)
    BY DEF Walked, PathOfW
<1>2. WalkInv'
    BY WalkPath DEF WalkInv, PathOfW, Has
<1>3. ASSUME ~overlapped', NEW k \in Key, RuntimeOf[k] = "python", "ready" \in dir'[PathOf[k]],
             ~Walked(PathOf[k])
      PROVE  {"base"} \cup DepOf[k] \subseteq dir'[PathOf[k]]
    <2>1. PathOf[k] \in Path
        BY EnvConstants
    <2>2. dir[PathOf[k]] \subseteq dir'[PathOf[k]] /\ "ready" \in dir[PathOf[k]]
        BY <1>3, <2>1
    <2>3. QED
        BY <1>3, <2>2 DEF ReadyMeansInstalled, Has
<1>4. ReadyMeansInstalled'
    BY <1>1, <1>3 DEF ReadyMeansInstalled, Has
<1>5. QED
    BY <1>2, <1>4

\* A step after which x alone may be installing keeps ReadyInv if x has made
\* the progress that its place says and its directory is not being removed.
LEMMA ReadyAlone ==
    ASSUME NEW x \in Exec, WalkInv', ReadyMeansInstalled',
           ~overlapped' => /\ \A y \in Exec \ {x} : pc'[y] \notin Installing
                           /\ (pc[x] \in Installing => ~Walked(PathOfX(x)))'
                           /\ (pc[x] \in Installing /\ RuntimeOf[KeyOf(x)] = "python" => Progress(x))'
    PROVE  ReadyInv'
BY DEF ReadyInv, InstallInv

\* The steps that set up, fill or mark a directory keep ReadyInv.
LEMMA InstallerStep ==
    ASSUME EnvTypes, EnvTypes', ReadyInv, NEW x \in Exec,
           Setup(x) \/ MakeBase(x) \/ VenvFails(x) \/ Install(x) \/ Mark(x)
    PROVE  ReadyInv'
<1> DEFINE k == KeyOf(x)
           p == PathOf[KeyOf(x)]
<1>1. pc[x] # "idle" /\ jkey' = jkey /\ job' = job /\ k' = k /\ walks' = walks
    BY DEF Setup, MakeBase, VenvFails, Install, Mark, execVars, KeyOf
<1>2. k \in Key /\ p \in Path /\ p' = p /\ DepOf[k] \subseteq Dep /\ PathOfX(x) = p /\ PathOfX(x)' = p
    BY <1>1, HasKey, EnvConstants DEF PathOfX
<1>3. /\ \A y \in Exec \ {x} : pc'[y] = pc[y]
      /\ overlapped => overlapped'
    BY DEF Setup, MakeBase, VenvFails, Install, Mark, Goto, EnvTypes, ExecTypes, histVars
<1>4. ~overlapped' => /\ \A y \in Exec \ {x} : pc'[y] \notin Installing
                      /\ ~Walked(p)
    <2>1. CASE Setup(x)
        BY <1>2, <1>3, <2>1 DEF Setup, Disturbs
    <2>2. CASE MakeBase(x) \/ VenvFails(x) \/ Install(x) \/ Mark(x)
        <3>1. pc[x] \in Installing /\ overlapped' = overlapped
            BY <2>2 DEF MakeBase, VenvFails, Install, Mark, Installing, histVars
        <3>2. QED
            BY <1>2, <1>3, <3>1 DEF ReadyInv, InstallInv
    <2>3. QED
        BY <2>1, <2>2
<1>5. (~Walked(p))' <=> ~Walked(p)
    BY <1>1, <1>2 DEF Walked, PathOfW
<1>6. ASSUME ~overlapped, pc[x] \in Installing, RuntimeOf[k] = "python" PROVE Progress(x)
    BY <1>6 DEF ReadyInv, InstallInv
<1> HIDE DEF k, p
<1> DEFINE Filled == \A q \in Path :
               /\ "ready" \in dir'[q] => "ready" \in dir[q]
               /\ "ready" \in dir[q] /\ ~overlapped' /\ ~Walked(q) => dir[q] \subseteq dir'[q]
<1>7. Filled => WalkInv' /\ ReadyMeansInstalled'
    BY <1>1, <1>3, MarkerKept DEF ReadyInv
<1>8. ASSUME NEW q, NEW W, Put(q, W), "ready" \notin W PROVE Filled
    BY <1>8 DEF Put, EnvTypes, DiskTypes
<1>9. ASSUME WalkInv', ReadyMeansInstalled',
             ~overlapped' => (pc[x] \in Installing /\ RuntimeOf[KeyOf(x)] = "python" => Progress(x))'
      PROVE  ReadyInv'
    BY <1>2, <1>4, <1>5, <1>9, ReadyAlone
<1>10. CASE Setup(x)
    <2>1. Filled
        BY <1>8, <1>10 DEF Setup
    <2>2. pc'[x] = "base"
        BY <1>10 DEF Setup, Goto, EnvTypes, ExecTypes
    <2>3. RuntimeOf[k] = "python" => venvPath' = p
        BY <1>10 DEF Setup, PathOfX, k, p
    <2>4. (RuntimeOf[KeyOf(x)] = "python" => Progress(x))'
        BY <1>1, <2>2, <2>3 DEF Progress, k, p
    <2>5. QED
        BY <1>7, <1>9, <2>1, <2>4
<1>11. CASE MakeBase(x)
    <2>1. Filled
        BY <1>8, <1>11 DEF MakeBase
    <2>2. pc[x] = "base" /\ pc'[x] # "mark" /\ venvPath' = venvPath /\ overlapped' = overlapped
        BY <1>11 DEF MakeBase, Goto, EnvTypes, ExecTypes, rtVars, histVars
    <2>3. ASSUME ~overlapped', RuntimeOf[k] = "python" PROVE Progress(x)'
        <3>1. venvPath = p
            BY <1>6, <2>2, <2>3 DEF Progress, Installing, k, p
        <3>2. Put(p, {"dir", "base"})
            BY <1>11, <2>3, <3>1 DEF MakeBase, Interpreter, k
        <3>3. "base" \in dir'[p]
            BY <1>2, <3>2 DEF Put, EnvTypes, DiskTypes
        <3>4. QED
            BY <1>1, <2>2, <3>1, <3>3 DEF Progress, Has, k, p
    <2>4. QED
        BY <1>1, <1>7, <1>9, <2>1, <2>3 DEF k
<1>12. CASE VenvFails(x)
    <2>1. /\ dir' = [dir EXCEPT ![venvPath] = (@ \ Dep) \cup {"dir"}]
          /\ ~Has(venvPath, "base") /\ pc[x] = "base" /\ RuntimeOf[k] = "python"
          /\ overlapped' = overlapped
        BY <1>12 DEF VenvFails, histVars, k
    <2>2. ~overlapped => venvPath = p
        BY <1>6, <2>1 DEF Progress, Installing, k, p
    <2>3. ~overlapped /\ ~Walked(p) => "ready" \notin dir[p]
        BY <1>2, <2>1, <2>2 DEF ReadyInv, ReadyMeansInstalled, Has, k, p
    <2>4. Filled
        BY <2>1, <2>2, <2>3, EnvConstants DEF EnvTypes, DiskTypes
    <2>5. pc'[x] \notin Installing
        BY <1>12 DEF VenvFails, Goto, EnvTypes, ExecTypes, Installing
    <2>6. QED
        BY <1>7, <1>9, <2>4, <2>5
<1>13. CASE Install(x)
    <2>1. Filled
        BY <1>2, <1>8, <1>13, EnvConstants DEF Install, NewPackages, k
    <2>2. pc[x] = "install" /\ venvPath' = venvPath /\ overlapped' = overlapped
        BY <1>13 DEF Install, rtVars, histVars
    <2>3. ASSUME ~overlapped', RuntimeOf[k] = "python" PROVE Progress(x)'
        <3>1. venvPath = p /\ "base" \in dir[p]
            BY <1>6, <2>2, <2>3 DEF Progress, Installing, Has, k, p
        <3>2. Put(p, DepOf[k])
            BY <1>13, <2>3, <3>1 DEF Install, k, p
        <3>3. DepOf[k] \subseteq dir'[p] /\ "base" \in dir'[p]
            BY <1>2, <3>1, <3>2 DEF Put, EnvTypes, DiskTypes
        <3>4. QED
            BY <1>1, <2>2, <3>1, <3>3 DEF Progress, Has, k, p
    <2>4. QED
        BY <1>1, <1>7, <1>9, <2>1, <2>3 DEF k
<1>14. CASE Mark(x)
    <2>1. pc'[x] \notin Installing /\ pc[x] = "mark" /\ overlapped' = overlapped
        BY <1>14 DEF Mark, Goto, EnvTypes, ExecTypes, Installing, histVars
    <2>2. CASE ~Has(p, "dir")
        <3>1. dir' = dir
            BY <1>14, <2>2 DEF Mark, PathOfX, p
        <3>2. Filled
            BY <3>1
        <3>3. QED
            BY <1>7, <1>9, <2>1, <3>2
    <2>3. CASE Has(p, "dir")
        <3>1. dir' = [dir EXCEPT ![p] = @ \cup {"ready"}]
            BY <1>14, <2>3 DEF Mark, PathOfX, Put, p
        <3>2. /\ \A q \in Path : dir[q] \subseteq dir'[q]
              /\ \A q \in Path : q # p /\ "ready" \in dir'[q] => "ready" \in dir[q]
            BY <3>1 DEF EnvTypes, DiskTypes
        <3>3. \A q : Walked(q)' <=> Walked(q)
            BY <1>1 DEF Walked, PathOfW
        <3>4. ASSUME ~overlapped', NEW l \in Key, RuntimeOf[l] = "python", "ready" \in dir'[PathOf[l]],
                     ~Walked(PathOf[l])
              PROVE  {"base"} \cup DepOf[l] \subseteq dir'[PathOf[l]]
            <4>1. dir[PathOf[l]] \subseteq dir'[PathOf[l]] /\ PathOf[l] \in Path
                BY <3>2, EnvConstants
            <4>2. CASE PathOf[l] = p
                <5>1. RuntimeOf[k] = "python" /\ DepOf[k] = DepOf[l]
                    BY <1>2, <3>4, <4>2, EnvConstants DEF k, p
                <5>2. {"base"} \cup DepOf[k] \subseteq dir[p]
                    BY <1>6, <2>1, <3>4, <5>1 DEF Progress, Has, Installing, k, p
                <5>3. QED
                    BY <4>1, <4>2, <5>1, <5>2
            <4>3. CASE PathOf[l] # p
                BY <2>1, <3>2, <3>4, <4>1, <4>3 DEF ReadyInv, ReadyMeansInstalled, Has
            <4>4. QED
                BY <4>2, <4>3
        <3>5. ReadyMeansInstalled'
            BY <3>3, <3>4 DEF ReadyMeansInstalled, Has
        <3>6. ASSUME ~overlapped', NEW w \in walks, "ready" \in dir'[PathOfW(w)] PROVE "ready" \in w.left
            <4>1. PathOfW(w) \in Path /\ PathOfW(w) # p
                BY <1>4, <3>6, WalkPath DEF Walked
            <4>2. QED
                BY <2>1, <3>2, <3>6, <4>1 DEF ReadyInv, WalkInv, Has
        <3>7. WalkInv'
            BY <1>1, <3>6 DEF WalkInv, PathOfW, Has
        <3>8. QED
            BY <1>9, <2>1, <3>5, <3>7
    <2>4. QED
        BY <2>2, <2>3
<1>15. QED
    BY <1>10, <1>11, <1>12, <1>13, <1>14

\* Making the directory of an environment keeps ReadyInv.
LEMMA CreateDirReady ==
    ASSUME EnvTypes, ReadyInv, NEW x \in Exec, CreateDir(x)
    PROVE  ReadyInv'
<1>1. /\ pc[x] = "create" /\ pc' = [pc EXCEPT ![x] = "room"] /\ overlapped' = overlapped
      /\ venvPath' = venvPath /\ walks' = walks /\ jkey' = jkey /\ job' = job
      /\ dir' = [dir EXCEPT ![PathOfX(x)] = @ \cup {"dir"}]
    BY DEF CreateDir, Put, Goto, rtVars, execVars, histVars
<1>2. \A q \in Path : /\ dir[q] \subseteq dir'[q]
                      /\ "ready" \in dir'[q] => "ready" \in dir[q]
    BY <1>1 DEF EnvTypes, DiskTypes
<1>3. WalkInv' /\ ReadyMeansInstalled'
    BY <1>1, <1>2, MarkerKept DEF ReadyInv
<1>4. ASSUME ~overlapped, NEW y \in Exec, pc'[y] \in Installing
      PROVE  /\ \A z \in Exec : pc'[z] \in Installing => z = y
             /\ ~Walked(PathOfX(y))'
             /\ (RuntimeOf[KeyOf(y)] = "python" => Progress(y))'
    <2>1. pc'[y] = pc[y] /\ KeyOf(y)' = KeyOf(y) /\ PathOfX(y)' = PathOfX(y)
        BY <1>1, <1>4 DEF EnvTypes, ExecTypes, Installing, KeyOf, PathOfX
    <2>2. \A z \in Exec : pc'[z] \in Installing => pc[z] \in Installing
        BY <1>1 DEF EnvTypes, ExecTypes, Installing
    <2>3. \A q : Walked(q)' <=> Walked(q)
        BY <1>1 DEF Walked, PathOfW
    <2>4. dir[PathOf[KeyOf(y)]] \subseteq dir'[PathOf[KeyOf(y)]]
        BY <1>2, <1>4, <2>1, HasKey DEF PathOfX, Installing
    <2>5. QED
        BY <1>1, <1>4, <2>1, <2>2, <2>3, <2>4 DEF ReadyInv, InstallInv, Progress, Has
<1>5. QED
    BY <1>1, <1>3, <1>4 DEF ReadyInv, InstallInv

\* Every step keeps ReadyInv.
LEMMA ReadyStep ==
    ASSUME EnvTypes, EnvTypes', ReadyInv, [Next]_vars
    PROVE  ReadyInv'
<1> USE DEF diskVars, fileVars, rtVars, execVars, histVars
<1> DEFINE Quiet ==
        /\ overlapped' = overlapped /\ venvPath' = venvPath /\ dir' = dir /\ walks' = walks
        /\ \A w \in walks : jkey'[w.id] = jkey[w.id]
        /\ \A x \in Exec : Stays(x)
<1>1. Quiet => ReadyInv'
    BY ReadyFrame
<1> USE DEF EnvTypes, DiskTypes, ExecTypes, Installing, Stays
<1>2. ASSUME NEW x \in Exec, NEW k \in Key, Begin(x, k) PROVE Quiet
    <2>1. PICK j \in Job : /\ jkey[j] = None /\ job' = [job EXCEPT ![x] = j]
                           /\ jkey' = [jkey EXCEPT ![j] = k]
        BY <1>2 DEF Begin
    <2>2. \A y \in Exec : pc'[y] \in Installing => pc[y] = pc'[y] /\ y # x
        BY <1>2 DEF Begin, Goto
    <2>3. \A y \in Exec : pc[y] \in Installing => job[y] \in Job /\ jkey[job[y]] \in Key
        BY DEF Named
    <2>4. \A y \in Exec : pc'[y] \in Installing => jkey'[job'[y]] = jkey[job[y]]
        BY <2>1, <2>2, <2>3, EnvConstants
    <2>5. \A w \in walks : jkey'[w.id] = jkey[w.id]
        BY <2>1, WalkPath, EnvConstants
    <2>6. QED
        BY <1>2, <2>2, <2>4, <2>5 DEF Begin
<1>3. ASSUME NEW x \in Exec, Acquire(x) \/ WaitCancelled(x), ~CreateDir(x), ~Purge(x), ~Purged(x),
             ~\E w \in walks : Unlink(w)
      PROVE  Quiet
    BY <1>3 DEF Acquire, WaitCancelled, LockKey, LookMiss, LookPending, LookBroken, LookHit,
        WaitReady, WaitTimeout, CreateFails, CheckRoom, EvictForCount, RecheckCount, EvictForDisk,
        RecheckDisk, RoomForDisk, GiveWay, Insert, Refuse, Return, Goto
<1>4. ASSUME NEW x \in Exec, Use(x), ~Setup(x), ~MakeBase(x), ~VenvFails(x), ~Install(x), ~Mark(x)
      PROVE  Quiet
    BY <1>4 DEF Use, SetupFails, InstallFails, WritePlugin, RunPlugin, RunKilled, ReadOutput,
        Invalidate, Discard, Measure, Release, CloseReadych, Return, Goto
<1>5. ASSUME NEW x \in Exec, Purge(x) PROVE ReadyInv'
    <2>1. job[x] \in Job
        BY <1>5, HasKey DEF Purge
    <2>2. \A y \in Exec : Stays(y)
        BY <1>5 DEF Purge, Goto
    <2>3. BeginWalk("purge", job[x], 0) /\ dir' = dir /\ venvPath' = venvPath /\ jkey' = jkey /\ job' = job
        BY <1>5 DEF Purge
    <2> HIDE DEF Stays, EnvTypes
    <2>4. QED
        BY <2>1, <2>2, <2>3, BeginWalkReady
<1>6. ASSUME NEW x \in Exec, Purged(x) PROVE ReadyInv'
    <2>1. PICK w \in walks : EndWalk(w)
        BY <1>6 DEF Purged
    <2>2. \A y \in Exec : Stays(y)
        BY <1>6 DEF Purged, Goto
    <2>3. overlapped' = overlapped /\ venvPath' = venvPath /\ jkey' = jkey /\ job' = job
        BY <1>6 DEF Purged
    <2> HIDE DEF Stays, EnvTypes
    <2>4. QED
        BY <2>1, <2>2, <2>3, EndWalkReady
<1>7. ASSUME NEW e \in discarded, RemoveDiscarded(e) PROVE ReadyInv'
    <2>1. e \in Job
        BY DEF Env
    <2>2. \A y \in Exec : Stays(y)
        BY <1>7 DEF RemoveDiscarded
    <2>3. BeginWalk("invalid", e, 0) /\ dir' = dir /\ venvPath' = venvPath /\ jkey' = jkey /\ job' = job
        BY <1>7 DEF RemoveDiscarded
    <2> HIDE DEF Stays, EnvTypes
    <2>4. QED
        BY <2>1, <2>2, <2>3, BeginWalkReady
<1>8. ASSUME NEW w \in walks, Removed(w) \/ Cleaned(w) PROVE ReadyInv'
    <2>1. EndWalk(w) /\ overlapped' = overlapped /\ venvPath' = venvPath /\ jkey' = jkey /\ job' = job
        BY <1>8 DEF Removed, Cleaned
    <2>2. \A y \in Exec : Stays(y)
        BY <1>8 DEF Removed, Cleaned
    <2> HIDE DEF Stays, EnvTypes
    <2>3. QED
        BY <2>1, <2>2, EndWalkReady
<1>9. ASSUME NEW e \in Env, Age(e) PROVE Quiet
    BY <1>9 DEF Age
<1>10. ASSUME EvictionTick PROVE Quiet
    BY <1>10 DEF EvictionTick
<1>11. ASSUME NEW c \in cleaners, Clean(c) PROVE ReadyInv'
    <2>1. c.env \in Job
        BY DEF PoolTypes, Env
    <2>2. (\A y \in Exec : Stays(y)) /\ dir' = dir /\ venvPath' = venvPath /\ jkey' = jkey /\ job' = job
        BY <1>11 DEF Clean
    <2>3. CASE state[c.env] = "cleaning"
        <3>1. BeginWalk("evict", c.env, c.size)
            BY <1>11, <2>3 DEF Clean
        <3> HIDE DEF Stays, EnvTypes
        <3>2. QED
            BY <2>1, <2>2, <3>1, BeginWalkReady
    <2>4. CASE state[c.env] # "cleaning"
        <3>1. Quiet
            BY <1>11, <2>2, <2>4 DEF Clean
        <3>2. QED
            BY <1>1, <3>1
    <2>5. QED
        BY <2>3, <2>4
<1>12. ASSUME UNCHANGED vars PROVE Quiet
    BY <1>12 DEF vars
<1> HIDE DEF Quiet, EnvTypes
<1>13. ASSUME NEW x \in Exec, Acquire(x) \/ WaitCancelled(x) \/ Use(x) PROVE ReadyInv'
    BY <1>1, <1>3, <1>4, <1>5, <1>6, <1>13, CreateDirReady, UnlinkReady, InstallerStep
<1>14. QED
    BY <1>1, <1>2, <1>7, <1>8, <1>9, <1>10, <1>11, <1>12, <1>13, UnlinkReady DEF Next

\* The .ready marker of a python environment that is not being removed means
\* that its venv and its dependencies are in its own directory, although
\* venvPath is shared and evictions, purges and invalidations remove
\* directories file by file.  Excepted are the runs in which an execution set
\* up a directory while another one was installing, or a removal and an
\* installation were under way in the same directory at a time.
THEOREM ReadyIsInstalled == Spec => []ReadyMeansInstalled
<1>1. Init => ReadyInv
    <2> SUFFICES ASSUME Init PROVE ReadyInv
        OBVIOUS
    <2>1. InstallInv /\ WalkInv
        BY DEF Init, InstallInv, Installing, WalkInv
    <2>2. \A k \in Key : dir[PathOf[k]] = {}
        BY EnvConstants DEF Init
    <2>3. QED
        BY <2>1, <2>2 DEF ReadyInv, ReadyMeansInstalled, Has
<1>2. EnvTypes /\ ReadyInv /\ [Next]_vars => EnvTypes' /\ ReadyInv'
    BY StepTypes, ReadyStep
<1>3. ReadyInv => ReadyMeansInstalled
    BY DEF ReadyInv
<1>4. QED
    BY <1>1, <1>2, <1>3, InitTypes, PTL DEF Spec
=============================================================================
