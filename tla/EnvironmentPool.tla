-------------------------- MODULE EnvironmentPool --------------------------
(***************************************************************************)
(* The cached runtime environments of the v2 executor                      *)
(* (cmd/agent/runtime/v2/manager.go, python.go, node.go;                   *)
(* cmd/agent/executor/v2/executor.go).                                     *)
(*                                                                         *)
(* Several worker goroutines execute plugin jobs.  Each acquires an        *)
(* environment (an object that stands for a directory), sets it up,        *)
(* installs the dependencies, runs the plugin and releases the             *)
(* environment.  Eviction marks idle environments and removes them in      *)
(* goroutines of their own; invalidation removes a directory in another.   *)
(* An action is one critical section of the pool's mutex, one wait on a    *)
(* lock or channel, or one operation on the disk.  os.RemoveAll is a walk  *)
(* of several steps; an eviction holds the pool's mutex during the whole   *)
(* of it, the others hold nothing.                                         *)
(*                                                                         *)
(* A directory is the set of what matters in it: "dir" (it exists), "base" *)
(* (the venv, or package.json), "ready" (the .ready marker) and the        *)
(* dependencies installed in it, plus its plugin file and output.json.     *)
(* The executor builds its pool without remote cache and health check, so  *)
(* those are left out, and so are use counts, metrics and the payload.     *)
(***************************************************************************)
EXTENDS Integers, FiniteSets

CONSTANTS
    Exec,             \* worker goroutines that may execute v2 jobs
    Key,              \* environment keys: org:runtime:version:os:hash
    Path,             \* directories
    Dep,              \* names of dependencies
    PathOf,           \* directory of a key: org, runtime and 16 digits of the hash
    IdOf,             \* the ID of a key's environments: 16 digits of the hash
    RuntimeOf,        \* "python" or "node"
    DepOf,            \* the dependencies of a key
    None,             \* no key, no path, nobody
    Limits,           \* configurations: maxEnvironments, and maxDiskBytes in directories
    MaxJobs           \* bound on the number of jobs executed

\* The hash is one of the runtime and the dependencies, so that keys that share
\* a directory agree on both, as long as 16 digits of it do not collide.
ASSUME EnvAssumption ==
    /\ IsFiniteSet(Exec)
    /\ PathOf \in [Key -> Path]
    /\ RuntimeOf \in [Key -> {"python", "node"}]
    /\ DepOf \in [Key -> SUBSET Dep]
    /\ \A k, l \in Key : PathOf[k] = PathOf[l] =>
          IdOf[k] = IdOf[l] /\ RuntimeOf[k] = RuntimeOf[l] /\ DepOf[k] = DepOf[l]
    /\ Limits \subseteq [maxEnvironments : Nat \ {0}, maxDiskBytes : Nat \ {0}]
    /\ MaxJobs \in Nat
    /\ None \notin Exec \cup Key \cup Path
    /\ Dep \cap {"dir", "base", "ready", "plugin", "output"} = {}

\* An environment object is named after the job that created it; 0: none.
Job == 1 .. MaxJobs
Env == Job

VARIABLES
    limits,        \* the configuration, read when the pool is made
    environments,  \* the pool's map: key -> environment, 0 when absent
    state,         \* State of an environment
    old,           \* LastUsed is more than warmTimeout ago
    readych,       \* is the environment's readych closed?
    envLocks,      \* holder of each key's lock
    currentDiskBytes,
    cleaners,      \* eviction goroutines that have not run yet
    discarded,     \* environments whose removal by InvalidateEnvironment has not begun
    walks,         \* calls of os.RemoveAll under way
    dir,           \* contents of each directory
    plugin,        \* the job whose code the plugin file of a directory holds
    output,        \* output.json of each directory
    venvPath,      \* PythonRuntime.venvPath, shared by all executions
    packages,      \* NodeRuntime.packages, shared by all executions
    pc,            \* where each execution is
    job,           \* its job
    env,           \* the environment it holds or waits for
    result,        \* the output it reports
    size,          \* the size it measured before a release
    jkey,          \* history: the key of each job started
    overlapped     \* history: see Disturbs and DisturbsIn

poolVars == <<environments, state, old, readych, currentDiskBytes, cleaners>>
diskVars == <<dir, plugin, output, discarded, walks>>
fileVars == <<dir, plugin, output>>
rtVars   == <<venvPath, packages>>
execVars == <<job, env, result, size, jkey>>
histVars == <<overlapped, limits>>
vars     == <<poolVars, diskVars, rtVars, execVars, envLocks, pc, histVars>>

Output   == [job : 0 .. MaxJobs, ok : BOOLEAN]
NoOutput == [job |-> 0, ok |-> FALSE]

Acquiring  == {"lock", "look", "wait", "relock", "purge", "purging", "create", "room",
               "evictForCount", "recheckCount", "evictForDisk", "recheckDisk"}
Installing == {"base", "install", "mark"}
Using      == {"setup"} \cup Installing \cup
              {"write", "exec", "read", "invalid", "invalidRun", "discard", "discardRun",
               "measure", "release"}

\* What a walk of a directory may find in it.
Names == {"base", "ready", "plugin", "output"} \cup Dep

\* A walk removes the directory of job id's key, for the execution of that job
\* ("purge"), by its eviction, or by its invalidation; left are the names it
\* has read and not yet unlinked.
Walk == [kind : {"purge", "evict", "invalid"}, id : Job, size : {0, 1}, left : SUBSET Names]

EnvTypeOK ==
    /\ environments \in [Key -> {0} \cup Env]
    /\ state \in [Env -> {"pending", "ready", "warm", "active", "invalid", "cleaning"}]
    /\ old \in [Env -> BOOLEAN]
    /\ readych \in [Env -> BOOLEAN]
    /\ envLocks \in [Key -> Exec \cup {None}]
    /\ currentDiskBytes \in 0 .. MaxJobs
    /\ cleaners \subseteq [env : Env, size : {0, 1}]
    /\ discarded \subseteq Env
    /\ walks \subseteq Walk
    /\ dir \in [Path -> SUBSET ({"dir", "base", "ready"} \cup Dep)]
    /\ plugin \in [Path -> {0} \cup Job]
    /\ output \in [Path -> Output]
    /\ venvPath \in Path \cup {None}
    /\ packages \subseteq Dep
    /\ pc \in [Exec -> {"idle", "close"} \cup Acquiring \cup Using]
    /\ job \in [Exec -> {0} \cup Job]
    /\ env \in [Exec -> {0} \cup Env]
    /\ result \in [Exec -> Output]
    /\ size \in [Exec -> {0, 1}]
    /\ jkey \in [Job -> Key \cup {None}]
    /\ overlapped \in BOOLEAN
    /\ limits \in Limits
    /\ \A x \in Exec : /\ pc[x] # "idle" => job[x] \in Job /\ jkey[job[x]] \in Key
                       /\ pc[x] \in Using => env[x] \in Env /\ jkey[env[x]] \in Key

Init ==
    /\ environments = [k \in Key |-> 0]
    /\ state = [e \in Env |-> "pending"]
    /\ old = [e \in Env |-> FALSE]
    /\ readych = [e \in Env |-> FALSE]
    /\ envLocks = [k \in Key |-> None]
    /\ currentDiskBytes = 0
    /\ cleaners = {}
    /\ discarded = {}
    /\ walks = {}
    /\ dir = [p \in Path |-> {}]
    /\ plugin = [p \in Path |-> 0]
    /\ output = [p \in Path |-> NoOutput]
    /\ venvPath = None
    /\ packages = {}
    /\ pc = [x \in Exec |-> "idle"]
    /\ job = [x \in Exec |-> 0]
    /\ env = [x \in Exec |-> 0]
    /\ result = [x \in Exec |-> NoOutput]
    /\ size = [x \in Exec |-> 0]
    /\ jkey = [j \in Job |-> None]
    /\ overlapped = FALSE
    /\ limits \in Limits

-----------------------------------------------------------------------------
(* State formulae.                                                         *)

KeyOf(x)   == jkey[job[x]]
PathOfX(x) == PathOf[KeyOf(x)]
Entries    == {k \in Key : environments[k] # 0}

\* calculateDirSize: directories themselves do not count.
DirSize(p) == IF dir[p] \subseteq {"dir"} /\ plugin[p] = 0 /\ output[p] = NoOutput THEN 0 ELSE 1

Has(p, what) == what \in dir[p]

\* isValidForRuntime
IsValid(k) ==
    LET p == PathOf[k] IN
    /\ Has(p, "ready")
    /\ Has(p, "base")
    /\ RuntimeOf[k] = "node" => dir[p] \cap Dep # {}

\* The interpreter a run or a pip install starts: python's comes from the
\* venv of the directory that was set up last, whoever did it; node is on PATH.
Interpreter(k) == IF RuntimeOf[k] = "python" THEN venvPath ELSE PathOf[k]

\* The directory of a walk, and whether one is under way in p.
PathOfW(w) == PathOf[jkey[w.id]]
Walked(p)  == \E w \in walks : PathOfW(w) = p

\* The pool's mutex is free but for an eviction that removes a directory.
MuFree == \A w \in walks : w.kind # "evict"

\* x sets up a directory while another execution installs, or while the
\* directory is being removed; a removal begins in p while x installs there.
Disturbs(x)   == (\E y \in Exec \ {x} : pc[y] \in Installing) \/ Walked(PathOfX(x))
DisturbsIn(p) == \E y \in Exec : pc[y] \in Installing /\ PathOfX(y) = p

Goto(x, label) == pc' = [pc EXCEPT ![x] = label]

\* The execution returns its result, or an error; its variables go.
Return(x) ==
    /\ Goto(x, "idle")
    /\ job' = [job EXCEPT ![x] = 0]
    /\ env' = [env EXCEPT ![x] = 0]
    /\ result' = [result EXCEPT ![x] = NoOutput]
    /\ size' = [size EXCEPT ![x] = 0]
    /\ UNCHANGED jkey

-----------------------------------------------------------------------------
(* os.RemoveAll: a walk of a directory, beside whatever else is done in it *)

Contents(p) == (dir[p] \ {"dir"}) \cup {n \in {"plugin"} : plugin[p] # 0}
                                \cup {n \in {"output"} : output[p] # NoOutput}

\* The names in the directory are read.
BeginWalk(kind, id, sz) ==
    LET p == PathOf[jkey[id]] IN
    /\ walks' = walks \cup {[kind |-> kind, id |-> id, size |-> sz, left |-> Contents(p)]}
    /\ overlapped' = (overlapped \/ DisturbsIn(p))

\* One name is unlinked: one that was read, or one made since.
Unlink(w) ==
    LET p == PathOfW(w) IN
    /\ \E n \in w.left \cup Contents(p) :
          /\ walks' = (walks \ {w}) \cup {[w EXCEPT !.left = @ \ {n}]}
          /\ dir' = [dir EXCEPT ![p] = @ \ {n}]
          /\ plugin' = [plugin EXCEPT ![p] = IF n = "plugin" THEN 0 ELSE @]
          /\ output' = [output EXCEPT ![p] = IF n = "output" THEN NoOutput ELSE @]
    /\ UNCHANGED <<poolVars, discarded, rtVars, execVars, envLocks, pc, histVars>>

\* Every name that was read is gone: the directory is removed, unless something
\* was made in it meanwhile, which is an error that nobody acts on.
EndWalk(w) ==
    LET p == PathOfW(w) IN
    /\ w.left = {}
    /\ walks' = walks \ {w}
    /\ dir' = [dir EXCEPT ![p] = IF Contents(p) = {} THEN {} ELSE @]
    /\ UNCHANGED <<plugin, output, discarded>>

Put(p, what) == dir' = [dir EXCEPT ![p] = @ \cup what]

Unlock(x) == envLocks' = [envLocks EXCEPT ![KeyOf(x)] = None]

-----------------------------------------------------------------------------
(* AcquireEnvironment                                                      *)

\* ExecuteJob, executeRuntime and ExecuteWithMetrics up to the acquisition.
\* A job that fails its checks or whose work directory cannot be made ends
\* without touching anything that is modelled here.
Begin(x, k) ==
    /\ pc[x] = "idle"
    /\ \E j \in Job :
          /\ jkey[j] = None
          /\ \A i \in Job : i < j => jkey[i] # None
          /\ job' = [job EXCEPT ![x] = j]
          /\ jkey' = [jkey EXCEPT ![j] = k]
    /\ Goto(x, "lock")
    /\ UNCHANGED <<poolVars, diskVars, rtVars, env, result, size, envLocks, histVars>>

\* lock.Lock(): the first time, after the wait, and after its timeout.
LockKey(x) ==
    /\ pc[x] \in {"lock", "relock"}
    /\ envLocks[KeyOf(x)] = None
    /\ envLocks' = [envLocks EXCEPT ![KeyOf(x)] = x]
    /\ Goto(x, IF pc[x] = "lock" THEN "look" ELSE "create")
    /\ UNCHANGED <<poolVars, diskVars, rtVars, execVars, histVars>>

\* No entry, or one that is active, invalid or being cleaned.
LookMiss(x) ==
    LET e == environments[KeyOf(x)] IN
    /\ pc[x] = "look" /\ MuFree
    /\ e # 0 => state[e] \in {"active", "invalid", "cleaning"}
    /\ Goto(x, "create")
    /\ UNCHANGED <<poolVars, diskVars, rtVars, execVars, envLocks, histVars>>

\* A pending entry: wait for its readych without the lock.
LookPending(x) ==
    LET e == environments[KeyOf(x)] IN
    /\ pc[x] = "look" /\ MuFree
    /\ e # 0
    /\ state[e] = "pending"
    /\ env' = [env EXCEPT ![x] = e]
    /\ Unlock(x)
    /\ Goto(x, "wait")
    /\ UNCHANGED <<poolVars, diskVars, rtVars, job, result, size, jkey, histVars>>

\* An idle entry whose directory is not valid: drop it, remove the directory.
LookBroken(x) ==
    LET e == environments[KeyOf(x)] IN
    /\ pc[x] = "look" /\ MuFree
    /\ e # 0
    /\ state[e] \in {"ready", "warm"}
    /\ ~IsValid(KeyOf(x))
    /\ environments' = [environments EXCEPT ![KeyOf(x)] = 0]
    /\ Goto(x, "purge")
    /\ UNCHANGED <<state, old, readych, currentDiskBytes, cleaners, diskVars, rtVars,
                   execVars, envLocks, histVars>>

Purge(x) ==
    /\ pc[x] = "purge"
    /\ BeginWalk("purge", job[x], 0)
    /\ Goto(x, "purging")
    /\ UNCHANGED <<poolVars, fileVars, discarded, rtVars, execVars, envLocks, limits>>

Purged(x) ==
    /\ pc[x] = "purging"
    /\ \E w \in walks : w.kind = "purge" /\ w.id = job[x] /\ EndWalk(w)
    /\ Goto(x, "create")
    /\ UNCHANGED <<poolVars, rtVars, execVars, envLocks, histVars>>

\* Faulty variant: the hit does not mark the environment as taken.
LookHitUnmarked(x) ==
    LET e == environments[KeyOf(x)] IN
    /\ pc[x] = "look" /\ MuFree
    /\ e # 0
    /\ state[e] \in {"ready", "warm"}
    /\ IsValid(KeyOf(x))
    /\ old' = [old EXCEPT ![e] = FALSE]
    /\ env' = [env EXCEPT ![x] = e]
    /\ Unlock(x)
    /\ Goto(x, "setup")
    /\ UNCHANGED <<environments, state, readych, currentDiskBytes, cleaners, diskVars, rtVars,
                   job, result, size, jkey, histVars>>

\* A cache hit.
LookHit(x) ==
    LET e == environments[KeyOf(x)] IN
    /\ pc[x] = "look" /\ MuFree
    /\ e # 0
    /\ state[e] \in {"ready", "warm"}
    /\ IsValid(KeyOf(x))
    /\ state' = [state EXCEPT ![e] = "active"]
    /\ old' = [old EXCEPT ![e] = FALSE]
    /\ env' = [env EXCEPT ![x] = e]
    /\ Unlock(x)
    /\ Goto(x, "setup")
    /\ UNCHANGED <<environments, readych, currentDiskBytes, cleaners, diskVars, rtVars,
                   job, result, size, jkey, histVars>>

\* The wait ends because the environment was released, ...
WaitReady(x) ==
    /\ pc[x] = "wait"
    /\ readych[env[x]]
    /\ Goto(x, "lock")
    /\ UNCHANGED <<poolVars, diskVars, rtVars, execVars, envLocks, histVars>>

\* ... because 120 s have passed, ...
WaitTimeout(x) ==
    /\ pc[x] = "wait"
    /\ Goto(x, "relock")
    /\ UNCHANGED <<poolVars, diskVars, rtVars, execVars, envLocks, histVars>>

\* ... or because the job's context is done.
WaitCancelled(x) ==
    /\ pc[x] = "wait"
    /\ Return(x)
    /\ UNCHANGED <<poolVars, diskVars, rtVars, envLocks, histVars>>

\* createNew: make the directory.
CreateDir(x) ==
    /\ pc[x] = "create"
    /\ Put(PathOfX(x), {"dir"})
    /\ Goto(x, "room")
    /\ UNCHANGED <<poolVars, plugin, output, discarded, walks, rtVars, execVars, envLocks, histVars>>

\* Faulty variant: an error return that keeps the lock.
RefuseLocked(x) ==
    /\ Return(x)
    /\ UNCHANGED <<poolVars, diskVars, rtVars, envLocks, histVars>>

\* An error return, with the lock released by the deferred function.
Refuse(x) ==
    /\ Unlock(x)
    /\ Return(x)
    /\ UNCHANGED <<poolVars, diskVars, rtVars, histVars>>

CreateFails(x) == pc[x] = "create" /\ Refuse(x)

\* runEviction: idle environments that are old are marked, and a goroutine is
\* started for each.
Evictable == {e \in Env : /\ \E k \in Key : environments[k] = e
                          /\ state[e] \in {"ready", "warm"}
                          /\ old[e]}

RunEviction ==
    /\ state' = [e \in Env |-> IF e \in Evictable THEN "cleaning" ELSE state[e]]
    /\ cleaners' = cleaners \cup
                   {[env |-> e, size |-> DirSize(PathOf[jkey[e]])] : e \in Evictable}
    /\ UNCHANGED <<environments, old, readych, currentDiskBytes>>

Full     == Cardinality(Entries) >= limits.maxEnvironments
DiskFull == currentDiskBytes >= limits.maxDiskBytes

\* The entry is made, the lock released, the environment returned.
Insert(x) ==
    /\ environments' = [environments EXCEPT ![KeyOf(x)] = job[x]]
    /\ state' = [state EXCEPT ![job[x]] = "pending"]
    /\ env' = [env EXCEPT ![x] = job[x]]
    /\ Unlock(x)
    /\ Goto(x, "setup")
    /\ UNCHANGED <<old, readych, currentDiskBytes, cleaners, diskVars, rtVars, job, result,
                   size, jkey, histVars>>

\* The pool's mutex is given up for each eviction.
GiveWay(x, label) ==
    /\ Goto(x, label)
    /\ UNCHANGED <<poolVars, diskVars, rtVars, execVars, envLocks, histVars>>

RoomForDisk(x) == IF DiskFull THEN GiveWay(x, "evictForDisk") ELSE Insert(x)

CheckRoom(x) ==
    /\ pc[x] = "room" /\ MuFree
    /\ IF Full THEN GiveWay(x, "evictForCount") ELSE RoomForDisk(x)

EvictForCount(x) ==
    /\ pc[x] = "evictForCount" /\ MuFree
    /\ RunEviction
    /\ Goto(x, "recheckCount")
    /\ UNCHANGED <<diskVars, rtVars, execVars, envLocks, histVars>>

\* Faulty variant: the count is not looked at again after the eviction.
RecheckCountSkipped(x) == pc[x] = "recheckCount" /\ MuFree /\ RoomForDisk(x)

RecheckCount(x) ==
    /\ pc[x] = "recheckCount" /\ MuFree
    /\ IF Full THEN Refuse(x) ELSE RoomForDisk(x)

EvictForDisk(x) ==
    /\ pc[x] = "evictForDisk" /\ MuFree
    /\ RunEviction
    /\ Goto(x, "recheckDisk")
    /\ UNCHANGED <<diskVars, rtVars, execVars, envLocks, histVars>>

\* Faulty variant: no error is returned with the missing environment.
RecheckDiskNoError(x) ==
    /\ pc[x] = "recheckDisk" /\ MuFree
    /\ DiskFull
    /\ Unlock(x)
    /\ Goto(x, "setup")
    /\ UNCHANGED <<poolVars, diskVars, rtVars, execVars, histVars>>

RecheckDisk(x) ==
    /\ pc[x] = "recheckDisk" /\ MuFree
    /\ IF DiskFull THEN Refuse(x) ELSE Insert(x)

-----------------------------------------------------------------------------
(* ExecuteWithMetrics with an environment                                  *)

\* Setup makes the directory and, for python, points the shared venvPath at it.
Setup(x) ==
    /\ pc[x] = "setup"
    /\ Put(PathOfX(x), {"dir"})
    /\ venvPath' = IF RuntimeOf[KeyOf(x)] = "python" THEN PathOfX(x) ELSE venvPath
    /\ overlapped' = (overlapped \/ Disturbs(x))
    /\ Goto(x, "base")
    /\ UNCHANGED <<poolVars, plugin, output, discarded, walks, packages, execVars, envLocks, limits>>

\* initPackage, unlike createVirtualEnv, does not make the directory.
CanMakeBase(k) == RuntimeOf[k] = "node" => Has(PathOf[k], "dir")

\* The interpreter is missing, or the directory cannot be made.
SetupFails(x) ==
    /\ pc[x] \in {"setup", "base"}
    /\ Goto(x, "invalid")
    /\ UNCHANGED <<poolVars, diskVars, rtVars, execVars, envLocks, histVars>>

\* venv creation fails; what was made of it is removed.
VenvFails(x) ==
    /\ pc[x] = "base"
    /\ RuntimeOf[KeyOf(x)] = "python"
    /\ ~Has(venvPath, "base")
    /\ dir' = [dir EXCEPT ![venvPath] = (@ \ Dep) \cup {"dir"}]
    /\ Goto(x, "invalid")
    /\ UNCHANGED <<poolVars, plugin, output, discarded, walks, rtVars, execVars, envLocks, histVars>>

\* createVirtualEnv or initPackage; then InstallDeps if the job has dependencies.
MakeBase(x) ==
    LET p == Interpreter(KeyOf(x)) IN
    /\ pc[x] = "base"
    /\ CanMakeBase(KeyOf(x))
    /\ Put(p, {"dir", "base"})
    /\ Goto(x, IF DepOf[KeyOf(x)] = {} THEN "write" ELSE "install")
    /\ UNCHANGED <<poolVars, plugin, output, discarded, walks, rtVars, execVars, envLocks, histVars>>

\* What npm is asked to install: only what no environment has had before.
NewPackages(k) == DepOf[k] \ packages

CanInstall(k) ==
    IF RuntimeOf[k] = "python" THEN Has(venvPath, "base") /\ Has(PathOf[k], "dir")
    ELSE NewPackages(k) # {} => Has(PathOf[k], "dir")

\* pip installs into the venv of the shared venvPath, npm into the directory of
\* the job.
Install(x) ==
    LET k == KeyOf(x) IN
    /\ pc[x] = "install"
    /\ CanInstall(k)
    /\ IF RuntimeOf[k] = "python"
       THEN Put(venvPath, DepOf[k]) /\ UNCHANGED packages
       ELSE Put(PathOf[k], NewPackages(k)) /\ packages' = packages \cup DepOf[k]
    /\ Goto(x, "mark")
    /\ UNCHANGED <<poolVars, plugin, output, discarded, walks, venvPath, execVars, envLocks, histVars>>

\* Faulty variant: the marker is written although the retries were used up.
InstallFailsReady(x) ==
    /\ pc[x] = "install"
    /\ Goto(x, "mark")
    /\ UNCHANGED <<poolVars, diskVars, rtVars, execVars, envLocks, histVars>>

\* Three attempts have failed, or the context is done.
InstallFails(x) ==
    /\ pc[x] = "install"
    /\ RuntimeOf[KeyOf(x)] = "node" => NewPackages(KeyOf(x)) # {}
    /\ Goto(x, "invalid")
    /\ UNCHANGED <<poolVars, diskVars, rtVars, execVars, envLocks, histVars>>

\* The .ready marker.
Mark(x) ==
    /\ pc[x] = "mark"
    /\ IF Has(PathOfX(x), "dir")
       THEN Put(PathOfX(x), {"ready"}) /\ Goto(x, "write")
       ELSE UNCHANGED dir /\ Goto(x, "invalid")
    /\ UNCHANGED <<poolVars, plugin, output, discarded, walks, rtVars, execVars, envLocks, histVars>>

\* Run writes the plugin, its input and the runner ...
WritePlugin(x) ==
    LET p == PathOfX(x) IN
    /\ pc[x] = "write"
    /\ IF Has(p, "dir")
       THEN plugin' = [plugin EXCEPT ![p] = job[x]] /\ Goto(x, "exec")
       ELSE UNCHANGED plugin /\ Goto(x, "invalidRun")
    /\ UNCHANGED <<poolVars, dir, output, discarded, walks, rtVars, execVars, envLocks, histVars>>

CanRun(k) ==
    /\ Has(PathOf[k], "dir")
    /\ plugin[PathOf[k]] # 0
    /\ Has(Interpreter(k), "base") \/ RuntimeOf[k] = "node"

\* ... and starts the interpreter in the directory: it runs the plugin file it
\* finds there, which succeeds or fails and writes output.json; ...
RunPlugin(x) ==
    LET p == PathOfX(x) IN
    /\ pc[x] = "exec"
    /\ CanRun(KeyOf(x))
    /\ \E ok \in BOOLEAN : output' = [output EXCEPT ![p] = [job |-> plugin[p], ok |-> ok]]
    /\ Goto(x, "read")
    /\ UNCHANGED <<poolVars, dir, plugin, discarded, walks, rtVars, execVars, envLocks, histVars>>

\* ... or it does not start, or is killed before it writes anything.
RunKilled(x) ==
    /\ pc[x] = "exec"
    /\ Goto(x, "read")
    /\ UNCHANGED <<poolVars, diskVars, rtVars, execVars, envLocks, histVars>>

\* In either case output.json is the result if there is one.  Without one the
\* run is an error and the environment is invalidated.
ReadOutput(x) ==
    LET out == output[PathOfX(x)] IN
    /\ pc[x] = "read"
    /\ result' = [result EXCEPT ![x] = out]
    /\ Goto(x, IF out = NoOutput THEN "invalidRun" ELSE "measure")
    /\ UNCHANGED <<poolVars, diskVars, rtVars, job, env, size, jkey, envLocks, histVars>>

-----------------------------------------------------------------------------
(* InvalidateEnvironment, ReleaseEnvironment, eviction                     *)

\* Under the environment's own mutex, before the pool's is taken.
Invalidate(x) ==
    /\ pc[x] \in {"invalid", "invalidRun"}
    /\ state' = [state EXCEPT ![env[x]] = "invalid"]
    /\ Goto(x, IF pc[x] = "invalid" THEN "discard" ELSE "discardRun")
    /\ UNCHANGED <<environments, old, readych, currentDiskBytes, cleaners, diskVars, rtVars,
                   execVars, envLocks, histVars>>

\* Every entry with this ID goes, whoever uses it, and a goroutine is started
\* to remove the directory.  A failed setup or installation ends the execution
\* here, without closing readych; a failed run goes on to the release.
Discard(x) ==
    LET k == jkey[env[x]] IN
    /\ pc[x] \in {"discard", "discardRun"} /\ MuFree
    /\ environments' = [l \in Key |-> IF environments[l] # 0 /\ IdOf[l] = IdOf[k] THEN 0
                                      ELSE environments[l]]
    /\ discarded' = discarded \cup {env[x]}
    /\ IF pc[x] = "discard" THEN Return(x) ELSE Goto(x, "measure") /\ UNCHANGED execVars
    /\ UNCHANGED <<state, old, readych, currentDiskBytes, cleaners, fileVars, walks, rtVars,
                   envLocks, histVars>>

\* The goroutine of InvalidateEnvironment.
RemoveDiscarded(e) ==
    /\ discarded' = discarded \ {e}
    /\ BeginWalk("invalid", e, 0)
    /\ UNCHANGED <<poolVars, fileVars, rtVars, execVars, envLocks, pc, limits>>

Removed(w) ==
    /\ w.kind = "invalid"
    /\ EndWalk(w)
    /\ UNCHANGED <<poolVars, rtVars, execVars, envLocks, pc, histVars>>

\* ReleaseEnvironment measures the directory before it takes the mutex.
Measure(x) ==
    /\ pc[x] = "measure"
    /\ size' = [size EXCEPT ![x] = DirSize(PathOf[jkey[env[x]]])]
    /\ Goto(x, "release")
    /\ UNCHANGED <<poolVars, diskVars, rtVars, job, env, result, jkey, envLocks, histVars>>

Release(x) ==
    LET e == env[x] IN
    /\ pc[x] = "release" /\ MuFree
    /\ IF state[e] = "cleaning"
       THEN UNCHANGED <<state, old, currentDiskBytes>>
       ELSE /\ state' = [state EXCEPT ![e] = IF result[x].ok /\ ~old[e] THEN "warm" ELSE "ready"]
            /\ old' = [old EXCEPT ![e] = FALSE]
            /\ currentDiskBytes' = currentDiskBytes + size[x]
    /\ Goto(x, "close")
    /\ UNCHANGED <<environments, readych, cleaners, diskVars, rtVars, execVars, envLocks,
                   histVars>>

\* closeReadychOnce; then the result is returned.  No error is classified as
\* retryable, so executeRuntimeWithRetry returns after this one attempt.
CloseReadych(x) ==
    /\ pc[x] = "close"
    /\ readych' = [readych EXCEPT ![env[x]] = TRUE]
    /\ Return(x)
    /\ UNCHANGED <<environments, state, old, currentDiskBytes, cleaners, diskVars, rtVars,
                   envLocks, histVars>>

\* Time passes: an environment of the pool has not been used for warmTimeout.
Age(e) ==
    /\ \E k \in Key : environments[k] = e
    /\ ~old[e]
    /\ old' = [old EXCEPT ![e] = TRUE]
    /\ UNCHANGED <<environments, state, readych, currentDiskBytes, cleaners, diskVars, rtVars,
                   execVars, envLocks, pc, histVars>>

\* evictionLoop
EvictionTick ==
    /\ Evictable # {} /\ MuFree
    /\ RunEviction
    /\ UNCHANGED <<diskVars, rtVars, execVars, envLocks, pc, histVars>>

\* An eviction goroutine: under the pool's mutex it removes the directory, then
\* it deletes the key's entry, also a newer one, and corrects the disk account.
Clean(c) ==
    /\ MuFree
    /\ cleaners' = cleaners \ {c}
    /\ IF state[c.env] = "cleaning" THEN BeginWalk("evict", c.env, c.size)
       ELSE UNCHANGED <<walks, overlapped>>
    /\ UNCHANGED <<environments, state, old, readych, currentDiskBytes, fileVars, discarded,
                   rtVars, execVars, envLocks, pc, limits>>

Cleaned(w) ==
    /\ w.kind = "evict"
    /\ EndWalk(w)
    /\ environments' = [environments EXCEPT ![jkey[w.id]] = 0]
    /\ currentDiskBytes' = IF currentDiskBytes < w.size THEN 0 ELSE currentDiskBytes - w.size
    /\ UNCHANGED <<state, old, readych, cleaners, rtVars, execVars, envLocks, pc, histVars>>

-----------------------------------------------------------------------------
\* The steps of AcquireEnvironment, without the cancellation.
Acquire(x) ==
    \/ LockKey(x)
    \/ LookMiss(x) \/ LookPending(x) \/ LookBroken(x) \/ LookHit(x)
    \/ Purge(x) \/ Purged(x)
    \/ \E w \in walks : w.kind = "purge" /\ w.id = job[x] /\ Unlink(w)
    \/ WaitReady(x) \/ WaitTimeout(x)
    \/ CreateDir(x) \/ CreateFails(x)
    \/ CheckRoom(x) \/ EvictForCount(x) \/ RecheckCount(x)
    \/ EvictForDisk(x) \/ RecheckDisk(x)

Use(x) ==
    \/ Setup(x) \/ SetupFails(x) \/ MakeBase(x) \/ VenvFails(x)
    \/ Install(x) \/ InstallFails(x) \/ Mark(x)
    \/ WritePlugin(x) \/ RunPlugin(x) \/ RunKilled(x) \/ ReadOutput(x)
    \/ Invalidate(x) \/ Discard(x)
    \/ Measure(x) \/ Release(x) \/ CloseReadych(x)

Next ==
    \/ \E x \in Exec : \/ \E k \in Key : Begin(x, k)
                       \/ Acquire(x)
                       \/ WaitCancelled(x)
                       \/ Use(x)
    \/ \E e \in discarded : RemoveDiscarded(e)
    \/ \E w \in walks : Unlink(w) \/ Removed(w) \/ Cleaned(w)
    \/ \E e \in Env : Age(e)
    \/ EvictionTick
    \/ \E c \in cleaners : Clean(c)

\* An eviction that holds the pool's mutex.
Evict == \E w \in walks : w.kind = "evict" /\ (Unlink(w) \/ Cleaned(w))

\* A goroutine in AcquireEnvironment goes on, time.After fires, and an eviction
\* that holds the mutex comes to an end, since its system calls return.  Nothing
\* is assumed of plugins, contexts or the other walks.
Spec == Init /\ [][Next]_vars /\ WF_vars(Evict) /\ \A x \in Exec : WF_vars(Acquire(x))

-----------------------------------------------------------------------------
(* Properties                                                              *)

\* AcquireEnvironment never hands the same CachedEnvironment to two
\* executions at a time, whatever is evicted, invalidated or waited for, and
\* eviction never takes the environment of an execution that has not released
\* it (State is written under two mutexes, in six places).
ExclusiveObject ==
    \A x \in Exec :
       pc[x] \in Using =>
          /\ state[env[x]] \in {"pending", "active", "invalid"}
          /\ \A y \in Exec \ {x} : pc[y] \in Using => env[y] # env[x]

\* The pool outgrows maxEnvironments only by an insertion that gave up the
\* mutex to make room on the disk and did not look at the count again.
LimitOnlyRaced ==
    [][Cardinality(Entries') > limits.maxEnvironments /\ Entries' # Entries
        => \/ Entries' \subseteq Entries
           \/ \E x \in Exec : pc[x] = "recheckDisk" /\ pc'[x] = "setup"]_vars

\* As long as no execution set up a directory while another one was installing
\* or while that directory was being removed, and no removal began in a
\* directory in which one was installing, the .ready marker of a python
\* environment that is not being removed means that its venv and its
\* dependencies are in its own directory: whatever fails, is evicted, purged or
\* invalidated file by file around the installation, and although venvPath is
\* shared.  A removal beside the installer is the excepted case: it can leave
\* the marker over a venv of which part is gone.
ReadyMeansInstalled ==
    ~overlapped =>
       \A k \in Key : /\ RuntimeOf[k] = "python" /\ Has(PathOf[k], "ready")
                      /\ ~Walked(PathOf[k])
                      => {"base"} \cup DepOf[k] \subseteq dir[PathOf[k]]

\* AcquireEnvironment returns: no lock of a key is left behind, and nobody
\* waits for ever for an environment whose setup has failed.
AcquireEnds ==
    \A x \in Exec : pc[x] \in Acquiring ~> pc[x] \notin Acquiring

\* The output an execution reports is the one its own plugin wrote.
ReportsOwnOutput ==
    \A x \in Exec : pc[x] = "close" /\ result[x].ok => result[x].job = job[x]
=============================================================================
