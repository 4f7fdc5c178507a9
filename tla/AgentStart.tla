------------------------------ MODULE AgentStart ------------------------------
(***************************************************************************)
(* The start of the agent (cmd/main.go) over its plugin directory: which   *)
(* device it is (internal/auth), whether the control plane accepts it,     *)
(* what it fetches (internal/bootstrap, internal/startup, internal/plugin, *)
(* internal/storage) and what is fatal.  The service manager starts it     *)
(* again whenever it has ended.                                            *)
(*                                                                         *)
(* A device is claimed with a token.  The id goes to identity.json and the *)
(* token to the keyring or a file of its own, in two steps that a crash    *)
(* can part.  Tokens are numbered in the order of issue, 0 is none.        *)
(***************************************************************************)
EXTENDS PluginStore, Sequences

CONSTANTS
    MaxDevice,      \* device ids the control plane gives out
    Stops           \* bound on orderly restarts

ASSUME StartAssumption == MaxDevice \in Nat \ {0} /\ Stops \in Nat

VARIABLES
    pc,         \* where main() is
    mem,        \* id and token in memory
    idFile,     \* id in identity.json, 0 if it is missing or does not parse
    keyring,    \* is SENTRA_USE_KEYRING set?
    ring,       \* tokens in the keyring
    file,       \* tokens in files
    owner,      \* control plane: the device of each token it issued
    valid,      \* control plane: the tokens it accepts
    redis,      \* is redis_cache.json written?
    storage,    \* storage mode: none | configured | fallback
    stops       \* orderly restarts so far

identity == <<idFile, ring, file>>
server == <<owner, valid>>
startVars == <<pc, mem, identity, keyring, server, redis, storage, stops>>
vars == <<pluginVars, startVars>>

Devices == 1..MaxDevice
Nobody == [dev |-> 0, tok |-> 0]
Fetching == {"validate", "sync", "syncing", "verify", "storage", "reconcile", "ready"}
Labels == {"down", "heartbeat", "clear", "claim", "saveId", "saveToken", "redis", "keys"} \cup Fetching

-----------------------------------------------------------------------------
(* Identity.                                                               *)

(* FileTokenStore.tokenFilePath: a file for each device, also when         *)
(* SENTRA_TOKEN_PATH has no {device_id}.                                   *)
TokenSlot(d) == d

\* Mutant: the file is looked at only.
MutStoredToken(d) == file[TokenSlot(d)]

(* TokenStoreManager.Load: the keyring first, if it is used. *)
StoredToken(d) == IF keyring /\ ring[d] # 0 THEN ring[d] ELSE file[TokenSlot(d)]

(* LoadIdentity. *)
Loaded == idFile # 0 /\ StoredToken(idFile) # 0
LoadedIdentity == [dev |-> idFile, tok |-> StoredToken(idFile)]

Accepted(t) == t \in valid
StoredAccepted == Loaded /\ Accepted(LoadedIdentity.tok)

StartInit ==
    /\ PluginInit
    /\ pc = "down" /\ mem = Nobody /\ idFile = 0 /\ keyring \in BOOLEAN
    /\ ring = [d \in Devices |-> 0] /\ file = [d \in Devices |-> 0]
    /\ owner = <<>> /\ valid = {}
    /\ redis = FALSE /\ storage = "none" /\ stops = 0

(* log.Fatal, a signal or a crash: what is in memory is lost. *)
Die == pc' = "down" /\ mem' = Nobody /\ storage' = "none" /\ InstallersDie

(* main: the identity on disk is validated, or the device is claimed. *)
Start ==
    /\ pc = "down"
    /\ IF Loaded THEN pc' = "heartbeat" /\ mem' = LoadedIdentity ELSE pc' = "claim" /\ mem' = Nobody
    /\ UNCHANGED <<pluginVars, identity, keyring, server, redis, storage, stops>>

(* SendDeviceHeartbeat: any error counts as an invalid token, also an      *)
(* unreachable control plane.                                              *)
Heartbeat ==
    /\ pc = "heartbeat"
    /\ \/ Accepted(mem.tok) /\ pc' = "redis" /\ UNCHANGED faults
       \/ ~Accepted(mem.tok) /\ pc' = "clear" /\ UNCHANGED faults
       \/ Accepted(mem.tok) /\ pc' = "clear" /\ Fault
    /\ UNCHANGED <<catalog, setup, files, keys, mapped, installers,
                   mem, identity, keyring, server, redis, storage, stops>>

(* The two stores: what each holds once it has taken token t, 0 to clear. *)
KeyringSet(t) == [ring EXCEPT ![mem.dev] = t]
FileSet(t) == [file EXCEPT ![TokenSlot(mem.dev)] = t]

(* ClearToken: both stores; one that fails is only logged. *)
Clear ==
    /\ pc = "clear"
    /\ \E kept \in SUBSET {"ring", "file"} :
          /\ faults + Cardinality(kept) <= Faults /\ faults' = faults + Cardinality(kept)
          /\ ring' = IF "ring" \in kept \/ ~keyring THEN ring ELSE KeyringSet(0)
          /\ file' = IF "file" \in kept THEN file ELSE FileSet(0)
    /\ pc' = "claim" /\ mem' = Nobody
    /\ UNCHANGED <<catalog, setup, files, keys, mapped, installers,
                   idFile, keyring, server, redis, storage, stops>>

(* ClaimDevice with an identity and a token on disk. *)
ClaimExisting ==
    /\ pc = "claim" /\ Loaded
    /\ mem' = LoadedIdentity /\ pc' = "redis"
    /\ UNCHANGED <<pluginVars, identity, keyring, server, redis, storage, stops>>

(* claim_device in the control plane (external): a new id, numbered as     *)
(* they come, or one the device had before, with a token that replaces its *)
(* others.                                                                 *)
Issue(d) ==
    /\ d <= Cardinality({owner[t] : t \in 1..Len(owner)}) + 1
    /\ owner' = Append(owner, d)
    /\ valid' = {t \in valid : owner[t] # d} \cup {Len(owner) + 1}

(* ClaimDevice with no identity or token; an error is fatal, and an answer *)
(* may be lost after the claim.                                            *)
ClaimNew ==
    /\ pc = "claim" /\ ~Loaded
    /\ \/ \E d \in Devices :
             /\ Issue(d)
             /\ \/ pc' = "saveId" /\ mem' = [dev |-> d, tok |-> Len(owner) + 1] /\ UNCHANGED faults
                \/ Fault /\ pc' = "down" /\ mem' = Nobody
       \/ Fault /\ pc' = "down" /\ mem' = Nobody /\ UNCHANGED server
    /\ UNCHANGED <<catalog, setup, files, keys, mapped, installers,
                   identity, keyring, redis, storage, stops>>

(* SaveIdentity writes in place; an error is fatal. *)
SaveIdentity ==
    /\ pc = "saveId"
    /\ \/ idFile' = mem.dev /\ pc' = "saveToken" /\ UNCHANGED <<mem, faults>>
       \/ Fault /\ idFile' \in {0, idFile} /\ pc' = "down" /\ mem' = Nobody
    /\ UNCHANGED <<catalog, setup, files, keys, mapped, installers,
                   ring, file, keyring, server, redis, storage, stops>>

(* SaveToken: a keyring that does not give back what it got is replaced by *)
(* the file; an error is not fatal.                                        *)
SaveToken ==
    LET failing == {ring, KeyringSet(mem.tok)}
    IN  /\ pc = "saveToken" /\ pc' = "redis"
        /\ \/ keyring /\ ring' = KeyringSet(mem.tok) /\ UNCHANGED <<file, faults>>
           \/ keyring /\ Fault /\ ring' \in failing /\ file' = FileSet(mem.tok)
           \/ /\ keyring /\ faults + 2 <= Faults /\ faults' = faults + 2     \* both fail
              /\ ring' \in failing /\ UNCHANGED file
           \/ ~keyring /\ file' = FileSet(mem.tok) /\ UNCHANGED <<ring, faults>>
           \/ ~keyring /\ Fault /\ UNCHANGED <<ring, file>>
        /\ UNCHANGED <<catalog, setup, files, keys, mapped, installers,
                       mem, idFile, keyring, server, redis, storage, stops>>

-----------------------------------------------------------------------------
(* What the agent fetches.                                                 *)

(* FetchRedisConfig: what was fetched once is used for ever; not fatal,    *)
(* and without a time-out.                                                 *)
FetchRedisConfig ==
    /\ pc = "redis" /\ pc' = "keys"
    /\ \/ redis' = (redis \/ Accepted(mem.tok)) /\ UNCHANGED faults
       \/ ~redis /\ Fault /\ UNCHANGED redis
    /\ UNCHANGED <<catalog, setup, files, keys, mapped, installers,
                   mem, identity, keyring, server, storage, stops>>

(* FetchAllOrgKeys: the keys, for a device that is accepted. *)
FetchAllOrgKeys == keys' = (keys \/ Accepted(mem.tok))

(* loadSigningKeys, before the tickers of the keys and of the updates are  *)
(* started.                                                                *)
LoadSigningKeys ==
    /\ pc = "keys" /\ pc' = "validate"
    /\ \/ FetchAllOrgKeys /\ UNCHANGED faults
       \/ Fault /\ UNCHANGED keys
    /\ UNCHANGED <<catalog, setup, files, mapped, installers,
                   mem, identity, keyring, server, redis, storage, stops>>

(* startup.Validate; startup.Reconcile never fails. *)
Validate ==
    /\ pc = "validate"
    /\ \/ /\ Accepted(mem.tok) /\ pc' = "sync"
          /\ UNCHANGED <<pluginVars, mem, storage>>
       \/ ~Accepted(mem.tok) /\ Die /\ UNCHANGED faults
       \/ Accepted(mem.tok) /\ Fault /\ Die
    /\ UNCHANGED <<identity, keyring, server, redis, stops>>

(* SyncPluginsFromAPI, with the identity as it is on disk; not fatal. *)
BeginSync ==
    /\ pc = "sync"
    /\ \/ StoredAccepted /\ Fetched("sync", Plugins) /\ pc' = "syncing" /\ UNCHANGED faults
       \/ ~StoredAccepted /\ pc' = "verify" /\ UNCHANGED pluginVars
       \/ /\ StoredAccepted /\ Fault /\ pc' = "verify"
          /\ UNCHANGED <<catalog, setup, files, keys, mapped, installers>>
    /\ UNCHANGED <<mem, identity, keyring, server, redis, storage, stops>>

\* Mutant: main() does not wait for the sync.
MutEndSync ==
    /\ pc = "syncing" /\ pc' = "verify"
    /\ UNCHANGED <<pluginVars, mem, identity, keyring, server, redis, storage, stops>>

(* main() waits for the sync. *)
EndSync ==
    /\ pc = "syncing" /\ ipc["sync"] = "idle" /\ pc' = "verify"
    /\ UNCHANGED <<pluginVars, mem, identity, keyring, server, redis, storage, stops>>

(* InitAndWait: one plugin that does not verify is fatal. *)
InitAndWait ==
    /\ pc = "verify"
    /\ IF AllVerify THEN pc' = "storage" /\ UNCHANGED <<pluginVars, mem, storage>>
       ELSE Die /\ UNCHANGED faults
    /\ UNCHANGED <<identity, keyring, server, redis, stops>>

(* FetchConfig, or shared_mount until the process ends. *)
FetchConfig == storage' = IF Accepted(mem.tok) THEN "configured" ELSE "fallback"

(* NewBackend: a configuration it cannot use is fatal. *)
NewBackendFails == Accepted(mem.tok) /\ Fault /\ Die

InitStorage ==
    /\ pc = "storage"
    /\ \/ /\ pc' = "reconcile" /\ FetchConfig
          /\ UNCHANGED <<pluginVars, mem>>
       \/ /\ Accepted(mem.tok) /\ Fault /\ pc' = "reconcile" /\ storage' = "fallback"
          /\ UNCHANGED <<catalog, setup, files, keys, mapped, installers, mem>>
       \/ NewBackendFails
    /\ UNCHANGED <<identity, keyring, server, redis, stops>>

(* ReconcileAgent, whose errors are logged and which has no time-out; then *)
(* the workers, the heartbeat and the poller are started.                  *)
ReconcileAgent ==
    /\ pc = "reconcile" /\ pc' = "ready"
    /\ UNCHANGED <<pluginVars, mem, identity, keyring, server, redis, storage, stops>>

-----------------------------------------------------------------------------
(* In the background.                                                      *)

(* The tickers; a call that fails changes nothing until the next tick. *)
ReloadKeys ==
    /\ pc \in Fetching /\ Accepted(mem.tok) /\ ~keys /\ FetchAllOrgKeys
    /\ UNCHANGED <<catalog, setup, files, mapped, installers, faults, startVars>>

AutoUpdate ==
    /\ pc \in Fetching /\ StoredAccepted /\ Fetched("auto", Plugins)
    /\ UNCHANGED <<faults, startVars>>

(* ResolvePluginName: a job brings a plugin id that is not in the map. *)
Unresolved(p) == p \notin mapped /\ catalog[p] > 0

(* FetchAndInstallPluginByID. *)
JobInstall(p) ==
    /\ pc = "ready" /\ Unresolved(p)
    /\ StoredAccepted /\ Fetched("job", {p})
    /\ UNCHANGED <<faults, startVars>>

Install(q) == InstallerStep(q) /\ UNCHANGED startVars

(* External: an operator revokes a token, or registers a version. *)
Revoke ==
    /\ Fault /\ valid # {}
    /\ \E t \in valid : valid' = valid \ {t}
    /\ UNCHANGED <<catalog, setup, files, keys, mapped, installers,
                   pc, mem, identity, keyring, owner, redis, storage, stops>>

NewVersion == (\E p \in Plugins : Register(p)) /\ UNCHANGED startVars

(* The process is killed. *)
Crash ==
    /\ pc # "down" /\ Fault /\ Die
    /\ idFile' \in IF pc = "saveId" THEN {0, idFile} ELSE {idFile}
    /\ UNCHANGED <<ring, file, keyring, server, redis, stops>>

(* An orderly shutdown, once the agent waits for the signal. *)
Stop ==
    /\ pc = "ready" /\ stops < Stops /\ stops' = stops + 1
    /\ Die /\ UNCHANGED <<faults, identity, keyring, server, redis>>

Boot ==
    \/ Start \/ Heartbeat \/ Clear \/ ClaimExisting \/ ClaimNew \/ SaveIdentity \/ SaveToken
    \/ LoadSigningKeys \/ Validate \/ BeginSync \/ EndSync
    \/ InitAndWait \/ InitStorage

(* The two requests of main() that http.DefaultClient makes. *)
Untimed == FetchRedisConfig \/ ReconcileAgent

Next ==
    \/ Boot \/ Untimed \/ ReloadKeys \/ AutoUpdate \/ Revoke \/ NewVersion \/ Crash \/ Stop
    \/ \E p \in Plugins : JobInstall(p)
    \/ \E q \in Installers : Install(q)

(* Every call of main() but the two untimed ones ends, by its answer or    *)
(* its time-out, the service manager starts an agent that ended, the       *)
(* tickers tick and a goroutine that installs, whose downloads have a      *)
(* time-out, goes on.                                                      *)
Spec ==
    /\ StartInit /\ [][Next]_vars
    /\ WF_vars(Boot) /\ WF_vars(ReloadKeys) /\ WF_vars(AutoUpdate)
    /\ \A q \in Installers : WF_vars(Install(q))

-----------------------------------------------------------------------------
(* Types.  Nothing installs plugins before the tickers are started or when *)
(* the process has ended, and the sync only while main() waits for it.     *)
StartTypeOK ==
    /\ PluginTypeOK
    /\ pc \in Labels /\ keyring \in BOOLEAN /\ redis \in BOOLEAN
    /\ mem \in [dev : {0} \cup Devices, tok : 0..Len(owner)]
    /\ idFile \in {0} \cup Devices
    /\ owner \in Seq(Devices) /\ stops \in 0..Stops
    /\ ring \in [Devices -> 0..Len(owner)] /\ file \in [Devices -> 0..Len(owner)]
    /\ valid \subseteq 1..Len(owner)
    /\ storage \in {"none", "configured", "fallback"}
    /\ \A q \in Installers : ipc[q] # "idle" => pc \in Fetching /\ (q = "sync" => pc = "syncing")

(* A restart never registers the machine again: but for the first, every   *)
(* claim is paid for by a fault of its own (a refused or unanswered        *)
(* heartbeat, a lost answer, a crash before the token is saved, a store    *)
(* that failed), and the agent works with the token of its own device.     *)
RestartKeepsDevice ==
    /\ Len(owner) <= faults + 1
    /\ mem.dev # 0 => owner[mem.tok] = mem.dev

(* A version that verifies at the start if it was installed undamaged: a   *)
(* trusted one without a signature, unless signatures are enforced, or one *)
(* with a signature, the key's id and a checksum in hex.                   *)
Verifiable(p, v) ==
    Waived(p, v) \/ (Entry(p, v).signature = "full" /\ Entry(p, v).checksum = "plain")

(* A plugin that the sync can always repair, or that is never installed.   *)
(* Any other one can make every start fail for good.                       *)
Supported(p) ==
    \/ \A v \in 1..MaxVersion : Verifiable(p, v) /\ Entry(p, v).rollout /\ Entry(p, v).url
    \/ \A v \in 1..MaxVersion : ~Entry(p, v).url

(* The current version can be loaded once it is there. *)
Usable(p) ==
    LET e == Entry(p, catalog[p])
    IN  catalog[p] > 0 /\ e.url /\ e.trusted /\ e.checksum # "none"

(* What only the sync of the next start repairs: AutoUpdatePlugins needs   *)
(* the identity on disk and a platform in the catalogue, passes over a     *)
(* directory without a manifest, and looks at the manifest only, so that   *)
(* it keeps a binary another installer has put beside the current          *)
(* manifest.                                                               *)
WaitsForRestart(p) ==
    \/ ~StoredAccepted \/ ~Entry(p, catalog[p]).platform
    \/ p \in made /\ man[p] = 0
    \/ man[p] = catalog[p] /\ bin[p] \notin {0, man[p]}

(* Whatever fails at first, the agent comes up for good, and the workers   *)
(* can load the current version of every plugin the updates can reach:     *)
(* no leaving of a failed or interrupted installation keeps InitAndWait    *)
(* failing at every start, or a wrong binary in its place.  The catalogue  *)
(* has supported plugins only, and the requests without a time-out get     *)
(* their answer.                                                           *)
AgentComesUp ==
    (\A p \in Plugins : Supported(p)) /\ []<>(pc \notin {"redis", "reconcile"}) =>
    <>[](/\ pc = "ready"
         /\ \A p \in Plugins : Usable(p) =>
               (Loadable(p) /\ man[p] = catalog[p]) \/ WaitsForRestart(p))
=============================================================================
