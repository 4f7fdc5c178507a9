-------------------------- MODULE AgentStartProofs --------------------------
(***************************************************************************)
(* Proofs about AgentStart and PluginStore for every number of plugins,    *)
(* versions, devices, faults and restarts: the types, and that a restart   *)
(* never registers the machine again.                                      *)
(***************************************************************************)
EXTENDS AgentStart, FiniteSetTheorems, TLAPS

-----------------------------------------------------------------------------
(* The plugin directory                                                    *)

\* The bounds, one by one, and the numbers that stand for versions.
LEMMA StartConstants ==
    /\ MaxVersion \in Nat \ {0} /\ Faults \in Nat /\ MaxDevice \in Nat \ {0} /\ Stops \in Nat
    /\ 0 \in Versions /\ Versions \subseteq Nat
BY PluginAssumption, StartAssumption DEF PluginAssumption, StartAssumption, Versions

\* The plugin that a download, a verification or a manifest is about has a
\* directory, and its version is in the catalogue that was fetched.
LEMMA AtPlugin ==
    ASSUME PluginTypeOK, NEW q \in Installers, ipc[q] \in {"download", "verify", "manifest"}
    PROVE  cur[q] \in made /\ cur[q] \in Plugins /\ list[q][cur[q]] \in Versions
BY DEF PluginTypeOK

\* A fault is counted up to the bound.
LEMMA FaultTypes ==
    ASSUME faults \in 0..Faults, Fault
    PROVE  faults' \in 0..Faults /\ faults' = faults + 1
BY StartConstants DEF Fault

\* The parts of PluginTypeOK: the control plane and the memory, the files, the
\* installers, and the place of each.
FrameTypes ==
    /\ catalog \in [Plugins -> Versions] /\ setup \in Setups
    /\ mapped \subseteq Plugins /\ keys \in BOOLEAN /\ faults \in 0..Faults

FileTypes ==
    /\ made \subseteq Plugins
    /\ man \in [Plugins -> Versions \cup {Bad}] /\ bin \in [Plugins -> Versions \cup {Bad}]
    /\ \A p \in Plugins : (man[p] # 0 \/ bin[p] # 0) => p \in made

InstallerTypes ==
    /\ ipc \in [Installers -> {"idle", "pick", "download", "verify", "manifest"}]
    /\ list \in [Installers -> [Plugins -> Versions]]
    /\ todo \in [Installers -> SUBSET Plugins] /\ fresh \in [Installers -> SUBSET Plugins]
    /\ cur \in [Installers -> Plugins \cup {NoPlugin}]

PlaceTypes ==
    \A q \in Installers : ipc[q] \in {"download", "verify", "manifest"} => cur[q] \in made

\* They make up PluginTypeOK.
LEMMA PluginParts ==
    /\ PluginTypeOK <=> FrameTypes /\ FileTypes /\ InstallerTypes /\ PlaceTypes
    /\ PluginTypeOK' <=> FrameTypes' /\ FileTypes' /\ InstallerTypes' /\ PlaceTypes'
BY DEF PluginTypeOK, FrameTypes, FileTypes, InstallerTypes, PlaceTypes

\* The initial directory has the types.
LEMMA PluginInitTypes == PluginInit => PluginTypeOK
<1> SUFFICES ASSUME PluginInit PROVE PluginTypeOK
    OBVIOUS
<1>1. FrameTypes
    <2>1. keys \in BOOLEAN /\ setup \in Setups
        BY Zenon DEF PluginInit
    <2>2. QED
        BY <2>1, StartConstants DEF PluginInit, FrameTypes
<1>2. FileTypes
    BY StartConstants DEF PluginInit, FileTypes
<1>3. InstallerTypes
    BY StartConstants DEF PluginInit, NoInstallers, Idle, InstallerTypes
<1>4. PlaceTypes
    BY DEF PluginInit, NoInstallers, PlaceTypes
<1>5. QED
    BY <1>1, <1>2, <1>3, <1>4, PluginParts

\* An installer that goes on to its next plugin keeps the types.
LEMMA FailedTypes ==
    ASSUME InstallerTypes, PlaceTypes, NEW q \in Installers,
           Failed(q) \/ (Advance(q) /\ fresh' = fresh), list' = list, made' = made
    PROVE  InstallerTypes' /\ PlaceTypes'
<1>1. /\ ipc' = [ipc EXCEPT ![q] = "pick"] /\ cur' = [cur EXCEPT ![q] = NoPlugin]
      /\ todo' = [todo EXCEPT ![q] = @ \ {cur[q]}]
      /\ fresh' = fresh \/ fresh' = [fresh EXCEPT ![q] = @ \ {cur[q]}]
    BY DEF Failed, Advance, Goto
<1>2. todo' \in [Installers -> SUBSET Plugins] /\ fresh' \in [Installers -> SUBSET Plugins]
    BY <1>1 DEF InstallerTypes
<1>3. QED
    BY <1>1, <1>2 DEF InstallerTypes, PlaceTypes

\* Every step of an installer keeps the types.
LEMMA InstallerStepTypes ==
    ASSUME PluginTypeOK, NEW q \in Installers, InstallerStep(q)
    PROVE  PluginTypeOK'
<1>0. FrameTypes /\ FileTypes /\ InstallerTypes /\ PlaceTypes
    BY PluginParts
<1> USE StartConstants, <1>0
<1>1. CASE Finish(q)
    <2>1. FrameTypes' /\ FileTypes'
        BY <1>1 DEF Finish, FrameTypes, FileTypes, InstallerTypes, files
    <2>2. InstallerTypes' /\ PlaceTypes'
        BY <1>1 DEF Finish, Idle, InstallerTypes, PlaceTypes, files
    <2>3. QED
        BY <2>1, <2>2, PluginParts
<1>2. ASSUME NEW p \in Plugins, BeginInstall(q, p) PROVE PluginTypeOK'
    <2>1. FrameTypes'
        BY <1>2, FaultTypes DEF BeginInstall, FrameTypes
    <2>2. FileTypes'
        BY <1>2 DEF BeginInstall, FileTypes, InstallerTypes
    <2>3. InstallerTypes' /\ PlaceTypes'
        BY <1>2 DEF BeginInstall, Goto, InstallerTypes, PlaceTypes
    <2>4. QED
        BY <2>1, <2>2, <2>3, PluginParts
<1>3. ASSUME q = "auto", NEW p \in Plugins, BeginUpdate(p) PROVE PluginTypeOK'
    <2>1. FrameTypes' /\ FileTypes'
        BY <1>3 DEF BeginUpdate, FrameTypes, FileTypes, files
    <2>2. InstallerTypes'
        BY <1>3 DEF BeginUpdate, Goto, InstallerTypes
    <2>3. PlaceTypes'
        BY <1>3 DEF BeginUpdate, Goto, FileTypes, InstallerTypes, PlaceTypes, files
    <2>4. QED
        BY <2>1, <2>2, <2>3, PluginParts
<1>4. CASE Download(q)
    <2>1. cur[q] \in made /\ cur[q] \in Plugins /\ list[q][cur[q]] \in Versions
        BY <1>4, AtPlugin DEF Download
    <2>2. FrameTypes'
        BY <1>4, FaultTypes DEF Download, FrameTypes
    <2>3. FileTypes'
        BY <1>4, <2>1 DEF Download, FileTypes
    <2>4. InstallerTypes'
        BY <1>4 DEF Download, Failed, Advance, Goto, InstallerTypes
    <2>5. PlaceTypes'
        BY <1>4, <2>1 DEF Download, Failed, Advance, Goto, InstallerTypes, PlaceTypes
    <2>6. QED
        BY <2>2, <2>3, <2>4, <2>5, PluginParts
<1>5. CASE Verify(q)
    <2>1. FrameTypes'
        BY <1>5 DEF Verify, FrameTypes
    <2>2. FileTypes'
        <3>1. cur[q] \in Plugins
            BY <1>5, AtPlugin DEF Verify
        <3>2. /\ bin' \in {bin, [bin EXCEPT ![cur[q]] = 0]}
              /\ man' \in {man, [man EXCEPT ![cur[q]] = 0]}
              /\ made' = made
            BY <1>5 DEF Verify
        <3>3. QED
            BY <3>1, <3>2 DEF FileTypes
    <2>3. \/ Goto(q, "manifest") /\ UNCHANGED <<list, todo, fresh, cur, made>>
          \/ Failed(q) /\ UNCHANGED <<list, made>>
        BY <1>5 DEF Verify
    <2>4. InstallerTypes' /\ PlaceTypes'
        BY <1>5, <2>3, FailedTypes DEF Verify, Goto, InstallerTypes, PlaceTypes
    <2>5. QED
        BY <2>1, <2>2, <2>3, <2>4, PluginParts
<1>6. CASE WriteManifest(q)
    <2>1. cur[q] \in made /\ cur[q] \in Plugins /\ list[q][cur[q]] \in Versions
        BY <1>6, AtPlugin DEF WriteManifest
    <2>2. FrameTypes'
        BY <1>6, FaultTypes DEF WriteManifest, FrameTypes
    <2>3. FileTypes'
        <3>1. /\ bin' \in {bin, [bin EXCEPT ![cur[q]] = 0]}
              /\ man' \in {man, [man EXCEPT ![cur[q]] = Bad], [man EXCEPT ![cur[q]] = list[q][cur[q]]]}
              /\ made' = made
            BY <1>6 DEF WriteManifest
        <3>2. QED
            BY <2>1, <3>1 DEF FileTypes
    <2>4. InstallerTypes' /\ PlaceTypes'
        BY <1>6, FailedTypes DEF WriteManifest
    <2>5. QED
        BY <2>2, <2>3, <2>4, PluginParts
<1>7. QED
    BY <1>1, <1>2, <1>3, <1>4, <1>5, <1>6 DEF InstallerStep

\* The start of an installation keeps the types.
LEMMA FetchedTypes ==
    ASSUME PluginTypeOK, NEW q \in Installers, NEW W \in SUBSET Plugins, Fetched(q, W),
           faults' = faults
    PROVE  PluginTypeOK'
<1>0. FrameTypes /\ FileTypes /\ InstallerTypes /\ PlaceTypes
    BY PluginParts
<1>1. FrameTypes' /\ FileTypes'
    BY <1>0 DEF Fetched, FrameTypes, FileTypes, files
<1>2. InstallerTypes' /\ PlaceTypes'
    BY <1>0 DEF Fetched, FrameTypes, FileTypes, InstallerTypes, PlaceTypes, files
<1>3. QED
    BY <1>1, <1>2, PluginParts

\* The end of the process keeps the types of what is on disk.
LEMMA DieTypes ==
    ASSUME PluginTypeOK, InstallersDie, faults' \in 0..Faults
    PROVE  PluginTypeOK' /\ \A q \in Installers : ipc'[q] = "idle"
<1>0. FrameTypes /\ FileTypes /\ InstallerTypes /\ PlaceTypes
    BY PluginParts
<1>1. FrameTypes'
    BY <1>0 DEF InstallersDie, FrameTypes
<1>2. FileTypes'
    <2>1. CASE UNCHANGED man
        BY <1>0, <2>1 DEF InstallersDie, FileTypes
    <2>2. CASE ipc["auto"] = "manifest" /\ man' = [man EXCEPT ![cur["auto"]] = Bad]
        <3>1. cur["auto"] \in made
            BY <2>2, AtPlugin DEF Installers
        <3>2. QED
            BY <1>0, <2>2, <3>1 DEF InstallersDie, FileTypes
    <2>3. QED
        BY <2>1, <2>2 DEF InstallersDie
<1>3. InstallerTypes' /\ PlaceTypes'
    BY StartConstants DEF InstallersDie, Idle, InstallerTypes, PlaceTypes
<1>4. QED
    BY <1>1, <1>2, <1>3, PluginParts DEF InstallersDie

-----------------------------------------------------------------------------
(* Types of the start                                                      *)

\* The identity in memory and on disk, and what the control plane knows.
IdentityTypes ==
    /\ mem \in [dev : {0} \cup Devices, tok : 0..Len(owner)]
    /\ idFile \in {0} \cup Devices
    /\ owner \in Seq(Devices)
    /\ ring \in [Devices -> 0..Len(owner)] /\ file \in [Devices -> 0..Len(owner)]
    /\ valid \subseteq 1..Len(owner)

ProcessTypes ==
    /\ pc \in Labels /\ keyring \in BOOLEAN /\ redis \in BOOLEAN /\ stops \in 0..Stops
    /\ storage \in {"none", "configured", "fallback"}

InstallersPlaced ==
    \A q \in Installers : ipc[q] # "idle" => pc \in Fetching /\ (q = "sync" => pc = "syncing")

\* They make up StartTypeOK.
LEMMA StartParts ==
    /\ StartTypeOK <=> PluginTypeOK /\ IdentityTypes /\ ProcessTypes /\ InstallersPlaced
    /\ StartTypeOK' <=> PluginTypeOK' /\ IdentityTypes' /\ ProcessTypes' /\ InstallersPlaced'
BY DEF StartTypeOK, IdentityTypes, ProcessTypes, InstallersPlaced

\* The identity on disk, when there is one, is a device and a token.
LEMMA LoadedTypes ==
    ASSUME IdentityTypes, Loaded
    PROVE  /\ LoadedIdentity \in [dev : Devices, tok : 1..Len(owner)]
           /\ LoadedIdentity.dev = idFile /\ LoadedIdentity.dev \in Devices
           /\ LoadedIdentity.tok = StoredToken(idFile) /\ LoadedIdentity.tok \in 1..Len(owner)
BY DEF IdentityTypes, Loaded, LoadedIdentity, StoredToken, TokenSlot

\* A token the control plane issues is the next one, for the device.
LEMMA IssueEffect ==
    ASSUME IdentityTypes, NEW d \in Devices, Issue(d)
    PROVE  /\ owner' \in Seq(Devices) /\ Len(owner') = Len(owner) + 1 /\ Len(owner) \in Nat
           /\ owner'[Len(owner) + 1] = d
           /\ \A t \in 1..Len(owner) : owner'[t] = owner[t]
           /\ valid' \subseteq 1..Len(owner') /\ Len(owner) + 1 \in valid'
<1>1. /\ owner' \in Seq(Devices) /\ Len(owner') = Len(owner) + 1 /\ Len(owner) \in Nat
      /\ owner'[Len(owner) + 1] = d
      /\ \A t \in 1..Len(owner) : owner'[t] = owner[t]
    BY DEF IdentityTypes, Issue
<1>2. valid' \subseteq valid \cup {Len(owner) + 1} /\ Len(owner) + 1 \in valid'
    BY DEF Issue
<1>3. ASSUME NEW t \in valid' PROVE t \in 1..Len(owner')
    <2>1. t \in 1..Len(owner) \/ t = Len(owner) + 1
        BY <1>2 DEF IdentityTypes
    <2>2. QED
        BY <1>1, <2>1
<1>4. QED
    BY <1>1, <1>2, <1>3

\* Every step of main() and of the control plane keeps the types of identities.
LEMMA IdentityStep ==
    ASSUME IdentityTypes, [Next]_vars
    PROVE  IdentityTypes'
<1> USE DEF identity, server, startVars
<1>1. Nobody \in [dev : {0} \cup Devices, tok : 0..Len(owner)]
    BY DEF IdentityTypes, Nobody
<1>2. Len(owner) \in Nat
    BY DEF IdentityTypes
<1>3. CASE Start \/ ClaimExisting
    <2>1. mem' = Nobody \/ (mem' = LoadedIdentity /\ Loaded)
        BY <1>3 DEF Start, ClaimExisting
    <2>2. mem' \in [dev : {0} \cup Devices, tok : 0..Len(owner)]
        BY <1>1, <1>2, <2>1, LoadedTypes
    <2>3. QED
        BY <1>3, <2>2 DEF Start, ClaimExisting, IdentityTypes
<1>4. CASE Clear
    <2>1. ring' \in {ring, KeyringSet(0)} /\ file' \in {file, FileSet(0)}
        BY <1>4 DEF Clear
    <2>2. KeyringSet(0) \in [Devices -> 0..Len(owner)] /\ FileSet(0) \in [Devices -> 0..Len(owner)]
        <3>1. 0 \in 0..Len(owner)
            BY <1>2
        <3>2. ring \in [Devices -> 0..Len(owner)] /\ file \in [Devices -> 0..Len(owner)]
            BY DEF IdentityTypes
        <3>3. QED
            BY <3>1, <3>2, Zenon DEF KeyringSet, FileSet, TokenSlot
    <2>3. mem' = Nobody /\ owner' = owner /\ valid' = valid /\ idFile' = idFile
        BY <1>4 DEF Clear
    <2>4. QED
        BY <1>1, <2>1, <2>2, <2>3 DEF IdentityTypes
<1>5. CASE ClaimNew
    <2>1. CASE UNCHANGED server
        BY <1>1, <1>2, <1>5, <2>1, IssueEffect DEF ClaimNew, IdentityTypes
    <2>2. ASSUME NEW d \in Devices, Issue(d),
                 mem' = [dev |-> d, tok |-> Len(owner) + 1] \/ mem' = Nobody
          PROVE  IdentityTypes'
        <3>1. Len(owner') = Len(owner) + 1 /\ owner' \in Seq(Devices) /\ valid' \subseteq 1..Len(owner')
            BY <2>2, IssueEffect
        <3>2. idFile' = idFile /\ ring' = ring /\ file' = file
            BY <1>5 DEF ClaimNew
        <3>3. 0..Len(owner) \subseteq 0..Len(owner')
            BY <1>2, <3>1
        <3>4. mem' \in [dev : {0} \cup Devices, tok : 0..Len(owner')]
            BY <1>1, <1>2, <2>2, <3>1, <3>3
        <3>5. ring' \in [Devices -> 0..Len(owner')] /\ file' \in [Devices -> 0..Len(owner')]
            BY <3>2, <3>3 DEF IdentityTypes
        <3>6. QED
            BY <3>1, <3>2, <3>4, <3>5 DEF IdentityTypes
    <2>3. QED
        BY <1>5, <2>1, <2>2 DEF ClaimNew
<1>6. CASE SaveIdentity
    BY <1>1, <1>2, <1>6 DEF SaveIdentity, IdentityTypes
<1>7. CASE SaveToken
    BY <1>2, <1>7 DEF SaveToken, KeyringSet, FileSet, IdentityTypes
<1>8. CASE Heartbeat \/ Untimed \/ LoadSigningKeys \/ BeginSync \/ EndSync
    BY <1>8 DEF Heartbeat, Untimed, FetchRedisConfig, ReconcileAgent, LoadSigningKeys, BeginSync, EndSync, IdentityTypes
<1>9. CASE Validate \/ InitAndWait \/ InitStorage
    BY <1>1, <1>2, <1>9 DEF Validate, InitAndWait, InitStorage, NewBackendFails, Die, IdentityTypes
<1>10. CASE ReloadKeys \/ AutoUpdate \/ NewVersion \/ Revoke
    BY <1>10 DEF ReloadKeys, AutoUpdate, NewVersion, Revoke, IdentityTypes
<1>11. CASE Crash \/ Stop
    BY <1>1, <1>2, <1>11 DEF Crash, Stop, Die, IdentityTypes
<1>12. ASSUME NEW p \in Plugins, JobInstall(p) PROVE IdentityTypes'
    BY <1>12 DEF JobInstall, IdentityTypes
<1>13. ASSUME NEW q \in Installers, Install(q) PROVE IdentityTypes'
    BY <1>13 DEF Install, IdentityTypes
<1>14. CASE UNCHANGED vars
    BY <1>14 DEF vars, IdentityTypes
<1>15. QED
    BY <1>3, <1>4, <1>5, <1>6, <1>7, <1>8, <1>9, <1>10, <1>11, <1>12, <1>13, <1>14 DEF Next, Boot

\* The process dies with its memory.
LEMMA DieEffect ==
    ASSUME StartTypeOK, Die, faults' \in 0..Faults, UNCHANGED <<keyring, redis>>, stops' \in 0..Stops
    PROVE  PluginTypeOK' /\ ProcessTypes' /\ InstallersPlaced'
<1>1. PluginTypeOK' /\ \A q \in Installers : ipc'[q] = "idle"
    BY DieTypes DEF Die, StartTypeOK
<1>2. ProcessTypes'
    BY DEF Die, StartTypeOK, ProcessTypes, Labels
<1>3. QED
    BY <1>1, <1>2 DEF InstallersPlaced

\* The state of the plugin directory is left alone but for a fault.
LEMMA PluginFrame ==
    ASSUME PluginTypeOK, UNCHANGED <<catalog, setup, files, mapped, installers>>,
           keys' \in BOOLEAN, faults' \in 0..Faults
    PROVE  PluginTypeOK'
BY DEF PluginTypeOK, files, installers

\* The stores that fail to be cleared are counted.
LEMMA StoresFinite ==
    ASSUME NEW kept \in SUBSET {"ring", "file"}
    PROVE  Cardinality(kept) \in Nat
<1>1. IsFiniteSet({"ring"})
    BY FS_Singleton
<1>2. IsFiniteSet({"ring"} \cup {"file"})
    BY <1>1, FS_AddElement
<1>3. IsFiniteSet({"ring", "file"})
    BY <1>2, {"ring", "file"} = {"ring"} \cup {"file"}, Zenon
<1>4. QED
    BY <1>3, FS_Subset, FS_CardinalityType

\* Every step keeps the types.
LEMMA StartStep == StartTypeOK /\ [Next]_vars => StartTypeOK'
<1> SUFFICES ASSUME StartTypeOK, [Next]_vars PROVE StartTypeOK'
    OBVIOUS
<1>0. PluginTypeOK /\ IdentityTypes /\ ProcessTypes /\ InstallersPlaced
    BY StartParts
<1>1. IdentityTypes'
    BY <1>0, IdentityStep
<1>2. SUFFICES PluginTypeOK' /\ ProcessTypes' /\ InstallersPlaced'
    BY <1>1, StartParts
<1>3. faults \in 0..Faults /\ keys \in BOOLEAN /\ redis \in BOOLEAN /\ keyring \in BOOLEAN
    BY <1>0 DEF PluginTypeOK, ProcessTypes
<1> DEFINE Goal == PluginTypeOK' /\ ProcessTypes' /\ InstallersPlaced'
<1> USE DEF pluginVars, identity, server, startVars
<1>4. CASE Start \/ ClaimExisting \/ EndSync \/ ReconcileAgent
    <2>1. PluginTypeOK'
        BY <1>0, <1>3, <1>4, PluginFrame DEF Start, ClaimExisting, EndSync, ReconcileAgent
    <2>2. ProcessTypes'
        BY <1>0, <1>4 DEF Start, ClaimExisting, EndSync, ReconcileAgent, ProcessTypes, Labels, Fetching
    <2>3. InstallersPlaced'
        BY <1>0, <1>4 DEF Start, ClaimExisting, EndSync, ReconcileAgent, InstallersPlaced, Fetching, installers
    <2>4. QED
        BY <2>1, <2>2, <2>3
<1>5. CASE Heartbeat \/ Clear \/ ClaimNew \/ SaveIdentity \/ SaveToken
    <2>1. faults' \in 0..Faults
        <3>1. ASSUME NEW kept \in SUBSET {"ring", "file"} PROVE Cardinality(kept) \in Nat
            BY StoresFinite
        <3>2. CASE Clear
            BY <1>3, <3>1, <3>2, StartConstants DEF Clear
        <3>3. QED
            BY <1>3, <1>5, <3>2, FaultTypes, StartConstants DEF Heartbeat, ClaimNew, SaveIdentity, SaveToken
    <2>2. UNCHANGED <<catalog, setup, files, keys, mapped, installers>>
        BY <1>5 DEF Heartbeat, Clear, ClaimNew, SaveIdentity, SaveToken
    <2>3. PluginTypeOK'
        BY <1>0, <1>3, <2>1, <2>2, PluginFrame
    <2>4. ProcessTypes'
        BY <1>0, <1>5 DEF Heartbeat, Clear, ClaimNew, SaveIdentity, SaveToken, ProcessTypes, Labels
    <2>5. InstallersPlaced'
        BY <1>0, <1>5, <2>2 DEF Heartbeat, Clear, ClaimNew, SaveIdentity, SaveToken, InstallersPlaced,
            Fetching, installers
    <2>6. QED
        BY <2>3, <2>4, <2>5
<1>6. CASE FetchRedisConfig
    <2>1. redis' \in BOOLEAN
        BY <1>3, <1>6, Zenon DEF FetchRedisConfig
    <2>2. PluginTypeOK'
        BY <1>0, <1>3, <1>6, FaultTypes, PluginFrame DEF FetchRedisConfig
    <2>3. ProcessTypes' /\ InstallersPlaced'
        BY <1>0, <1>6, <2>1 DEF FetchRedisConfig, ProcessTypes, Labels, InstallersPlaced, Fetching,
            installers
    <2>4. QED
        BY <2>2, <2>3
<1>7. CASE LoadSigningKeys
    <2>1. keys' \in BOOLEAN
        BY <1>3, <1>7, Zenon DEF LoadSigningKeys, FetchAllOrgKeys
    <2>2. PluginTypeOK'
        BY <1>0, <1>3, <1>7, <2>1, FaultTypes, PluginFrame DEF LoadSigningKeys
    <2>3. ProcessTypes' /\ InstallersPlaced'
        BY <1>0, <1>7 DEF LoadSigningKeys, ProcessTypes, Labels, InstallersPlaced, Fetching, installers
    <2>4. QED
        BY <2>2, <2>3
<1>8. CASE Validate \/ InitAndWait \/ InitStorage
    <2>1. CASE Die
        <3>1. faults' \in 0..Faults /\ UNCHANGED <<keyring, redis, stops>>
            BY <1>3, <1>8, FaultTypes DEF Validate, InitAndWait, InitStorage, NewBackendFails
        <3>2. QED
            BY <1>0, <2>1, <3>1, DieEffect DEF ProcessTypes
    <2>2. CASE ~Die
        <3>1. faults' \in 0..Faults /\ UNCHANGED <<catalog, setup, files, keys, mapped, installers>>
            BY <1>3, <1>8, <2>2, FaultTypes DEF Validate, InitAndWait, InitStorage, NewBackendFails
        <3>2. PluginTypeOK'
            BY <1>0, <1>3, <3>1, PluginFrame
        <3>3. ProcessTypes'
            BY <1>0, <1>8, <2>2 DEF Validate, InitAndWait, InitStorage, NewBackendFails, FetchConfig,
                ProcessTypes, Labels, Fetching
        <3>4. InstallersPlaced'
            BY <1>0, <1>8, <2>2, <3>1 DEF Validate, InitAndWait, InitStorage, NewBackendFails,
                InstallersPlaced, Fetching, installers
        <3>5. QED
            BY <3>2, <3>3, <3>4
    <2>3. QED
        BY <2>1, <2>2
<1>9. CASE BeginSync
    <2>1. CASE Fetched("sync", Plugins) /\ pc' = "syncing" /\ UNCHANGED faults
        <3>1. PluginTypeOK'
            BY <1>0, <2>1, FetchedTypes DEF Installers
        <3>2. ProcessTypes' /\ InstallersPlaced'
            BY <1>0, <1>9, <2>1 DEF BeginSync, Fetched, PluginTypeOK, ProcessTypes, Labels, Fetching,
                InstallersPlaced
        <3>3. QED
            BY <3>1, <3>2
    <2>2. CASE pc' = "verify" /\ UNCHANGED <<catalog, setup, files, keys, mapped, installers>>
        <3>1. PluginTypeOK'
            BY <1>0, <1>3, <1>9, <2>2, FaultTypes, PluginFrame DEF BeginSync
        <3>2. ProcessTypes' /\ InstallersPlaced'
            BY <1>0, <1>9, <2>2 DEF BeginSync, ProcessTypes, Labels, Fetching, InstallersPlaced, installers
        <3>3. QED
            BY <3>1, <3>2
    <2>3. QED
        BY <1>9, <2>1, <2>2 DEF BeginSync
<1>10. CASE ReloadKeys
    <2>1. keys' \in BOOLEAN
        BY <1>3, <1>10, Zenon DEF ReloadKeys, FetchAllOrgKeys
    <2>2. PluginTypeOK'
        BY <1>0, <1>3, <1>10, <2>1, PluginFrame DEF ReloadKeys
    <2>3. QED
        BY <1>0, <1>10, <2>2 DEF ReloadKeys, ProcessTypes, InstallersPlaced, installers
<1>11. ASSUME NEW q \in Installers \ {"sync"}, NEW W \in SUBSET Plugins, Fetched(q, W),
              pc \in Fetching, UNCHANGED <<faults, startVars>>
       PROVE  Goal
    <2>1. PluginTypeOK'
        BY <1>0, <1>11, FetchedTypes
    <2>2. ProcessTypes' /\ InstallersPlaced'
        BY <1>0, <1>11 DEF Fetched, PluginTypeOK, ProcessTypes, InstallersPlaced
    <2>3. QED
        BY <2>1, <2>2
<1>12. CASE AutoUpdate
    BY <1>11, <1>12 DEF AutoUpdate, Installers
<1>13. ASSUME NEW p \in Plugins, JobInstall(p) PROVE Goal
    BY <1>11, <1>13 DEF JobInstall, Installers, Fetching
<1>14. ASSUME NEW q \in Installers, Install(q) PROVE Goal
    <2>1. PluginTypeOK'
        BY <1>0, <1>14, InstallerStepTypes DEF Install
    <2>2. \A r \in Installers : ipc'[r] # "idle" => ipc[r] # "idle"
        BY <1>0, <1>14 DEF Install, InstallerStep, Finish, BeginInstall, BeginUpdate, Download, Verify,
            WriteManifest, Failed, Advance, Goto, PluginTypeOK
    <2>3. QED
        BY <1>0, <1>14, <2>1, <2>2 DEF Install, ProcessTypes, InstallersPlaced
<1>15. CASE Revoke
    <2>1. PluginTypeOK'
        BY <1>0, <1>3, <1>15, FaultTypes, PluginFrame DEF Revoke
    <2>2. QED
        BY <1>0, <1>15, <2>1 DEF Revoke, ProcessTypes, InstallersPlaced, installers
<1>16. CASE NewVersion
    <2>1. PICK p \in Plugins : Register(p)
        BY <1>16 DEF NewVersion
    <2>2. catalog' \in [Plugins -> Versions]
        BY <1>0, <2>1, StartConstants DEF Register, PluginTypeOK, Versions
    <2>3. PluginTypeOK'
        BY <1>0, <2>1, <2>2 DEF Register, PluginTypeOK, files, installers
    <2>4. QED
        BY <1>0, <1>16, <2>1, <2>3 DEF NewVersion, Register, ProcessTypes, InstallersPlaced, installers
<1>17. CASE Crash \/ Stop
    <2>1. Die /\ faults' \in 0..Faults /\ UNCHANGED <<keyring, redis>> /\ stops' \in 0..Stops
        BY <1>0, <1>3, <1>17, FaultTypes, StartConstants DEF Crash, Stop, ProcessTypes
    <2>2. QED
        BY <2>1, DieEffect
<1>18. CASE UNCHANGED vars
    BY <1>0, <1>18 DEF vars, PluginTypeOK, ProcessTypes, InstallersPlaced, files, installers
<1>19. QED
    BY <1>4, <1>5, <1>6, <1>7, <1>8, <1>9, <1>10, <1>12, <1>13, <1>14, <1>15, <1>16, <1>17, <1>18
        DEF Next, Boot, Untimed

\* The agent, the control plane and the plugin directory keep their types, and
\* no goroutine installs plugins while the process is down or has not started
\* its tickers (cmd/main.go).
THEOREM StartTypeCorrect == Spec => []StartTypeOK
<1>1. StartInit => StartTypeOK
    <2> SUFFICES ASSUME StartInit PROVE StartTypeOK
        OBVIOUS
    <2>1. PluginTypeOK
        BY PluginInitTypes DEF StartInit
    <2>2. IdentityTypes
        BY DEF StartInit, IdentityTypes, Nobody
    <2>3. ProcessTypes
        <3>1. redis \in BOOLEAN /\ keyring \in BOOLEAN
            BY Zenon DEF StartInit
        <3>2. QED
            BY <3>1, StartConstants DEF StartInit, ProcessTypes, Labels
    <2>4. InstallersPlaced
        BY DEF StartInit, PluginInit, NoInstallers, InstallersPlaced
    <2>5. QED
        BY <2>1, <2>2, <2>3, <2>4, StartParts
<1>2. QED
    BY <1>1, StartStep, PTL DEF Spec

-----------------------------------------------------------------------------
(* Claims                                                                  *)

\* Every token kept anywhere was issued for the device it is kept for.
TokensOwned ==
    /\ mem.dev # 0 => mem.tok # 0 /\ owner[mem.tok] = mem.dev
    /\ \A d \in Devices : /\ ring[d] # 0 => owner[ring[d]] = d
                          /\ file[d] # 0 => owner[file[d]] = d

\* The last claim has not been paid for: its token is accepted, and either on
\* its way to the stores or what the next start will load.
LastClaimKept ==
    /\ Len(owner) \in valid
    /\ \/ pc = "saveId" /\ mem.tok = Len(owner) /\ mem.dev # 0
       \/ pc = "saveToken" /\ mem.tok = Len(owner) /\ mem.dev # 0 /\ idFile = mem.dev
       \/ /\ pc \notin {"claim", "clear", "saveId", "saveToken"}
          /\ idFile # 0 /\ StoredToken(idFile) = Len(owner)
          /\ pc = "heartbeat" => mem.tok = Len(owner)

\* Claims do not exceed faults, or the one more that was made is kept.
ClaimsPaid == Len(owner) <= faults \/ (Len(owner) = faults + 1 /\ LastClaimKept)

ClaimInv == StartTypeOK /\ TokensOwned /\ ClaimsPaid

\* What is loaded from the disk is the token of the device on disk.
LEMMA LoadedOwned ==
    ASSUME StartTypeOK, TokensOwned, Loaded
    PROVE  /\ LoadedIdentity.dev = idFile /\ LoadedIdentity.tok = StoredToken(idFile)
           /\ LoadedIdentity.tok # 0 /\ owner[LoadedIdentity.tok] = LoadedIdentity.dev
BY DEF StartTypeOK, TokensOwned, Loaded, LoadedIdentity, StoredToken, TokenSlot

\* A store holds a token that was issued for the device, before and after.
LEMMA OwnedKept ==
    ASSUME StartTypeOK, TokensOwned,
           \A t \in 1..Len(owner) : owner'[t] = owner[t],
           \A d \in Devices : /\ ring'[d] \in {0, ring[d]} \/ owner'[ring'[d]] = d
                              /\ file'[d] \in {0, file[d]} \/ owner'[file'[d]] = d,
           \/ mem'.dev = 0 \/ mem' = mem
           \/ mem'.tok # 0 /\ owner'[mem'.tok] = mem'.dev
    PROVE  TokensOwned'
<1>0. /\ Len(owner) \in Nat /\ mem.tok \in 0..Len(owner)
      /\ \A d \in Devices : ring[d] \in 0..Len(owner) /\ file[d] \in 0..Len(owner)
    BY DEF StartTypeOK
<1>1. \A d \in Devices : /\ ring[d] # 0 => owner'[ring[d]] = d
                         /\ file[d] # 0 => owner'[file[d]] = d
    BY <1>0 DEF TokensOwned
<1>2. mem.dev # 0 => mem.tok # 0 /\ owner'[mem.tok] = mem.dev
    BY <1>0 DEF TokensOwned
<1>3. mem'.dev # 0 => mem'.tok # 0 /\ owner'[mem'.tok] = mem'.dev
    <2>1. CASE mem' = mem
        BY <1>2, <2>1, Zenon
    <2>2. QED
        BY <2>1
<1>4. \A d \in Devices : /\ ring'[d] # 0 => owner'[ring'[d]] = d
                         /\ file'[d] # 0 => owner'[file'[d]] = d
    BY <1>1
<1>5. QED
    BY <1>3, <1>4 DEF TokensOwned

\* Every step keeps every token with its device.
LEMMA OwnedStep ==
    ASSUME StartTypeOK, TokensOwned, [Next]_vars
    PROVE  TokensOwned'
<1> USE DEF identity, server, startVars
<1>1. CASE Start \/ ClaimExisting
    BY <1>1, LoadedOwned, OwnedKept DEF Start, ClaimExisting, Nobody
<1>2. CASE Clear
    <2>1. ring' \in {ring, KeyringSet(0)} /\ file' \in {file, FileSet(0)}
        BY <1>2 DEF Clear
    <2>2. \A d \in Devices : ring'[d] \in {0, ring[d]} /\ file'[d] \in {0, file[d]}
        BY <2>1 DEF KeyringSet, FileSet, TokenSlot, StartTypeOK
    <2>3. QED
        BY <1>2, <2>2, OwnedKept DEF Clear, Nobody
<1>3. ASSUME NEW d \in Devices, Issue(d), UNCHANGED identity,
             mem' = [dev |-> d, tok |-> Len(owner) + 1] \/ mem' = Nobody
      PROVE  TokensOwned'
    <2>1. IdentityTypes
        BY StartParts
    <2>2. /\ owner'[Len(owner) + 1] = d /\ Len(owner) \in Nat
          /\ \A t \in 1..Len(owner) : owner'[t] = owner[t]
        BY <1>3, <2>1, IssueEffect
    <2>3. QED
        BY <1>3, <2>2, OwnedKept DEF Nobody
<1>4. CASE ClaimNew
    <2>1. CASE UNCHANGED server /\ mem' = Nobody
        BY <1>4, <2>1, OwnedKept DEF ClaimNew, Nobody
    <2>2. QED
        BY <1>3, <1>4, <2>1 DEF ClaimNew
<1>5. CASE SaveToken
    <2>1. /\ ring' \in {ring, KeyringSet(mem.tok)} /\ file' \in {file, FileSet(mem.tok)}
          /\ mem' = mem /\ owner' = owner
        BY <1>5 DEF SaveToken
    <2>2. \A d \in Devices : /\ ring'[d] = ring[d] \/ (d = mem.dev /\ ring'[d] = mem.tok)
                             /\ file'[d] = file[d] \/ (d = mem.dev /\ file'[d] = mem.tok)
        BY <2>1 DEF KeyringSet, FileSet, TokenSlot, StartTypeOK
    <2>3. 0 \notin Devices
        BY DEF Devices
    <2>4. \A d \in Devices : /\ ring'[d] = ring[d] \/ owner'[ring'[d]] = d
                             /\ file'[d] = file[d] \/ owner'[file'[d]] = d
        BY <2>1, <2>2, <2>3 DEF TokensOwned
    <2>5. \A d \in Devices : /\ ring'[d] # 0 => owner'[ring'[d]] = d
                             /\ file'[d] # 0 => owner'[file'[d]] = d
        BY <2>1, <2>4 DEF TokensOwned
    <2>6. mem'.dev # 0 => mem'.tok # 0 /\ owner'[mem'.tok] = mem'.dev
        BY <2>1, Zenon DEF TokensOwned
    <2>7. QED
        BY <2>5, <2>6 DEF TokensOwned
<1>6. CASE SaveIdentity
    BY <1>6, OwnedKept DEF SaveIdentity, Nobody
<1>7. CASE Heartbeat \/ Untimed \/ LoadSigningKeys \/ BeginSync \/ EndSync
    BY <1>7, OwnedKept DEF Heartbeat, Untimed, FetchRedisConfig, ReconcileAgent, LoadSigningKeys,
        BeginSync, EndSync
<1>8. CASE Validate \/ InitAndWait \/ InitStorage
    BY <1>8, OwnedKept DEF Validate, InitAndWait, InitStorage, NewBackendFails, Die, Nobody
<1>9. CASE ReloadKeys \/ AutoUpdate \/ NewVersion \/ Revoke
    BY <1>9, OwnedKept DEF ReloadKeys, AutoUpdate, NewVersion, Revoke
<1>10. CASE Crash \/ Stop
    BY <1>10, OwnedKept DEF Crash, Stop, Die, Nobody
<1>11. ASSUME NEW p \in Plugins, JobInstall(p) PROVE TokensOwned'
    BY <1>11, OwnedKept DEF JobInstall
<1>12. ASSUME NEW q \in Installers, Install(q) PROVE TokensOwned'
    BY <1>12, OwnedKept DEF Install
<1>13. CASE UNCHANGED vars
    BY <1>13, OwnedKept DEF vars
<1>14. QED
    BY <1>1, <1>2, <1>4, <1>5, <1>6, <1>7, <1>8, <1>9, <1>10, <1>11, <1>12, <1>13 DEF Next, Boot

\* A step that issues no token and counts a fault, or neither issues nor takes
\* away anything from the last claim, keeps the claims paid.
LEMMA PaidFrame ==
    ASSUME StartTypeOK, ClaimsPaid, owner' = owner,
           \/ faults' \in Nat /\ faults' > faults
           \/ faults' = faults /\ (LastClaimKept => LastClaimKept')
    PROVE  ClaimsPaid'
<1>1. Len(owner) \in Nat /\ faults \in Nat
    BY DEF StartTypeOK, PluginTypeOK
<1>2. QED
    BY <1>1 DEF ClaimsPaid

\* Every step keeps the claims paid.
LEMMA PaidStep ==
    ASSUME StartTypeOK, TokensOwned, ClaimsPaid, [Next]_vars
    PROVE  ClaimsPaid'
<1> USE DEF identity, server, startVars
<1>0. Len(owner) \in Nat /\ faults \in Nat /\ idFile \in {0} \cup Devices /\ 0 \notin Devices
    BY DEF StartTypeOK, PluginTypeOK, Devices
<1>1. Fault => faults' \in Nat /\ faults' > faults
    BY <1>0 DEF Fault
<1>2. ASSUME LastClaimKept, Len(owner) # 0 PROVE pc = "down" => Loaded
    BY <1>2 DEF LastClaimKept, Loaded
<1>3. CASE Start
    <2>1. ASSUME LastClaimKept PROVE LastClaimKept'
        <3>1. Len(owner) # 0
            BY <2>1 DEF LastClaimKept, StartTypeOK
        <3>2. Loaded /\ mem' = LoadedIdentity /\ pc' = "heartbeat"
            BY <1>2, <1>3, <2>1, <3>1 DEF Start
        <3>3. mem'.tok = StoredToken(idFile)
            BY <3>2, LoadedOwned
        <3>4. StoredToken(idFile)' = StoredToken(idFile)
            BY <1>3 DEF Start, StoredToken, TokenSlot
        <3>5. QED
            BY <1>3, <2>1, <3>2, <3>3, <3>4 DEF Start, LastClaimKept
    <2>2. QED
        BY <1>3, <2>1, PaidFrame DEF Start, pluginVars
<1>4. CASE Heartbeat
    <2>1. ASSUME LastClaimKept, UNCHANGED faults PROVE LastClaimKept'
        BY <1>4, <1>0, <2>1, <1>1 DEF Heartbeat, LastClaimKept, Accepted, StoredToken, TokenSlot, Fault
    <2>2. QED
        BY <1>1, <1>4, <2>1, PaidFrame DEF Heartbeat
<1>5. CASE Clear
    <2>1. ~LastClaimKept
        BY <1>5 DEF Clear, LastClaimKept
    <2>2. Len(owner) <= faults /\ owner' = owner
        BY <1>5, <2>1 DEF Clear, ClaimsPaid
    <2>3. faults' \in Nat /\ faults' >= faults
        <3>1. PICK kept \in SUBSET {"ring", "file"} : faults' = faults + Cardinality(kept)
            BY <1>5 DEF Clear
        <3>2. Cardinality(kept) \in Nat
            BY StoresFinite
        <3>3. QED
            BY <1>0, <3>1, <3>2
    <2>4. Len(owner') <= faults'
        BY <1>0, <2>2, <2>3
    <2>5. QED
        BY <2>4 DEF ClaimsPaid
<1>6. CASE ClaimExisting
    <2>1. ~LastClaimKept
        BY <1>6 DEF ClaimExisting, LastClaimKept
    <2>2. QED
        BY <1>6, <2>1, PaidFrame DEF ClaimExisting, pluginVars
<1>7. CASE ClaimNew
    <2>1. Len(owner) <= faults
        BY <1>7 DEF ClaimNew, ClaimsPaid, LastClaimKept
    <2>2. ASSUME NEW d \in Devices, Issue(d)
          PROVE  Len(owner') = Len(owner) + 1 /\ Len(owner') \in valid'
        BY <2>2, IssueEffect, StartParts
    <2>3. CASE Fault /\ UNCHANGED server
        BY <1>1, <2>3, PaidFrame
    <2>4. ASSUME NEW d \in Devices, Issue(d), Fault PROVE ClaimsPaid'
        BY <1>0, <2>1, <2>2, <2>4 DEF Fault, ClaimsPaid
    <2>5. ASSUME NEW d \in Devices, Issue(d), pc' = "saveId", faults' = faults,
                 mem' = [dev |-> d, tok |-> Len(owner) + 1]
          PROVE  ClaimsPaid'
        <3>1. mem'.tok = Len(owner') /\ mem'.dev # 0
            BY <1>0, <2>2, <2>5
        <3>2. LastClaimKept'
            BY <2>2, <2>5, <3>1 DEF LastClaimKept
        <3>3. QED
            BY <1>0, <2>1, <2>2, <2>5, <3>2 DEF ClaimsPaid
    <2>6. QED
        BY <1>7, <2>3, <2>4, <2>5 DEF ClaimNew
<1>8. CASE SaveIdentity
    <2>1. ASSUME LastClaimKept, UNCHANGED faults PROVE LastClaimKept'
        BY <1>0, <1>1, <1>8, <2>1 DEF SaveIdentity, LastClaimKept, Fault
    <2>2. QED
        BY <1>1, <1>8, <2>1, PaidFrame DEF SaveIdentity
<1>9. CASE SaveToken
    <2>1. ASSUME LastClaimKept, UNCHANGED faults PROVE LastClaimKept'
        <3>1. pc = "saveToken" /\ mem.tok = Len(owner) /\ mem.dev # 0 /\ idFile = mem.dev
              /\ Len(owner) \in valid /\ pc' = "redis" /\ UNCHANGED <<owner, valid, idFile, keyring>>
            BY <1>9, <2>1 DEF SaveToken, LastClaimKept
        <3>2. \/ keyring /\ ring' = [ring EXCEPT ![mem.dev] = mem.tok]
              \/ ~keyring /\ file' = [file EXCEPT ![mem.dev] = mem.tok]
            BY <1>0, <1>1, <1>9, <2>1 DEF SaveToken, KeyringSet, FileSet, TokenSlot, Fault
        <3>3. mem.dev \in Devices /\ Len(owner) # 0
            BY <1>0, <3>1 DEF StartTypeOK
        <3>4. StoredToken(idFile)' = Len(owner)
            BY <3>1, <3>2, <3>3 DEF StoredToken, TokenSlot, StartTypeOK
        <3>5. QED
            BY <1>0, <3>1, <3>3, <3>4 DEF LastClaimKept
    <2>2. faults' = faults \/ (faults' \in Nat /\ faults' > faults)
        BY <1>0, <1>1, <1>9 DEF SaveToken
    <2>3. QED
        BY <1>9, <2>1, <2>2, PaidFrame DEF SaveToken
\* The other steps neither claim nor store.
<1> DEFINE Quiet == /\ UNCHANGED <<identity, keyring, owner>>
                    /\ \/ faults' \in Nat /\ faults' > faults
                       \/ /\ faults' = faults /\ valid' = valid
                          /\ pc \notin {"saveId", "saveToken"}
                          /\ pc' \notin {"claim", "clear", "saveId", "saveToken", "heartbeat"}
                       \/ faults' = faults /\ UNCHANGED <<valid, pc, mem>>
<1>10. ASSUME Quiet PROVE ClaimsPaid'
    <2>1. StoredToken(idFile)' = StoredToken(idFile)
        BY <1>10 DEF StoredToken, TokenSlot
    <2>2. ASSUME LastClaimKept, ~(faults' \in Nat /\ faults' > faults) PROVE LastClaimKept'
        BY <1>10, <2>1, <2>2 DEF LastClaimKept
    <2>3. QED
        BY <1>10, <2>2, PaidFrame
<1>11. ASSUME Untimed \/ LoadSigningKeys \/ BeginSync \/ EndSync PROVE Quiet
    BY <1>1, <1>11 DEF Untimed, FetchRedisConfig, ReconcileAgent, LoadSigningKeys, BeginSync, EndSync, pluginVars
<1>12. ASSUME Validate \/ InitAndWait \/ InitStorage PROVE Quiet
    BY <1>1, <1>12 DEF Validate, InitAndWait, InitStorage, NewBackendFails, Die, pluginVars
<1>13. ASSUME ReloadKeys \/ AutoUpdate PROVE Quiet
    BY <1>13 DEF ReloadKeys, AutoUpdate
<1>14. ASSUME Revoke PROVE Quiet
    BY <1>1, <1>14 DEF Revoke
<1>15. ASSUME NewVersion PROVE Quiet
    BY <1>15 DEF NewVersion, Register
<1>16. ASSUME Stop PROVE Quiet
    BY <1>16 DEF Stop, Die
<1>17. CASE Crash
    BY <1>1, <1>17, PaidFrame DEF Crash
<1>18. ASSUME NEW p \in Plugins, JobInstall(p) PROVE Quiet
    BY <1>18 DEF JobInstall
<1>19. ASSUME NEW q \in Installers, Install(q) PROVE Quiet
    <2>1. faults' = faults \/ Fault
        BY <1>19 DEF Install, InstallerStep, Finish, BeginInstall, BeginUpdate, Download, Verify,
            WriteManifest
    <2>2. QED
        BY <1>1, <1>19, <2>1 DEF Install
<1>20. ASSUME UNCHANGED vars PROVE Quiet
    BY <1>20 DEF vars, pluginVars
<1> HIDE DEF Quiet
<1>21. QED
    BY <1>3, <1>4, <1>5, <1>6, <1>7, <1>8, <1>9, <1>10, <1>11, <1>12, <1>13, <1>14, <1>15, <1>16, <1>17,
        <1>18, <1>19, <1>20 DEF Next, Boot

\* The induction of ClaimInv.
THEOREM ClaimInvariant == Spec => []ClaimInv
<1>1. StartInit => TokensOwned /\ ClaimsPaid
    <2> SUFFICES ASSUME StartInit PROVE TokensOwned /\ ClaimsPaid
        OBVIOUS
    <2>1. TokensOwned
        BY DEF StartInit, TokensOwned, Nobody
    <2>2. Len(owner) = 0 /\ faults = 0
        BY DEF StartInit, PluginInit
    <2>3. QED
        BY <2>1, <2>2 DEF ClaimsPaid
<1>2. StartTypeOK /\ TokensOwned /\ ClaimsPaid /\ [Next]_vars => TokensOwned' /\ ClaimsPaid'
    BY OwnedStep, PaidStep
<1>3. ClaimInv <=> StartTypeOK /\ TokensOwned /\ ClaimsPaid
    BY DEF ClaimInv
<1>4. QED
    BY <1>1, <1>2, <1>3, StartTypeCorrect, PTL DEF Spec

\* A restart never registers the machine again: every claim but the first is
\* paid for by a fault of its own, and the agent works with a token that was
\* issued for its own device, wherever it crashes between the writes of the
\* identity and of the token (internal/auth, cmd/main.go).
THEOREM RestartKeepsDeviceHolds == Spec => []RestartKeepsDevice
<1>1. ClaimInv => RestartKeepsDevice
    <2> SUFFICES ASSUME ClaimInv PROVE RestartKeepsDevice
        OBVIOUS
    <2>1. Len(owner) \in Nat /\ faults \in Nat
        BY DEF ClaimInv, StartTypeOK, PluginTypeOK
    <2>2. Len(owner) <= faults + 1
        BY <2>1 DEF ClaimInv, ClaimsPaid
    <2>3. QED
        BY <2>2 DEF ClaimInv, TokensOwned, RestartKeepsDevice
<1>2. QED
    BY <1>1, ClaimInvariant, PTL
=============================================================================
