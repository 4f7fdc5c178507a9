----------------------------- MODULE PluginStore -----------------------------
(***************************************************************************)
(* The plugin directory of a device (internal/plugin): for each plugin a   *)
(* binary and a manifest, written by three goroutines that do not know of  *)
(* each other: the sync at startup (SyncPluginsFromAPI), the auto-update   *)
(* ticker (AutoUpdatePlugins) and a worker that meets an unknown plugin id *)
(* (FetchAndInstallPluginByID).  Each works from a catalogue it fetched    *)
(* before; the catalogue moves on meanwhile.                               *)
(*                                                                         *)
(* A binary or a manifest is the number of the version it belongs to, 0 if *)
(* it is missing, Bad if it is damaged.  A binary is replaced before it is *)
(* verified, and the manifest last.                                        *)
(***************************************************************************)
EXTENDS Integers, FiniteSets

CONSTANTS
    Plugins,        \* plugins of the organisation
    MaxVersion,     \* versions of a plugin
    Setups,         \* what may be registered, and under which enforcement, see setup
    Faults          \* bound on failed calls, damaged downloads and crashes

(* DBPlugin, what the control plane lists of a version: a signature with   *)
(* or without its key's id; is the plugin trusted; a checksum, in hex or   *)
(* after "sha256-"; does the rollout include this device; is there a       *)
(* signed URL; are OS and architecture named?                              *)
Entries ==
    [signature : {"none", "nokey", "full"}, trusted : BOOLEAN,
     checksum : {"none", "prefixed", "plain"},
     rollout : BOOLEAN, url : BOOLEAN, platform : BOOLEAN]

ASSUME PluginAssumption ==
    /\ MaxVersion \in Nat \ {0} /\ Faults \in Nat
    /\ Setups \subseteq [strict : BOOLEAN, entry : [Plugins -> [1..MaxVersion -> Entries]]]

VARIABLES
    catalog,    \* control plane: current version of each plugin, 0 before the first
    setup,      \* the entry of each version, and SENTRA_STRICT_PLUGIN_SIGNATURES
    made,       \* plugins that have a directory
    man,        \* manifests
    bin,        \* binaries
    keys,       \* are the signing keys in memory?
    mapped,     \* plugins in pluginIDToName
    ipc,        \* each installer: idle | pick | download | verify | manifest
    list,       \* the catalogue it fetched
    todo,       \* the plugins it has still to look at
    fresh,      \* the plugins it installs (the others it updates), but for those that failed
    cur,        \* the plugin it is at
    faults      \* faults so far

files == <<made, man, bin>>
installers == <<ipc, list, todo, fresh, cur>>
pluginVars == <<catalog, setup, files, keys, mapped, installers, faults>>

Installers == {"sync", "auto", "job"}
Bad == -1
NoPlugin == "none"
Versions == 0..MaxVersion
Entry(p, v) == setup.entry[p][v]
Idle == [list |-> [p \in Plugins |-> 0], todo |-> {}, fresh |-> {}, cur |-> NoPlugin]

PluginTypeOK ==
    /\ catalog \in [Plugins -> Versions] /\ setup \in Setups
    /\ made \subseteq Plugins /\ mapped \subseteq Plugins /\ keys \in BOOLEAN
    /\ man \in [Plugins -> Versions \cup {Bad}] /\ bin \in [Plugins -> Versions \cup {Bad}]
    /\ ipc \in [Installers -> {"idle", "pick", "download", "verify", "manifest"}]
    /\ list \in [Installers -> [Plugins -> Versions]]
    /\ todo \in [Installers -> SUBSET Plugins] /\ fresh \in [Installers -> SUBSET Plugins]
    /\ cur \in [Installers -> Plugins \cup {NoPlugin}]
    /\ \A p \in Plugins : (man[p] # 0 \/ bin[p] # 0) => p \in made
    /\ \A q \in Installers : ipc[q] \in {"download", "verify", "manifest"} => cur[q] \in made
    /\ faults \in 0..Faults

NoInstallers ==
    /\ ipc = [q \in Installers |-> "idle"]
    /\ list = [q \in Installers |-> Idle.list] /\ todo = [q \in Installers |-> {}]
    /\ fresh = [q \in Installers |-> {}] /\ cur = [q \in Installers |-> NoPlugin]

PluginInit ==
    /\ catalog = [p \in Plugins |-> 0] /\ setup \in Setups
    /\ made = {} /\ mapped = {} /\ keys = FALSE
    /\ man = [p \in Plugins |-> 0] /\ bin = [p \in Plugins |-> 0]
    /\ NoInstallers
    /\ faults = 0

Fault == faults < Faults /\ faults' = faults + 1

(* A version is registered in the control plane (external). *)
Register(p) ==
    /\ catalog[p] < MaxVersion
    /\ catalog' = [catalog EXCEPT ![p] = @ + 1]
    /\ UNCHANGED <<setup, files, keys, mapped, installers, faults>>

-----------------------------------------------------------------------------
(* Verification.                                                           *)

(* verifyFileSHA256, which takes a checksum with or without "sha256-". *)
ChecksumOK(p, v) == Entry(p, v).checksum # "none" /\ bin[p] = v

(* VerifyPluginSignature of version v's signature: the key must be named,  *)
(* and in memory, and the binary the one that was signed.                  *)
SignatureOK(p, v) == Entry(p, v).signature = "full" /\ keys /\ bin[p] = v

(* verifyBinary of InstallPlugin and the checks of AutoUpdatePlugins: the  *)
(* checksum and the signature of the catalogue's version v if it has them. *)
BinaryOK(p, v) ==
    /\ Entry(p, v).checksum # "none" => ChecksumOK(p, v)
    /\ IF Entry(p, v).signature = "full" THEN SignatureOK(p, v) ELSE ~setup.strict

(* A trusted plugin without a signature is not asked for one. *)
Waived(p, v) == Entry(p, v).trusted /\ Entry(p, v).signature = "none" /\ ~setup.strict

(* LoadAndUpdatePlugin: what a worker may load, by the manifest alone. *)
Loadable(p) ==
    LET v == man[p]
    IN  /\ v \in 1..MaxVersion /\ Entry(p, v).trusted
        /\ Waived(p, v) \/ SignatureOK(p, v)
        /\ ChecksumOK(p, v)

(* VerifyPluginIntegrity: a waived plugin is not looked at; any other      *)
(* needs a checksum, compared as it is, and a signature.                   *)
IntegrityOK(p) ==
    LET v == man[p]
    IN  /\ v \in 1..MaxVersion
        /\ \/ Waived(p, v)
           \/ Entry(p, v).checksum = "plain" /\ ChecksumOK(p, v) /\ SignatureOK(p, v)

(* VerifyAllCachedPlugins: every directory has a plugin that verifies. *)
AllVerify == \A p \in made : IntegrityOK(p)

-----------------------------------------------------------------------------
(* The installers.                                                         *)

(* Installer q will install p: there is a signed URL, and the rollout      *)
(* includes the device, which only FetchAndInstallPluginByID disregards.   *)
Offered(q, p) ==
    /\ catalog[p] > 0
    /\ Entry(p, catalog[p]).url /\ (q = "job" \/ Entry(p, catalog[p]).rollout)

(* FetchPluginsFromAPI: the catalogue; AutoUpdatePlugins then reads the    *)
(* plugin directory, and installs what has none.                           *)
Fetched(q, wanted) ==
    /\ ipc[q] = "idle"
    /\ ipc' = [ipc EXCEPT ![q] = "pick"]
    /\ list' = [list EXCEPT ![q] = catalog]
    /\ todo' = [todo EXCEPT ![q] = {p \in wanted : IF q = "auto" /\ p \in made THEN catalog[p] > 0
                                                     ELSE Offered(q, p)}]
    /\ fresh' = [fresh EXCEPT ![q] = IF q = "auto" THEN {p \in Plugins \ made : Offered(q, p)} ELSE wanted]
    /\ UNCHANGED <<catalog, setup, files, keys, mapped, cur>>

(* The loop of q is over: PopulatePluginIDMap for all the plugins of the   *)
(* sync, for what the others installed, and the goroutine rests.           *)
Finish(q) ==
    /\ ipc[q] = "pick" /\ todo[q] = {}
    /\ mapped' = mapped \cup {p \in IF q = "sync" THEN Plugins ELSE fresh[q] : list[q][p] > 0}
    /\ ipc' = [ipc EXCEPT ![q] = "idle"]
    /\ list' = [list EXCEPT ![q] = Idle.list] /\ fresh' = [fresh EXCEPT ![q] = {}]
    /\ UNCHANGED <<catalog, setup, files, keys, todo, cur, faults>>

Goto(q, label) == ipc' = [ipc EXCEPT ![q] = label]

(* On to the next plugin. *)
Advance(q) ==
    /\ Goto(q, "pick")
    /\ todo' = [todo EXCEPT ![q] = @ \ {cur[q]}] /\ cur' = [cur EXCEPT ![q] = NoPlugin]

(* The plugin failed; it is logged. *)
Failed(q) == Advance(q) /\ fresh' = [fresh EXCEPT ![q] = @ \ {cur[q]}]

\* Mutant: a cached binary that fails verification ends the installation.
MutCached(q, p) == bin[p] # 0

(* InstallPlugin: a cached binary is used if it verifies. *)
Cached(q, p) == bin[p] # 0 /\ BinaryOK(p, list[q][p])

(* InstallPlugin up to the download: the directory is made; the manifest   *)
(* of a cached binary is written again, which may fail unnoticed; any      *)
(* other binary is removed.  AutoUpdatePlugins installs after it updates.  *)
BeginInstall(q, p) ==
    /\ ipc[q] = "pick" /\ p \in todo[q] \cap fresh[q] /\ todo[q] \subseteq fresh[q]
    /\ made' = made \cup {p}
    /\ IF Cached(q, p)
       THEN /\ \/ man' = [man EXCEPT ![p] = list[q][p]] /\ UNCHANGED faults
               \/ Fault /\ UNCHANGED man
            /\ todo' = [todo EXCEPT ![q] = @ \ {p}]
            /\ UNCHANGED <<bin, ipc, cur>>
       ELSE /\ bin' = [bin EXCEPT ![p] = 0]
            /\ cur' = [cur EXCEPT ![q] = p] /\ Goto(q, "download")
            /\ UNCHANGED <<man, todo, faults>>
    /\ UNCHANGED <<catalog, setup, keys, mapped, list, fresh>>

(* isNewerVersion: a manifest that does not parse has no version. *)
IsNewerVersion(v, local) == local = Bad \/ v > local

(* AutoUpdatePlugins, a plugin that has a directory: without a manifest it *)
(* is passed over, and so is one whose entry names no platform, which the  *)
(* directory's name does not match; a newer version, a checksum that       *)
(* differs, a first signature or a missing binary means a download, if     *)
(* there is a signed URL.                                                  *)
NeedsDownload(p, v) ==
    \/ bin[p] = 0 \/ IsNewerVersion(v, man[p])
    \/ Entry(p, v).checksum # "none" /\ Entry(p, man[p]).checksum # "none" /\ man[p] # v
    \/ Entry(p, v).signature # "none" /\ Entry(p, man[p]).signature = "none"

BeginUpdate(p) ==
    /\ ipc["auto"] = "pick" /\ p \in todo["auto"] \ fresh["auto"]
    /\ IF /\ man[p] # 0 /\ NeedsDownload(p, list["auto"][p])
          /\ Entry(p, list["auto"][p]).platform /\ Entry(p, list["auto"][p]).url
       THEN cur' = [cur EXCEPT !["auto"] = p] /\ Goto("auto", "download") /\ UNCHANGED todo
       ELSE todo' = [todo EXCEPT !["auto"] = @ \ {p}] /\ UNCHANGED <<ipc, cur>>
    /\ UNCHANGED <<catalog, setup, files, keys, mapped, list, fresh, faults>>

(* downloadWithRetries: the binary is in its place before it is verified;  *)
(* it is damaged in transit, or because two downloads share one temporary  *)
(* file, or all the attempts fail.                                         *)
Download(q) ==
    /\ ipc[q] = "download"
    /\ \/ /\ bin' = [bin EXCEPT ![cur[q]] = list[q][cur[q]]]
          /\ Goto(q, "verify") /\ UNCHANGED <<todo, fresh, cur, faults>>
       \/ /\ Fault /\ bin' = [bin EXCEPT ![cur[q]] = Bad]
          /\ Goto(q, "verify") /\ UNCHANGED <<todo, fresh, cur>>
       \/ Fault /\ Failed(q) /\ UNCHANGED bin
    /\ UNCHANGED <<catalog, setup, made, man, keys, mapped, list>>

Updating(q) == cur[q] \notin fresh[q]

(* Verification of what is there now, by q or another: a binary that fails *)
(* is removed.  An update whose checksum is right, or missing, and whose   *)
(* signature does not verify also sets the old manifest aside.             *)
Verify(q) ==
    LET p == cur[q]
        v == list[q][p]
        e == Entry(p, v)
    IN  /\ ipc[q] = "verify"
        /\ IF BinaryOK(p, v) THEN Goto(q, "manifest") /\ UNCHANGED <<man, bin, todo, fresh, cur>>
           ELSE /\ bin' = [bin EXCEPT ![p] = 0]
                /\ man' = IF Updating(q) /\ e.signature = "full" /\ (e.checksum = "none" \/ ChecksumOK(p, v))
                          THEN [man EXCEPT ![p] = 0] ELSE man
                /\ Failed(q)
        /\ UNCHANGED <<catalog, setup, made, keys, mapped, list, faults>>

(* The manifest is written last.  When that fails, InstallPlugin removes   *)
(* the binary; AutoUpdatePlugins, which writes over the old manifest,      *)
(* takes no notice.                                                        *)
WriteManifest(q) ==
    LET p == cur[q]
    IN  /\ ipc[q] = "manifest"
        /\ \/ man' = [man EXCEPT ![p] = list[q][p]] /\ Advance(q) /\ UNCHANGED <<bin, fresh, faults>>
           \/ /\ Fault /\ Updating(q) /\ man' = [man EXCEPT ![p] = Bad]
              /\ Advance(q) /\ UNCHANGED <<bin, fresh>>
           \/ /\ Fault /\ ~Updating(q) /\ bin' = [bin EXCEPT ![p] = 0]
              /\ Failed(q) /\ UNCHANGED man
        /\ UNCHANGED <<catalog, setup, made, keys, mapped, list>>

InstallerStep(q) ==
    \/ Finish(q)
    \/ \E p \in Plugins : BeginInstall(q, p)
    \/ q = "auto" /\ \E p \in Plugins : BeginUpdate(p)
    \/ Download(q)
    \/ Verify(q)
    \/ WriteManifest(q)

(* The process dies.  InstallPlugin renames its manifest into place,       *)
(* AutoUpdatePlugins writes over the old one and may leave a part of it.   *)
InstallersDie ==
    /\ ipc' = [q \in Installers |-> "idle"] /\ list' = [q \in Installers |-> Idle.list]
    /\ todo' = [q \in Installers |-> {}] /\ fresh' = [q \in Installers |-> {}]
    /\ cur' = [q \in Installers |-> NoPlugin]
    /\ keys' = FALSE /\ mapped' = {}
    /\ \/ UNCHANGED man
       \/ ipc["auto"] = "manifest" /\ Updating("auto") /\ man' = [man EXCEPT ![cur["auto"]] = Bad]
    /\ UNCHANGED <<catalog, setup, made, bin>>
=============================================================================
