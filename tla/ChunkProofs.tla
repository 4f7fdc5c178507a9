---------------------------- MODULE ChunkProofs ----------------------------
(***************************************************************************)
(* Proofs about ChunkPipeline for pipelines of any length, any assignment  *)
(* of plugin styles, any number of devices and any number of faults.       *)
(***************************************************************************)
EXTENDS ChunkPipeline, TLAPS

(* What a step output directory may hold, and how a file may end. *)
Dir == [made : BOOLEAN, rep : Contents, files : Contents]
Hows == {"whole", "cut", "torn", "receipt"}

-----------------------------------------------------------------------------
(* The operators on files.                                                 *)

\* The special files are files.
LEMMA SpecialFiles == Source \in Contents /\ NoFile \in Contents /\ Meta \in Contents
    BY DEF Source, NoFile, Meta, Contents

\* What a plugin makes of a file is a file.
LEMMA ApplyType ==
    ASSUME NEW c \in Contents, NEW k \in Steps, NEW how \in Hows
    PROVE  Apply(c, k, how) \in Contents
    BY DEF Apply, Contents, Hows

\* A directory that was not made, and one that was just made, are directories.
LEMMA DirType == NoDir \in Dir /\ EmptyDir \in Dir
    BY SpecialFiles DEF NoDir, EmptyDir, Dir

\* What a plugin leaves in its step's directory.
LEMMA StepDirType ==
    ASSUME NEW c \in Contents, NEW k \in Steps, NEW s \in Styles, NEW how \in Hows
    PROVE  StepDir(c, k, s, how) \in Dir
<1>1. Apply(c, k, how) \in Contents /\ Apply(c, k, "receipt") \in Contents
    BY ApplyType DEF Hows
<1>2. QED
    BY <1>1, SpecialFiles DEF StepDir, Dir, Styles

-----------------------------------------------------------------------------
(* Types.                                                                  *)

(* A handler about to begin a step has a step left, and one about to       *)
(* publish has completed one.                                              *)
AtInRange ==
    \A d \in Devices : /\ pc[d] = "step" => at[d] < N
                       /\ pc[d] = "publish" => at[d] > 0

TypeInv == ChunkTypeOK /\ AtInRange

\* The steps of a pipeline are those below N, and every one has a style.
LEMMA StepsFacts ==
    /\ N \in Nat /\ N > 0 /\ N - 1 \in Steps
    /\ \A k \in 0..N : (k < N => k \in Steps) /\ (k > 0 => k - 1 \in Steps)
    /\ \A k \in Steps : k \in 0..N /\ k < N /\ k + 1 \in 0..N
    BY PipelineAssumption DEF PipelineAssumption, Steps

(* The type invariant in parts: the handlers, the files, the rest. *)
HandlerOK ==
    /\ pc \in [Devices -> {"idle", "step", "plugin", "v2", "publish", "clean"}]
    /\ at \in [Devices -> 0..N] /\ input \in [Devices -> Contents]
    /\ prev \in [Devices -> Steps \cup {-1}]
    /\ filesDir \in [Devices -> BOOLEAN] /\ retried \in [Devices -> BOOLEAN]
    /\ \A d \in Devices : pc[d] \in {"plugin", "v2"} => at[d] < N /\ (input[d] # NoFile \/ pc[d] = "v2")
    /\ AtInRange

DiskOK ==
    /\ published \in Contents /\ cache \in [Devices -> [Steps -> Dir]]
    /\ work \in [Devices -> [Steps -> Contents]]

RestOK ==
    /\ reported \in 0..N /\ done \in [Devices -> SUBSET Steps] /\ regular \in BOOLEAN
    /\ faults \in 0..Faults /\ lapses \subseteq {"leftover", "bypassed"}

SettingOK ==
    /\ mode \in {"shared", "s3"} /\ layout \in {"compound", "steps", "range", "files"}
    /\ source \in {"one", "dir", "list"} /\ style \in Pipelines

\* The type invariant in four parts.
LEMMA TypeParts == TypeInv <=> SettingOK /\ DiskOK /\ HandlerOK /\ RestOK
    BY DEF TypeInv, ChunkTypeOK, SettingOK, DiskOK, HandlerOK, RestOK, Dir

\* The same in the next state.
LEMMA TypePartsNext == TypeInv' <=> SettingOK' /\ DiskOK' /\ HandlerOK' /\ RestOK'
    BY DEF TypeInv, ChunkTypeOK, SettingOK, DiskOK, HandlerOK, RestOK, Dir, AtInRange

\* Each step of a pipeline has a style.
LEMMA StyleType ==
    ASSUME SettingOK, NEW k \in Steps
    PROVE  style[k] \in Styles
    BY PipelineAssumption DEF PipelineAssumption, SettingOK

\* A handler that is left has the local variables of an idle one.
LEMMA LeaveType ==
    ASSUME HandlerOK, NEW d \in Devices, Leave(d)
    PROVE  HandlerOK'
    BY SpecialFiles, StepsFacts DEF HandlerOK, Leave, Goto, AtInRange

\* A handler that fails leaves directories and a work directory behind.
LEMMA FailType ==
    ASSUME HandlerOK, DiskOK, NEW d \in Devices, NEW dirs \in [Steps -> Dir], Fail(d, dirs),
           published' \in Contents
    PROVE  HandlerOK' /\ DiskOK'
<1>1. HandlerOK'
    BY LeaveType DEF Fail
<1>2. DiskOK'
    BY SpecialFiles DEF Fail, DiskOK, AfterFailure
<1>3. QED
    BY <1>1, <1>2

\* A plugin's output is a file or a directory, at its place.
LEMMA WriteType ==
    ASSUME SettingOK, DiskOK, HandlerOK, NEW d \in Devices, at[d] < N, NEW how \in Hows,
           Write(d, how)
    PROVE  DiskOK'
<1> DEFINE k == at[d]
           out == SingleOutput(Apply(input[d], k, how), style[k], OutputPath(d))
<1>1. k \in Steps /\ input[d] \in Contents /\ style[k] \in Styles
    BY StepsFacts, StyleType DEF HandlerOK
<1>2. Apply(input[d], k, how) \in Contents
    BY <1>1, ApplyType
<1>3. OutputPath(d) \in Contents
    BY <1>1 DEF OutputPath, DiskOK, SettingOK, Dir
<1>4. out \in Contents
    BY <1>2, <1>3, SpecialFiles DEF SingleOutput
<1>5. StepDir(input[d], k, style[k], how) \in Dir
    BY <1>1, StepDirType
<1>6. CASE layout = "compound"
    <2>1. /\ cache' = [cache EXCEPT ![d][k] = StepDir(input[d], k, style[k], how)]
          /\ UNCHANGED <<published, work>>
        BY <1>6 DEF Write
    <2>2. QED
        BY <2>1, <1>1, <1>5 DEF DiskOK
<1>7. CASE layout = "steps" /\ mode = "shared"
    BY <1>7, <1>1, <1>4 DEF Write, DiskOK
<1>8. CASE layout # "compound" /\ ~(layout = "steps" /\ mode = "shared")
    <2>1. work' = [work EXCEPT ![d][k] = out] /\ UNCHANGED <<published, cache>>
        BY <1>8 DEF Write
    <2>2. QED
        BY <2>1, <1>1, <1>4 DEF DiskOK
<1>9. QED
    BY <1>6, <1>7, <1>8

\* After a completed step a handler begins the next one or publishes.
LEMMA StepDoneType ==
    ASSUME HandlerOK, RestOK, NEW d \in Devices, NEW result, StepDone(d, result),
           at[d] < N, filesDir' = filesDir
    PROVE  HandlerOK' /\ done' \in [Devices -> SUBSET Steps]
<1>1. at[d] \in Steps /\ at[d] + 1 \in 0..N /\ at[d] \in Nat
    BY StepsFacts DEF HandlerOK
<1>2. prev' \in [Devices -> Steps \cup {-1}]
    BY <1>1 DEF StepDone, HandlerOK
<1>3. at' \in [Devices -> 0..N] /\ done' \in [Devices -> SUBSET Steps]
    BY <1>1 DEF StepDone, HandlerOK, RestOK
<1>4. /\ pc' \in [Devices -> {"idle", "step", "plugin", "v2", "publish", "clean"}]
      /\ pc'[d] \in {"step", "publish"}
      /\ pc'[d] = "step" => at[d] + 1 < N
      /\ at'[d] = at[d] + 1
      /\ \A e \in Devices \ {d} : pc'[e] = pc[e] /\ at'[e] = at[e] /\ input'[e] = input[e]
      /\ input' \in [Devices -> Contents] /\ retried' \in [Devices -> BOOLEAN]
    BY SpecialFiles DEF StepDone, HandlerOK, Goto
<1>5. AtInRange'
    BY <1>1, <1>4 DEF HandlerOK, AtInRange
<1>6. QED
    BY <1>1, <1>2, <1>3, <1>4, <1>5 DEF HandlerOK

\* A step's plugin is run, or the job fails for want of an input.
LEMMA RunOrFailType ==
    ASSUME TypeInv, NEW d \in Devices, pc[d] = "step", NEW c \in Contents,
           NEW dirs \in [Steps -> Dir], RunOrFail(d, c, dirs)
    PROVE  TypeInv'
<1> USE TypeParts
<1>1. SettingOK' /\ RestOK'
    BY DEF RunOrFail, SettingOK, RestOK, setting, history
<1>2. CASE c = NoFile
    <2>1. Fail(d, dirs) /\ published' \in Contents
        BY <1>2 DEF RunOrFail, DiskOK
    <2>2. QED
        BY <2>1, <1>1, FailType, TypePartsNext
<1>3. CASE c # NoFile
    <2>1. DiskOK'
        BY <1>3 DEF RunOrFail, DiskOK
    <2>2. at[d] < N
        BY DEF HandlerOK, AtInRange
    <2>3. HandlerOK'
        BY <1>3, <2>2 DEF RunOrFail, HandlerOK, Goto, AtInRange
    <2>4. QED
        BY <1>1, <2>1, <2>3, TypePartsNext
<1>4. QED
    BY <1>2, <1>3

\* The beginning of a step, in each of the four layouts.
LEMMA BeginType ==
    ASSUME TypeInv, NEW d \in Devices,
           BeginCompound(d) \/ BeginSingle(d) \/ BeginRange(d) \/ BeginFileList(d)
    PROVE  TypeInv'
<1> USE TypeParts
<1>1. pc[d] = "step" /\ at[d] < N /\ at[d] \in Steps /\ at[d] \in 0..N
    BY StepsFacts DEF BeginCompound, BeginSingle, BeginRange, BeginFileList, HandlerOK, AtInRange
<1>2. cache[d] \in [Steps -> Dir] /\ published \in Contents
    BY DEF DiskOK
<1>3. CASE BeginCompound(d)
    <2> DEFINE dirs == [cache[d] EXCEPT ![at[d]] = FreshDir(@)]
               c == CompoundInput(d, at[d])
    <2>1. dirs \in [Steps -> Dir]
        BY <1>2, DirType DEF FreshDir
    <2>2. \A k \in Steps : Data(cache[d][k]) \in Contents
        BY <1>2 DEF Data, Dir
    <2>3. c \in Contents
        <3>1. CASE at[d] = 0
            BY <3>1, SpecialFiles DEF CompoundInput
        <3>2. CASE at[d] # 0
            <4>1. at[d] - 1 \in Steps /\ prev[d] \in Steps \cup {-1} /\ filesDir[d] \in BOOLEAN
                BY <3>2, <1>1, StepsFacts DEF HandlerOK
            <4>2. QED
                BY <3>2, <4>1, <1>2, <2>2, SpecialFiles DEF CompoundInput, ChainInput
        <3>3. QED
            BY <3>1, <3>2
    <2>4. QED
        BY <1>1, <1>3, <2>1, <2>3, RunOrFailType DEF BeginCompound
<1>4. CASE BeginSingle(d)
    <2>1. StepInput(at[d]) \in Contents
        BY <1>2, SpecialFiles DEF StepInput
    <2>2. QED
        BY <1>1, <1>2, <1>4, <2>1, RunOrFailType DEF BeginSingle
<1>5. CASE BeginRange(d) \/ BeginFileList(d)
    BY <1>1, <1>2, <1>5, SpecialFiles, RunOrFailType DEF BeginRange, BeginFileList
<1>6. QED
    BY <1>3, <1>4, <1>5

\* The control plane's delivery of a chunk.
LEMMA DeliverType ==
    ASSUME TypeInv, NEW d \in Devices, NEW s \in 0..N, Deliver(d, s)
    PROVE  TypeInv'
<1> USE TypeParts
<1>1. SettingOK' /\ DiskOK' /\ RestOK'
    <2>1. /\ UNCHANGED <<setting, disk, reported, done, lapses>>
          /\ UNCHANGED <<regular, faults>> \/ (Fault /\ regular' = FALSE)
        BY DEF Deliver
    <2>2. SettingOK' /\ DiskOK'
        BY <2>1 DEF SettingOK, DiskOK, setting, disk
    <2>3. faults' \in 0..Faults
        BY <2>1, PipelineAssumption DEF PipelineAssumption, RestOK, Fault
    <2>4. regular' \in BOOLEAN
        BY <2>1 DEF RestOK
    <2>5. QED
        BY <2>1, <2>2, <2>3, <2>4 DEF RestOK
<1>2. HandlerOK'
    BY StepsFacts DEF Deliver, HandlerOK, Goto, FirstLabel, AtInRange
<1>3. QED
    BY <1>1, <1>2, TypePartsNext

\* The number of steps reported stays within the pipeline.
LEMMA ReportedType ==
    ASSUME HandlerOK, RestOK, NEW d \in Devices, at[d] < N, Reported(d) \/ reported' = reported
    PROVE  reported' \in 0..N
    BY StepsFacts DEF HandlerOK, RestOK, Reported

\* The ways in which a plugin's run ends.
LEMMA PluginType ==
    ASSUME TypeInv, NEW d \in Devices,
           PluginSucceeds(d) \/ PluginErrsWithOutput(d) \/ PluginErrs(d)
              \/ V2Fails(d) \/ PluginGarbles(d)
    PROVE  TypeInv'
<1> USE TypeParts, TypePartsNext
<1>1. at[d] < N /\ at[d] \in Steps /\ input[d] \in Contents
    BY StepsFacts DEF PluginSucceeds, PluginErrsWithOutput, PluginErrs, V2Fails, PluginGarbles, HandlerOK
<1>2. cache[d] \in [Steps -> Dir] /\ published \in Contents
    BY DEF DiskOK
<1>3. SettingOK' /\ faults' \in 0..Faults /\ lapses' \subseteq {"leftover", "bypassed"}
    <2>1. UNCHANGED setting /\ (Fault \/ UNCHANGED faults)
        BY DEF PluginSucceeds, PluginErrsWithOutput, PluginErrs, V2Fails, PluginGarbles
    <2>2. \/ lapses' = lapses \/ lapses' = lapses \cup {}
          \/ lapses' = lapses \cup Leftover(d) \/ lapses' = lapses \cup Bypass(d)
        BY DEF PluginSucceeds, PluginErrsWithOutput, PluginErrs, V2Fails, PluginGarbles, FallBack, history
    <2>3. lapses' \subseteq {"leftover", "bypassed"}
        BY <2>2 DEF Leftover, Bypass, RestOK
    <2>4. QED
        BY <2>1, <2>3, PipelineAssumption DEF PipelineAssumption, setting, SettingOK, RestOK, Fault
<1>4. CASE PluginSucceeds(d)
    <2>1. DiskOK'
        BY <1>1, <1>4, WriteType DEF PluginSucceeds, Hows
    <2>2. HandlerOK' /\ done' \in [Devices -> SUBSET Steps]
        BY <1>1, <1>4, StepDoneType DEF PluginSucceeds
    <2>3. reported' \in 0..N /\ regular' \in BOOLEAN
        BY <1>1, <1>4, ReportedType DEF PluginSucceeds, RestOK
    <2>4. QED
        BY <1>3, <2>1, <2>2, <2>3 DEF RestOK
<1>5. CASE PluginErrsWithOutput(d)
    <2>1. DiskOK'
        BY <1>1, <1>5, WriteType DEF PluginErrsWithOutput, Hows
    <2>2. HandlerOK' /\ done' \in [Devices -> SUBSET Steps]
        BY <1>1, <1>5, StepDoneType DEF PluginErrsWithOutput
    <2>3. reported' \in 0..N /\ regular' \in BOOLEAN
        BY <1>1, <1>5, ReportedType DEF PluginErrsWithOutput, RestOK
    <2>4. QED
        BY <1>3, <2>1, <2>2, <2>3 DEF RestOK
<1>6. CASE PluginErrs(d)
    <2>1. CASE StepDone(d, "none") /\ Reported(d) /\ UNCHANGED <<cache, work, filesDir, regular, published>>
        BY <1>1, <1>3, <2>1, StepDoneType, ReportedType DEF DiskOK, RestOK
    <2>2. CASE /\ retried' = [retried EXCEPT ![d] = TRUE]
               /\ UNCHANGED <<pc, at, input, prev, filesDir, done, reported, cache, work, regular, published>>
        BY <1>3, <2>2 DEF DiskOK, HandlerOK, RestOK, AtInRange
    <2>3. CASE FallBack(d) /\ UNCHANGED published
        <3>1. HandlerOK'
            BY <1>1, <2>3, SpecialFiles DEF FallBack, HandlerOK, Goto, AtInRange
        <3>2. DiskOK' /\ RestOK'
            BY <1>3, <2>3 DEF FallBack, DiskOK, RestOK
        <3>3. QED
            BY <1>3, <3>1, <3>2
    <2>4. CASE Fail(d, cache[d]) /\ UNCHANGED <<done, reported, regular, published>>
        BY <1>2, <1>3, <2>4, FailType DEF RestOK
    <2>5. QED
        BY <1>6, <2>1, <2>2, <2>3, <2>4 DEF PluginErrs, history
<1>7. CASE V2Fails(d)
    BY <1>2, <1>3, <1>7, FailType DEF V2Fails, RestOK, history
<1>8. CASE PluginGarbles(d)
    <2>1. Apply(input[d], at[d], "whole") \in Contents
        BY <1>1, ApplyType DEF Hows
    <2>2. published' \in Contents
        BY <1>2, <1>8, <2>1 DEF PluginGarbles
    <2>3. QED
        BY <1>2, <1>3, <1>8, <2>2, FailType DEF PluginGarbles, RestOK, history
<1>9. QED
    BY <1>4, <1>5, <1>6, <1>7, <1>8

\* What a compound chunk publishes, whole or torn, is a file.
LEMMA ResultType ==
    ASSUME DiskOK, NEW d \in Devices
    PROVE  CompoundResult(cache[d][N - 1]) \in Contents /\ TornCopy(d) \in Contents
<1>1. cache[d][N - 1] \in Dir /\ N - 1 \in Steps /\ published \in Contents
    BY StepsFacts DEF DiskOK
<1>2. CompoundResult(cache[d][N - 1]) \in Contents
    BY <1>1, SpecialFiles DEF CompoundResult, Dir
<1>3. Apply(CompoundResult(cache[d][N - 1]), N - 1, "torn") \in Contents
    BY <1>1, <1>2, ApplyType DEF Hows
<1>4. QED
    BY <1>1, <1>2, <1>3 DEF TornCopy, Apply

\* The result is published, the cache removed.
LEMMA PublishType ==
    ASSUME TypeInv, NEW d \in Devices,
           PublishCompound(d) \/ RemoveCache(d) \/ Upload(d)
    PROVE  TypeInv'
<1> USE TypeParts, TypePartsNext
<1>1. cache[d] \in [Steps -> Dir] /\ published \in Contents
    BY DEF DiskOK
<1>2. CASE PublishCompound(d)
    <2>1. published' \in Contents
        BY <1>1, <1>2, ResultType DEF PublishCompound
    <2>2. SettingOK' /\ DiskOK' /\ RestOK'
        BY <1>2, <2>1 DEF PublishCompound, SettingOK, DiskOK, RestOK, setting, history
    <2>3. HandlerOK'
        BY <1>2 DEF PublishCompound, HandlerOK, Goto, AtInRange
    <2>4. QED
        BY <2>2, <2>3
<1>3. CASE RemoveCache(d)
    <2>1. HandlerOK'
        BY <1>3, LeaveType DEF RemoveCache
    <2>2. DiskOK'
        BY <1>3, DirType, SpecialFiles DEF RemoveCache, DiskOK
    <2>3. SettingOK' /\ RestOK'
        BY <1>3 DEF RemoveCache, SettingOK, RestOK, setting, history
    <2>4. QED
        BY <2>1, <2>2, <2>3
<1>4. CASE Upload(d)
    <2>1. at[d] - 1 \in Steps /\ at[d] \in 0..N
        BY <1>4, StepsFacts DEF Upload, HandlerOK, AtInRange
    <2>2. published' \in Contents
        BY <1>1, <1>4, <2>1 DEF Upload, DiskOK
    <2>3. HandlerOK' /\ DiskOK'
        BY <1>1, <1>4, <2>2, FailType DEF Upload
    <2>4. SettingOK' /\ RestOK'
        BY <1>4, <2>1 DEF Upload, SettingOK, RestOK, setting, history
    <2>5. QED
        BY <2>3, <2>4
<1>5. QED
    BY <1>2, <1>3, <1>4

\* Failures of the storage, and crashes.
LEMMA FailureType ==
    ASSUME TypeInv, NEW d \in Devices, StorageFails(d) \/ Crash(d)
    PROVE  TypeInv'
<1> USE TypeParts, TypePartsNext
<1>1. cache[d] \in [Steps -> Dir] /\ published \in Contents
    BY DEF DiskOK
<1>2. SettingOK' /\ RestOK'
    <2>1. /\ UNCHANGED <<setting, reported, lapses>> /\ Fault
          /\ done' = done \/ done' = [done EXCEPT ![d] = @ \ {at[d]}]
        BY DEF StorageFails, Crash
    <2>2. regular' \in BOOLEAN
        <3>1. regular' = regular \/ regular' = FALSE
            BY DEF StorageFails, Crash
        <3>2. QED
            BY <3>1, Zenon DEF RestOK
    <2>3. QED
        BY <2>1, <2>2, PipelineAssumption DEF PipelineAssumption, SettingOK, RestOK, setting, Fault
<1>3. CASE StorageFails(d)
    <2>1. published' \in Contents
        BY <1>1, <1>3, ResultType DEF StorageFails
    <2>2. CASE \E dirs \in [Steps -> Dir] : Fail(d, dirs)
        BY <1>2, <2>1, <2>2, FailType
    <2>3. CASE pc[d] = "step" /\ layout = "compound" /\ Fail(d, [cache[d] EXCEPT ![at[d]] = FreshDir(@)])
        <3>1. [cache[d] EXCEPT ![at[d]] = FreshDir(@)] \in [Steps -> Dir]
            BY <1>1, DirType DEF FreshDir
        <3>2. QED
            BY <2>3, <3>1, <2>2
    <2>4. CASE Fail(d, cache[d])
        BY <1>1, <2>4, <2>2
    <2>5. QED
        BY <1>3, <2>3, <2>4 DEF StorageFails
<1>4. CASE Crash(d)
    <2>1. HandlerOK'
        BY <1>4, LeaveType DEF Crash
    <2>2. CASE pc[d] \in {"plugin", "v2"} /\ Write(d, "torn")
        <3>1. at[d] < N
            BY <2>2 DEF HandlerOK
        <3>2. DiskOK'
            BY <2>2, <3>1, WriteType DEF Hows
        <3>3. QED
            BY <1>2, <2>1, <3>2
    <2>3. CASE UNCHANGED disk \/ (published' = TornCopy(d) /\ UNCHANGED <<cache, work>>)
        <3>1. DiskOK'
            BY <1>1, <2>3, ResultType DEF disk, DiskOK
        <3>2. QED
            BY <1>2, <2>1, <3>1
    <2>4. QED
        BY <1>4, <2>2, <2>3 DEF Crash
<1>5. QED
    BY <1>3, <1>4

\* Every step keeps the types.
LEMMA TypeStep ==
    ASSUME TypeInv, [Next]_vars
    PROVE  TypeInv'
<1>1. CASE UNCHANGED vars
    BY <1>1 DEF vars, setting, handler, disk, history, TypeInv, ChunkTypeOK, AtInRange
<1>2. QED
    BY <1>1, DeliverType, BeginType, PluginType, PublishType, FailureType
       DEF Next, Work, PublishSingle, PublishRange, PublishFileList

\* A handler that begins a step has one left, and one that publishes has
\* completed one: with this the types are inductive.
THEOREM ChunkTypeInvariant == Spec => []TypeInv
<1>1. Init => TypeInv
    BY SpecialFiles, DirType, PipelineAssumption
       DEF Init, TypeInv, ChunkTypeOK, AtInRange, Dir, PipelineAssumption
<1>2. TypeInv /\ [Next]_vars => TypeInv'
    BY TypeStep
<1>3. QED
    BY <1>1, <1>2, PTL DEF Spec

\* Every file, directory and counter has its type, and a plugin that runs has
\* its input, for pipelines of any length.
THEOREM ChunkTypeCorrect == Spec => []ChunkTypeOK
<1>1. TypeInv => ChunkTypeOK
    BY DEF TypeInv
<1>2. QED
    BY <1>1, ChunkTypeInvariant, PTL

-----------------------------------------------------------------------------
(* The whole result: the invariant, and compound chunks.                   *)

(* The output directory of a completed step has the pipeline up to that    *)
(* step where the next step looks for it and, except for a plugin that     *)
(* reports a directory, where the result is taken from.                    *)
Complete(dir, k) ==
    /\ dir.made /\ Data(dir) = Upto(k + 1)
    /\ style[k] # "dir" => CompoundResult(dir) = Upto(k + 1)

(* Some plugin before the last one does not report where its output is.    *)
Silent == \E k \in 0..(N - 2) : style[k] \notin {"path", "dir"}

(* What a device knows: the steps it completed are in its cache; a handler *)
(* about to begin a step will find the output of the step before, by       *)
(* previousData or in the cache; a running plugin reads the pipeline up to *)
(* its step and has an empty directory.                                    *)
CompoundDevice(d) ==
    /\ \A k \in done[d] : Complete(cache[d][k], k)
    /\ pc[d] = "idle" => prev[d] = -1
    /\ source = "one" => ~filesDir[d]
    /\ pc[d] = "step" /\ at[d] > 0 =>
          at[d] - 1 \in done[d] /\ (prev[d] = at[d] - 1 \/ (prev[d] = -1 /\ ~filesDir[d]))
    /\ pc[d] \in {"plugin", "v2"} =>
          input[d] = Upto(at[d]) /\ cache[d][at[d]] = EmptyDir /\ at[d] \notin done[d]
    /\ pc[d] \in {"step", "plugin", "v2"} /\ Silent => prev[d] = -1
    /\ pc[d] = "publish" => N - 1 \in done[d]

CompoundInv ==
    /\ \A d \in Devices : CompoundDevice(d)
    /\ published \in {NoFile, Upto(N)}

(* A file in a work directory: the pipeline up to its step, or what a      *)
(* crash left half written.                                                *)
WorkFile(c, k) == c \in {NoFile, Upto(k + 1)} \/ Torn(c)

(* Jobs for one step, with an object store: an output in a work directory  *)
(* is the pipeline up to its step, or torn, and then not about to be       *)
(* uploaded; what a plugin reads is the pipeline up to its step; and one   *)
(* device at a time has a step of the chunk.                               *)
SingleInv ==
    /\ \A d \in Devices : /\ \A k \in Steps : WorkFile(work[d][k], k)
                          /\ pc[d] = "publish" => work[d][at[d] - 1] \in {NoFile, Upto(at[d])}
                          /\ pc[d] \in {"plugin", "v2"} => input[d] = Upto(at[d])
                          /\ pc[d] = "step" => at[d] = 0 \/ published = Upto(at[d])
    /\ published # NoFile => published = Upto(Len(published))
    /\ layout = "steps" => \A d, e \in Devices : pc[d] # "idle" /\ pc[e] # "idle" => d = e
    /\ layout # "steps" => \A d \in Devices : pc[d] = "step" => at[d] = 0

(* The two of them, where WholeResult makes its claim. *)
WholeInv ==
    regular /\ lapses = {} =>
               /\ layout = "compound" /\ Chained => CompoundInv
               /\ layout # "compound" /\ mode = "s3" => SingleInv

\* One more step of the pipeline, applied to the steps before it.
LEMMA UptoStep ==
    ASSUME NEW k \in Nat
    PROVE  /\ Apply(Upto(k), k, "whole") = Upto(k + 1)
           /\ Upto(k + 1) # NoFile /\ Upto(k + 1) # Meta
           /\ Len(Upto(k)) = k
           /\ Upto(0) = Source
<1>1. Upto(k) \in Seq(Nat \X {"whole"}) /\ Len(Upto(k)) = k
    BY DEF Upto
<1>2. Apply(Upto(k), k, "whole") = Upto(k + 1)
    BY <1>1 DEF Apply, Upto
<1>3. Upto(k + 1)[1] = <<0, "whole">>
    BY DEF Upto
<1>4. NoFile[1] = <<-1, "none">> /\ Meta[1] = <<-1, "meta">>
    BY DEF NoFile, Meta
<1>5. Upto(0) = Source
    BY DEF Upto, Source
<1>6. QED
    BY <1>1, <1>2, <1>3, <1>4, <1>5

\* A plugin that succeeds on the right input completes its step, however it
\* delivers its output.
LEMMA StepDirComplete ==
    ASSUME SettingOK, NEW k \in Steps
    PROVE  Complete(StepDir(Upto(k), k, style[k], "whole"), k)
<1>1. k \in Nat /\ style[k] \in Styles
    BY StyleType, StepsFacts
<1>2. Apply(Upto(k), k, "whole") = Upto(k + 1) /\ Upto(k + 1) # NoFile
    BY <1>1, UptoStep
<1>3. QED
    BY <1>1, <1>2 DEF StepDir, Complete, Data, CompoundResult, Styles

\* A step of one device: the others keep what they know.
LEMMA CompoundFrame ==
    ASSUME CompoundInv, UNCHANGED setting, NEW d \in Devices, CompoundDevice(d)',
           \A e \in Devices \ {d} :
              /\ cache'[e] = cache[e] /\ done'[e] = done[e] /\ pc'[e] = pc[e] /\ at'[e] = at[e]
              /\ input'[e] = input[e] /\ prev'[e] = prev[e] /\ filesDir'[e] = filesDir[e],
           published' \in {NoFile, Upto(N)}
    PROVE  CompoundInv'
<1>1. ASSUME NEW e \in Devices
      PROVE  CompoundDevice(e)'
    <2>1. CASE e = d
        BY <2>1
    <2>2. CASE e # d
        BY <2>2 DEF CompoundInv, CompoundDevice, Complete, Silent, setting
    <2>3. QED
        BY <2>1, <2>2
<1>2. QED
    BY <1>1 DEF CompoundInv

\* In a chain with a silent plugin there are no source files to fall back on,
\* and no plugin before the last reports a path.
LEMMA ChainedFacts ==
    ASSUME Chained, NEW k \in Steps
    PROVE  /\ style[N - 1] # "dir"
           /\ Silent => source = "one" /\ (k + 1 < N => style[k] \notin {"path", "dir"})
           /\ ~Silent => (k + 1 < N => style[k] \in {"path", "dir"})
    BY StepsFacts DEF Chained, Silent, Steps

\* What a device that left its handler still knows.
LEMMA CompoundLeft ==
    ASSUME TypeInv, CompoundInv, UNCHANGED setting, NEW d \in Devices, Leave(d),
           \A e \in Devices \ {d} : cache'[e] = cache[e] /\ done'[e] = done[e],
           \A k \in done'[d] : k \in done[d] /\ cache'[d][k] = cache[d][k],
           published' \in {NoFile, Upto(N)}
    PROVE  CompoundInv'
<1> USE TypeParts
<1>1. CompoundDevice(d)'
    BY DEF Leave, Goto, HandlerOK, CompoundInv, CompoundDevice, Complete, setting
<1>2. \A e \in Devices \ {d} : /\ pc'[e] = pc[e] /\ at'[e] = at[e] /\ input'[e] = input[e]
                               /\ prev'[e] = prev[e] /\ filesDir'[e] = filesDir[e]
    BY DEF Leave, Goto, HandlerOK
<1>3. QED
    BY <1>1, <1>2, CompoundFrame

\* A chunk that starts over, or resumes after a step this device has.
LEMMA CompoundDeliver ==
    ASSUME TypeInv, layout = "compound", Chained, CompoundInv, regular',
           NEW d \in Devices, NEW s \in 0..N, Deliver(d, s)
    PROVE  CompoundInv'
<1> USE TypeParts
<1>1. s = 0 \/ (source # "list" /\ s - 1 \in done[d])
    BY DEF Deliver, Provided, Fault
<1>2. /\ UNCHANGED <<setting, disk, input, prev, done>>
      /\ pc[d] = "idle" /\ pc' = [pc EXCEPT ![d] = FirstLabel(s)]
      /\ at' = [at EXCEPT ![d] = s]
      /\ filesDir' = [filesDir EXCEPT ![d] = layout = "compound" /\ source = "list"]
    BY DEF Deliver, Goto
<1>3. /\ pc'[d] = FirstLabel(s) /\ at'[d] = s /\ filesDir'[d] = (layout = "compound" /\ source = "list")
      /\ prev'[d] = -1
    BY <1>2 DEF HandlerOK, CompoundInv, CompoundDevice
<1>4. CompoundDevice(d)'
    <2>1. \A k \in done'[d] : Complete(cache[d][k], k)'
        BY <1>2 DEF CompoundInv, CompoundDevice, Complete, setting, disk
    <2>2. FirstLabel(s) = "step" \/ (FirstLabel(s) = "publish" /\ s = N)
        BY DEF FirstLabel
    <2>3. source = "one" => ~filesDir'[d]
        BY <1>3
    <2>4. s > 0 => ~filesDir'[d]
        <3>1. s > 0 => source # "list"
            BY <1>1
        <3>2. source # "list" => ~filesDir'[d]
            BY <1>3
        <3>3. QED
            BY <3>1, <3>2
    <2>5. s \in Nat /\ N > 0 /\ N \in Nat
        BY StepsFacts
    <2>6. QED
        BY <1>1, <1>2, <1>3, <2>1, <2>2, <2>3, <2>4, <2>5 DEF CompoundDevice, setting
<1>5. published' \in {NoFile, Upto(N)}
    BY <1>2 DEF CompoundInv, disk
<1>6. QED
    BY <1>2, <1>4, <1>5, CompoundFrame DEF disk, HandlerOK

\* The input of a step is the pipeline up to it.
LEMMA InputWhole ==
    ASSUME TypeInv, CompoundInv, NEW d \in Devices, pc[d] = "step"
    PROVE  CompoundInput(d, at[d]) = Upto(at[d])
<1> USE TypeParts
<1>1. at[d] \in Nat /\ at[d] \in Steps
    BY StepsFacts DEF HandlerOK, AtInRange
<1>2. CASE at[d] = 0
    BY <1>2, UptoStep DEF CompoundInput
<1>3. CASE at[d] > 0
    <2>1. /\ at[d] - 1 \in done[d]
          /\ prev[d] = at[d] - 1 \/ (prev[d] = -1 /\ ~filesDir[d])
        BY <1>3 DEF CompoundInv, CompoundDevice
    <2>2. Complete(cache[d][at[d] - 1], at[d] - 1)
        BY <2>1 DEF CompoundInv, CompoundDevice
    <2>3. cache[d][at[d] - 1].made /\ Data(cache[d][at[d] - 1]) = Upto(at[d])
        BY <1>1, <2>2 DEF Complete
    <2>4. CompoundInput(d, at[d]) = ChainInput(d, at[d])
        BY <1>1, <1>3 DEF CompoundInput
    <2>5. CASE prev[d] = at[d] - 1
        BY <1>1, <1>3, <2>3, <2>4, <2>5 DEF ChainInput
    <2>6. CASE prev[d] = -1 /\ ~filesDir[d]
        BY <2>3, <2>4, <2>6 DEF ChainInput
    <2>7. QED
        BY <2>1, <2>5, <2>6
<1>4. QED
    BY <1>1, <1>2, <1>3

\* The beginning of a step cleans its directory and nothing else.
LEMMA CompoundBegin ==
    ASSUME TypeInv, layout = "compound", Chained, CompoundInv, NEW d \in Devices, BeginCompound(d)
    PROVE  CompoundInv'
<1> USE TypeParts
<1> DEFINE k == at[d]
           dirs == [cache[d] EXCEPT ![k] = FreshDir(@)]
<1>1. pc[d] = "step" /\ RunOrFail(d, CompoundInput(d, k), dirs)
    BY DEF BeginCompound
<1>2. k \in Steps /\ k \in Nat
    BY <1>1, StepsFacts DEF HandlerOK, AtInRange
<1>3. /\ UNCHANGED <<setting, published>>
      /\ done' = [done EXCEPT ![d] = @ \ {k}]
      /\ cache' = [cache EXCEPT ![d] = dirs]
    BY <1>1 DEF RunOrFail, Fail, AfterFailure
<1>4. /\ \A e \in Devices \ {d} : cache'[e] = cache[e] /\ done'[e] = done[e]
      /\ \A j \in done'[d] : j \in done[d] /\ cache'[d][j] = cache[d][j]
      /\ k \notin done'[d] /\ cache'[d][k] = EmptyDir
    BY <1>2, <1>3 DEF DiskOK, RestOK, FreshDir
<1>5. published' \in {NoFile, Upto(N)}
    BY <1>3 DEF CompoundInv
<1>6. CASE Leave(d)
    BY <1>3, <1>4, <1>5, <1>6, CompoundLeft
<1>7. CASE ~Leave(d)
    <2>1. /\ input' = [input EXCEPT ![d] = CompoundInput(d, k)]
          /\ filesDir' = [filesDir EXCEPT ![d] = @ \/ (/\ at[d] = 0 /\ mode = "s3"
                                                       /\ layout = "compound" /\ source = "dir")]
          /\ Goto(d, "plugin") /\ UNCHANGED <<at, prev>>
        BY <1>1, <1>7 DEF RunOrFail, Fail
    <2>2. input'[d] = Upto(k) /\ pc'[d] = "plugin" /\ at'[d] = k /\ prev'[d] = prev[d]
        BY <1>1, <2>1, InputWhole DEF HandlerOK, Goto
    <2>3. source = "one" => filesDir'[d] = filesDir[d]
        BY <2>1 DEF HandlerOK
    <2>4. \A j \in done'[d] : Complete(cache[d][j], j)'
        BY <1>3, <1>4 DEF CompoundInv, CompoundDevice, Complete, setting
    <2>5. CompoundDevice(d)'
        BY <1>1, <1>3, <1>4, <2>2, <2>3, <2>4 DEF CompoundInv, CompoundDevice, setting, Silent
    <2>6. QED
        BY <1>3, <1>4, <1>5, <2>1, <2>5, CompoundFrame DEF HandlerOK, Goto
<1>8. QED
    BY <1>6, <1>7

\* A plugin writes nothing but its own step's directory.
LEMMA CompoundWrite ==
    ASSUME TypeInv, layout = "compound", NEW d \in Devices, pc[d] \in {"plugin", "v2"},
           NEW how, Write(d, how)
    PROVE  /\ UNCHANGED published
           /\ \A e \in Devices \ {d} : cache'[e] = cache[e]
           /\ \A k \in Steps \ {at[d]} : cache'[d][k] = cache[d][k]
           /\ cache'[d][at[d]] = StepDir(input[d], at[d], style[at[d]], how)
<1> USE TypeParts
<1>1. at[d] \in Steps
    BY StepsFacts DEF HandlerOK
<1>2. /\ cache' = [cache EXCEPT ![d][at[d]] = StepDir(input[d], at[d], style[at[d]], how)]
      /\ UNCHANGED published
    BY DEF Write
<1>3. QED
    BY <1>1, <1>2 DEF DiskOK

\* A step that succeeded is complete, and the next one will find it.
LEMMA CompoundSucceeds ==
    ASSUME TypeInv, layout = "compound", Chained, CompoundInv, NEW d \in Devices, PluginSucceeds(d)
    PROVE  CompoundInv'
<1> USE TypeParts
<1> DEFINE k == at[d]
<1>1. /\ pc[d] \in {"plugin", "v2"} /\ Write(d, "whole") /\ StepDone(d, style[k])
      /\ UNCHANGED <<setting, filesDir>>
    BY DEF PluginSucceeds
<1>2. k \in Steps /\ k \in Nat /\ k < N /\ N \in Nat
    BY <1>1, StepsFacts DEF HandlerOK
<1>3. input[d] = Upto(k)
    BY <1>1 DEF CompoundInv, CompoundDevice
<1>4. /\ done'[d] = done[d] \cup {k} /\ at'[d] = k + 1
      /\ pc'[d] = IF k + 1 < N THEN "step" ELSE "publish"
      /\ prev'[d] = CASE style[k] \in {"path", "dir"} -> k
                      [] style[k] = "data" -> -1
                      [] OTHER -> prev[d]
      /\ filesDir'[d] = filesDir[d]
    BY <1>1, <1>2 DEF StepDone, Goto, HandlerOK, RestOK
<1>5. \A e \in Devices \ {d} :
              /\ done'[e] = done[e] /\ pc'[e] = pc[e] /\ at'[e] = at[e]
              /\ input'[e] = input[e] /\ prev'[e] = prev[e] /\ filesDir'[e] = filesDir[e]
    BY <1>1 DEF StepDone, Goto, HandlerOK, RestOK
<1>6. /\ UNCHANGED published
      /\ \A e \in Devices \ {d} : cache'[e] = cache[e]
      /\ \A j \in Steps \ {k} : cache'[d][j] = cache[d][j]
      /\ cache'[d][k] = StepDir(Upto(k), k, style[k], "whole")
    BY <1>1, <1>3, CompoundWrite
<1>7. \A j \in done'[d] : Complete(cache[d][j], j)'
    <2>1. Complete(cache'[d][k], k)
        BY <1>2, <1>6, StepDirComplete
    <2>2. \A j \in done[d] : j # k => Complete(cache'[d][j], j)
        BY <1>6 DEF CompoundInv, CompoundDevice, RestOK
    <2>3. QED
        BY <1>1, <1>4, <2>1, <2>2 DEF Complete, setting
<1>8. pc'[d] = "step" =>
          /\ prev'[d] = k \/ (prev'[d] = -1 /\ ~filesDir'[d])
          /\ Silent => prev'[d] = -1
    <2>1. SUFFICES ASSUME k + 1 < N
                   PROVE  /\ prev'[d] = k \/ (prev'[d] = -1 /\ ~filesDir'[d])
                          /\ Silent => prev'[d] = -1
        BY <1>4
    <2>2. CASE ~Silent
        BY <1>2, <1>4, <2>1, <2>2, ChainedFacts
    <2>3. CASE Silent
        <3>1. style[k] \notin {"path", "dir"} /\ source = "one"
            BY <1>2, <2>1, <2>3, ChainedFacts
        <3>2. prev[d] = -1 /\ ~filesDir[d]
            BY <1>1, <2>3, <3>1 DEF CompoundInv, CompoundDevice
        <3>3. prev'[d] = -1
            BY <1>4, <3>1, <3>2
        <3>4. QED
            BY <1>4, <3>2, <3>3
    <2>4. QED
        BY <2>2, <2>3
<1>9. CompoundDevice(d)'
    <2>1. at'[d] - 1 = k /\ k \in done'[d] /\ (k + 1 < N \/ k = N - 1)
        BY <1>2, <1>4
    <2>2. source = "one" => ~filesDir'[d]
        BY <1>4 DEF CompoundInv, CompoundDevice
    <2>3. Silent' <=> Silent
        BY <1>1 DEF Silent, setting
    <2>4. QED
        BY <1>1, <1>4, <1>7, <1>8, <2>1, <2>2, <2>3 DEF CompoundDevice, setting
<1>10. QED
    BY <1>1, <1>5, <1>6, <1>9, CompoundFrame DEF CompoundInv

\* A step whose plugin failed with its whole output written is complete too,
\* and the next one will find it, unless an older output stands in its way.
LEMMA CompoundErrsWithOutput ==
    ASSUME TypeInv, layout = "compound", Chained, CompoundInv, regular', lapses' = {},
           NEW d \in Devices, PluginErrsWithOutput(d)
    PROVE  CompoundInv'
<1> USE TypeParts
<1> DEFINE k == at[d]
<1>1. /\ pc[d] = "plugin" /\ Write(d, "whole") /\ StepDone(d, "none")
      /\ UNCHANGED <<setting, filesDir>>
    BY DEF PluginErrsWithOutput
<1>2. k \in Steps /\ k \in Nat /\ k < N /\ N \in Nat
    BY <1>1, StepsFacts DEF HandlerOK
<1>3. input[d] = Upto(k)
    BY <1>1 DEF CompoundInv, CompoundDevice
<1>4. /\ done'[d] = done[d] \cup {k} /\ at'[d] = k + 1
      /\ pc'[d] = IF k + 1 < N THEN "step" ELSE "publish"
      /\ prev'[d] = prev[d] /\ filesDir'[d] = filesDir[d]
    BY <1>1, <1>2 DEF StepDone, Goto, HandlerOK, RestOK
<1>5. \A e \in Devices \ {d} :
              /\ done'[e] = done[e] /\ pc'[e] = pc[e] /\ at'[e] = at[e]
              /\ input'[e] = input[e] /\ prev'[e] = prev[e] /\ filesDir'[e] = filesDir[e]
    BY <1>1 DEF StepDone, Goto, HandlerOK, RestOK
<1>6. /\ UNCHANGED published
      /\ \A e \in Devices \ {d} : cache'[e] = cache[e]
      /\ \A j \in Steps \ {k} : cache'[d][j] = cache[d][j]
      /\ cache'[d][k] = StepDir(Upto(k), k, style[k], "whole")
    BY <1>1, <1>3, CompoundWrite
<1>7. \A j \in done'[d] : Complete(cache[d][j], j)'
    <2>1. Complete(cache'[d][k], k)
        BY <1>2, <1>6, StepDirComplete
    <2>2. \A j \in done[d] : j # k => Complete(cache'[d][j], j)
        BY <1>6 DEF CompoundInv, CompoundDevice, RestOK
    <2>3. QED
        BY <1>1, <1>4, <2>1, <2>2 DEF Complete, setting
<1>8. k + 1 < N => prev[d] = -1 /\ ~filesDir[d]
    <2>1. Bypass(d) = {}
        BY DEF PluginErrsWithOutput
    <2>2. QED
        BY <1>2, <2>1 DEF Bypass
<1>9. CompoundDevice(d)'
    <2>1. at'[d] - 1 = k /\ k \in done'[d] /\ (k + 1 < N \/ k = N - 1)
        BY <1>2, <1>4
    <2>2. source = "one" => ~filesDir'[d]
        BY <1>4 DEF CompoundInv, CompoundDevice
    <2>3. Silent' <=> Silent
        BY <1>1 DEF Silent, setting
    <2>4. QED
        BY <1>1, <1>4, <1>7, <1>8, <2>1, <2>2, <2>3 DEF CompoundDevice, setting
<1>10. QED
    BY <1>1, <1>5, <1>6, <1>9, CompoundFrame DEF CompoundInv

\* A plugin that failed has left nothing at output_path, so it is run again or
\* the job fails: an interrupted step is never taken for a completed one.
LEMMA CompoundErrs ==
    ASSUME TypeInv, layout = "compound", Chained, CompoundInv, NEW d \in Devices,
           PluginErrs(d) \/ V2Fails(d)
    PROVE  CompoundInv'
<1> USE TypeParts
<1>1. CASE Fail(d, cache[d]) /\ UNCHANGED <<setting, published, done>>
    <2>1. Leave(d) /\ cache' = cache
        BY <1>1 DEF Fail, AfterFailure, DiskOK
    <2>2. QED
        BY <1>1, <2>1, CompoundLeft DEF CompoundInv
<1>2. CASE PluginErrs(d)
    <2>1. pc[d] = "plugin" /\ UNCHANGED <<setting, published>>
        BY <1>2 DEF PluginErrs
    <2>2. ~HasRealOutput(d)
        BY <2>1 DEF CompoundInv, CompoundDevice, HasRealOutput, OutputPath, EmptyDir, NoDir
    <2>3. CASE UNCHANGED <<pc, at, input, prev, filesDir, done, cache>>
        BY <2>1, <2>3 DEF CompoundInv, CompoundDevice, Complete, Silent, setting
    <2>4. CASE FallBack(d)
        <3>1. /\ Goto(d, "v2") /\ input' = input
              /\ UNCHANGED <<at, prev, filesDir, done, cache>>
            BY <2>4 DEF FallBack, HandlerOK
        <3>2. pc'[d] = "v2"
            BY <3>1 DEF Goto, HandlerOK
        <3>3. CompoundDevice(d)'
            BY <2>1, <3>1, <3>2 DEF CompoundInv, CompoundDevice, Complete, Silent, setting
        <3>4. QED
            BY <2>1, <3>1, <3>3, CompoundFrame DEF Goto, HandlerOK, CompoundInv
    <2>5. QED
        BY <1>1, <1>2, <2>1, <2>2, <2>3, <2>4 DEF PluginErrs
<1>3. CASE V2Fails(d)
    BY <1>1, <1>3 DEF V2Fails
<1>4. QED
    BY <1>2, <1>3

\* What is published is what the last step left.
LEMMA CompoundPublish ==
    ASSUME TypeInv, layout = "compound", Chained, CompoundInv, NEW d \in Devices,
           PublishCompound(d) \/ RemoveCache(d)
    PROVE  CompoundInv'
<1> USE TypeParts
<1>1. CASE PublishCompound(d)
    <2>1. N - 1 \in done[d] /\ pc[d] = "publish"
        BY <1>1 DEF PublishCompound, CompoundInv, CompoundDevice
    <2>2. CompoundResult(cache[d][N - 1]) = Upto(N)
        <3>1. Complete(cache[d][N - 1], N - 1) /\ style[N - 1] # "dir"
            BY <2>1 DEF CompoundInv, CompoundDevice, Chained
        <3>2. QED
            BY <3>1, StepsFacts DEF Complete
    <2>3. published' \in {NoFile, Upto(N)}
        BY <1>1, <2>2 DEF PublishCompound, CompoundInv
    <2>4. /\ UNCHANGED <<setting, cache, at, input, prev, filesDir, done>>
          /\ pc' = [pc EXCEPT ![d] = "clean"]
        BY <1>1 DEF PublishCompound, Goto
    <2>5. CompoundDevice(d)'
        <3>1. pc'[d] = "clean"
            BY <2>4 DEF HandlerOK
        <3>2. QED
            BY <2>4, <3>1 DEF CompoundInv, CompoundDevice, Complete, setting
    <2>6. QED
        BY <2>3, <2>4, <2>5, CompoundFrame DEF HandlerOK
<1>2. CASE RemoveCache(d)
    <2>1. /\ Leave(d) /\ UNCHANGED <<setting, published>> /\ done'[d] = {}
          /\ \A e \in Devices \ {d} : cache'[e] = cache[e] /\ done'[e] = done[e]
        BY <1>2 DEF RemoveCache, DiskOK, RestOK
    <2>2. QED
        BY <2>1, CompoundLeft DEF CompoundInv
<1>3. QED
    BY <1>1, <1>2

\* A failure of the storage and a crash leave completed steps alone.
LEMMA CompoundFailure ==
    ASSUME TypeInv, layout = "compound", Chained, CompoundInv, regular', NEW d \in Devices,
           StorageFails(d) \/ Crash(d)
    PROVE  CompoundInv'
<1> USE TypeParts
<1>1. UNCHANGED setting
    BY DEF StorageFails, Crash
<1>2. CASE StorageFails(d)
    <2>1. published' \in {NoFile, Upto(N)}
        BY <1>2 DEF StorageFails, CompoundInv
    <2>2. CASE pc[d] = "step" /\ done' = [done EXCEPT ![d] = @ \ {at[d]}]
               /\ Fail(d, [cache[d] EXCEPT ![at[d]] = FreshDir(@)])
        <3>1. at[d] \in Steps
            BY <2>2, StepsFacts DEF HandlerOK, AtInRange
        <3>2. /\ Leave(d)
              /\ \A e \in Devices \ {d} : cache'[e] = cache[e] /\ done'[e] = done[e]
              /\ \A j \in done'[d] : j \in done[d] /\ cache'[d][j] = cache[d][j]
            BY <2>2, <3>1 DEF Fail, AfterFailure, DiskOK, RestOK
        <3>3. QED
            BY <1>1, <2>1, <3>2, CompoundLeft
    <2>3. CASE Fail(d, cache[d]) /\ UNCHANGED done
        <3>1. Leave(d) /\ cache' = cache
            BY <2>3 DEF Fail, AfterFailure, DiskOK
        <3>2. QED
            BY <1>1, <2>1, <2>3, <3>1, CompoundLeft
    <2>4. QED
        BY <1>2, <2>2, <2>3 DEF StorageFails
<1>3. CASE Crash(d)
    <2>1. Leave(d) /\ UNCHANGED done
        BY <1>3 DEF Crash
    <2>2. CASE pc[d] \in {"plugin", "v2"} /\ Write(d, "torn")
        <3>1. at[d] \notin done[d]
            BY <2>2 DEF CompoundInv, CompoundDevice
        <3>2. /\ UNCHANGED published
              /\ \A e \in Devices \ {d} : cache'[e] = cache[e]
              /\ \A k \in Steps \ {at[d]} : cache'[d][k] = cache[d][k]
            BY <2>2, CompoundWrite
        <3>3. QED
            BY <1>1, <2>1, <3>1, <3>2, CompoundLeft DEF CompoundInv, RestOK
    <2>3. CASE UNCHANGED disk
        BY <1>1, <2>1, <2>3, CompoundLeft DEF CompoundInv, disk
    <2>4. QED
        BY <1>3, <2>2, <2>3 DEF Crash
<1>4. QED
    BY <1>2, <1>3

-----------------------------------------------------------------------------
(* The whole result: jobs for one step, a byte range or a list of files.   *)

\* A handler that is left, by a failure or a crash, leaves whole, torn or no
\* outputs in its work directory.
LEMMA SingleLeft ==
    ASSUME TypeInv, SingleInv, UNCHANGED setting, NEW d \in Devices, Leave(d),
           \A e \in Devices \ {d} : work'[e] = work[e],
           \A k \in Steps : WorkFile(work'[d][k], k),
           \/ published' = published
           \/ /\ published' # NoFile => published' = Upto(Len(published'))
              /\ \A e \in Devices \ {d} : layout = "steps" => pc[e] = "idle"
    PROVE  SingleInv'
<1> USE TypeParts
<1>1. /\ pc'[d] = "idle"
      /\ \A e \in Devices \ {d} : pc'[e] = pc[e] /\ at'[e] = at[e] /\ input'[e] = input[e]
    BY DEF Leave, Goto, HandlerOK
<1>2. /\ \A e \in Devices, k \in Steps : WorkFile(work'[e][k], k)
      /\ \A e \in Devices : pc'[e] = "publish" => work'[e][at'[e] - 1] \in {NoFile, Upto(at'[e])}
    BY <1>1 DEF SingleInv
<1>3. published' # NoFile => published' = Upto(Len(published'))
    BY DEF SingleInv
<1>4. \A e \in Devices : pc'[e] = "step" => at'[e] = 0 \/ published' = Upto(at'[e])
    BY <1>1 DEF SingleInv
<1>5. \A e \in Devices : pc'[e] \in {"plugin", "v2"} => input'[e] = Upto(at'[e])
    BY <1>1 DEF SingleInv
<1>6. layout' = layout
    BY DEF setting
<1>7. QED
    BY <1>1, <1>2, <1>3, <1>4, <1>5, <1>6 DEF SingleInv, WorkFile

\* A step of one device that does not publish: the others keep what they know.
LEMMA SingleFrame ==
    ASSUME TypeInv, SingleInv, UNCHANGED <<setting, published>>, NEW d \in Devices,
           pc[d] # "idle" \/ (layout = "steps" => \A e \in Devices : pc[e] = "idle"),
           \A e \in Devices \ {d} : pc'[e] = pc[e] /\ at'[e] = at[e] /\ input'[e] = input[e],
           \A e \in Devices \ {d} : work'[e] = work[e],
           \A k \in Steps : WorkFile(work'[d][k], k),
           pc'[d] = "publish" => work'[d][at'[d] - 1] \in {NoFile, Upto(at'[d])},
           pc'[d] \in {"plugin", "v2"} => input'[d] = Upto(at'[d]),
           pc'[d] = "step" => at'[d] = 0 \/ (layout = "steps" /\ published = Upto(at'[d]))
    PROVE  SingleInv'
<1>1. layout' = layout /\ published' = published
    BY DEF setting
<1>2. \A e \in Devices : /\ \A k \in Steps : WorkFile(work'[e][k], k)
                         /\ pc'[e] = "publish" => work'[e][at'[e] - 1] \in {NoFile, Upto(at'[e])}
                         /\ pc'[e] \in {"plugin", "v2"} => input'[e] = Upto(at'[e])
                         /\ pc'[e] = "step" => at'[e] = 0 \/ published = Upto(at'[e])
    BY DEF SingleInv
<1>3. layout = "steps" => \A e, f \in Devices : pc'[e] # "idle" /\ pc'[f] # "idle" => e = f
    <2>1. SUFFICES ASSUME layout = "steps" PROVE \A e \in Devices : pc'[e] # "idle" => e = d
        OBVIOUS
    <2>2. QED
        BY <2>1 DEF SingleInv
<1>4. layout # "steps" => \A e \in Devices : pc'[e] = "step" => at'[e] = 0
    BY DEF SingleInv
<1>5. QED
    BY <1>1, <1>2, <1>3, <1>4 DEF SingleInv, WorkFile

\* A step is given to one device, once its predecessor's result is there.
LEMMA SingleDeliver ==
    ASSUME TypeInv, layout # "compound", SingleInv, regular',
           NEW d \in Devices, NEW s \in 0..N, Deliver(d, s)
    PROVE  SingleInv'
<1> USE TypeParts
<1>1. /\ UNCHANGED <<setting, disk, input>>
      /\ pc' = [pc EXCEPT ![d] = FirstLabel(s)] /\ at' = [at EXCEPT ![d] = s]
    BY DEF Deliver, Goto
<1>2. Provided(d, s)
    BY DEF Deliver
<1>3. /\ layout = "steps" => /\ \A e \in Devices : pc[e] = "idle"
                             /\ s = 0 \/ published = Upto(s)
      /\ layout # "steps" => s = 0
    <2>1. CASE layout = "steps"
        BY <1>2, <2>1 DEF Provided, SingleInv
    <2>2. CASE layout \in {"range", "files"}
        BY <2>2 DEF Deliver
    <2>3. QED
        BY <2>1, <2>2 DEF SettingOK
<1>4. pc'[d] = "step" /\ at'[d] = s
    <2>1. s # N
        BY StepsFacts DEF Deliver, SettingOK
    <2>2. QED
        BY <1>1, <2>1 DEF HandlerOK, FirstLabel
<1>5. work' = work /\ \A k \in Steps : WorkFile(work'[d][k], k)
    BY <1>1 DEF SingleInv, disk
<1>6. QED
    BY <1>1, <1>3, <1>4, <1>5, SingleFrame DEF HandlerOK, disk

\* The input of a job for one step is the pipeline up to that step.
LEMMA SingleBegin ==
    ASSUME TypeInv, layout # "compound", SingleInv, NEW d \in Devices,
           BeginSingle(d) \/ BeginRange(d) \/ BeginFileList(d)
    PROVE  SingleInv'
<1> USE TypeParts
<1>1. PICK c : pc[d] = "step" /\ RunOrFail(d, c, cache[d]) /\ c = Upto(at[d])
    <2>1. CASE BeginSingle(d)
        <3>1. pc[d] = "step" /\ RunOrFail(d, StepInput(at[d]), cache[d]) /\ layout = "steps"
            BY <2>1 DEF BeginSingle
        <3>2. at[d] \in Nat /\ (at[d] = 0 \/ published = Upto(at[d]))
            BY <3>1, StepsFacts DEF SingleInv, HandlerOK
        <3>3. StepInput(at[d]) = Upto(at[d])
            BY <3>2, UptoStep DEF StepInput
        <3>4. QED
            BY <3>1, <3>3
    <2>2. CASE BeginRange(d) \/ BeginFileList(d)
        <3>1. pc[d] = "step" /\ RunOrFail(d, Source, cache[d]) /\ layout # "steps"
            BY <2>2 DEF BeginRange, BeginFileList
        <3>2. at[d] = 0
            BY <3>1 DEF SingleInv
        <3>3. Source = Upto(at[d])
            BY <3>2, UptoStep
        <3>4. QED
            BY <3>1, <3>3
    <2>3. QED
        BY <2>1, <2>2
<1>2. UNCHANGED <<setting, published>>
    BY <1>1 DEF RunOrFail
<1>3. CASE Fail(d, cache[d])
    BY <1>2, <1>3, SingleLeft DEF Fail, DiskOK, WorkFile
<1>4. CASE ~Fail(d, cache[d])
    <2>1. /\ input' = [input EXCEPT ![d] = c] /\ pc' = [pc EXCEPT ![d] = "plugin"]
          /\ UNCHANGED <<work, at>>
        BY <1>1, <1>4 DEF RunOrFail, Goto
    <2>2. pc'[d] = "plugin" /\ input'[d] = Upto(at'[d])
        BY <1>1, <2>1 DEF HandlerOK
    <2>3. \A k \in Steps : WorkFile(work'[d][k], k)
        BY <2>1 DEF SingleInv
    <2>4. QED
        BY <1>1, <1>2, <2>1, <2>2, <2>3, SingleFrame DEF HandlerOK
<1>5. QED
    BY <1>3, <1>4

\* A plugin that succeeds, or fails with its whole output written, leaves the
\* pipeline up to its step in the work directory, or nothing, also where a
\* crashed run left its output.
LEMMA SingleSucceeds ==
    ASSUME TypeInv, layout # "compound", mode = "s3", SingleInv, regular', lapses' = {},
           NEW d \in Devices, PluginSucceeds(d) \/ PluginErrsWithOutput(d)
    PROVE  SingleInv'
<1> USE TypeParts
<1> DEFINE k == at[d]
           out == SingleOutput(Apply(input[d], k, "whole"), style[k], OutputPath(d))
<1>1. PICK result : /\ pc[d] \in {"plugin", "v2"} /\ Write(d, "whole") /\ StepDone(d, result)
                    /\ UNCHANGED setting
                    /\ style[k] # "path" => Leftover(d) = {}
    BY DEF PluginSucceeds, PluginErrsWithOutput
<1>2. k \in Steps /\ k \in Nat
    BY <1>1, StepsFacts DEF HandlerOK
<1>3. work' = [work EXCEPT ![d][k] = out] /\ UNCHANGED published
    BY <1>1 DEF Write
<1>4. out \in {NoFile, Upto(k + 1)}
    <2>1. Apply(input[d], k, "whole") = Upto(k + 1)
        BY <1>1, <1>2, UptoStep DEF SingleInv
    <2>2. style[k] # "path" => OutputPath(d) \in {NoFile, Upto(k + 1)}
        BY <1>1, <1>2 DEF OutputPath, Leftover, SingleInv, WorkFile
    <2>3. QED
        BY <2>1, <2>2 DEF SingleOutput
<1>5. /\ \A e \in Devices \ {d} : work'[e] = work[e]
      /\ \A j \in Steps : WorkFile(work'[d][j], j)
      /\ work'[d][k] \in {NoFile, Upto(k + 1)}
    BY <1>2, <1>3, <1>4 DEF SingleInv, DiskOK, WorkFile
<1>6. /\ pc'[d] = "publish" /\ at'[d] = k + 1
      /\ \A e \in Devices \ {d} : pc'[e] = pc[e] /\ at'[e] = at[e] /\ input'[e] = input[e]
    BY <1>1 DEF StepDone, Goto, HandlerOK
<1>7. at'[d] - 1 = k
    BY <1>2, <1>6
<1>8. QED
    BY <1>1, <1>3, <1>5, <1>6, <1>7, SingleFrame

\* A plugin that failed: what lies at output_path and is not torn is a whole
\* output of the same step, and what else may happen ends the job or runs the
\* plugin once more.
LEMMA SingleErrs ==
    ASSUME TypeInv, layout # "compound", mode = "s3", SingleInv, regular', lapses' = {},
           NEW d \in Devices, PluginErrs(d) \/ V2Fails(d) \/ PluginGarbles(d)
    PROVE  SingleInv'
<1> USE TypeParts
<1>1. pc[d] # "idle" /\ UNCHANGED <<setting, published>>
    BY DEF PluginErrs, V2Fails, PluginGarbles
<1>2. CASE Fail(d, cache[d])
    BY <1>1, <1>2, SingleLeft DEF Fail, DiskOK, WorkFile
<1>3. CASE PluginErrs(d) /\ ~Fail(d, cache[d])
    <2>1. pc[d] = "plugin"
        BY <1>3 DEF PluginErrs
    <2>2. CASE StepDone(d, "none") /\ lapses' = lapses \cup Leftover(d) /\ UNCHANGED work
        <3>1. /\ pc'[d] = "publish" /\ at'[d] = at[d] + 1
              /\ \A e \in Devices \ {d} : pc'[e] = pc[e] /\ at'[e] = at[e] /\ input'[e] = input[e]
            BY <2>2 DEF StepDone, Goto, HandlerOK
        <3>2. at[d] \in Steps /\ at[d] \in Nat /\ at'[d] - 1 = at[d]
            BY <2>1, <3>1, StepsFacts DEF HandlerOK
        <3>3. ~Torn(work[d][at[d]])
            BY <2>2 DEF Leftover, OutputPath
        <3>4. \A k \in Steps : WorkFile(work'[d][k], k)
            BY <2>2 DEF SingleInv
        <3>5. work'[d][at'[d] - 1] \in {NoFile, Upto(at'[d])}
            BY <2>2, <3>1, <3>2, <3>3 DEF SingleInv, WorkFile
        <3>6. QED
            BY <1>1, <2>1, <2>2, <3>1, <3>4, <3>5, SingleFrame
    <2>3. CASE FallBack(d)
        <3>1. layout \notin {"range", "files"}
            BY <2>3 DEF FallBack
        <3>2. /\ input' = input /\ pc' = [pc EXCEPT ![d] = "v2"]
              /\ UNCHANGED <<work, at>>
            BY <2>3, <3>1 DEF FallBack, Goto, HandlerOK
        <3>3. pc'[d] = "v2" /\ input'[d] = Upto(at'[d])
            BY <2>1, <3>2 DEF SingleInv, HandlerOK
        <3>4. \A k \in Steps : WorkFile(work'[d][k], k)
            BY <3>2 DEF SingleInv
        <3>5. QED
            BY <1>1, <3>2, <3>3, <3>4, SingleFrame DEF HandlerOK
    <2>4. QED
        BY <1>3, <2>2, <2>3 DEF PluginErrs
<1>4. QED
    BY <1>2, <1>3 DEF PluginErrs, V2Fails, PluginGarbles

\* What is uploaded is the pipeline up to the step the job was for.
LEMMA SingleUpload ==
    ASSUME TypeInv, layout # "compound", mode = "s3", SingleInv, NEW d \in Devices, Upload(d)
    PROVE  SingleInv'
<1> USE TypeParts
<1> DEFINE k == at[d] - 1
<1>1. k \in Steps /\ k \in Nat /\ k + 1 = at[d] /\ pc[d] = "publish"
    BY StepsFacts DEF Upload, HandlerOK, AtInRange
<1>2. /\ UNCHANGED setting /\ Fail(d, cache[d])
      /\ published' = published \/ (published' = work[d][k] /\ work[d][k] # NoFile)
    BY DEF Upload
<1>3. published' # published => published' = Upto(k + 1)
    BY <1>1, <1>2 DEF SingleInv
<1>4. Len(Upto(k + 1)) = k + 1
    BY <1>1, UptoStep
<1>5. \A e \in Devices \ {d} : layout = "steps" => pc[e] = "idle"
    BY <1>1 DEF SingleInv
<1>6. QED
    BY <1>2, <1>3, <1>4, <1>5, SingleLeft DEF Fail, DiskOK, WorkFile

\* A failure of the storage, or a crash, which may leave a torn output behind.
LEMMA SingleFailure ==
    ASSUME TypeInv, layout # "compound", mode = "s3", SingleInv, regular', NEW d \in Devices,
           StorageFails(d) \/ Crash(d)
    PROVE  SingleInv'
<1> USE TypeParts
<1>1. UNCHANGED <<setting, published>>
    BY DEF StorageFails, Crash, disk, Write
<1>2. CASE StorageFails(d)
    <2>1. Leave(d) /\ work' = [work EXCEPT ![d] = [k \in Steps |-> NoFile]]
        BY <1>2 DEF StorageFails, Fail
    <2>2. QED
        BY <1>1, <2>1, SingleLeft DEF DiskOK, WorkFile
<1>3. CASE Crash(d)
    <2>1. Leave(d)
        BY <1>3 DEF Crash
    <2>2. CASE UNCHANGED disk
        BY <1>1, <2>1, <2>2, SingleLeft DEF disk, SingleInv
    <2>3. CASE pc[d] \in {"plugin", "v2"} /\ Write(d, "torn")
        <3> DEFINE k == at[d]
                   out == SingleOutput(Apply(input[d], k, "torn"), style[k], OutputPath(d))
        <3>1. k \in Steps /\ input[d] \in Contents
            BY <2>3, StepsFacts DEF HandlerOK
        <3>2. work' = [work EXCEPT ![d][k] = out] /\ OutputPath(d) = work[d][k]
            BY <2>3 DEF Write, OutputPath
        <3>3. Torn(Apply(input[d], k, "torn"))
            BY <3>1 DEF Torn, Apply, Contents
        <3>4. WorkFile(out, k)
            BY <3>1, <3>2, <3>3 DEF SingleOutput, WorkFile, SingleInv
        <3>5. /\ \A e \in Devices \ {d} : work'[e] = work[e]
              /\ \A j \in Steps : WorkFile(work'[d][j], j)
            BY <3>1, <3>2, <3>4 DEF SingleInv, DiskOK
        <3>6. QED
            BY <1>1, <2>1, <3>5, SingleLeft
    <2>4. QED
        BY <1>3, <2>2, <2>3 DEF Crash
<1>4. QED
    BY <1>2, <1>3

-----------------------------------------------------------------------------
\* A step keeps the invariant in both kinds of layout.
LEMMA WholeStep ==
    ASSUME TypeInv, WholeInv, [Next]_vars
    PROVE  WholeInv'
<1> USE TypeParts
<1>1. SUFFICES ASSUME regular', lapses' = {}
               PROVE  /\ (layout = "compound" /\ Chained)' => CompoundInv'
                      /\ (layout # "compound" /\ mode = "s3")' => SingleInv'
    BY DEF WholeInv
<1>2. UNCHANGED setting
    BY DEF Next, vars, Work, Deliver, BeginCompound, BeginSingle, BeginRange, BeginFileList,
           RunOrFail, PluginSucceeds, PublishCompound, RemoveCache, PublishSingle, PublishRange,
           PublishFileList, Upload, PluginErrsWithOutput, PluginErrs, V2Fails, PluginGarbles,
           StorageFails, Crash
<1>3. layout' = layout /\ mode' = mode /\ (Chained' <=> Chained)
    BY <1>2 DEF setting, Chained
<1>4. CASE UNCHANGED vars
    BY <1>1, <1>4 DEF vars, setting, disk, handler, history, WholeInv, Chained, CompoundInv,
       CompoundDevice, Complete, Silent, SingleInv, WorkFile
<1>5. CASE Next
    <2>1. regular /\ lapses = {}
        BY <1>1, <1>5
           DEF Next, Work, Deliver, BeginCompound, BeginSingle, BeginRange, BeginFileList,
               RunOrFail, PluginSucceeds, PublishCompound, RemoveCache, PublishSingle, PublishRange,
               PublishFileList, Upload, PluginErrsWithOutput, PluginErrs, V2Fails, PluginGarbles,
               StorageFails, Crash, FallBack, history
    <2>2. ASSUME layout = "compound", Chained
          PROVE  CompoundInv'
        <3>1. CompoundInv
            BY <2>1, <2>2 DEF WholeInv
        <3>2. ~\E d \in Devices : \/ BeginSingle(d) \/ BeginRange(d) \/ BeginFileList(d)
                                  \/ PublishSingle(d) \/ PublishRange(d) \/ PublishFileList(d)
                                  \/ PluginGarbles(d)
            BY <2>2 DEF BeginSingle, BeginRange, BeginFileList, PublishSingle, PublishRange,
                        PublishFileList, PluginGarbles
        <3>3. QED
            BY <1>1, <1>5, <2>2, <3>1, <3>2, CompoundDeliver, CompoundBegin,
               CompoundSucceeds, CompoundErrsWithOutput, CompoundErrs, CompoundPublish, CompoundFailure
               DEF Next, Work
    <2>3. ASSUME layout # "compound", mode = "s3"
          PROVE  SingleInv'
        <3>1. SingleInv
            BY <2>1, <2>3 DEF WholeInv
        <3>2. ~\E d \in Devices : BeginCompound(d) \/ PublishCompound(d)
            BY <2>3 DEF BeginCompound, PublishCompound
        <3>3. ASSUME NEW d \in Devices, RemoveCache(d)
              PROVE  SingleInv'
            BY <1>2, <3>1, <3>3, SingleLeft DEF RemoveCache, DiskOK, WorkFile
        <3>4. QED
            BY <1>1, <1>5, <2>3, <3>1, <3>2, <3>3, SingleDeliver, SingleBegin,
               SingleSucceeds, SingleErrs, SingleUpload, SingleFailure
               DEF Next, Work, PublishSingle, PublishRange, PublishFileList
    <2>4. QED
        BY <1>3, <2>2, <2>3
<1>6. QED
    BY <1>4, <1>5

\* The inductive invariant behind WholeResult: the cache of a completed step,
\* the input of every plugin and every output about to be uploaded is the
\* pipeline up to that step, as long as the history is regular and without
\* lapses.
THEOREM WholeInvariant == Spec => []WholeInv
<1>1. Init => WholeInv
    BY DEF Init, WholeInv, CompoundInv, CompoundDevice, SingleInv, WorkFile
<1>2. TypeInv /\ WholeInv /\ [Next]_vars => WholeInv'
    BY WholeStep
<1>3. QED
    BY <1>1, <1>2, ChunkTypeInvariant, PTL DEF Spec

\* A published result is the whole pipeline, applied once and in order, for
\* pipelines of any length, on any number of devices and after any number of
\* crashes, failures, repeated deliveries and resumptions, also of crashes that
\* tear a plugin's output and of plugins that fail with their output whole;
\* except after one of the two lapses, a torn output of a crashed run taken for
\* the output of a later one and a failed step whose successor reads an older
\* output, and after what `regular` excludes (see WholeResult).
THEOREM WholeResultHolds == Spec => []WholeResult
<1>1. ASSUME TypeInv, WholeInv
      PROVE  WholeResult
    <2>1. SUFFICES ASSUME regular, lapses = {}, published # NoFile, layout = "compound" => Chained,
                          layout = "compound" \/ mode = "s3"
                   PROVE  published = Upto(IF layout = "compound" THEN N ELSE Len(published))
        BY DEF WholeResult, IsWhole
    <2>2. CASE layout = "compound"
        BY <1>1, <2>1, <2>2 DEF WholeInv, CompoundInv
    <2>3. CASE layout # "compound"
        BY <1>1, <2>1, <2>3 DEF WholeInv, SingleInv
    <2>4. QED
        BY <2>2, <2>3
<1>2. QED
    BY <1>1, ChunkTypeInvariant, WholeInvariant, PTL
=============================================================================
