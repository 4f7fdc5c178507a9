---------------------------- MODULE ChunkPipeline ----------------------------
(***************************************************************************)
(* The processing of one chunk (internal/dispatcher/handlers_unix.go):     *)
(* executeProcessChunk, one job for each plugin step; the byte-range and   *)
(* file-list variants; and executeCompoundProcessChunk, one job that runs  *)
(* every step and keeps each step's output in a cache on the device, so    *)
(* that a later delivery can resume at the step it names.                  *)
(*                                                                         *)
(* A file is the sequence of steps that were applied to the source to make *)
(* it.  Devices share the storage (a mount, or an object store) and        *)
(* nothing else.  A plugin may fail, a device may crash while a plugin     *)
(* writes, a progress report may be lost, and the control plane delivers   *)
(* the chunk as often as it likes.                                         *)
(***************************************************************************)
EXTENDS Integers, Sequences, FiniteSets

CONSTANTS
    Devices,        \* devices the chunk may be delivered to
    N,              \* steps of the pipeline
    Pipelines,      \* assignments of a plugin style to each step
    Faults          \* bound on crashes, plugin errors, lost reports and deliveries
                    \* that the handlers do not provide for

Steps == 0..(N - 1)

(* How a plugin delivers its output: "path" writes output_path and reports *)
(* it, "dir" writes files beside it and reports output_dir, "data" and     *)
(* "plain" print it (with or without a "data" object) and report no path,  *)
(* "quiet" writes files and prints nothing.                                *)
Styles == {"path", "dir", "data", "plain", "quiet"}

ASSUME PipelineAssumption ==
    /\ N \in Nat \ {0} /\ Faults \in Nat
    /\ Pipelines \subseteq [Steps -> Styles]

VARIABLES
    mode,       \* storage: shared (a mount) | s3
    layout,     \* compound | steps (a job for each step) | range (of bytes) | files (a list)
    source,     \* one (a chunk file) | dir (a listed prefix) | list (file_list)
    style,      \* style of the plugin of each step
    published,  \* chunk_i.out on the mount, or the object under the result key
    cache,      \* step output directories of each device
    work,       \* chunk_i.out in the work directory of each device and step
    pc,         \* handler on each device: idle | step | plugin | v2 | publish | clean
    at,         \* its step
    input,      \* what that step's plugin reads
    prev,       \* step whose output previousData names, -1 if none
    filesDir,   \* are the source files in the work directory?
    retried,    \* was the plugin run again after a cgroup error?
    reported,   \* control plane: leading steps known to be complete
    done,       \* history: steps each device completed and has not begun again
    regular,    \* history: nothing happened that the handlers do not provide for
    lapses,     \* history: files accepted for another than they are, see Leftover, Bypass
    faults      \* faults so far

setting == <<mode, layout, source, style>>
handler == <<pc, at, input, prev, filesDir, retried>>
disk == <<published, cache, work>>
history == <<regular, lapses>>
vars == <<setting, disk, handler, reported, done, history, faults>>

Source == <<>>
NoFile == << <<-1, "none">> >>
Meta == << <<-1, "meta">> >>       \* the metadata written for want of an output
Apply(c, k, how) == Append(c, <<k, how>>)
Upto(k) == [i \in 1..k |-> <<i - 1, "whole">>]

Contents == Seq((Steps \cup {-1}) \X {"whole", "cut", "torn", "receipt", "none", "meta"})

NoDir == [made |-> FALSE, rep |-> NoFile, files |-> NoFile]
EmptyDir == [NoDir EXCEPT !.made = TRUE]

ChunkTypeOK ==
    /\ mode \in {"shared", "s3"} /\ layout \in {"compound", "steps", "range", "files"}
    /\ source \in {"one", "dir", "list"} /\ style \in Pipelines
    /\ published \in Contents
    /\ cache \in [Devices -> [Steps -> [made : BOOLEAN, rep : Contents, files : Contents]]]
    /\ work \in [Devices -> [Steps -> Contents]]
    /\ pc \in [Devices -> {"idle", "step", "plugin", "v2", "publish", "clean"}]
    /\ at \in [Devices -> 0..N] /\ input \in [Devices -> Contents]
    /\ prev \in [Devices -> Steps \cup {-1}]
    /\ filesDir \in [Devices -> BOOLEAN] /\ retried \in [Devices -> BOOLEAN]
    /\ reported \in 0..N /\ done \in [Devices -> SUBSET Steps] /\ regular \in BOOLEAN
    /\ faults \in 0..Faults /\ lapses \subseteq {"leftover", "bypassed"}
    /\ \A d \in Devices : pc[d] \in {"plugin", "v2"} => at[d] < N /\ (input[d] # NoFile \/ pc[d] = "v2")

Init ==
    /\ mode \in {"shared", "s3"} /\ layout \in {"compound", "steps", "range", "files"}
    /\ source \in (IF layout = "compound" THEN {"one", "dir", "list"} ELSE {"one"})
    /\ style \in Pipelines
    /\ published = NoFile
    /\ cache = [d \in Devices |-> [k \in Steps |-> NoDir]]
    /\ work = [d \in Devices |-> [k \in Steps |-> NoFile]]
    /\ pc = [d \in Devices |-> "idle"] /\ at = [d \in Devices |-> 0]
    /\ input = [d \in Devices |-> NoFile] /\ prev = [d \in Devices |-> -1]
    /\ filesDir = [d \in Devices |-> FALSE] /\ retried = [d \in Devices |-> FALSE]
    /\ reported = 0 /\ done = [d \in Devices |-> {}] /\ regular = TRUE
    /\ faults = 0 /\ lapses = {}

Fault == faults < Faults /\ faults' = faults + 1

Goto(d, label) == pc' = [pc EXCEPT ![d] = label]

(* The handler is left, and its local variables with it. *)
Leave(d) ==
    /\ Goto(d, "idle")
    /\ at' = [at EXCEPT ![d] = 0] /\ input' = [input EXCEPT ![d] = NoFile]
    /\ prev' = [prev EXCEPT ![d] = -1]
    /\ filesDir' = [filesDir EXCEPT ![d] = FALSE] /\ retried' = [retried EXCEPT ![d] = FALSE]

-----------------------------------------------------------------------------
(* Delivery (external): the chunk, or its next step, is given to a device. *)

\* Mutant: a chunk whose steps are all done starts at the step after the last.
MutFirstLabel(s) == "step"

(* With current_step_index past the last step the loop body never runs. *)
FirstLabel(s) == IF s = N THEN "publish" ELSE "step"

(* Deliveries the handlers provide for.  A compound chunk starts over, or  *)
(* resumes after a step this device completed and still has; resuming with *)
(* a file_list would read the source files again.  A single step is given  *)
(* to one device, once its predecessor's result is there.                  *)
Provided(d, s) ==
    CASE layout = "compound" -> s = 0 \/ (source # "list" /\ s - 1 \in done[d])
      [] layout = "steps" -> /\ s = (IF published = NoFile THEN 0 ELSE Len(published))
                             /\ \A e \in Devices : pc[e] = "idle"
      [] layout \in {"range", "files"} -> TRUE

(* executeProcessChunk up to the branch on the kind of job, and            *)
(* executeCompoundProcessChunk up to its loop.                             *)
Deliver(d, s) ==
    /\ pc[d] = "idle"
    /\ s \in (CASE layout = "compound" -> 0..reported
                [] layout = "steps" -> 0..reported \ {N}
                [] layout \in {"range", "files"} -> {0})
    /\ IF Provided(d, s) THEN UNCHANGED <<regular, faults>> ELSE Fault /\ regular' = FALSE
    /\ at' = [at EXCEPT ![d] = s]
    /\ filesDir' = [filesDir EXCEPT ![d] = layout = "compound" /\ source = "list"]
    /\ Goto(d, FirstLabel(s))
    /\ UNCHANGED <<setting, disk, input, prev, retried, reported, done, lapses>>

-----------------------------------------------------------------------------
(* One step: its input, and the plugin.                                    *)

\* Mutant: what an interrupted run left in the step's directory stays there.
MutFreshDir(dir) == [dir EXCEPT !.made = TRUE]

(* The step's own output directory is removed and made again. *)
FreshDir(dir) == EmptyDir

(* What a plugin finds in a step's output directory. *)
Data(dir) == IF dir.files # NoFile THEN dir.files ELSE dir.rep

(* The input of a later step of a compound chunk: what previousData names; *)
(* the source files, if they are in the work directory; the cached output  *)
(* of the step before; the published result.                               *)
ChainInput(d, k) ==
    CASE prev[d] # -1 -> Data(cache[d][prev[d]])
      [] prev[d] = -1 /\ filesDir[d] -> Source
      [] prev[d] = -1 /\ ~filesDir[d] ->
           IF cache[d][k - 1].made THEN Data(cache[d][k - 1]) ELSE published

(* The first step reads the chunk, the listed files or the whole prefix. *)
CompoundInput(d, k) == IF k = 0 THEN Source ELSE ChainInput(d, k)

(* The input of a job for one step: the source, then the published result. *)
StepInput(k) == IF k > 0 THEN published ELSE Source

\* Mutant: a failed run cleans up after itself.
MutAfterFailure(dirs) == [k \in Steps |-> NoDir]

(* A failed compound chunk keeps its cache for the retry. *)
AfterFailure(dirs) == dirs

(* The handler returns an error; the deferred cleanup removes the work     *)
(* directory.                                                              *)
Fail(d, dirs) ==
    /\ Leave(d)
    /\ cache' = [cache EXCEPT ![d] = AfterFailure(dirs)]
    /\ work' = [work EXCEPT ![d] = [k \in Steps |-> NoFile]]

(* A step's input c is there and its plugin is run, or it is not and the   *)
(* job fails (on a mount, a single step's plugin is what misses it); dirs  *)
(* are the step directories by then.                                       *)
RunOrFail(d, c, dirs) ==
    /\ done' = [done EXCEPT ![d] = @ \ {at[d]}]
    /\ IF c = NoFile THEN Fail(d, dirs)
       ELSE /\ cache' = [cache EXCEPT ![d] = dirs]
            /\ input' = [input EXCEPT ![d] = c]
            /\ filesDir' = [filesDir EXCEPT ![d] = @ \/ (/\ at[d] = 0 /\ mode = "s3"
                                                         /\ layout = "compound" /\ source = "dir")]
            /\ Goto(d, "plugin") /\ UNCHANGED <<work, at, prev, retried>>
    /\ UNCHANGED <<setting, published, reported, history, faults>>

(* The loop body of executeCompoundProcessChunk up to the plugin. *)
BeginCompound(d) ==
    /\ pc[d] = "step" /\ layout = "compound"
    /\ RunOrFail(d, CompoundInput(d, at[d]), [cache[d] EXCEPT ![at[d]] = FreshDir(@)])

(* executeProcessChunk, a job for one step. *)
BeginSingle(d) ==
    /\ pc[d] = "step" /\ layout = "steps"
    /\ RunOrFail(d, StepInput(at[d]), cache[d])

(* executeProcessChunkByteRange: a part of a source file. *)
BeginRange(d) ==
    /\ pc[d] = "step" /\ layout = "range"
    /\ RunOrFail(d, Source, cache[d])

(* executeProcessChunkFileList: whole source files. *)
BeginFileList(d) ==
    /\ pc[d] = "step" /\ layout = "files"
    /\ RunOrFail(d, Source, cache[d])

(* The file at output_path: in the step's directory, on the mount itself,  *)
(* or in the work directory.                                               *)
OutputPath(d) ==
    CASE layout = "compound" -> cache[d][at[d]].rep
      [] layout = "steps" /\ mode = "shared" -> published
      [] OTHER -> work[d][at[d]]

(* The output file of a single-step job, where old is what was there: a    *)
(* plugin that only prints, or reports another path, is given output_path  *)
(* if nothing is there yet.                                                *)
SingleOutput(out, s, old) ==
    IF s = "path" THEN out
    ELSE IF old # NoFile THEN old
    ELSE IF s = "quiet" THEN NoFile ELSE out

(* The output directory of a compound step: what a plugin prints is        *)
(* written to output_path, if the plugin did not write it itself.          *)
StepDir(c, k, s, how) ==
    LET out == Apply(c, k, how)
        files == IF s \in {"dir", "quiet"} THEN out ELSE NoFile
        rep == CASE s \in {"path", "data", "plain"} -> out
                 [] s = "dir" -> Apply(c, k, "receipt")
                 [] s = "quiet" -> NoFile
    IN  [made |-> TRUE, rep |-> rep, files |-> files]

(* The plugin's output at its place. *)
Write(d, how) ==
    LET k == at[d]
        out == SingleOutput(Apply(input[d], k, how), style[k], OutputPath(d))
    IN  CASE layout = "compound" ->
               /\ cache' = [cache EXCEPT ![d][k] = StepDir(input[d], k, style[k], how)]
               /\ UNCHANGED <<published, work>>
          [] layout = "steps" /\ mode = "shared" ->
               published' = out /\ UNCHANGED <<cache, work>>
          [] OTHER -> work' = [work EXCEPT ![d][k] = out] /\ UNCHANGED <<published, cache>>

(* A step taken as done: progress is reported through the relay, which may *)
(* lose it, and previousData is replaced if the plugin's result names a    *)
(* path, or has a "data" object.                                           *)
StepDone(d, result) ==
    LET k == at[d]
    IN  /\ done' = [done EXCEPT ![d] = @ \cup {k}]
        /\ at' = [at EXCEPT ![d] = k + 1]
        /\ input' = [input EXCEPT ![d] = NoFile] /\ retried' = [retried EXCEPT ![d] = FALSE]
        /\ prev' = [prev EXCEPT ![d] = CASE result \in {"path", "dir"} -> k
                                         [] result = "data" -> -1
                                         [] OTHER -> @]
        /\ Goto(d, IF layout = "compound" /\ k + 1 < N THEN "step" ELSE "publish")

Reported(d) ==
    IF layout = "compound" /\ reported <= at[d] THEN reported' = at[d] + 1 ELSE UNCHANGED reported

(* What a crashed run left half written at output_path: the work directory *)
(* is named after the job and used again, and the file is taken for the    *)
(* output of a run that does not write it.                                 *)
Torn(c) == c # <<>> /\ c[Len(c)][2] = "torn"

Leftover(d) == IF Torn(OutputPath(d)) THEN {"leftover"} ELSE {}

PluginSucceeds(d) ==
    /\ pc[d] \in {"plugin", "v2"}
    /\ Write(d, "whole")
    /\ lapses' = lapses \cup (IF style[at[d]] = "path" THEN {} ELSE Leftover(d))
    /\ StepDone(d, style[at[d]])
    /\ \/ Reported(d) /\ UNCHANGED faults
       \/ Fault /\ layout = "compound" /\ UNCHANGED reported        \* the report is lost
    /\ UNCHANGED <<setting, filesDir, regular>>

(* Without a result of this step, previousData stays with an earlier one;  *)
(* the next step of a compound chunk reads that, or the source files.      *)
Bypass(d) ==
    IF layout = "compound" /\ at[d] < N - 1 /\ (prev[d] # -1 \/ filesDir[d]) THEN {"bypassed"} ELSE {}

(* The plugin failed after it wrote output_path: taken as done, without a  *)
(* result.  Its output may be only a part, which the handlers cannot tell. *)
PluginErrsWithOutput(d) ==
    /\ Fault
    /\ pc[d] = "plugin" /\ style[at[d]] = "path"
    /\ \E how \in {"whole", "cut"} : Write(d, how) /\ regular' = (regular /\ how = "whole")
    /\ lapses' = lapses \cup Bypass(d)
    /\ StepDone(d, "none")
    /\ Reported(d)
    /\ UNCHANGED <<setting, filesDir>>

(* hasRealOutput *)
HasRealOutput(d) == OutputPath(d) # NoFile

(* fallbackToV2Runtime passes on the payload's input_path, which the       *)
(* byte-range and file-list handlers do not set: the plugin is given none  *)
(* of the chunk.                                                           *)
FallBack(d) ==
    LET unset == layout \in {"range", "files"}
    IN  /\ Goto(d, "v2")
        /\ input' = [input EXCEPT ![d] = IF unset THEN NoFile ELSE @]
        /\ regular' = (regular /\ ~unset)
        /\ UNCHANGED <<at, prev, filesDir, retried, done, reported, cache, work, lapses>>

(* The plugin failed and wrote nothing: a file already at output_path is   *)
(* taken for its output.  Otherwise a cgroup error runs a compound step's  *)
(* plugin once more, a Docker error the v2 runtime, and any other error    *)
(* fails the job.                                                          *)
PluginErrs(d) ==
    /\ Fault
    /\ pc[d] = "plugin"
    /\ \/ /\ HasRealOutput(d) /\ StepDone(d, "none") /\ Reported(d)
          /\ lapses' = lapses \cup Leftover(d)
          /\ UNCHANGED <<cache, work, filesDir, regular>>
       \/ /\ ~HasRealOutput(d) /\ layout = "compound" /\ ~retried[d]
          /\ retried' = [retried EXCEPT ![d] = TRUE]
          /\ UNCHANGED <<pc, at, input, prev, filesDir, done, reported, cache, work, history>>
       \/ ~HasRealOutput(d) /\ ~retried[d] /\ FallBack(d)
       \/ ~HasRealOutput(d) /\ Fail(d, cache[d]) /\ UNCHANGED <<done, reported, history>>
    /\ UNCHANGED <<setting, published>>

(* fallbackToV2Runtime fails. *)
V2Fails(d) ==
    /\ Fault
    /\ pc[d] = "v2" /\ Fail(d, cache[d])
    /\ UNCHANGED <<setting, published, reported, done, history>>

(* The output of a single step cannot be parsed: the job fails before the  *)
(* output is looked at, and on a mount what the plugin wrote there stays.  *)
PluginGarbles(d) ==
    /\ Fault
    /\ layout = "steps" /\ pc[d] \in {"plugin", "v2"} /\ style[at[d]] # "quiet"
    /\ published' = IF mode = "shared" /\ style[at[d]] = "path" THEN Apply(input[d], at[d], "whole")
                    ELSE published
    /\ Fail(d, cache[d])
    /\ UNCHANGED <<setting, reported, done, history>>

-----------------------------------------------------------------------------
(* The result.                                                             *)

(* The file a compound chunk publishes: the last step's output_path, else  *)
(* a file of its output directory, else metadata.                          *)
CompoundResult(dir) ==
    IF dir.rep # NoFile THEN dir.rep ELSE IF dir.files # NoFile THEN dir.files ELSE Meta

PublishCompound(d) ==
    LET r == CompoundResult(cache[d][N - 1])
    IN  /\ pc[d] = "publish" /\ layout = "compound"
        /\ published' = IF r = Meta /\ mode = "shared" THEN published ELSE r
        /\ Goto(d, "clean")
        /\ UNCHANGED <<setting, cache, work, at, input, prev, filesDir, retried, reported, done, history, faults>>

(* The cache is removed, and the handler returns. *)
RemoveCache(d) ==
    /\ pc[d] = "clean"
    /\ cache' = [cache EXCEPT ![d] = [k \in Steps |-> NoDir]]
    /\ done' = [done EXCEPT ![d] = {}]
    /\ work' = [work EXCEPT ![d] = [k \in Steps |-> NoFile]]
    /\ Leave(d)
    /\ UNCHANGED <<setting, published, reported, history, faults>>

(* The output of a job for one step is uploaded, except on a shared mount, *)
(* and the work directory is removed.  The control plane learns of it.     *)
Upload(d) ==
    LET k == at[d] - 1
        out == work[d][k]
        ok == mode = "shared" \/ out # NoFile
    IN  /\ pc[d] = "publish"
        /\ published' = IF mode = "s3" /\ ok THEN out ELSE published
        /\ reported' = IF ok /\ reported <= k THEN at[d] ELSE reported
        /\ Fail(d, cache[d])
        /\ UNCHANGED <<setting, done, history, faults>>

PublishSingle(d) == layout = "steps" /\ Upload(d)
PublishRange(d) == layout = "range" /\ Upload(d)
PublishFileList(d) == layout = "files" /\ Upload(d)

(* A copy of the result to the mount that stopped half way; metadata goes  *)
(* to a file of its own.                                                   *)
TornCopy(d) ==
    LET r == CompoundResult(cache[d][N - 1])
    IN  IF r = Meta THEN published ELSE Append(r, <<N - 1, "torn">>)

(* The storage fails: the step's input cannot be read, after the step's    *)
(* directory was made anew, or the result cannot be written.  The job      *)
(* fails; a copy to the mount may stop half way.                           *)
StorageFails(d) ==
    LET k == at[d]
    IN  /\ Fault
        /\ \/ /\ pc[d] = "step"
              /\ Fail(d, IF layout = "compound" THEN [cache[d] EXCEPT ![k] = FreshDir(@)] ELSE cache[d])
              /\ done' = [done EXCEPT ![d] = @ \ {k}] /\ UNCHANGED <<published, regular>>
           \/ /\ pc[d] = "publish" /\ (mode = "s3" \/ layout = "compound") /\ Fail(d, cache[d])
              /\ UNCHANGED <<published, done, regular>>
           \/ /\ pc[d] = "publish" /\ mode = "shared" /\ layout = "compound" /\ Fail(d, cache[d])
              /\ published' = TornCopy(d) /\ regular' = FALSE /\ UNCHANGED done
        /\ UNCHANGED <<setting, reported, lapses>>

(* The device crashes: what its plugin was writing stays as it is, and so  *)
(* does a result it was copying to the mount.                              *)
Crash(d) ==
    /\ Fault
    /\ pc[d] # "idle" /\ Leave(d)
    /\ \/ pc[d] \in {"plugin", "v2"} /\ Write(d, "torn") /\ UNCHANGED regular
       \/ UNCHANGED <<disk, regular>>
       \/ /\ pc[d] = "publish" /\ layout = "compound" /\ mode = "shared"
          /\ published' = TornCopy(d)
          /\ regular' = FALSE /\ UNCHANGED <<cache, work>>
    /\ UNCHANGED <<setting, reported, done, lapses>>

Work(d) ==
    \/ BeginCompound(d) \/ BeginSingle(d) \/ BeginRange(d) \/ BeginFileList(d)
    \/ PluginSucceeds(d)
    \/ PublishCompound(d)
    \/ RemoveCache(d)
    \/ PublishSingle(d) \/ PublishRange(d) \/ PublishFileList(d)

Next ==
    \/ \E d \in Devices, s \in 0..N : Deliver(d, s)
    \/ \E d \in Devices : \/ Work(d)
                          \/ PluginErrsWithOutput(d)
                          \/ PluginErrs(d)
                          \/ V2Fails(d)
                          \/ PluginGarbles(d)
                          \/ StorageFails(d)
                          \/ Crash(d)

(* A handler runs to its end, and the control plane gives a chunk that is  *)
(* nowhere under way to some device again.                                 *)
Fairness ==
    /\ \A d \in Devices : WF_vars(Work(d))
    /\ WF_vars(\E d \in Devices, s \in 0..N : Deliver(d, s))

Spec == Init /\ [][Next]_vars /\ Fairness

-----------------------------------------------------------------------------
(* Properties.                                                             *)

(* The plugins of a compound chunk all report where their output is, or    *)
(* none does and there are no source files to fall back on; the last does  *)
(* not leave its output beside output_path.                                *)
Chained ==
    LET reports(k) == style[k] \in {"path", "dir"}
        inner == 0..(N - 2)
    IN  /\ style[N - 1] # "dir"
        /\ (\A k \in inner : reports(k)) \/ (source = "one" /\ \A k \in inner : ~reports(k))

IsWhole ==
    /\ regular /\ published # NoFile /\ (layout = "compound" => Chained)
    /\ layout = "compound" \/ mode = "s3"
    => published = Upto(IF layout = "compound" THEN N ELSE Len(published))

(* Whatever was interrupted, retried, delivered again, resumed or run on   *)
(* two devices at once, a published result is the whole pipeline applied   *)
(* once, in order, to the source: no step is skipped, repeated or half     *)
(* done (cached step outputs, resolution of a step's input, cleaning of    *)
(* the step's directory).  Excepted are what the handlers cannot see or do *)
(* not provide for (a plugin that fails with part of its output written, a *)
(* copy to the mount that stops half way, a byte-range or file-list job    *)
(* that falls back to the v2 runtime, an unforeseen delivery), a single    *)
(* step on a mount, whose plugin writes the result in place, and the two   *)
(* lapses of the handlers: once a torn file that a crash left in a work    *)
(* directory was accepted as an output (Leftover), or a step of a compound *)
(* chunk was accepted without a result (Bypass), the result may be wrong.  *)
WholeResult == lapses = {} => IsWhole

(* A compound chunk is published in the end: a failed or crashed run       *)
(* leaves behind what its resumption needs.                                *)
ChunkPublished == layout = "compound" ~> published # NoFile
=============================================================================
