----------------------------- MODULE StreamMerge -----------------------------
(***************************************************************************)
(* The merge of a dataset's chunk files into one output on a local or      *)
(* shared mount: executeMergeDataset (internal/dispatcher/handlers_unix.go)*)
(* with StreamMerge and StreamMergeTree (internal/dataset/merge.go).       *)
(*                                                                         *)
(* A merge appends its inputs to a partial file, writes a checkpoint after *)
(* each of them, deletes the inputs, renames the partial file to the       *)
(* output and removes the checkpoint.  It can end at any point: an error   *)
(* return, a cancelled context, a panic or the death of the process.  The  *)
(* control plane may deliver the job again, also after a completion it did *)
(* not hear of.  One device merges a dataset at a time.                    *)
(*                                                                         *)
(* A file's contents are the sequence of the chunks, or parts of chunks,   *)
(* that were written to it.  Checksums, metadata files, metrics and empty  *)
(* directories are left out, and so are the merge of remote objects and    *)
(* the gzip writer of compressed merges.                                   *)
(***************************************************************************)
EXTENDS Integers, Sequences, FiniteSets

CONSTANTS
    N,            \* number of chunks listed in the payload
    PerPass,      \* MaxChunksPerPass
    Threshold,    \* ChunkCountThreshold
    Absent,       \* a file that does not exist
    MaxAttempts,  \* bound on the deliveries of the job
    PartialMode,  \* values of is_partial that occur
    TreeMode      \* values of use_tree_merge that occur

ASSUME MergeAssumption ==
    /\ N \in Nat \ {0}
    /\ PerPass \in Nat \ {0}
    /\ Threshold \in Nat
    /\ MaxAttempts \in Nat
    /\ Absent \notin Seq([chunk : 1 .. N, whole : BOOLEAN])
    /\ PartialMode \subseteq BOOLEAN
    /\ TreeMode \subseteq BOOLEAN

VARIABLES
    payload,      \* the job: fixed in the first state
    files,        \* contents of the chunk files, stage outputs and the output
    partial,      \* contents of the partial file of each output
    ckpt,         \* LastChunkIndex + 1 of each output's checkpoint, 0: no file
    pc, pos,      \* where StreamMerge is, and its position in the chunk list
    calls,        \* the calls of StreamMerge still to make, the current one first
    stages,       \* number of stages of a tree merge, 0 in a sequential one
    resume,       \* resumeIndex
    attempts,
    done,         \* outcome of the last delivery
    fresh,        \* history: the delivery found no partial file, no checkpoint
    expected,     \* history: the non-empty chunks it was to merge, in order
    stale         \* history: a checkpoint was used whose partial file was gone

callVars == <<pc, pos, calls, stages, resume>>
diskVars == <<files, partial, ckpt>>
histVars == <<attempts, done, fresh, expected, stale>>
vars     == <<payload, callVars, diskVars, histVars>>

\* File names: the output, the chunks, the outputs of the stages.
Out         == 0
Chunk       == 1 .. N
StageOut(k) == N + k
Dest        == {Out} \cup (N + 1 .. 2 * N)
File        == Dest \cup Chunk

Piece    == [chunk : Chunk, whole : BOOLEAN]
Whole(c) == [chunk |-> c, whole |-> TRUE]
Part(c)  == [chunk |-> c, whole |-> FALSE]

Item == [path : File, index : 0 .. N - 1]
Call == [dest : Dest, list : Seq(Item)]

MergeTypeOK ==
    /\ payload \in [full : SUBSET Chunk, empty : SUBSET Chunk, skipped : SUBSET Chunk,
                    partial : BOOLEAN, tree : BOOLEAN, big : BOOLEAN]
    /\ files \in [File -> Seq(Piece) \cup {Absent}]
    /\ partial \in [Dest -> Seq(Piece) \cup {Absent}]
    /\ ckpt \in [Dest -> 0 .. N]
    /\ pc \in {"idle", "open", "copy", "save", "cleanup", "clear", "finish"}
    /\ pos \in 1 .. N + 1
    /\ calls \in Seq(Call)
    /\ pc \notin {"idle", "finish"} => calls # <<>>
    /\ stages \in 0 .. N
    /\ resume \in 0 .. N
    /\ attempts \in 0 .. MaxAttempts
    /\ done \in {"none", "running", "failed", "completed"}
    /\ fresh \in BOOLEAN
    /\ expected \in Seq(Piece)
    /\ stale \in BOOLEAN

\* The control plane lists the chunks of a processed dataset: a chunk file has
\* contents, is empty, or was never written.
Init ==
    /\ payload \in [full : SUBSET Chunk, empty : SUBSET Chunk, skipped : SUBSET Chunk,
                    partial : PartialMode, tree : TreeMode, big : BOOLEAN]
    /\ payload.full \cap payload.empty = {}
    /\ payload.big => payload.tree
    /\ files = [f \in File |-> IF f \in payload.full THEN <<Whole(f)>>
                               ELSE IF f \in payload.empty THEN <<>> ELSE Absent]
    /\ partial = [o \in Dest |-> Absent]
    /\ ckpt = [o \in Dest |-> 0]
    /\ pc = "idle"
    /\ pos = 1
    /\ calls = <<>>
    /\ stages = 0
    /\ resume = 0
    /\ attempts = 0
    /\ done = "none"
    /\ fresh = FALSE
    /\ expected = <<>>
    /\ stale = FALSE

-----------------------------------------------------------------------------
(* executeMergeDataset: the chunk list and the calls of StreamMerge        *)

Present == {c \in Chunk : files[c] # Absent}

\* The order of the payload's list, which the filter keeps: the i-th chunk of a
\* set is the one with i of them up to it.
InOrder(S) ==
    [i \in 1 .. Cardinality(S) |->
        CHOOSE c \in S : Cardinality({d \in S : d <= c}) = i]

\* The chunks to merge.  A missing file counts as skipped.
Active == Present \ payload.skipped

\* The list of them, with Index their place in the payload's list.
ActiveChunks ==
    [i \in 1 .. Cardinality(Active) |->
        [path |-> InOrder(Active)[i], index |-> InOrder(Active)[i] - 1]]

\* What a merge of the chunks in S should write.
WholeSeq(S) == [i \in 1 .. Cardinality(S) |-> Whole(InOrder(S)[i])]

shouldUseTreeMerge(cs) == cs # <<>> /\ (Len(cs) > Threshold \/ payload.big)

StageCount(cs) == (Len(cs) + PerPass - 1) \div PerPass

\* Faulty variant: the last chunk of every full stage is left to nobody.
planTreeMergeShort(cs) ==
    [k \in 1 .. StageCount(cs) |->
        LET last == k * PerPass
        IN  [dest |-> StageOut(k),
             list |-> SubSeq(cs, (k - 1) * PerPass + 1,
                             IF last < Len(cs) THEN last - 1 ELSE Len(cs))]]

\* planTreeMerge: a stage for each MaxChunksPerPass chunks.  They keep the
\* Index they have in the whole list.
planTreeMerge(cs) ==
    [k \in 1 .. StageCount(cs) |->
        LET last == k * PerPass
        IN  [dest |-> StageOut(k),
             list |-> SubSeq(cs, (k - 1) * PerPass + 1,
                             IF last < Len(cs) THEN last ELSE Len(cs))]]

\* The last call of a tree merge with several stages.
FinalCall(n) ==
    [dest |-> Out,
     list |-> [k \in 1 .. n |-> [path |-> StageOut(k), index |-> k - 1]]]

\* StreamMergeTree: one call for each stage, and one that joins the stages.
TreeCalls(cs) ==
    LET n == StageCount(cs)
    IN  planTreeMerge(cs) \o (IF n > 1 THEN <<FinalCall(n)>> ELSE <<>>)

\* Unless the merge is a partial one, a missing chunk fails the job here.
Deliver ==
    LET cs   == ActiveChunks
        tree == payload.tree /\ shouldUseTreeMerge(cs)
    IN  /\ pc = "idle"
        /\ attempts < MaxAttempts
        /\ payload.partial \/ Present = Chunk
        /\ attempts' = attempts + 1
        /\ stages' = IF tree THEN StageCount(cs) ELSE 0
        /\ calls' = IF tree THEN TreeCalls(cs) ELSE <<[dest |-> Out, list |-> cs]>>
        /\ pc' = "open"
        /\ done' = "running"
        /\ fresh' = \A o \in Dest : partial[o] = Absent /\ ckpt[o] = 0
        /\ expected' = WholeSeq({c \in Active : files[c] # <<>>})
        /\ UNCHANGED <<payload, diskVars, pos, resume, stale>>

-----------------------------------------------------------------------------
(* StreamMerge                                                             *)

dest == Head(calls).dest
list == Head(calls).list

\* Faulty variant: the partial file is truncated, whatever the checkpoint says.
OpenTruncated ==
    /\ pc = "open"
    /\ resume' = ckpt[dest]
    /\ stale' = (stale \/ (ckpt[dest] # 0 /\ partial[dest] = Absent))
    /\ partial' = [partial EXCEPT ![dest] = <<>>]
    /\ pos' = 1
    /\ pc' = "copy"
    /\ UNCHANGED <<payload, files, ckpt, calls, stages, attempts, done, fresh, expected>>

\* loadCheckpoint, and the open with O_CREATE and O_APPEND.  The Seek that
\* follows does not move the end at which the file is written.
OpenPartial ==
    /\ pc = "open"
    /\ resume' = ckpt[dest]
    /\ stale' = (stale \/ (ckpt[dest] # 0 /\ partial[dest] = Absent))
    /\ partial' = [partial EXCEPT ![dest] = IF @ = Absent THEN <<>> ELSE @]
    /\ pos' = 1
    /\ pc' = "copy"
    /\ UNCHANGED <<payload, files, ckpt, calls, stages, attempts, done, fresh, expected>>

\* The chunk at the current position is not taken for merged and has contents.
ToCopy == pc = "copy" /\ pos <= Len(list) /\ pos - 1 >= resume
          /\ files[list[pos].path] \notin {Absent, <<>>}

\* The loop passes over chunks before resumeIndex, missing ones and empty ones.
SkipChunk ==
    /\ pc = "copy"
    /\ pos <= Len(list)
    /\ ~ToCopy
    /\ pos' = pos + 1
    /\ UNCHANGED <<payload, diskVars, histVars, pc, calls, stages, resume>>

\* io.Copy and Sync.
CopyChunk ==
    /\ ToCopy
    /\ partial' = [partial EXCEPT ![dest] = @ \o files[list[pos].path]]
    /\ pc' = "save"
    /\ UNCHANGED <<payload, files, ckpt, pos, calls, stages, resume, histVars>>

\* Every state in which a delivery ends without completing.
Ended ==
    /\ pc' = "idle"
    /\ pos' = 1
    /\ calls' = <<>>
    /\ stages' = 0
    /\ resume' = 0
    /\ done' = "failed"
    /\ UNCHANGED <<payload, attempts, fresh, expected, stale>>

\* io.Copy fails, or the process dies in it: some of the bytes are written.
TornCopy ==
    LET s == files[list[pos].path]
    IN  /\ ToCopy
        /\ \E k \in 0 .. Len(s) - 1 :
              partial' = [partial EXCEPT ![dest] =
                            @ \o SubSeq(s, 1, k) \o <<Part(s[k + 1].chunk)>>]
        /\ Ended
        /\ UNCHANGED <<files, ckpt>>

\* Faulty variant: the checkpoint is one chunk ahead.
SaveCheckpointAhead ==
    /\ pc = "save"
    /\ ckpt' = [ckpt EXCEPT ![dest] = list[pos].index + 2]
    /\ pos' = pos + 1
    /\ pc' = "copy"
    /\ UNCHANGED <<payload, files, partial, calls, stages, resume, histVars>>

\* saveCheckpoint, by a temporary file and a rename.  An error is only logged.
SaveCheckpoint ==
    /\ pc = "save"
    /\ \/ ckpt' = [ckpt EXCEPT ![dest] = list[pos].index + 1]
       \/ UNCHANGED ckpt
    /\ pos' = pos + 1
    /\ pc' = "copy"
    /\ UNCHANGED <<payload, files, partial, calls, stages, resume, histVars>>

\* The end of the loop.
BeginCleanup ==
    /\ pc = "copy"
    /\ pos > Len(list)
    /\ pos' = 1
    /\ pc' = "cleanup"
    /\ UNCHANGED <<payload, diskVars, calls, stages, resume, histVars>>

\* cleanupChunks removes the inputs one by one, whatever DeleteChunksAfter
\* says.  A file it cannot remove stays.
CleanupChunk ==
    /\ pc = "cleanup"
    /\ pos <= Len(list)
    /\ \/ files' = [files EXCEPT ![list[pos].path] = Absent]
       \/ UNCHANGED files
    /\ pos' = pos + 1
    /\ UNCHANGED <<payload, partial, ckpt, pc, calls, stages, resume, histVars>>

\* The last Sync, and the rename of the partial file to the output.
RenameOutput ==
    /\ pc = "cleanup"
    /\ pos > Len(list)
    /\ files' = [files EXCEPT ![dest] = partial[dest]]
    /\ partial' = [partial EXCEPT ![dest] = Absent]
    /\ pos' = 1
    /\ pc' = "clear"
    /\ UNCHANGED <<payload, ckpt, calls, stages, resume, histVars>>

\* clearCheckpoint, whose error is only logged, and the return.
ClearCheckpoint ==
    /\ pc = "clear"
    /\ \/ ckpt' = [ckpt EXCEPT ![dest] = 0]
       \/ UNCHANGED ckpt
    /\ calls' = Tail(calls)
    /\ pc' = IF Len(calls) = 1 THEN "finish" ELSE "open"
    /\ UNCHANGED <<payload, files, partial, pos, stages, resume, histVars>>

\* The rest of StreamMergeTree: a single stage's output is renamed to the
\* output, and stage outputs that are left are removed if they can be.
Finish ==
    LET moved == IF stages = 1 THEN [files EXCEPT ![Out] = files[StageOut(1)],
                                                  ![StageOut(1)] = Absent]
                 ELSE files
    IN  /\ pc = "finish"
        /\ \E kept \in SUBSET (1 .. stages) :
              files' = [f \in File |->
                          IF \E k \in (1 .. stages) \ kept : f = StageOut(k)
                          THEN Absent ELSE moved[f]]
        /\ pc' = "idle"
        /\ stages' = 0
        /\ resume' = 0
        /\ done' = "completed"
        /\ UNCHANGED <<payload, partial, ckpt, pos, calls, attempts, fresh, expected, stale>>

\* An error return between two file operations (no disk space, ctx.Done, a
\* failing Sync or Rename), the division by a duration of zero milliseconds
\* at the end, or the death of the process.
Abort ==
    /\ pc # "idle"
    /\ Ended
    /\ UNCHANGED diskVars

Next ==
    \/ Deliver \/ OpenPartial \/ SkipChunk \/ CopyChunk \/ TornCopy
    \/ SaveCheckpoint \/ BeginCleanup \/ CleanupChunk \/ RenameOutput
    \/ ClearCheckpoint \/ Finish \/ Abort

Spec == Init /\ [][Next]_vars

-----------------------------------------------------------------------------

Contents(s) == IF s = Absent THEN {} ELSE {s[i] : i \in DOMAIN s}

\* A delivery that starts from nothing (no partial file, no checkpoint) and
\* completes has written exactly the chunks it found, in their order, be it by
\* a sequential merge or by the stages of a tree merge.
FreshMergeExact ==
    done = "completed" /\ fresh => files[Out] = expected

\* A sequential merge whose list has no skipped and no missing chunk.
Plain == ~payload.partial /\ ~payload.tree /\ payload.skipped = {}

\* For a plain merge the checkpoint makes every interruption and every
\* repetition harmless to the data: each non-empty chunk has a whole copy in
\* its own file, in the partial file or in the output, unless a checkpoint
\* outlived its partial file.
NothingDestroyed ==
    Plain /\ ~stale =>
        \A c \in payload.full :
            Whole(c) \in UNION ({Contents(files[f]) : f \in File}
                                \cup {Contents(partial[o]) : o \in Dest})

\* When a plain merge is reported complete, after any number of interrupted
\* deliveries, the output has every non-empty chunk, in order; chunks may
\* be there twice, and torn copies between them.
CompletedHasAll ==
    Plain /\ ~stale /\ done = "completed" =>
        \A c, d \in payload.full : c <= d =>
            \E p, q \in DOMAIN files[Out] :
                /\ p <= q
                /\ files[Out][p] = Whole(c)
                /\ files[Out][q] = Whole(d)

\* README, "Merges processed chunks back into a single output": a completed
\* merge has every non-empty chunk that is not declared skipped.
CompletedHasProcessed ==
    done = "completed" =>
        \A c \in payload.full \ payload.skipped : Whole(c) \in Contents(files[Out])
=============================================================================
