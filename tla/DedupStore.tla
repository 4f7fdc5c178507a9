----------------------------- MODULE DedupStore -----------------------------
(***************************************************************************)
(* The persistent store of job ids: internal/dispatcher/job_dedup.go.      *)
(*                                                                         *)
(* Four goroutines meet here: the submitter that calls Contains and Add,   *)
(* the snapshot worker, the cleanup timer, and the kernel that keeps the   *)
(* files when the process dies.  save (called by cleanup, under mu) and    *)
(* saveSnapshot (called by the snapshot worker, under saveMu) write the    *)
(* same temporary file and rename it over the same path, and no lock       *)
(* orders one after the other.  Files are modelled as inodes, because a    *)
(* descriptor opened before a rename goes on writing to the renamed file.  *)
(*                                                                         *)
(* A map from ids to expiry times is a function on Job whose value Absent  *)
(* means that there is no entry.  Dispatcher abstracts this module to the  *)
(* set of ids for which Contains is true.  Remove, Close and Count have no *)
(* caller in the agent and are left out, so an orderly exit and a crash    *)
(* leave the same files.  A write is one system call: it happens, or it    *)
(* fails with part of its bytes written.                                   *)
(***************************************************************************)
EXTENDS Naturals, FiniteSets

CONSTANTS
    Job,          \* job ids
    TTL,          \* life of an entry, in ticks
    SnapEvery,    \* a snapshot is taken when the count is a multiple of it (10)
    DefaultMax,   \* defaultDedupMaxJobs, whatever SENTRA_DEDUP_MAX_JOBS says
    MaxTime,      \* bound on the clock
    MaxRestarts   \* bound on the number of process deaths

ASSUME StoreAssumption ==
    /\ IsFiniteSet(Job)
    /\ TTL \in Nat \ {0}
    /\ SnapEvery \in Nat \ {0}
    /\ DefaultMax \in Nat
    /\ MaxTime \in Nat
    /\ MaxRestarts \in Nat

VARIABLES
    now,          \* the clock
    jobs,         \* s.jobs
    pending,      \* the copy Add made and has not offered to the channel yet
    snapshotCh,   \* the channel of capacity one
    pc, buf, fd,  \* each saver: where it is, its data, its open file
    tmpIno,       \* inode of the temporary file
    fileIno,      \* inode of the store's file
    data,         \* contents of the inodes
    added,        \* history: time of the last Add of each id
    mine,         \* history: ids added since the process started
    alone,        \* history: savers no other save has overlapped so far
    tainted,      \* history: the last rename was not of a save that ran alone
    restarts

memVars  == <<jobs, pending, snapshotCh>>
saveVars == <<pc, buf, fd, alone>>
diskVars == <<tmpIno, fileIno, data, tainted>>
vars     == <<now, memVars, saveVars, diskVars, added, mine, restarts>>

Saver  == {"worker", "cleanup"}   \* saveSnapshot and save
Absent == 0
Inode  == 1 .. 3
NoFile == 0

Empty == [j \in Job |-> Absent]
Keys(m) == {j \in Job : m[j] # Absent}
Map == [Job -> 0 .. MaxTime + TTL]

\* What a file holds: nothing yet, a whole JSON map, or bytes that do not parse.
Content == [bytes : {"none", "map", "junk"}, map : Map]
Nothing  == [bytes |-> "none", map |-> Empty]
Junk     == [bytes |-> "junk", map |-> Empty]
Whole(m) == [bytes |-> "map", map |-> m]

None == [some |-> FALSE, map |-> Empty]
Some(m) == [some |-> TRUE, map |-> m]

StoreTypeOK ==
    /\ now \in 1 .. MaxTime + 1
    /\ jobs \in Map
    /\ pending \in [some : BOOLEAN, map : Map]
    /\ snapshotCh \in [some : BOOLEAN, map : Map]
    /\ pc \in [Saver -> {"idle", "open", "write", "rename"}]
    /\ buf \in [Saver -> Map]
    /\ fd \in [Saver -> Inode \cup {NoFile}]
    /\ tmpIno \in Inode \cup {NoFile}
    /\ fileIno \in Inode \cup {NoFile}
    /\ data \in [Inode -> Content]
    /\ added \in [Job -> 0 .. MaxTime + 1]
    /\ mine \subseteq Job
    /\ alone \in [Saver -> BOOLEAN]
    /\ tainted \in BOOLEAN
    /\ restarts \in 0 .. MaxRestarts

Init ==
    /\ now = 1
    /\ jobs = Empty
    /\ pending = None
    /\ snapshotCh = None
    /\ pc = [p \in Saver |-> "idle"]
    /\ buf = [p \in Saver |-> Empty]
    /\ fd = [p \in Saver |-> NoFile]
    /\ tmpIno = NoFile
    /\ fileIno = NoFile
    /\ data = [i \in Inode |-> Nothing]
    /\ added = [j \in Job |-> 0]
    /\ mine = {}
    /\ alone = [p \in Saver |-> TRUE]
    /\ tainted = FALSE
    /\ restarts = 0

-----------------------------------------------------------------------------
(* The map                                                                 *)

\* cleanup holds mu from its first line to the end of save.
MuFree == pc["cleanup"] = "idle"

Contains(j) == jobs[j] # Absent /\ ~(now > jobs[j])

\* Add up to its Unlock.  One goroutine at a time calls it, for an id that
\* its earlier call of Contains did not find.
Add(j) ==
    /\ MuFree
    /\ ~Contains(j)
    /\ ~pending.some
    /\ now <= MaxTime
    /\ jobs' = [jobs EXCEPT ![j] = now + TTL]
    /\ pending' = IF Cardinality(Keys(jobs')) % SnapEvery = 0
                  THEN Some(jobs') ELSE None
    /\ added' = [added EXCEPT ![j] = now]
    /\ mine' = mine \cup {j}
    /\ UNCHANGED <<now, snapshotCh, saveVars, diskVars, restarts>>

\* The non-blocking send: a snapshot is dropped when one is waiting.
SendSnapshot ==
    /\ pending.some
    /\ snapshotCh' = IF snapshotCh.some THEN snapshotCh ELSE pending
    /\ pending' = None
    /\ UNCHANGED <<now, jobs, saveVars, diskVars, added, mine, restarts>>

\* Sets of n entries that sort.Slice may put first: none left out is older.
\* Entries with one expiry come in any order.
Oldest(m, n) ==
    {E \in SUBSET Keys(m) : /\ Cardinality(E) = n
                            /\ \A j \in E, k \in Keys(m) \ E : m[j] <= m[k]}

Without(m, E) == [j \in Job |-> IF j \in E THEN Absent ELSE m[j]]

\* Faulty variant: the newest entries are evicted.
CleanupNewest ==
    LET expired == {j \in Keys(jobs) : now > jobs[j]}
        valid   == Without(jobs, expired)
        over    == Cardinality(Keys(valid)) - DefaultMax
    IN  /\ MuFree
        /\ Cardinality(Keys(valid)) > DefaultMax
        /\ \E E \in SUBSET Keys(valid) :
              /\ Cardinality(E) = over
              /\ \A j \in E, k \in Keys(valid) \ E : valid[j] >= valid[k]
              /\ jobs' = Without(valid, E)
        /\ pc' = [pc EXCEPT !["cleanup"] = "open"]
        /\ buf' = [buf EXCEPT !["cleanup"] = jobs']
        /\ UNCHANGED <<now, pending, snapshotCh, fd, alone, diskVars, added, mine, restarts>>

\* cleanup up to save: expired entries go, then the oldest above the limit,
\* which is the default one whatever s.maxJobs is.
Cleanup ==
    LET expired == {j \in Keys(jobs) : now > jobs[j]}
        valid   == Without(jobs, expired)
        count   == Cardinality(Keys(valid))
    IN  /\ MuFree
        /\ \/ expired # {} /\ count <= DefaultMax /\ jobs' = valid
           \/ /\ count > DefaultMax
              /\ \E E \in Oldest(valid, count - DefaultMax) :
                    jobs' = Without(valid, E)
        /\ pc' = [pc EXCEPT !["cleanup"] = "open"]
        /\ buf' = [buf EXCEPT !["cleanup"] = jobs']
        /\ UNCHANGED <<now, pending, snapshotCh, fd, alone, diskVars, added, mine, restarts>>

\* The snapshot worker receives.
ReceiveSnapshot ==
    /\ pc["worker"] = "idle"
    /\ snapshotCh.some
    /\ pc' = [pc EXCEPT !["worker"] = "open"]
    /\ buf' = [buf EXCEPT !["worker"] = snapshotCh.map]
    /\ snapshotCh' = None
    /\ UNCHANGED <<now, jobs, pending, fd, alone, diskVars, added, mine, restarts>>

-----------------------------------------------------------------------------
(* save and saveSnapshot: WriteFile(tmpPath), then Rename                  *)

Saving(p) == pc[p] \in {"write", "rename"}

\* A saver has finished: its descriptor and its data are gone.
Done(p) ==
    /\ pc' = [pc EXCEPT ![p] = "idle"]
    /\ buf' = [buf EXCEPT ![p] = Empty]
    /\ fd' = [fd EXCEPT ![p] = NoFile]
    /\ alone' = [alone EXCEPT ![p] = TRUE]

\* Faulty variant: the store's file is written in place.
OpenInPlace(p) ==
    LET ino == IF fileIno # NoFile THEN fileIno ELSE 1
    IN  /\ pc[p] = "open"
        /\ fileIno' = ino
        /\ fd' = [fd EXCEPT ![p] = ino]
        /\ data' = [data EXCEPT ![ino] = Nothing]
        /\ pc' = [pc EXCEPT ![p] = "write"]
        /\ UNCHANGED <<now, memVars, buf, alone, tmpIno, tainted, added, mine, restarts>>

\* open(tmpPath, O_WRONLY|O_CREATE|O_TRUNC)
OpenTmp(p) ==
    LET used  == {fileIno} \cup {fd[q] : q \in Saver}
        ino   == IF tmpIno # NoFile THEN tmpIno ELSE CHOOSE i \in Inode : i \notin used
        other == \E q \in Saver \ {p} : Saving(q)
    IN  /\ pc[p] = "open"
        /\ tmpIno' = ino
        /\ fd' = [fd EXCEPT ![p] = ino]
        /\ data' = [data EXCEPT ![ino] = Nothing]
        /\ alone' = IF other THEN [q \in Saver |-> FALSE] ELSE alone
        /\ pc' = [pc EXCEPT ![p] = "write"]
        /\ UNCHANGED <<now, memVars, buf, fileIno, tainted, added, mine, restarts>>

\* The write: over bytes another saver has put there since the open, the
\* result is whole only if the new text is at least as long as the old one.
\* On an error (a full disk) the saver returns without the rename.
WriteTmp(p) ==
    LET i == fd[p]
    IN  /\ pc[p] = "write"
        /\ \/ /\ \/ data' = [data EXCEPT ![i] = Whole(buf[p])]
                 \/ /\ data[i].bytes # "none"
                    /\ data[i] # Whole(buf[p])
                    /\ data' = [data EXCEPT ![i] = Junk]
              /\ pc' = [pc EXCEPT ![p] = "rename"]
              /\ UNCHANGED <<buf, fd, alone>>
           \/ /\ data' = [data EXCEPT ![i] = Junk]
              /\ Done(p)
        /\ UNCHANGED <<now, memVars, tmpIno, fileIno, tainted, added, mine, restarts>>

\* The rename moves whatever is at tmpPath, or fails because the other saver
\* has moved it.  A replaced file that nobody has open is gone.
Rename(p) ==
    /\ pc[p] = "rename"
    /\ fileIno' = IF tmpIno = NoFile THEN fileIno ELSE tmpIno
    /\ tmpIno' = NoFile
    /\ tainted' = ~alone[p]
    /\ Done(p)
    /\ data' = [i \in Inode |->
                  IF i = fileIno' \/ \E q \in Saver : fd'[q] = i THEN data[i] ELSE Nothing]
    /\ UNCHANGED <<now, memVars, added, mine, restarts>>

SaveStep(p) == OpenTmp(p) \/ WriteTmp(p) \/ Rename(p)

-----------------------------------------------------------------------------
(* The process and the clock                                               *)

Parses == fileIno # NoFile => data[fileIno].bytes = "map"

Stored == IF fileIno # NoFile /\ Parses THEN data[fileIno].map ELSE Empty

\* Faulty variant: a loaded entry gets a new life.
LoadRenewed ==
    [j \in Job |-> IF Stored[j] > now THEN now + TTL ELSE Absent]

\* load: a missing file or one that does not parse is a fresh start.
Load == [j \in Job |-> IF Stored[j] > now THEN Stored[j] ELSE Absent]

\* The process ends, in whatever state its goroutines are, and another starts.
Restart ==
    /\ restarts < MaxRestarts
    /\ restarts' = restarts + 1
    /\ jobs' = Load
    /\ pending' = None
    /\ snapshotCh' = None
    /\ pc' = [p \in Saver |-> "idle"]
    /\ buf' = [p \in Saver |-> Empty]
    /\ fd' = [p \in Saver |-> NoFile]
    /\ alone' = [p \in Saver |-> TRUE]
    /\ mine' = {}
    /\ UNCHANGED <<now, diskVars, added>>

Tick ==
    /\ now <= MaxTime
    /\ now' = now + 1
    /\ UNCHANGED <<memVars, saveVars, diskVars, added, mine, restarts>>

Next ==
    \/ \E j \in Job : Add(j)
    \/ SendSnapshot
    \/ Cleanup
    \/ ReceiveSnapshot
    \/ \E p \in Saver : SaveStep(p)
    \/ Restart
    \/ Tick

Spec == Init /\ [][Next]_vars

-----------------------------------------------------------------------------
(* The inductive invariant of the two savers (see DedupProofs)             *)

\* A saver without an open file has none; the name of the temporary file and
\* the name of the store's file are never two names of one inode.
FilesApart ==
    /\ \A p \in Saver : Saving(p) <=> fd[p] # NoFile
    /\ tmpIno # NoFile => tmpIno # fileIno

\* A save that no other overlapped owns the temporary file, which is empty
\* when it is written and whole when it is renamed.
AloneOwnsTmp ==
    \A p \in Saver : Saving(p) /\ alone[p] =>
        /\ \A q \in Saver \ {p} : ~Saving(q)
        /\ tmpIno = fd[p]
        /\ data[tmpIno].bytes = IF pc[p] = "write" THEN "none" ELSE "map"

\* Until an overlapped save is renamed, nobody has the store's file open.
CleanUntilTainted ==
    ~tainted => /\ Parses
                /\ \A p \in Saver : Saving(p) => fd[p] # fileIno

\* Every entry, wherever it is kept, is no younger than the last Add of its id.
Genuine(m) ==
    \A j \in Job : m[j] # Absent => added[j] # 0 /\ m[j] <= added[j] + TTL

GenuineEntries ==
    /\ Genuine(jobs) /\ Genuine(pending.map) /\ Genuine(snapshotCh.map)
    /\ \A p \in Saver : Genuine(buf[p])
    /\ \A i \in Inode : Genuine(data[i].map)
    /\ \A j \in Job : added[j] <= now

\* An id added in this run has the expiry that Add gave it, or no entry.
MineExact == \A j \in mine : jobs[j] # Absent => jobs[j] = added[j] + TTL

SaveInv == FilesApart /\ AloneOwnsTmp /\ CleanUntilTainted

-----------------------------------------------------------------------------

\* The temporary file and the rename make a save safe against a crash and a
\* failed write at any point: the store's file does not parse only after a
\* save that the other saver overlapped, until the next one that ran alone.
BrokenOnlyByOverlap == Parses \/ tainted

\* An id is never refused for longer than a TTL after its last Add, however
\* old the snapshot a restart loads.
RefusalExpires ==
    \A j \in Job : Contains(j) => added[j] # 0 /\ now <= added[j] + TTL

\* What the eviction costs within one run of the agent: an id added in it is
\* forgotten before its TTL has passed only for DefaultMax ids that are at least
\* as young, and as long as it is due, the store refuses all of those.  The
\* limit is the default one: the configured one is logged and never applied.
KeepsYoungest ==
    \A j \in mine : now <= added[j] + TTL /\ ~Contains(j) =>
        Cardinality({k \in Job : Contains(k) /\ jobs[k] >= added[j] + TTL}) >= DefaultMax
=============================================================================
