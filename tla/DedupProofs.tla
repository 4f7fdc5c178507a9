---------------------------- MODULE DedupProofs ----------------------------
(***************************************************************************)
(* Proofs about DedupStore for every set of ids, every TTL, limit and      *)
(* snapshot period, and any number of restarts.                            *)
(***************************************************************************)
EXTENDS DedupStore, FiniteSetTheorems, TLAPS

\* Removing entries from a map gives a map.
LEMMA WithoutType ==
    ASSUME NEW m \in Map, NEW E
    PROVE  Without(m, E) \in Map
    BY StoreAssumption DEF StoreAssumption, Map, Without, Absent

\* What cleanup leaves of the map.
LEMMA CleanupKeeps ==
    ASSUME StoreTypeOK, Cleanup
    PROVE  /\ jobs' \in Map
           /\ \A j \in Job : jobs'[j] = Absent \/ jobs'[j] = jobs[j]
<1> DEFINE expired == {j \in Keys(jobs) : now > jobs[j]}
           valid   == Without(jobs, expired)
<1>1. valid \in Map
    BY WithoutType DEF StoreTypeOK
<1>2. \E E : jobs' = Without(valid, E)
    <2>1. CASE jobs' = valid
        <3>1. valid = Without(valid, {})
            BY <1>1 DEF Without, Map
        <3>2. QED
            BY <2>1, <3>1
    <2>2. QED
        BY <2>1 DEF Cleanup
<1>3. PICK E : jobs' = Without(valid, E)
    BY <1>2
<1>4. jobs' \in Map
    BY <1>1, <1>3, WithoutType
<1>5. QED
    BY <1>3, <1>4 DEF Without

\* The inode the temporary file has after an open: never the store's file.
LEMMA TmpInode ==
    ASSUME StoreTypeOK, FilesApart, NEW p \in Saver, OpenTmp(p)
    PROVE  /\ tmpIno' \in Inode
           /\ tmpIno' # fileIno
           /\ fd' = [fd EXCEPT ![p] = tmpIno']
           /\ data' = [data EXCEPT ![tmpIno'] = Nothing]
<1> DEFINE used == {fileIno} \cup {fd[q] : q \in Saver}
<1>1. \E i \in Inode : i \notin used
    <2>1. fd[p] = NoFile
        BY DEF OpenTmp, FilesApart, Saving
    <2>2. PICK q \in Saver : Saver = {p, q}
        BY DEF Saver
    <2>3. used = {fileIno, NoFile, fd[q]}
        BY <2>1, <2>2
    <2>4. fileIno \in {0, 1, 2, 3} /\ fd[q] \in {0, 1, 2, 3}
        BY <2>2 DEF StoreTypeOK, Inode, NoFile
    <2>5. QED
        BY <2>3, <2>4 DEF Inode, NoFile
<1>2. (CHOOSE i \in Inode : i \notin used) \in Inode \ used
    BY <1>1
<1>3. QED
    BY <1>2 DEF OpenTmp, StoreTypeOK, FilesApart

\* The store keeps its type.
THEOREM StoreTypeCorrect == Spec => [](StoreTypeOK /\ FilesApart)
<1> USE StoreAssumption DEF StoreAssumption
<1>1. Init => StoreTypeOK /\ FilesApart
    <2> SUFFICES ASSUME Init PROVE StoreTypeOK /\ FilesApart
        OBVIOUS
    <2>1. Empty \in Map /\ Nothing \in Content /\ None \in [some : BOOLEAN, map : Map]
        BY DEF Empty, Map, Nothing, Content, None, Absent
    <2>2. now \in 1 .. MaxTime + 1 /\ added \in [Job -> 0 .. MaxTime + 1]
          /\ restarts \in 0 .. MaxRestarts
        BY DEF Init
    <2>3. QED
        BY <2>1, <2>2 DEF Init, StoreTypeOK, FilesApart, Saving
<1>2. StoreTypeOK /\ FilesApart /\ [Next]_vars => StoreTypeOK' /\ FilesApart'
    <2> SUFFICES ASSUME StoreTypeOK, FilesApart, [Next]_vars
                 PROVE  StoreTypeOK' /\ FilesApart'
        OBVIOUS
    <2>e. Empty \in Map /\ Nothing \in Content /\ Junk \in Content
        BY DEF Empty, Map, Nothing, Junk, Content, Absent
    <2>w. \A m \in Map : Whole(m) \in Content /\ Some(m) \in [some : BOOLEAN, map : Map]
        BY DEF Whole, Content, Some
    <2>n. None \in [some : BOOLEAN, map : Map]
        BY <2>e DEF None
    <2>1. ASSUME NEW j \in Job, Add(j)
          PROVE  StoreTypeOK' /\ FilesApart'
        <3>1. jobs' \in Map
            BY <2>1 DEF Add, StoreTypeOK, Map
        <3>2. pending' \in [some : BOOLEAN, map : Map]
            BY <2>1, <3>1, <2>w, <2>n DEF Add
        <3>3. QED
            BY <2>1, <3>1, <3>2
               DEF Add, StoreTypeOK, FilesApart, Saving, saveVars, diskVars
    <2>2. CASE SendSnapshot
        BY <2>2, <2>n DEF SendSnapshot, StoreTypeOK, FilesApart, Saving, saveVars, diskVars
    <2>3. CASE Cleanup
        <3>1. jobs' \in Map
            BY <2>3, CleanupKeeps
        <3>2. QED
            BY <2>3, <3>1 DEF Cleanup, StoreTypeOK, FilesApart, Saving, Saver, diskVars, MuFree
    <2>4. CASE ReceiveSnapshot
        BY <2>4, <2>n DEF ReceiveSnapshot, StoreTypeOK, FilesApart, Saving, Saver, diskVars
    <2>5. ASSUME NEW p \in Saver, OpenTmp(p)
          PROVE  StoreTypeOK' /\ FilesApart'
        <3>1. /\ tmpIno' \in Inode /\ tmpIno' # fileIno /\ NoFile \notin Inode
              /\ fd' = [fd EXCEPT ![p] = tmpIno']
              /\ data' = [data EXCEPT ![tmpIno'] = Nothing]
            BY <2>5, TmpInode DEF Inode, NoFile
        <3>2. /\ pc' = [pc EXCEPT ![p] = "write"]
              /\ alone' \in [Saver -> BOOLEAN]
              /\ UNCHANGED <<now, memVars, buf, fileIno, tainted, added, mine, restarts>>
            BY <2>5 DEF OpenTmp, StoreTypeOK
        <3>3. QED
            BY <3>1, <3>2, <2>e DEF StoreTypeOK, FilesApart, Saving, memVars
    <2>6. ASSUME NEW p \in Saver, WriteTmp(p)
          PROVE  StoreTypeOK' /\ FilesApart'
        <3>1. fd[p] \in Inode /\ buf[p] \in Map
            BY <2>6 DEF WriteTmp, FilesApart, Saving, StoreTypeOK
        <3>2. data' \in [Inode -> Content]
            BY <2>6, <3>1, <2>e, <2>w DEF WriteTmp, StoreTypeOK
        <3>3. CASE pc' = [pc EXCEPT ![p] = "rename"] /\ UNCHANGED <<buf, fd, alone>>
            BY <2>6, <3>2, <3>3 DEF WriteTmp, StoreTypeOK, FilesApart, Saving, memVars
        <3>4. CASE Done(p)
            BY <2>6, <2>e, <3>2, <3>4
               DEF WriteTmp, Done, StoreTypeOK, FilesApart, Saving, memVars
        <3>5. QED
            BY <2>6, <3>3, <3>4 DEF WriteTmp
    <2>7. ASSUME NEW p \in Saver, Rename(p)
          PROVE  StoreTypeOK' /\ FilesApart'
        BY <2>7, <2>e DEF Rename, Done, StoreTypeOK, FilesApart, Saving, memVars
    <2>8. CASE Restart
        <3>1. Load \in Map
            BY <2>e DEF Load, Stored, StoreTypeOK, Map, Content, Absent
        <3>2. QED
            BY <2>8, <2>e, <2>n, <3>1 DEF Restart, StoreTypeOK, FilesApart, Saving, diskVars
    <2>9. CASE Tick
        BY <2>9 DEF Tick, StoreTypeOK, FilesApart, Saving, memVars, saveVars, diskVars
    <2>10. CASE UNCHANGED vars
        BY <2>10 DEF vars, StoreTypeOK, FilesApart, Saving, memVars, saveVars, diskVars
    <2>11. QED
        BY <2>1, <2>2, <2>3, <2>4, <2>5, <2>6, <2>7, <2>8, <2>9, <2>10
           DEF Next, SaveStep
<1>3. QED
    BY <1>1, <1>2, PTL DEF Spec

-----------------------------------------------------------------------------
(* The two savers                                                          *)

\* A save that runs alone cannot break the store's file.
THEOREM SaveInvariant == Spec => []SaveInv
<1> USE DEF Saving
<1>1. Init => SaveInv
    BY DEF Init, SaveInv, FilesApart, AloneOwnsTmp, CleanUntilTainted, Parses, NoFile
<1>2. StoreTypeOK /\ SaveInv /\ [Next]_vars
        => AloneOwnsTmp' /\ CleanUntilTainted'
    <2> SUFFICES ASSUME StoreTypeOK, FilesApart, AloneOwnsTmp, CleanUntilTainted,
                        [Next]_vars
                 PROVE  AloneOwnsTmp' /\ CleanUntilTainted'
        BY DEF SaveInv
    <2>t. /\ pc \in [Saver -> {"idle", "open", "write", "rename"}]
          /\ fd \in [Saver -> Inode \cup {NoFile}] /\ alone \in [Saver -> BOOLEAN]
          /\ data \in [Inode -> Content] /\ NoFile \notin Inode
        BY DEF StoreTypeOK, Inode, NoFile
    <2>1. ASSUME UNCHANGED <<fd, alone, tmpIno, fileIno, data, tainted>>,
                 \A p \in Saver : /\ pc'[p] = "write" => pc[p] = "write"
                                  /\ pc'[p] = "rename" => pc[p] = "rename"
          PROVE  AloneOwnsTmp' /\ CleanUntilTainted'
        BY <2>1 DEF AloneOwnsTmp, CleanUntilTainted, Parses
    <2>2. CASE (\E j \in Job : Add(j)) \/ SendSnapshot \/ Tick \/ UNCHANGED vars
        BY <2>2, <2>1 DEF Add, SendSnapshot, Tick, vars, saveVars, diskVars
    <2>3. CASE Cleanup \/ ReceiveSnapshot
        BY <2>3, <2>1, <2>t DEF Cleanup, ReceiveSnapshot, diskVars
    <2>4. ASSUME NEW p \in Saver, OpenTmp(p)
          PROVE  AloneOwnsTmp' /\ CleanUntilTainted'
        <3>1. /\ tmpIno' \in Inode /\ tmpIno' # fileIno
              /\ fd' = [fd EXCEPT ![p] = tmpIno']
              /\ data' = [data EXCEPT ![tmpIno'] = Nothing]
            BY <2>4, TmpInode
        <3>2. /\ pc' = [pc EXCEPT ![p] = "write"] /\ pc[p] = "open"
              /\ UNCHANGED <<fileIno, tainted>>
            BY <2>4 DEF OpenTmp
        <3>3. CleanUntilTainted'
            BY <3>1, <3>2, <2>t DEF CleanUntilTainted, Parses
        <3>4. AloneOwnsTmp'
            <4>1. CASE \E q \in Saver \ {p} : Saving(q)
                BY <4>1, <2>4 DEF OpenTmp, AloneOwnsTmp
            <4>2. CASE ~\E q \in Saver \ {p} : Saving(q)
                <5>1. \A q \in Saver : pc'[q] \in {"write", "rename"} => q = p
                    BY <4>2, <3>2, <2>t
                <5>2. pc'[p] = "write" /\ fd'[p] = tmpIno' /\ data'[tmpIno'].bytes = "none"
                    BY <3>1, <3>2, <2>t DEF Nothing
                <5>3. QED
                    BY <5>1, <5>2 DEF AloneOwnsTmp
            <4>3. QED
                BY <4>1, <4>2
        <3>5. QED
            BY <3>3, <3>4
    <2>5. ASSUME NEW p \in Saver, WriteTmp(p)
          PROVE  AloneOwnsTmp' /\ CleanUntilTainted'
        <3>1. /\ fd[p] \in Inode /\ pc[p] = "write"
              /\ \A i \in Inode \ {fd[p]} : data'[i] = data[i]
              /\ UNCHANGED <<tmpIno, fileIno, tainted>>
            BY <2>5, <2>t DEF WriteTmp, FilesApart
        <3>2. CleanUntilTainted'
            <4>1. ~tainted => fd[p] # fileIno
                BY <3>1 DEF CleanUntilTainted
            <4>2. \A q \in Saver : pc'[q] \in {"write", "rename"}
                                  => pc[q] \in {"write", "rename"} /\ fd'[q] = fd[q]
                BY <2>5, <2>t DEF WriteTmp, Done
            <4>3. ~tainted /\ fileIno # NoFile => fileIno \in Inode
                BY DEF StoreTypeOK
            <4>4. QED
                BY <3>1, <4>1, <4>2, <4>3 DEF CleanUntilTainted, Parses
        <3>3. AloneOwnsTmp'
            <4>1. CASE pc' = [pc EXCEPT ![p] = "rename"] /\ UNCHANGED <<fd, alone>>
                <5>1. alone[p] => data[fd[p]].bytes = "none"
                    BY <3>1 DEF AloneOwnsTmp
                <5>2. alone[p] => data'[fd[p]].bytes = "map"
                    BY <2>5, <2>t, <3>1, <4>1, <5>1 DEF WriteTmp, Whole, Done
                <5>3. \A q \in Saver : alone[q] /\ pc'[q] \in {"write", "rename"}
                        => /\ pc[q] \in {"write", "rename"}
                           /\ q # p => ~(pc[p] \in {"write", "rename"})
                    BY <4>1, <3>1, <2>t DEF AloneOwnsTmp
                <5>4. QED
                    BY <4>1, <3>1, <2>t, <5>2, <5>3 DEF AloneOwnsTmp
            <4>2. CASE Done(p)
                BY <4>2, <3>1, <2>t DEF AloneOwnsTmp, Done
            <4>3. QED
                BY <4>1, <4>2, <2>5, <3>1, <2>t DEF WriteTmp, AloneOwnsTmp
        <3>4. QED
            BY <3>2, <3>3
    <2>6. ASSUME NEW p \in Saver, Rename(p)
          PROVE  AloneOwnsTmp' /\ CleanUntilTainted'
        <3>1. /\ pc[p] = "rename" /\ tainted' = ~alone[p]
              /\ pc' = [pc EXCEPT ![p] = "idle"] /\ fd' = [fd EXCEPT ![p] = NoFile]
              /\ alone' = [alone EXCEPT ![p] = TRUE]
              /\ fileIno' = IF tmpIno = NoFile THEN fileIno ELSE tmpIno
              /\ \A i \in Inode : i = fileIno' \/ (\E q \in Saver : fd'[q] = i)
                                  => data'[i] = data[i]
            BY <2>6 DEF Rename, Done
        <3>2. CASE alone[p]
            BY <3>1, <3>2, <2>t DEF AloneOwnsTmp, CleanUntilTainted, Parses, FilesApart
        <3>3. CASE ~alone[p]
            BY <3>1, <3>3, <2>t DEF AloneOwnsTmp, CleanUntilTainted
        <3>4. QED
            BY <3>2, <3>3
    <2>7. CASE Restart
        BY <2>7, <2>t DEF Restart, AloneOwnsTmp, CleanUntilTainted, Parses, diskVars
    <2>8. QED
        BY <2>2, <2>3, <2>4, <2>5, <2>6, <2>7 DEF Next, SaveStep
<1>3. QED
    BY <1>1, <1>2, StoreTypeCorrect, PTL DEF Spec, SaveInv

\* At every instant, and so at every crash, the file load() would find parses,
\* unless the two savers overlapped and no save has run alone since.
THEOREM BrokenOnlyByOverlapHolds == Spec => []BrokenOnlyByOverlap
<1>1. SaveInv => BrokenOnlyByOverlap
    BY DEF SaveInv, CleanUntilTainted, BrokenOnlyByOverlap
<1>2. QED
    BY <1>1, SaveInvariant, PTL

-----------------------------------------------------------------------------
(* Expiry across restarts                                                  *)

\* Copies of entries, wherever they travel, keep the life their Add gave them.
THEOREM GenuineInvariant == Spec => []GenuineEntries
<1> USE StoreAssumption DEF StoreAssumption
<1>1. Init => GenuineEntries
    BY DEF Init, GenuineEntries, Genuine, Empty, None, Nothing, Absent
<1>2. StoreTypeOK /\ FilesApart /\ GenuineEntries /\ [Next]_vars => GenuineEntries'
    <2> SUFFICES ASSUME StoreTypeOK, FilesApart, GenuineEntries, [Next]_vars
                 PROVE  GenuineEntries'
        OBVIOUS
    <2>g. Genuine(Empty) /\ None.map = Empty /\ Nothing.map = Empty /\ Junk.map = Empty
        BY DEF Genuine, Empty, None, Nothing, Junk
    <2>w. \A m : Whole(m).map = m /\ Some(m).map = m
        BY DEF Whole, Some
    <2>f. added' = added => \A m : Genuine(m) => Genuine(m)'
        BY DEF Genuine
    <2>1. ASSUME NEW j \in Job, Add(j)
          PROVE  GenuineEntries'
        <3>1. /\ jobs' = [jobs EXCEPT ![j] = now + TTL]
              /\ added' = [added EXCEPT ![j] = now]
              /\ pending' = Some(jobs') \/ pending' = None
              /\ UNCHANGED <<now, snapshotCh, buf, data>>
            BY <2>1 DEF Add, saveVars, diskVars
        <3>2. /\ now \in Nat /\ now # 0
              /\ added \in [Job -> Nat] /\ jobs \in [Job -> Nat]
            BY DEF StoreTypeOK, Map
        <3>3. ASSUME NEW m \in Map, Genuine(m)
              PROVE  \A k \in Job : m[k] # Absent => added'[k] # 0 /\ m[k] <= added'[k] + TTL
            BY <3>1, <3>2, <3>3 DEF Genuine, GenuineEntries, Map, Absent
        <3>4. \A k \in Job : jobs'[k] # Absent
                => added'[k] # 0 /\ jobs'[k] <= added'[k] + TTL
            BY <3>1, <3>2 DEF GenuineEntries, Genuine, Absent
        <3>5. /\ \A p \in Saver : buf[p] \in Map
              /\ \A i \in Inode : data[i].map \in Map
              /\ snapshotCh.map \in Map /\ Empty \in Map
            BY DEF StoreTypeOK, Content, Empty, Map, Absent
        <3>6. /\ Genuine(jobs)' /\ Genuine(pending.map)' /\ Genuine(snapshotCh.map)'
              /\ \A p \in Saver : Genuine(buf[p])'
              /\ \A i \in Inode : Genuine(data[i].map)'
            <4>1. Genuine(jobs)'
                BY <3>4 DEF Genuine
            <4>2. Genuine(pending.map)'
                <5>1. pending'.map = jobs' \/ pending'.map = Empty
                    BY <3>1, <2>g, <2>w
                <5>2. CASE pending'.map = jobs'
                    BY <5>2, <3>4 DEF Genuine
                <5>3. CASE pending'.map = Empty
                    BY <5>3 DEF Genuine, Empty
                <5>4. QED
                    BY <5>1, <5>2, <5>3
            <4>3. Genuine(snapshotCh.map)'
                BY <3>1, <3>3, <3>5 DEF Genuine, GenuineEntries
            <4>4. \A p \in Saver : Genuine(buf[p])'
                BY <3>1, <3>3, <3>5 DEF Genuine, GenuineEntries
            <4>5. \A i \in Inode : Genuine(data[i].map)'
                BY <3>1, <3>3, <3>5 DEF Genuine, GenuineEntries
            <4>6. QED
                BY <4>1, <4>2, <4>3, <4>4, <4>5
        <3>7. \A k \in Job : added'[k] <= now'
            BY <3>1, <3>2 DEF GenuineEntries
        <3>8. QED
            BY <3>6, <3>7 DEF GenuineEntries
    <2>2. CASE SendSnapshot
        BY <2>2, <2>g, <2>f DEF SendSnapshot, GenuineEntries, saveVars, diskVars
    <2>3. CASE Cleanup
        <3>1. Genuine(jobs)'
            BY <2>3, CleanupKeeps DEF Cleanup, GenuineEntries, Genuine
        <3>2. QED
            BY <2>3, <3>1, <2>f DEF Cleanup, GenuineEntries, StoreTypeOK, diskVars
    <2>4. CASE ReceiveSnapshot
        BY <2>4, <2>g, <2>f DEF ReceiveSnapshot, GenuineEntries, StoreTypeOK, diskVars
    <2>5. ASSUME NEW p \in Saver, OpenTmp(p)
          PROVE  GenuineEntries'
        <3>1. data' = [data EXCEPT ![tmpIno'] = Nothing] /\ tmpIno' \in Inode
            BY <2>5, TmpInode
        <3>2. UNCHANGED <<now, memVars, buf, added>>
            BY <2>5 DEF OpenTmp
        <3>3. QED
            BY <3>1, <3>2, <2>g, <2>f DEF GenuineEntries, StoreTypeOK, memVars
    <2>6. ASSUME NEW p \in Saver, WriteTmp(p)
          PROVE  GenuineEntries'
        <3>1. /\ \A i \in Inode : data'[i] \in {data[i], Whole(buf[p]), Junk}
              /\ \A q \in Saver : buf'[q] \in {buf[q], Empty}
              /\ UNCHANGED <<now, memVars, added>>
            BY <2>6 DEF WriteTmp, Done, StoreTypeOK
        <3>2. \A i \in Inode : data'[i].map \in {data[i].map, buf[p], Empty}
            BY <3>1, <2>g, <2>w
        <3>3. QED
            BY <3>1, <3>2, <2>g, <2>f DEF GenuineEntries, memVars
    <2>7. ASSUME NEW p \in Saver, Rename(p)
          PROVE  GenuineEntries'
        <3>1. /\ \A i \in Inode : data'[i] \in {data[i], Nothing}
              /\ \A q \in Saver : buf'[q] \in {buf[q], Empty}
              /\ UNCHANGED <<now, memVars, added>>
            BY <2>7 DEF Rename, Done, StoreTypeOK
        <3>2. \A i \in Inode : data'[i].map \in {data[i].map, Empty}
            BY <3>1, <2>g
        <3>3. QED
            BY <3>1, <3>2, <2>g, <2>f DEF GenuineEntries, memVars
    <2>8. CASE Restart
        <3>1. Genuine(Stored)
            BY <2>g DEF Stored, GenuineEntries, StoreTypeOK
        <3>2. Genuine(Load)
            BY <3>1 DEF Load, Genuine
        <3>3. QED
            BY <2>8, <3>2, <2>g, <2>f DEF Restart, GenuineEntries, diskVars
    <2>9. CASE Tick
        <3>1. UNCHANGED <<memVars, buf, data, added>> /\ now' = now + 1
            BY <2>9 DEF Tick, saveVars, diskVars
        <3>2. \A j \in Job : added'[j] <= now'
            BY <3>1 DEF GenuineEntries, StoreTypeOK
        <3>3. QED
            BY <3>1, <3>2, <2>f DEF GenuineEntries, memVars
    <2>10. CASE UNCHANGED vars
        BY <2>10, <2>f DEF vars, GenuineEntries, memVars, saveVars, diskVars
    <2>11. QED
        BY <2>1, <2>2, <2>3, <2>4, <2>5, <2>6, <2>7, <2>8, <2>9, <2>10
           DEF Next, SaveStep
<1>3. QED
    BY <1>1, <1>2, StoreTypeCorrect, PTL DEF Spec

\* No id is refused later than a TTL after its last Add, whatever was loaded.
THEOREM RefusalExpiresHolds == Spec => []RefusalExpires
<1>1. StoreTypeOK /\ GenuineEntries => RefusalExpires
    BY StoreAssumption DEF StoreAssumption, StoreTypeOK, Map, GenuineEntries, Genuine,
       RefusalExpires, Contains, Absent
<1>2. QED
    BY <1>1, GenuineInvariant, StoreTypeCorrect, PTL

-----------------------------------------------------------------------------
(* Eviction                                                                *)

\* A cleanup that forgets an unexpired id leaves exactly the limit of entries,
\* and none of them is older.
LEMMA EvictionFair ==
    ASSUME StoreTypeOK, Cleanup, NEW j \in Job, Contains(j), jobs'[j] = Absent
    PROVE  /\ Cardinality(Keys(jobs')) = DefaultMax
           /\ \A k \in Keys(jobs') : Contains(k) /\ jobs'[k] = jobs[k] /\ jobs[j] <= jobs[k]
<1> DEFINE expired == {k \in Keys(jobs) : now > jobs[k]}
           valid   == Without(jobs, expired)
           count   == Cardinality(Keys(valid))
<1>1. valid[j] = jobs[j] /\ jobs[j] # Absent
    BY DEF Without, Contains
<1>2. PICK E \in Oldest(valid, count - DefaultMax) : jobs' = Without(valid, E)
    BY <1>1 DEF Cleanup
<1>3. j \in E /\ Keys(jobs') = Keys(valid) \ E
    BY <1>1, <1>2 DEF Without, Keys
<1>4. ASSUME NEW k \in Keys(jobs')
      PROVE  Contains(k) /\ jobs'[k] = jobs[k] /\ jobs[j] <= jobs[k]
    <2>1. k \in Job /\ k \in Keys(valid) \ E
        BY <1>3, <1>4 DEF Keys
    <2>2. Contains(k) /\ valid[k] = jobs[k] /\ jobs'[k] = jobs[k]
        BY <2>1, <1>2 DEF Keys, Without, Contains
    <2>3. valid[j] <= valid[k]
        BY <1>2, <1>3, <2>1 DEF Oldest
    <2>4. QED
        BY <1>1, <2>2, <2>3
<1>5. Cardinality(Keys(jobs')) = DefaultMax
    <2>1. IsFiniteSet(Keys(valid)) /\ E \subseteq Keys(valid)
          /\ Cardinality(E) = count - DefaultMax
        BY <1>2, FS_Subset, StoreAssumption DEF Oldest, Keys, StoreAssumption
    <2>2. Cardinality(Keys(valid) \ E) = count - Cardinality(Keys(valid) \cap E)
        BY <2>1, FS_Difference
    <2>3. Keys(valid) \cap E = E /\ count \in Nat
        BY <2>1, FS_CardinalityType
    <2>4. Cardinality(Keys(valid) \cap E) = count - DefaultMax
        BY <2>1, <2>3
    <2>5. Cardinality(Keys(valid) \ E) = DefaultMax
        <3> HIDE DEF count, valid
        <3>1. DefaultMax \in Nat
            BY StoreAssumption DEF StoreAssumption
        <3>2. QED
            BY <2>2, <2>3, <2>4, <3>1
    <2>6. QED
        BY <1>3, <2>5
<1>6. QED
    BY <1>4, <1>5

\* The ids the store refuses that are at least as young as j.
Younger(j) == {k \in Job : Contains(k) /\ jobs[k] >= added[j] + TTL}

\* An id added in this run keeps the expiry of its Add, and is forgotten before
\* it only for DefaultMax ids that are at least as young.
THEOREM KeepsYoungestHolds == Spec => [](MineExact /\ KeepsYoungest)
<1> USE StoreAssumption DEF StoreAssumption
<1>1. Init => MineExact /\ KeepsYoungest
    BY DEF Init, MineExact, KeepsYoungest
<1>2. StoreTypeOK /\ MineExact /\ KeepsYoungest /\ [Next]_vars => MineExact' /\ KeepsYoungest'
    <2> SUFFICES ASSUME StoreTypeOK, MineExact, KeepsYoungest, [Next]_vars
                 PROVE  MineExact' /\ KeepsYoungest'
        OBVIOUS
    <2>t. /\ now \in Nat /\ now # 0 /\ mine \subseteq Job
          /\ added \in [Job -> Nat] /\ jobs \in [Job -> Nat]
        BY DEF StoreTypeOK, Map
    <2>f. \A j \in Job : IsFiniteSet(Younger(j)) /\ Cardinality(Younger(j)) \in Nat
                       /\ IsFiniteSet(Younger(j)') /\ Cardinality(Younger(j)') \in Nat
        BY FS_Subset, FS_CardinalityType DEF Younger
    <2>1. ASSUME NEW i \in Job, Add(i)
          PROVE  MineExact' /\ KeepsYoungest'
        <3>1. /\ jobs' = [jobs EXCEPT ![i] = now + TTL]
              /\ added' = [added EXCEPT ![i] = now]
              /\ mine' = mine \cup {i} /\ now' = now /\ ~Contains(i)
            BY <2>1 DEF Add
        <3>2. MineExact'
            BY <3>1, <2>t DEF MineExact
        <3>3. ASSUME NEW j \in mine', now' <= added'[j] + TTL, ~Contains(j)'
              PROVE  Cardinality(Younger(j)') >= DefaultMax
            <4>1. j # i
                BY <3>1, <3>3, <2>t DEF Contains, Absent
            <4>2. j \in mine /\ j \in Job /\ added'[j] = added[j] /\ ~Contains(j)
                BY <4>1, <3>1, <3>3, <2>t DEF Contains
            <4>3. Younger(j) \subseteq Younger(j)'
                BY <4>2, <3>1, <2>t DEF Younger, Contains
            <4>4. Cardinality(Younger(j)) <= Cardinality(Younger(j)')
                BY <4>2, <4>3, <2>f, FS_Subset
            <4>5. Cardinality(Younger(j)) >= DefaultMax
                BY <4>2, <3>1, <3>3 DEF KeepsYoungest, Younger
            <4>6. QED
                BY <4>2, <4>4, <4>5, <2>f
        <3>4. KeepsYoungest'
            BY <3>3 DEF KeepsYoungest, Younger
        <3>5. QED
            BY <3>2, <3>4
    <2>2. CASE Cleanup
        <3>1. /\ \A j \in Job : jobs'[j] = Absent \/ jobs'[j] = jobs[j]
              /\ UNCHANGED <<now, added, mine>>
              /\ jobs' \in Map
            BY <2>2, CleanupKeeps DEF Cleanup
        <3>2. MineExact'
            BY <3>1, <2>t DEF MineExact
        <3>3. ASSUME NEW j \in mine, NEW e \in Job, now <= added[j] + TTL,
                     Contains(e), jobs[e] >= added[j] + TTL, jobs'[e] = Absent
              PROVE  Cardinality(Younger(j)') >= DefaultMax
            <4>1. /\ Cardinality(Keys(jobs')) = DefaultMax
                  /\ \A k \in Keys(jobs') : Contains(k) /\ jobs'[k] = jobs[k] /\ jobs[e] <= jobs[k]
                BY <2>2, <3>3, EvictionFair
            <4>2. Keys(jobs') \subseteq Younger(j)'
                <5>1. ASSUME NEW k \in Keys(jobs') PROVE k \in Younger(j)'
                    <6>1. k \in Job /\ Contains(k) /\ jobs'[k] = jobs[k] /\ jobs[e] <= jobs[k]
                        BY <4>1, <5>1 DEF Keys
                    <6>2. jobs[k] >= added[j] + TTL
                        BY <6>1, <3>3, <2>t
                    <6>3. QED
                        BY <6>1, <6>2, <3>1 DEF Younger, Contains
                <5>2. QED
                    BY <5>1
            <4>3. Cardinality(Keys(jobs')) <= Cardinality(Younger(j)')
                BY <4>2, <2>f, <2>t, FS_Subset
            <4>4. QED
                BY <4>1, <4>3, <2>f, <2>t
        <3>4. ASSUME NEW j \in mine', now' <= added'[j] + TTL, ~Contains(j)'
              PROVE  Cardinality(Younger(j)') >= DefaultMax
            <4>1. j \in mine /\ j \in Job /\ now <= added[j] + TTL
                BY <3>1, <3>4, <2>t
            <4>2. CASE Contains(j)
                <5>1. jobs'[j] = Absent /\ jobs[j] = added[j] + TTL
                    BY <4>1, <4>2, <3>1, <3>4 DEF Contains, MineExact
                <5>2. jobs[j] >= added[j] + TTL
                    BY <5>1, <4>1, <2>t
                <5>3. QED
                    BY <4>1, <4>2, <5>1, <5>2, <3>3
            <4>3. CASE \E e \in Younger(j) : jobs'[e] = Absent
                BY <4>1, <4>3, <3>3 DEF Younger
            <4>4. CASE ~Contains(j) /\ \A e \in Younger(j) : jobs'[e] # Absent
                <5>1. Younger(j) \subseteq Younger(j)'
                    BY <4>4, <3>1 DEF Younger, Contains
                <5>2. Cardinality(Younger(j)) <= Cardinality(Younger(j)')
                    BY <4>1, <5>1, <2>f, FS_Subset
                <5>3. Cardinality(Younger(j)) >= DefaultMax
                    BY <4>1, <4>4 DEF KeepsYoungest, Younger
                <5>4. QED
                    BY <4>1, <5>2, <5>3, <2>f
            <4>5. QED
                BY <4>2, <4>3, <4>4
        <3>5. KeepsYoungest'
            BY <3>4 DEF KeepsYoungest, Younger
        <3>6. QED
            BY <3>2, <3>5
    <2>3. CASE Restart
        BY <2>3 DEF Restart, MineExact, KeepsYoungest
    <2>4. CASE Tick
        <3>1. UNCHANGED <<jobs, added, mine>> /\ now' = now + 1
            BY <2>4 DEF Tick, memVars
        <3>2. ASSUME NEW j \in mine', now' <= added'[j] + TTL, ~Contains(j)'
              PROVE  Cardinality(Younger(j)') >= DefaultMax
            <4>1. j \in mine /\ j \in Job /\ now <= added[j] + TTL /\ now' <= added[j] + TTL
                BY <3>1, <3>2, <2>t
            <4>2. ~Contains(j)
                BY <4>1, <3>1, <3>2, <2>t DEF Contains, MineExact
            <4>3. Younger(j) = Younger(j)'
                BY <4>1, <3>1, <2>t DEF Younger, Contains
            <4>4. QED
                BY <4>1, <4>2, <4>3 DEF KeepsYoungest, Younger
        <3>3. QED
            BY <3>1, <3>2 DEF MineExact, KeepsYoungest, Younger
    <2>5. CASE UNCHANGED <<jobs, now, added, mine>>
        BY <2>5 DEF MineExact, KeepsYoungest, Contains
    <2>6. QED
        BY <2>1, <2>2, <2>3, <2>4, <2>5
           DEF Next, SendSnapshot, ReceiveSnapshot, SaveStep, OpenTmp, WriteTmp, Rename,
               vars, memVars
<1>3. QED
    BY <1>1, <1>2, StoreTypeCorrect, PTL DEF Spec
=============================================================================
