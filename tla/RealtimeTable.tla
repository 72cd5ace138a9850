---------------------------- MODULE RealtimeTable ----------------------------
(***************************************************************************)
(* One bucket of a real-time table: the context and its store, the writer  *)
(* (AbstractFileStoreWrite with the append-only, primary-key or            *)
(* deduplicate bucket writer), commits with progress, compaction by an     *)
(* ordinary writer, the refresh that reclaims what a snapshot covers, and  *)
(* scans that unite a snapshot with memory.                                *)
(*                                                                         *)
(* Three threads use the writer: one writes, one seals and prepares, one   *)
(* commits and refreshes.  Upstream replays its log from the durable       *)
(* offset when a context was lost; the coordinator keeps prepared progress *)
(* until a commit is acknowledged, and resolves it before it recovers.     *)
(***************************************************************************)
EXTENDS RealtimeStore

CONSTANTS
    Modes,          \* the store modes to consider
    MaxOffset,      \* bound on the events upstream submits
    MaxBatch,       \* bound on the events of a batch
    MaxPrepares,    \* bound on PrepareCommitWithProgress calls
    MaxCompactions, \* bound on compactions
    MaxScans,       \* bound on scans
    MaxFaults       \* bound on failed calls, crashes and lost acknowledgements

VARIABLES
    mode,       \* "append", "pk" or "dedup"
    log,        \* events upstream has submitted
    upstream,   \* offset upstream submits next
    context,    \* RealtimeContextImpl
    store,      \* its store for the bucket
    writer,     \* FileStoreWrite and its bucket writer
    write,      \* the thread inside Write
    seal,       \* the thread inside Seal or PrepareCommitWithProgress
    progress,   \* prepared progress the coordinator holds
    snapshots,  \* the table
    compaction, \* the compaction in flight
    refresh,    \* the snapshot whose index files a refresh has opened
    scan,       \* the scan in flight, or its result
    count       \* prepares, compactions, scans and faults so far

input == <<mode, log, upstream>>
process == <<context, store, writer, write, seal>>
table == <<progress, snapshots>>
vars == <<input, process, table, compaction, refresh, scan, count>>

NoContext == [usable |-> TRUE, committed |-> 0, refreshed |-> 0, installed |-> 0, maxSeq |-> None]
NoWriter == [open |-> FALSE, bucket |-> FALSE, next |-> 0, lastSeq |-> None,
             building |-> FALSE, segments |-> <<>>]
NoWrite == [pc |-> "idle", end |-> 0, previous |-> {}]
NoSeal == [pc |-> "idle", prepare |-> FALSE, frozen |-> <<>>, result |-> <<>>]
NoScan == [pc |-> "idle"]
NoRefresh == 0
NoCompaction == [inputs |-> {}, output |-> {}]

Init ==
    /\ mode \in Modes
    /\ log = <<>> /\ upstream = 0
    /\ context = NoContext /\ store = EmptyStore /\ writer = NoWriter
    /\ write = NoWrite /\ seal = NoSeal
    /\ progress = <<>> /\ snapshots = <<>>
    /\ compaction = NoCompaction /\ refresh = NoRefresh /\ scan = NoScan
    /\ count = [prepares |-> 0, compactions |-> 0, scans |-> 0, faults |-> 0]

Fault == count.faults < MaxFaults /\ count' = [count EXCEPT !.faults = @ + 1]

Latest == Len(snapshots)
EmptySnapshot == [files |-> {}, dv |-> {}, end |-> 0, identifier |-> 0, realtime |-> FALSE]
Snapshot(id) == IF id = 0 THEN EmptySnapshot ELSE snapshots[id]

\* ReadOffset, and upstream's initial position when there is no progress yet.
DurableOffset == Snapshot(Latest).end

\* A file is the snapshot it was written for and its rows.
FileRows(files) == UNION {f.rows : f \in files}
NewFile(rows) == IF rows = {} THEN {} ELSE {[id |-> Latest + 1, rows |-> rows]}

-----------------------------------------------------------------------------
(* Merging rows                                                             *)

\* The row of each key with the largest sequence number.
Winners(rows) ==
    {r \in rows : \A q \in rows : log[q.off + 1].key = log[r.off + 1].key => q.seq <= r.seq}

\* What a reader makes of rows: a primary-key reader merges them by key and
\* drops deletions, an append reader returns them all.
Merge(rows) ==
    IF mode = "pk" THEN {r \in Winners(rows) : log[r.off + 1].add} ELSE rows

\* The rows of a snapshot that its deletion vectors leave.
DiskRows(s) == {r \in FileRows(s.files) : r.off \notin s.dv}

-----------------------------------------------------------------------------
(* RealtimeContextImpl                                                      *)

\* Whether the deduplicate store has not seen the snapshot yet, so that index
\* files must be opened for it (CollectRefreshNotifications).
NeedsLookup(id) == mode = "dedup" /\ store.registered /\ context.installed < id

\* InstallCommittedRefresh: the committed offset, the retired segments and, in
\* a deduplicate store that has not seen this snapshot yet, the lookup over its
\* files change in one step of the progress lock.
InstallCommittedRefresh(id) ==
    LET s == snapshots[id]
        install == store.registered /\ (mode = "dedup" => context.installed < id)
    IN  /\ context' = [context EXCEPT !.committed = s.end, !.refreshed = id,
                                      !.installed = IF install THEN id ELSE @]
        /\ store' = IF ~install THEN store
                    ELSE [RetireCommitted(store, s.end) EXCEPT
                            !.lookup = IF mode = "dedup" THEN Offsets(FileRows(s.files)) ELSE @]

\* AdvanceCommittedProgress for a snapshot that is not older than the last one
\* refreshed, when no index file has to be opened.
RefreshCommittedSnapshot(id) ==
    /\ writer.open /\ context.usable /\ refresh = NoRefresh
    /\ id >= context.refreshed /\ ~NeedsLookup(id)
    /\ InstallCommittedRefresh(id)
    /\ <<context, store>>' # <<context, store>>
    /\ UNCHANGED <<input, writer, write, seal, table, compaction, refresh, scan, count>>

\* Mutant: segments are retired before the lookup that replaces them is there.
RetireBeforeOpening(id) ==
    /\ writer.open /\ context.usable /\ refresh = NoRefresh
    /\ id >= context.refreshed /\ NeedsLookup(id)
    /\ refresh' = id
    /\ context' = [context EXCEPT !.committed = snapshots[id].end]
    /\ store' = RetireCommitted(store, snapshots[id].end)
    /\ UNCHANGED <<input, writer, write, seal, table, compaction, scan, count>>

\* Otherwise the progress lock is released while they are opened; refresh_mutex_
\* keeps other refreshes out.
OpenIndexFiles(id) ==
    /\ writer.open /\ context.usable /\ refresh = NoRefresh
    /\ id >= context.refreshed /\ NeedsLookup(id)
    /\ refresh' = id
    /\ UNCHANGED <<input, process, table, compaction, scan, count>>

\* The lock is taken again and the result installed, unless the context was
\* invalidated.
FinishRefresh ==
    /\ refresh # NoRefresh
    /\ refresh' = NoRefresh
    /\ IF context.usable THEN InstallCommittedRefresh(refresh) ELSE UNCHANGED <<context, store>>
    /\ UNCHANGED <<input, writer, write, seal, table, compaction, scan, count>>

\* GetOrCreateRealtimeStore: a reused store may hold rows beyond the committed
\* offset.
InitialOffset ==
    LET end == AcquireReadView(store).end
    IN  IF end > context.committed THEN end ELSE context.committed

-----------------------------------------------------------------------------
(* AbstractFileStoreWrite and the bucket writers                            *)

\* FileStoreWrite::Create restores the progress of the latest snapshot.
OpenWriter ==
    /\ context.usable /\ ~writer.open
    /\ writer' = [NoWriter EXCEPT !.open = TRUE]
    /\ IF Latest = 0 THEN UNCHANGED <<context, store>> ELSE InstallCommittedRefresh(Latest)
    /\ UNCHANGED <<input, write, seal, table, compaction, refresh, scan, count>>

\* GetWriter, on the first batch: files are restored from the latest snapshot,
\* the store is found or created, its lookup attached once, and the sequence
\* number continues after both the files and the store.
GetWriter ==
    /\ context.usable /\ writer.open /\ ~writer.bucket
    /\ LET rows == FileRows(Snapshot(Latest).files)
           restored == Max({r.seq : r \in rows} \cup {context.maxSeq})
       IN  /\ writer' = [writer EXCEPT !.bucket = TRUE, !.next = InitialOffset, !.lastSeq = restored]
           /\ context' = [context EXCEPT !.maxSeq = restored]
           /\ store' = IF store.registered THEN store
                       ELSE [EmptyStore EXCEPT !.registered = TRUE,
                               !.lookup = IF mode = "dedup" THEN Offsets(rows) ELSE {}]
    /\ UNCHANGED <<input, write, seal, table, compaction, refresh, scan, count>>

Events == [key : Keys, add : IF mode = "append" THEN {TRUE} ELSE BOOLEAN]

\* ValidateBatch: offsets never move backwards.
ValidateBatch(first) == first >= writer.next

\* Write is entered with the next batch of upstream, which repeats the log when
\* it replays; the deduplicate writer looks up the offsets it supersedes.
BeginWrite ==
    /\ context.usable /\ writer.bucket /\ write.pc = "idle"
    /\ \E end \in (upstream + 1)..(upstream + MaxBatch) :
        /\ end <= MaxOffset
        /\ \E fresh \in [1..(IF end > Len(log) THEN end - Len(log) ELSE 0) -> Events] :
            log' = log \o fresh
        /\ write' = [pc |-> IF ValidateBatch(upstream) THEN "apply" ELSE "failing", end |-> end,
                     previous |-> IF mode = "dedup"
                                  THEN LookupOffsets(store, log', upstream..(end - 1)) ELSE {}]
    /\ UNCHANGED <<mode, upstream, context, store, writer, seal, table, compaction, refresh,
                   scan, count>>

\* RealtimeAppendOnlyWriter::Write.
AppendOnlyRows(os) ==
    [store |-> store, lastSeq |-> writer.lastSeq, rows |-> {[off |-> o, seq |-> 0] : o \in os}]

\* RealtimePrimaryKeyWriter::Write numbers its rows.
PrimaryKeyRows(os) ==
    [store |-> store, lastSeq |-> writer.lastSeq + Cardinality(os),
     rows |-> {[off |-> o, seq |-> writer.lastSeq + 1 + o - upstream] : o \in os}]

\* RealtimeDeduplicateWriter::Write keeps additions and indexes them.
DeduplicateRows(os) ==
    [store |-> IndexRows(store, log, os, write.previous), lastSeq |-> writer.lastSeq,
     rows |-> {[off |-> o, seq |-> 0] : o \in Adds(log, os)}]

\* The bucket writer's Write under its mutex: the store takes the rows, and the
\* writer moves on.
ApplyWrite ==
    /\ write.pc = "apply"
    /\ LET os == upstream..(write.end - 1)
           batch == CASE mode = "append" -> AppendOnlyRows(os)
                      [] mode = "pk" -> PrimaryKeyRows(os)
                      [] mode = "dedup" -> DeduplicateRows(os)
       IN  /\ store' = AppendRows(batch.store, upstream, write.end, batch.rows)
           /\ writer' = [writer EXCEPT !.next = write.end, !.lastSeq = batch.lastSeq,
                                       !.building = TRUE]
           /\ context' = [context EXCEPT !.maxSeq = batch.lastSeq]
    /\ write' = [write EXCEPT !.pc = "return"]
    /\ UNCHANGED <<input, seal, table, compaction, refresh, scan, count>>

\* The write fails.  A deduplicate store has by then indexed a part of the
\* batch; after a primary-key write, OnWriteCompleted may fail as well.
FailWrite ==
    /\ \/ /\ write.pc = "apply" /\ mode = "dedup"
          /\ \E end \in upstream..write.end :
                store' = IndexRows(store, log, upstream..(end - 1), write.previous)
       \/ /\ write.pc = "apply" /\ mode # "dedup"
          /\ store' = store
       \/ /\ write.pc = "return" /\ mode = "pk"
          /\ store' = store
    /\ write' = [write EXCEPT !.pc = "failing"]
    /\ Fault
    /\ UNCHANGED <<input, context, writer, seal, table, compaction, refresh, scan>>

\* Write returns to upstream.
FinishWrite ==
    /\ write.pc = "return"
    /\ write' = NoWrite
    /\ upstream' = write.end
    /\ UNCHANGED <<mode, log, context, store, writer, seal, table, compaction, refresh, scan, count>>

\* PoisonRealtimeWrite, before Write returns its error.
PoisonWrite ==
    /\ write.pc = "failing"
    /\ write' = NoWrite
    /\ context' = [context EXCEPT !.usable = FALSE]
    /\ UNCHANGED <<input, store, writer, seal, table, compaction, refresh, scan, count>>

\* Seal and PrepareCommitWithProgress freeze the building segment.
BeginSeal(prepare) ==
    /\ context.usable /\ writer.bucket /\ seal.pc = "idle"
    /\ HasBuilding(store) \/ (prepare /\ writer.segments # <<>>)
    /\ prepare => count.prepares < MaxPrepares
    /\ count' = [count EXCEPT !.prepares = IF prepare THEN @ + 1 ELSE @]
    /\ IF HasBuilding(store)
       THEN /\ store' = FreezeBuildingSegment(store)
            /\ seal' = [NoSeal EXCEPT !.pc = "frozen", !.prepare = prepare,
                                      !.frozen = <<Building(store)>>]
       ELSE /\ store' = store
            /\ seal' = [NoSeal EXCEPT !.pc = "frozen", !.prepare = prepare]
    /\ UNCHANGED <<input, context, writer, write, table, compaction, refresh, scan>>

\* The rows of the files that PrepareCommit writes for sealed segments: an
\* append-only writer writes them all, a primary-key writer merges each, and a
\* deduplicate writer leaves out what each segment's checkpoint deletes.
SegmentRows(segments) == {s.rows : s \in Range(segments)}
MergedRows(segments) == {Winners(rows) : rows \in SegmentRows(segments)}
SurvivingRows(segments) ==
    {{r \in s.rows : r.off \notin s.dels} : s \in Range(segments)}

PreparedProgress(segments, identifier) ==
    [begin |-> Head(segments).begin, end |-> Last(segments).end, identifier |-> identifier,
     rows |-> CASE mode = "append" -> SegmentRows(segments)
                [] mode = "pk" -> MergedRows(segments)
                [] mode = "dedup" -> SurvivingRows(segments),
     dels |-> IF mode = "dedup" THEN UNION {s.dels : s \in Range(segments)} ELSE {}]

\* A write may have come between the freeze and the registration of a segment.
StillBuilding(frozen) == writer.next > frozen.end

\* The segment is registered with the writer once no batch is being applied;
\* PrepareCommit then takes all segments and writes them to files.
RegisterSegment ==
    /\ seal.pc = "frozen" /\ write.pc # "apply"
    /\ LET segments == writer.segments \o seal.frozen
       IN  /\ writer' = [writer EXCEPT
                            !.building = IF seal.frozen = <<>> THEN @
                                         ELSE StillBuilding(Head(seal.frozen)),
                            !.segments = IF seal.prepare THEN <<>> ELSE segments]
           /\ seal' = [seal EXCEPT !.pc = "drain", !.frozen = <<>>,
                         !.result = IF seal.prepare
                                    THEN <<PreparedProgress(segments, count.prepares)>> ELSE <<>>]
    /\ UNCHANGED <<input, context, store, write, table, compaction, refresh, scan, count>>

\* Spilling or flushing fails, which poisons the writer and the context.
FailSeal ==
    /\ seal.pc = "frozen"
    /\ seal' = NoSeal
    /\ context' = [context EXCEPT !.usable = FALSE]
    /\ Fault
    /\ UNCHANGED <<input, store, writer, write, table, compaction, refresh, scan>>

\* The exclusive side of realtime_write_completion_mutex_.
WritesCompleted == write.pc = "idle"

\* Progress is handed to the coordinator if the context survived the writes
\* that were running.
FinishSeal ==
    /\ seal.pc = "drain" /\ WritesCompleted
    /\ seal' = NoSeal
    /\ progress' = IF context.usable THEN progress \o seal.result ELSE progress
    /\ UNCHANGED <<input, context, store, writer, write, snapshots, compaction, refresh, scan, count>>

\* Mutant: sealed segments that no prepare has taken yet are overlooked.
HasBuildingDataOnly == writer.building

\* HasUnpreparedRealtimeData.
HasUnpreparedRealtimeData == writer.building \/ writer.segments # <<>>

\* Close invalidates the context when rows would be left to nobody.
Close ==
    /\ writer.open /\ seal.pc = "idle" /\ write.pc = "idle" /\ refresh = NoRefresh
    /\ context' = [context EXCEPT !.usable = @ /\ ~HasUnpreparedRealtimeData]
    /\ writer' = NoWriter
    /\ UNCHANGED <<input, store, write, seal, table, compaction, refresh, scan, count>>

-----------------------------------------------------------------------------
(* FileStoreCommitImpl::CommitWithProgress                                  *)

\* The last snapshot of the real-time committer.
LatestOfUser ==
    LET mine == {i \in DOMAIN snapshots : snapshots[i].realtime}
    IN  IF mine = {} THEN 0 ELSE Max(mine)

\* AreRangesCommitted: a range is committed as a whole or not at all.
RangeStatus(begin, end, offset) ==
    IF end <= offset THEN "committed" ELSE IF begin < offset THEN "error" ELSE "new"

\* ResolveRealtimeCommit: new ranges go on, committed ones return, and a range
\* committed in part or under another identifier is an error.
ResolveRealtimeCommit(begin, end, identifier) ==
    LET known == identifier <= Snapshot(LatestOfUser).identifier
        status == RangeStatus(begin, end,
                              IF known THEN Snapshot(LatestOfUser).end ELSE DurableOffset)
    IN  IF status = (IF known THEN "committed" ELSE "new") THEN status ELSE "error"

\* RealtimeDeduplicateCommitChangesProvider resolves deleted offsets against the
\* latest files and the new ones, next to the deletions already there.
MaterializeDeletions(dv, files, dels) == dv \cup (dels \cap Offsets(FileRows(files)))

\* A prefix of the outstanding progress is committed: files, deletion vectors
\* and the offset appear in one snapshot.  The acknowledgement may be lost.
\* After an error that cannot be retried the coordinator gives up writer,
\* context and progress.
CommitWithProgress(n) ==
    LET prepared == SubSeq(progress, 1, n)
        latest == Snapshot(Latest)
        files == latest.files \cup
                   UNION {NewFile(rows) : rows \in UNION {p.rows : p \in Range(prepared)}}
        dels == UNION {p.dels : p \in Range(prepared)}
        resolved == ResolveRealtimeCommit(prepared[1].begin, prepared[n].end,
                                          prepared[n].identifier)
    IN  \/ /\ resolved = "new"
           /\ snapshots' = Append(snapshots,
                [files |-> files, dv |-> MaterializeDeletions(latest.dv, files, dels),
                 end |-> prepared[n].end, identifier |-> prepared[n].identifier,
                 realtime |-> TRUE])
           /\ \/ /\ progress' = SubSeq(progress, n + 1, Len(progress))
                 /\ UNCHANGED count
              \/ /\ progress' = progress
                 /\ Fault
           /\ UNCHANGED context
        \/ /\ resolved = "committed"
           /\ progress' = SubSeq(progress, n + 1, Len(progress))
           /\ UNCHANGED <<snapshots, count, context>>
        \/ /\ resolved = "error"
           /\ progress' = <<>>
           /\ context' = [context EXCEPT !.usable = FALSE]
           /\ UNCHANGED <<snapshots, count>>

Commit ==
    /\ \E n \in 1..Len(progress) : CommitWithProgress(n)
    /\ UNCHANGED <<input, store, writer, write, seal, compaction, refresh, scan>>

-----------------------------------------------------------------------------
(* Compaction by an ordinary writer                                         *)

\* The compaction task rewrites some files of the latest snapshot without the
\* rows deleted there; a merge of all files drops deleted keys too.
StartCompaction ==
    /\ compaction = NoCompaction /\ count.compactions < MaxCompactions
    /\ \E inputs \in SUBSET Snapshot(Latest).files \ {{}} :
        LET rows == {r \in FileRows(inputs) : r.off \notin Snapshot(Latest).dv}
        IN  compaction' = [inputs |-> inputs,
                           output |-> IF mode # "pk" THEN rows
                                      ELSE IF inputs = Snapshot(Latest).files THEN Merge(rows)
                                      ELSE Winners(rows)]
    /\ count' = [count EXCEPT !.compactions = @ + 1]
    /\ UNCHANGED <<input, process, table, refresh, scan>>

\* Mutant: deletions that came after the compaction read its inputs are lost.
RemapNone(latest, output) == latest.dv \ Offsets(FileRows(compaction.inputs))

\* RealtimeDeduplicateCompactionChangesProvider: the latest deletions of the
\* inputs become deletions of the output, those of other files stay.
RemapDeletions(latest, output) ==
    latest.dv \cap Offsets(FileRows(latest.files \ compaction.inputs) \cup output)

CommitCompaction ==
    /\ compaction # NoCompaction
    /\ compaction.inputs \subseteq Snapshot(Latest).files
    /\ LET latest == Snapshot(Latest)
       IN  snapshots' = Append(snapshots,
             [latest EXCEPT !.files = (@ \ compaction.inputs) \cup NewFile(compaction.output),
                            !.dv = RemapDeletions(latest, compaction.output),
                            !.realtime = FALSE])
    /\ compaction' = NoCompaction
    /\ UNCHANGED <<input, process, progress, refresh, scan, count>>

-----------------------------------------------------------------------------
(* RealtimeTableScan and the table reads                                    *)

\* AcquireReadState pins the memory and the committed offset together.
AcquireReadState ==
    /\ context.usable /\ scan.pc \in {"idle", "done"} /\ count.scans < MaxScans
    /\ scan' = [pc |-> "view", view |-> AcquireReadView(store), viewed |-> store.registered,
                committed |-> context.committed,
                accepted |-> upstream, torn |-> write.pc = "failing"]
    /\ count' = [count EXCEPT !.scans = @ + 1]
    /\ UNCHANGED <<input, process, table, compaction, refresh>>

\* ValidateSnapshotProgress, for a bucket that has a memory view.
SnapshotTooOld(s) == scan.viewed /\ s.end < scan.committed

\* CollectActiveMemoryViews: memory that the snapshot covers is not read.
MemoryActive(s) == scan.view.end > s.end

\* What the readers of the split return.  Pending deletions apply to disk and
\* memory alike; memory is read from the snapshot's offset on.
PendingDeletions(s) == IF mode = "dedup" /\ MemoryActive(s) THEN scan.view.dels ELSE {}
ReadDisk(s) == {r \in DiskRows(s) : r.off \notin PendingDeletions(s)}
ReadMemory(s) ==
    {r \in scan.view.rows : MemoryActive(s) /\ r.off >= s.end /\ r.off \notin PendingDeletions(s)}

\* The disk part of the plan is made from the latest snapshot, or from the one
\* that the scan asked for.  A view is pinned in a context that is still usable.
PlanScan(id) ==
    /\ scan.pc = "view"
    /\ LET s == Snapshot(id)
       IN  \/ /\ SnapshotTooOld(s) \/ (MemoryActive(s) /\ ~context.usable)
              /\ scan' = NoScan
           \/ /\ ~SnapshotTooOld(s)
              /\ MemoryActive(s) => context.usable
              /\ scan' = [pc |-> "done", accepted |-> scan.accepted, torn |-> scan.torn,
                          latest |-> id = Latest,
                          end |-> IF MemoryActive(s) THEN scan.view.end ELSE s.end,
                          disk |-> ReadDisk(s), memory |-> ReadMemory(s)]
    /\ UNCHANGED <<input, process, table, compaction, refresh, count>>

-----------------------------------------------------------------------------
(* Failures of the process, and recovery                                    *)

\* The process dies; of the prepared progress the coordinator recovers a prefix.
Crash ==
    /\ writer.open
    /\ Fault
    /\ context' = [context EXCEPT !.usable = FALSE]
    /\ writer' = NoWriter /\ write' = NoWrite /\ seal' = NoSeal
    /\ \E n \in 0..Len(progress) : progress' = SubSeq(progress, 1, n)
    /\ refresh' = NoRefresh /\ scan' = NoScan
    /\ UNCHANGED <<input, store, snapshots, compaction>>

\* Recovery: once no prepared progress is left to commit, a new context is
\* created and upstream goes back to the durable offset.
NewContext ==
    /\ ~context.usable /\ ~writer.open /\ progress = <<>>
    /\ context' = NoContext /\ store' = EmptyStore
    /\ upstream' = DurableOffset
    /\ UNCHANGED <<mode, log, writer, write, seal, table, compaction, refresh, scan, count>>

-----------------------------------------------------------------------------

Next ==
    \/ OpenWriter \/ GetWriter
    \/ BeginWrite \/ ApplyWrite \/ FailWrite \/ FinishWrite \/ PoisonWrite
    \/ \E prepare \in BOOLEAN : BeginSeal(prepare)
    \/ RegisterSegment \/ FailSeal \/ FinishSeal \/ Close
    \/ Commit
    \/ \E id \in DOMAIN snapshots : RefreshCommittedSnapshot(id) \/ OpenIndexFiles(id)
    \/ FinishRefresh
    \/ StartCompaction \/ CommitCompaction
    \/ AcquireReadState
    \/ \E id \in (IF Latest = 0 THEN {0} ELSE DOMAIN snapshots) : PlanScan(id)
    \/ Crash \/ NewContext

Spec == Init /\ [][Next]_vars

-----------------------------------------------------------------------------
(* Properties                                                               *)

\* The rows of the first n events that a reader should see: the last addition
\* of each key, or every event of an append table.
Live(n) ==
    {o \in 0..(n - 1) :
        mode = "append" \/ /\ log[o + 1].add
                           /\ \A p \in (o + 1)..(n - 1) : log[p + 1].key # log[o + 1].key}

TypeOK ==
    /\ mode \in Modes
    /\ log \in Seq(Events) /\ Len(log) <= MaxOffset
    /\ upstream \in 0..MaxOffset
    /\ context.committed \in 0..MaxOffset /\ context.refreshed \in 0..Latest
    /\ refresh \in 0..Latest
    /\ write.pc \in {"idle", "apply", "return", "failing"}
    /\ write.previous \cup store.dels \subseteq 0..(MaxOffset - 1)
    /\ seal.pc \in {"idle", "frozen", "drain"}
    /\ scan.pc \in {"idle", "view", "done"}

\* Every snapshot holds exactly the state of the upstream log at the offset it
\* records, whatever writes failed, whatever was replayed or committed twice,
\* and however compaction moved rows: PrepareCommitWithProgress,
\* CommitWithProgress and the deletion-vector providers together.
SnapshotIsLogPrefix ==
    \A i \in DOMAIN snapshots :
        Offsets(Merge(DiskRows(snapshots[i]))) = Live(snapshots[i].end)

\* A scan returns the state of the log at one offset, no row twice, from disk
\* and memory that were captured at different moments.  A view taken between
\* the failure of a write and the invalidation of its context is excepted: such
\* a write may have marked deletions whose batch never arrives.  So is a
\* primary-key scan that asks for an older snapshot: sequence numbers restart
\* after the files of the latest one, and a full compaction may have dropped
\* the deletion that had the largest.
ScanIsLogPrefix ==
    scan.pc = "done" /\ ~scan.torn /\ (mode = "pk" => scan.latest) =>
        /\ Offsets(Merge(scan.disk \cup scan.memory)) = Live(scan.end)
        /\ Offsets(scan.disk) \cap Offsets(scan.memory) = {}

\* A scan of the latest snapshot misses nothing that Write had accepted before
\* the scan started.
ScanSeesAccepted == scan.pc = "done" /\ scan.latest => scan.end >= scan.accepted

\* A bucket writer continues where upstream does, over a store that was reused
\* as well as after a recovery: no legitimate batch is refused by ValidateBatch
\* and no gap opens before it.
WriterFollowsUpstream ==
    context.usable /\ writer.bucket /\ write.pc = "idle" => writer.next = upstream

\* The offset ranges that are on their way: prepared, being sealed, sealed,
\* building.
InFlightRanges ==
    progress \o seal.result \o writer.segments \o seal.frozen
        \o (IF HasBuilding(store) THEN <<Building(store)>> ELSE <<>>)

\* While the context is usable, the ranges in flight follow each other without
\* gap or overlap, from committed rows to the last row accepted: every row
\* has one owner that will bring it into a snapshot, across Seal, Prepare,
\* Close and the replacement of the writer.
EveryRowHasAnOwner ==
    context.usable /\ store.registered =>
        LET q == InFlightRanges
        IN  /\ \A i \in 1..(Len(q) - 1) : q[i].end = q[i + 1].begin
            /\ IF q = <<>> THEN upstream = DurableOffset
               ELSE /\ Head(q).begin <= DurableOffset
                    /\ write.pc = "idle" => Last(q).end = upstream

==============================================================================
