--------------------------- MODULE MergeTreeWriter ---------------------------
(***************************************************************************)
(* The writer of one bucket of a primary-key table and the compaction that *)
(* runs beside it: MergeTreeWriter, MergeTreeCompactManager and its task    *)
(* thread, AbstractFileStoreWrite::PrepareCommit, and the committer that    *)
(* publishes what was prepared.                                             *)
(*                                                                         *)
(* The writer's thread does one operation at a time; op says where it is in *)
(* one that may have to wait for the compaction task.  A commit publishes   *)
(* its new files and its compaction in two snapshots.  A crash loses the    *)
(* writer; what was prepared is committed or given up before a new writer   *)
(* starts, and the upstream log is written again from where the table ends. *)
(***************************************************************************)
EXTENDS MergeTreeLevels

CONSTANTS
    Events,        \* what may be written: [key, add], with numbers for keys
    OptionSets,    \* table options, the values of wait_compaction that the caller
                   \* passes, and a bound on writes, calls and crashes together
    StopTrigger,   \* num-sorted-run.stop-trigger
    MaxWrites,     \* bound: calls of Write
    MaxPrepares,   \* bound: calls of PrepareCommit
    MaxFullCompactions,  \* bound: calls of Compact(full_compaction = true)
    MaxCrashes     \* bound: crashes of the writing process and failed tasks

ASSUME StopTriggerAssumption == StopTrigger \in Nat /\ StopTrigger >= RunTrigger

VARIABLES
    options,   \* [lookup, dv, lazy, fileSize, wait, effort]
    log,       \* the upstream log: sequence of [key, add]
    table,     \* the latest snapshot of the bucket
    messages,  \* commit messages that are prepared and not yet published
    storage,   \* ids of the data files that exist
    writer,    \* the bucket's writer
    task,      \* task_future_ and the task behind it
    op,        \* the operation the writer's thread is in
    used       \* how much of each bound is used, and the next file id

vars == <<options, log, table, messages, storage, writer, task, op, used>>

NoIdentifier == -1
NoTask == [pc |-> "none"]
Idle == [pc |-> "idle"]

\* A commit increment: the new files, the compaction, its changelog as a
\* sequence of changes, and the deletion vectors it installs, if any.
NoIncrement == [new |-> {}, before |-> {}, after |-> {}, changelog |-> <<>>, index |-> <<>>]

Ids(files) == {f.id : f \in files}

\* No writer; after a crash the messages are resolved before a new one opens.
NoWriter(recovering) == [open |-> FALSE, recovering |-> recovering]

Init ==
    /\ options \in OptionSets
    /\ log = <<>>
    /\ table = [files |-> {}, dv |-> {}, end |-> 0, covered |-> 0, view |-> {},
                identifier |-> NoIdentifier]
    /\ messages = <<>>
    /\ storage = {}
    /\ writer = NoWriter(FALSE)
    /\ task = NoTask
    /\ op = Idle
    /\ used = [id |-> 1, writes |-> 0, prepares |-> 0, fulls |-> 0, crashes |-> 0]

-----------------------------------------------------------------------------
(* The writer's buffer                                                      *)

\* GetWriter: levels, deletion vectors and sequence number come from the
\* latest snapshot.
RestoreWriter(t) ==
    [open |-> TRUE, buffer |-> <<>>, inc |-> NoIncrement, lazy |-> FALSE,
     levels |-> t.files, restored |-> NumberOfSortedRuns(t.files),
     dv |-> t.dv, restoredDv |-> t.dv, modified |-> FALSE,
     lastSeq |-> Max({MaxSequence(f) : f \in t.files} \cup {-1}),
     end |-> t.end, covered |-> t.covered, lastModified |-> NoIdentifier]

GetWriter ==
    /\ ~writer.open
    /\ writer.recovering => messages = <<>>
    /\ used.writes < MaxWrites \/ used.fulls < MaxFullCompactions
    /\ writer' = RestoreWriter(table)
    /\ UNCHANGED <<options, log, table, messages, storage, task, op, used>>

Effort == used.writes + used.prepares + used.fulls + used.crashes

Ready == writer.open /\ op.pc = "idle" /\ Effort < options.effort

\* Mutant: writes are never held back.
NeverWait(w) == FALSE

ShouldWaitForLatestCompaction(w) == NumberOfSortedRuns(w.levels) > StopTrigger
ShouldWaitForPreparingCheckpoint(w) == NumberOfSortedRuns(w.levels) > StopTrigger + 1

\* The buffer's sort-merge readers: the last row of each key.
MergedBuffer(buffer) ==
    {r \in Range(buffer) : \A s \in Range(buffer) : s.key = r.key => s.seq <= r.seq}

\* The buffer becomes a file of level 0.  The call waits next if it was told to,
\* or if it found too many runs.
FlushBuffer(w, call, u) ==
    LET file == [id |-> u.id, level |-> 0, rows |-> MergedBuffer(w.buffer)]
    IN  /\ op' = [call EXCEPT !.pc = "sync",
                              !.blocking = @ \/ ShouldWaitForLatestCompaction(w)]
        /\ writer' = [w EXCEPT !.buffer = <<>>, !.inc.new = @ \cup {file},
                               !.levels = @ \cup {file}, !.end = @ + Len(w.buffer)]
        /\ storage' = storage \cup {u.id}
        /\ used' = [u EXCEPT !.id = @ + 1]

\* The first half of FlushWriteBuffer, up to the wait.
FlushWriteBuffer(call, u) ==
    IF writer.buffer # <<>> THEN FlushBuffer(writer, call, u)
    ELSE /\ op' = [call EXCEPT !.pc = "sync"]
         /\ used' = u
         /\ UNCHANGED <<writer, storage>>

Call(blocking, full, prepare) ==
    [pc |-> "call", blocking |-> blocking, full |-> full, prepare |-> prepare,
     wait |-> blocking, committed |-> table.identifier]

\* Write; when the buffer has no quota left it is flushed.
Write(event) ==
    LET row == event @@ [seq |-> writer.lastSeq + 1, off |-> Len(log)]
        w == [writer EXCEPT !.buffer = Append(@, row), !.lastSeq = @ + 1]
    IN  /\ Ready /\ used.writes < MaxWrites
        /\ log' = Append(log, event)
        /\ LET u == [used EXCEPT !.writes = @ + 1]
           IN  \/ writer' = w /\ used' = u /\ UNCHANGED <<storage, op>>
               \/ FlushBuffer(w, Call(FALSE, FALSE, FALSE), u)
        /\ UNCHANGED <<options, table, messages, task>>

\* Compact(full_compaction = true).
Compact ==
    /\ Ready /\ used.fulls < MaxFullCompactions
    /\ FlushWriteBuffer(Call(TRUE, TRUE, FALSE), [used EXCEPT !.fulls = @ + 1])
    /\ UNCHANGED <<options, log, table, messages, task>>

\* PrepareCommit(wait_compaction, commit_identifier) reads the latest committed
\* identifier and flushes.
PrepareCommit ==
    /\ Ready /\ used.prepares < MaxPrepares
    /\ \E wait \in options.wait :
         FlushWriteBuffer(Call(wait, FALSE, TRUE), [used EXCEPT !.prepares = @ + 1])
    /\ UNCHANGED <<options, log, table, messages, task>>

-----------------------------------------------------------------------------
(* The compaction task                                                      *)

\* Mutant: deletions are dropped although older rows are left below.
DropAlways(w, unit) == unit.output # 0

DropDelete(w, unit) ==
    unit.output # 0 /\ (unit.output >= NonEmptyHighestLevel(w.levels) \/ options.dv)

\* SubmitCompaction.  What the task will do is settled by its inputs.  The
\* lookup files it finds were made at any time since the writer was opened.
SubmitCompaction(w, unit) ==
    \E seen \in {w.dv, w.restoredDv} :
       LET result == CompactResult(w.levels, w.dv, seen, options, unit, DropDelete(w, unit),
                                   used.id)
       IN  /\ task' = [pc |-> "running", todo |-> result.deleted, result |-> result,
                       index |-> options.dv /\ ~unit.rewrite, covered |-> w.end]
           /\ used' = [used EXCEPT !.id = @ + result.jobs]

\* TriggerCompaction: nothing while a task is outstanding; a forced compaction
\* must not find one.
TriggerCompaction(w, t, full) ==
    LET units == IF full THEN PickFullCompaction(w.levels, w.dv)
                 ELSE Pick(w.levels, options.lookup)
    IN  \/ /\ t.pc = "none"
           /\ \E unit \in units : SubmitCompaction(w, unit)
        \/ /\ IF full THEN t.pc = "none" /\ units = {}
              ELSE t.pc # "none" \/ units = {} \/ PickDeclines(w.levels)
           /\ task' = t
           /\ used' = used

\* The task's thread looks up one key and deletes the row it finds.
NotifyNewDeletion(d) ==
    /\ task.pc = "running" /\ d \in task.todo
    /\ writer' = [writer EXCEPT !.dv = @ \cup {d}, !.modified = @ \/ d \notin writer.dv]
    /\ task' = [task EXCEPT !.todo = @ \ {d}]
    /\ UNCHANGED <<options, log, table, messages, storage, op, used>>

\* The task ends: the vectors of rewritten files go, and unless that is left to
\* PrepareCommit the remaining ones are written if any changed.
FinishTask ==
    LET dv == {d \in writer.dv : d.id \notin task.result.removed}
        modified == writer.modified \/ dv # writer.dv
        generate == task.index /\ ~options.lazy
    IN  /\ task.pc = "running" /\ task.todo = {}
        /\ task' = [task EXCEPT !.pc = "done"] @@
                     [deletions |-> IF generate /\ modified THEN <<dv>> ELSE <<>>]
        /\ writer' = [writer EXCEPT !.dv = dv, !.modified = modified /\ ~generate]
        /\ storage' = storage \cup Ids(task.result.after)
        /\ UNCHANGED <<options, log, table, messages, op, used>>

\* The task returns an error, with a part of its work done.
FailTask ==
    /\ task.pc = "running" /\ used.crashes < MaxCrashes /\ Effort < options.effort
    /\ task' = [task EXCEPT !.pc = "failed"]
    /\ used' = [used EXCEPT !.crashes = @ + 1]
    /\ UNCHANGED <<options, log, table, messages, storage, writer, op>>

-----------------------------------------------------------------------------
(* Taking the result of a compaction                                        *)

\* Mutant: the file that this compaction upgrades again is taken for dead.
UpgradedFiles(w, r) ==
    (Ids(r.before) \cap Ids(w.inc.after)) \ Ids(w.inc.before)

\* Files that an earlier compaction of this increment made and this one used.
IntermediateFiles(w, r) ==
    (Ids(r.before) \cap Ids(w.inc.after)) \ (Ids(w.inc.before) \cup Ids(r.after))

\* GetCompactionResult and UpdateCompactResult.
UpdateCompactResult(w, t) ==
    LET r == t.result
    IN  [w EXCEPT
           !.levels = UpdateLevels(@, r.before, r.after),
           !.inc.before = @ \cup {f \in r.before : f.id \notin Ids(w.inc.after)},
           !.inc.after = {f \in @ : f.id \notin Ids(r.before)} \cup r.after,
           !.inc.changelog = IF options.lookup
                             THEN Append(@, [minus |-> r.minus, plus |-> r.plus]) ELSE @,
           !.inc.index = IF t.deletions # <<>> THEN t.deletions ELSE @,
           !.lazy = @ \/ (t.index /\ options.lazy),
           !.covered = t.covered]

\* TrySyncLatestCompaction: when it may go on, and the writer, the task and the
\* files left after it.
TrySync(blocking) == task.pc # "failed" /\ (blocking => task.pc # "running")

Synced ==
    IF task.pc # "done" THEN [writer |-> writer, task |-> task, deleted |-> {}]
    ELSE [writer |-> UpdateCompactResult(writer, task), task |-> NoTask,
          deleted |-> IntermediateFiles(writer, task.result)]

\* The second half of FlushWriteBuffer.
SyncAndTrigger ==
    /\ op.pc = "sync" /\ TrySync(op.blocking)
    /\ writer' = Synced.writer
    /\ storage' = storage \ Synced.deleted
    /\ TriggerCompaction(Synced.writer, Synced.task, op.full)
    /\ op' = IF op.prepare THEN [op EXCEPT !.pc = "drain"] ELSE Idle
    /\ UNCHANGED <<options, log, table, messages>>

-----------------------------------------------------------------------------
(* PrepareCommit, from the second wait on                                   *)

\* GetOrCompute: a lazy deletion file is made of the vectors as they are now.
Drained(w) ==
    [w.inc EXCEPT !.index = IF w.lazy /\ w.modified THEN <<w.dv>> ELSE @]

\* other: another bucket has something to commit under the same identifier (told
\* apart only where this bucket has nothing).
Message(w, other) ==
    Drained(w) @@ [end |-> w.end, covered |-> w.covered, identifier |-> used.prepares,
                   other |-> other, half |-> "append"]

IsEmpty(inc) == inc.new = {} /\ inc.before = {} /\ inc.after = {} /\ inc.index = <<>>
                  /\ inc.changelog = <<>>

\* Mutant: one of the snapshots of the identifier is enough.
ReleaseEarly(w, committed) == w.lastModified <= committed

\* The writer is released when its last increment is certainly published ...
ReleaseCondition(w, committed) == w.lastModified < committed

\* ... and no compaction is outstanding or postponed.
CompactNotCompleted(w, t) == t.pc # "none" \/ (options.lookup /\ AtLevel(w.levels, 0) # {})

DrainIncrement ==
    LET w == Synced.writer
        empty == IsEmpty(Drained(w))
        drained == [w EXCEPT !.inc = NoIncrement, !.lazy = FALSE,
                             !.modified = @ /\ ~w.lazy,
                             !.lastModified = IF empty THEN @ ELSE used.prepares]
    IN  /\ op.pc = "drain"
        /\ TrySync(op.wait \/ ShouldWaitForPreparingCheckpoint(writer))
        /\ storage' = storage \ Synced.deleted
        /\ \E other \in {FALSE, empty} :
             messages' = IF empty /\ ~other THEN messages ELSE Append(messages, Message(w, other))
        /\ IF empty /\ ReleaseCondition(w, op.committed)
           THEN /\ TriggerCompaction(w, Synced.task, FALSE)
                /\ writer' = IF CompactNotCompleted(w, task') THEN drained ELSE NoWriter(FALSE)
           ELSE /\ task' = Synced.task
                /\ writer' = drained
                /\ used' = used
        /\ op' = Idle
        /\ UNCHANGED <<options, log, table>>

-----------------------------------------------------------------------------
(* The committer and failures                                               *)

(* A snapshot is published between two calls of the writer: during one it    *)
(* touches nothing the call reads after its first step (op.committed).       *)

HasCompaction(m) ==
    m.before # {} \/ m.after # {} \/ m.index # <<>> \/ m.changelog # <<>>

PublishAppend ==
    LET m == Head(messages)
    IN  /\ op.pc = "idle" /\ messages # <<>> /\ m.half = "append"
        /\ table' = IF m.new = {} /\ ~m.other THEN table
                    ELSE [table EXCEPT !.files = @ \cup m.new, !.end = m.end,
                                       !.identifier = m.identifier]
        /\ messages' = IF HasCompaction(m) THEN <<[m EXCEPT !.half = "compact"]>> \o Tail(messages)
                       ELSE Tail(messages)
        /\ UNCHANGED <<options, log, storage, writer, task, op, used>>

ApplyChange(view, c) == (view \ c.minus) \cup c.plus

PublishCompact ==
    LET m == Head(messages)
    IN  /\ op.pc = "idle" /\ messages # <<>> /\ m.half = "compact"
        /\ table' = [table EXCEPT !.files = UpdateLevels(@, m.before, m.after),
                                  !.dv = IF m.index # <<>> THEN m.index[1] ELSE @,
                                  !.view = FoldLeft(ApplyChange, @, m.changelog),
                                  !.end = m.end, !.covered = m.covered,
                                  !.identifier = m.identifier]
        /\ messages' = Tail(messages)
        /\ UNCHANGED <<options, log, storage, writer, task, op, used>>

\* The files that DoClose deletes: those of the increment that nobody has, but
\* not an upgraded file, which is still part of an earlier snapshot.
TemporaryFiles(inc) == Ids(inc.new) \cup (Ids(inc.after) \ Ids(inc.before))

\* The writer is gone, by Close, which first takes the result of a compaction
\* that is done, or in a crash; of the messages a prefix will still be committed,
\* and the upstream log resumes after it.
Recover(graceful) ==
    /\ \E n \in 0..Len(messages) :
         LET kept == SubSeq(messages, 1, n)
         IN  /\ messages' = kept
             /\ log' = SubSeq(log, 1, IF n = 0 THEN table.end ELSE kept[n].end)
    /\ storage' = IF graceful
                  THEN storage \ (Synced.deleted \cup TemporaryFiles(Synced.writer.inc))
                  ELSE storage
    /\ writer' = NoWriter(TRUE)
    /\ task' = NoTask
    /\ op' = Idle
    /\ UNCHANGED <<options, table>>

Restart ==
    /\ writer.open /\ used.crashes < MaxCrashes /\ Effort < options.effort
    /\ \E graceful \in {FALSE, op.pc = "idle"} : Recover(graceful)
    /\ used' = [used EXCEPT !.crashes = @ + 1]

\* A call returns the error of the compaction, and its caller closes the writer.
FailCall ==
    /\ op.pc # "idle" /\ task.pc = "failed"
    /\ Recover(TRUE)
    /\ UNCHANGED used

-----------------------------------------------------------------------------

Next ==
    \/ GetWriter
    \/ \E event \in Events : Write(event)
    \/ Compact
    \/ PrepareCommit
    \/ \E d \in (IF task.pc = "running" THEN task.todo ELSE {}) : NotifyNewDeletion(d)
    \/ FinishTask
    \/ FailTask
    \/ SyncAndTrigger
    \/ DrainIncrement
    \/ PublishAppend
    \/ PublishCompact
    \/ Restart
    \/ FailCall

Spec == Init /\ [][Next]_vars

-----------------------------------------------------------------------------
(* Properties                                                               *)

\* The rows that are alive after the first p writes of the log.
LiveAt(p) ==
    {o \in 0..(p - 1) : log[o + 1].add /\ \A q \in (o + 1)..(p - 1) : log[q + 1].key # log[o + 1].key}

TypeOK ==
    /\ table.end \in 0..Len(log) /\ table.covered \in 0..table.end
    /\ storage \subseteq 1..(used.id - 1)
    /\ op.pc \in {"idle", "sync", "drain"} /\ task.pc \in {"none", "running", "done", "failed"}
    /\ \A f \in table.files : f.level \in 0..MaxLevel /\ f.rows # {}
    /\ writer.open => \A f \in writer.levels : f.level \in 0..MaxLevel /\ f.rows # {}
    /\ ~writer.open => task = NoTask /\ op = Idle

\* A merging read of the snapshot: the newest row of each key in all its files.
MergedRead(files) ==
    LET rows == UNION {f.rows : f \in files}
    IN  {r.off : r \in {r \in rows : r.add /\ \A s \in rows : s.key = r.key => s.seq <= r.seq}}

\* A read with deletion vectors: the rows above level 0 that are not deleted.
VectorRead(files, dv) ==
    UNION {{r.off : r \in {r \in f.rows : [id |-> f.id, key |-> r.key] \notin dv}} :
             f \in {f \in files : f.level > 0}}

\* Every snapshot reads as a prefix of the upstream log: with merging, all that
\* was prepared for it; with deletion vectors, all that its last compaction saw.
SnapshotIsLogPrefix ==
    IF options.dv THEN VectorRead(table.files, table.dv) = LiveAt(table.covered)
    ELSE MergedRead(table.files) = LiveAt(table.end)

\* Mutant: the full phase of a stream reads every level.
FirstPlanAll(files) == files

\* DataTableStreamScan::TryFirstPlan with the lookup changelog producer: what
\* is at level 0 comes with the changelog of its compaction.
FirstPlanFiles(files) == {f \in files : f.level > 0}

\* A stream that starts with this snapshot neither misses a change nor sees one
\* twice: its full phase reads what the changelogs so far amount to, and the
\* later ones go on from there.
FullPhaseMeetsChangelog ==
    options.lookup /\ ~options.dv =>
      MergedRead(FirstPlanFiles(table.files)) = {r.off : r \in table.view}

\* The changelogs of the compactions, applied in order, give what the compacted
\* writes amount to, and retract only rows that their reader has.
ChangelogReplays ==
    /\ {r.off : r \in table.view} = LiveAt(table.covered)
    /\ messages # <<>> /\ Head(messages).changelog # <<>> =>
         Head(messages).changelog[1].minus \subseteq table.view

\* ... in tables with the lookup changelog producer and no deletion vectors;
ChangelogIsDiff == options.lookup /\ ~options.dv => ChangelogReplays

\* ... and in tables with both.
VectorChangelogIsDiff == options.dv => ChangelogReplays

\* What is published, what is prepared and what is not yet prepared add up to
\* the levels of the writer: its compactions only remove files that the table
\* will have.
Publish(files, m) ==
    UpdateLevels(IF m.half = "append" THEN files \cup m.new ELSE files, m.before, m.after)

LevelsMatchTable ==
    writer.open =>
      LET prepared == FoldLeft(Publish, table.files, messages)
      IN  writer.levels = Publish(prepared, writer.inc @@ [half |-> "append"])

\* No file that a snapshot, a prepared message or the writer's levels refer to
\* has been deleted.
FilesKept ==
    /\ Ids(table.files) \subseteq storage
    /\ \A i \in DOMAIN messages : Ids(messages[i].new) \cup Ids(messages[i].after) \subseteq storage
    /\ writer.open => Ids(writer.levels) \subseteq storage

\* Above level 0 the files of a level do not overlap, and a key's rows get older
\* from level to level.
LevelsOrdered ==
    writer.open =>
      \A f, g \in writer.levels :
        /\ f.level = g.level /\ f.level > 0 /\ f # g => MaxKey(f) < MinKey(g) \/ MaxKey(g) < MinKey(f)
        /\ f.level < g.level =>
             \A r \in f.rows, s \in g.rows : r.key = s.key => s.seq < r.seq

\* Writes are held back in time: whatever the speed of compaction, a writer has
\* at most two runs more than the stop trigger, or one more than it started with.
\* (Tables that look up, and forced compactions, may move a lone run of level 0
\* up, which leaves as many runs.)
RunsAreBounded ==
    writer.open /\ ~options.lookup /\ used.fulls = 0 =>
      NumberOfSortedRuns(writer.levels) <= Max({StopTrigger + 1, writer.restored}) + 1

==============================================================================
