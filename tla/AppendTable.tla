----------------------------- MODULE AppendTable -----------------------------
(***************************************************************************)
(* The writer of one bucket of an append table and the compaction beside   *)
(* it: AppendOnlyWriter, BucketedAppendCompactManager with its tasks, the   *)
(* calls of AbstractFileStoreWrite, and the committer that publishes what   *)
(* was prepared.  Tables without buckets have a writer that never compacts; *)
(* AppendCoordinator adds their compaction.                                 *)
(*                                                                         *)
(* A row is its position in the upstream log.  A file has its rows in       *)
(* order, its smallest sequence number and, for its size, its number of     *)
(* rows.  A call that fails closes the writer; after that, and after a      *)
(* crash, what was prepared is committed or given up, and the log is        *)
(* written again from where the table ends.                                 *)
(***************************************************************************)
EXTENDS Integers, Sequences, FiniteSets, SequencesExt

CONSTANTS
    OptionSets,      \* [bucketed, minFileNum, force, openFileCost, wait, effort]: table
                     \* options, values of wait_compaction, and a bound on all calls
    TargetSize,      \* target-file-size
    CompactionSize,  \* compaction.file-size: files below it are small
    BatchSizes,      \* rows of a batch
    MaxRows,         \* bound: rows written
    MaxPrepares,     \* bound: calls of PrepareCommit
    MaxFaults        \* bound: crashes and failed compactions

ASSUME SizeAssumption ==
    TargetSize \in Nat \ {0} /\ CompactionSize \in 1..TargetSize /\ BatchSizes \subseteq Nat \ {0}

VARIABLES
    options,   \* one of OptionSets
    log,       \* how many rows the upstream log has
    table,     \* the latest snapshot of the bucket
    messages,  \* commit messages that are prepared and not yet published
    storage,   \* ids of the data files that exist
    writer,    \* the bucket's writer with its compact manager
    task,      \* task_future_ and the task behind it
    op,        \* the call the writer's thread is in
    used       \* how much of each bound is used, and the next file id

vars == <<options, log, table, messages, storage, writer, task, op, used>>

FULL_COMPACT_MIN_FILE == 3
NoIdentifier == -1
NoTask == [pc |-> "none"]
Idle == [pc |-> "idle"]
NoWriter(recovering) == [open |-> FALSE, recovering |-> recovering]
NoIncrement == [new |-> {}, before |-> {}, after |-> {}]

Ids(files) == {f.id : f \in files}
Size(files) == Len(FlattenSeq([i \in DOMAIN files |-> files[i].rows]))
IsSmall(file) == Len(file.rows) < CompactionSize

\* Mutant: files are taken in the order in which they were made.
ByArrival(files) == SetToSortSeq(files, LAMBDA f, g : f.id < g.id)

\* FileComparator, and the order in which the priority queue hands out files.
BySequence(files) == SetToSortSeq(files, LAMBDA f, g : f.min < g.min)

Init ==
    /\ options \in OptionSets
    /\ log = 0
    /\ table = [files |-> {}, end |-> 0, identifier |-> NoIdentifier]
    /\ messages = <<>>
    /\ storage = {}
    /\ writer = NoWriter(FALSE)
    /\ task = NoTask
    /\ op = Idle
    /\ used = [id |-> 1, prepares |-> 0, calls |-> 0, faults |-> 0]

-----------------------------------------------------------------------------
(* Writing                                                                  *)

MaxSequence(files) == Max({f.min + Len(f.rows) - 1 : f \in files} \cup {-1})

\* GetWriter: the files and the sequence number come from the latest snapshot.
RestoreWriter(t) ==
    [open |-> TRUE, rolled |-> {}, current |-> <<>>, nextSeq |-> MaxSequence(t.files) + 1,
     inc |-> NoIncrement, end |-> t.end, lastModified |-> NoIdentifier,
     queue |-> IF options.bucketed THEN t.files ELSE {}]

GetWriter ==
    /\ ~writer.open
    /\ writer.recovering => messages = <<>>
    /\ used.calls < options.effort
    /\ writer' = RestoreWriter(table)
    /\ UNCHANGED <<options, log, table, messages, storage, task, op, used>>

Ready == writer.open /\ op.pc = "idle" /\ used.calls < options.effort

\* RollingFileWriter::CloseCurrentWriter: the rows of the current file.
CurrentFile(w, id) == [id |-> id, min |-> w.nextSeq - Len(w.current), rows |-> w.current]

\* Write: a file that has reached the target size is closed, once that is noticed.
Write(n) ==
    LET rows == [i \in 1..n |-> log + i - 1]
        w == [writer EXCEPT !.current = @ \o rows, !.nextSeq = @ + n]
    IN  /\ Ready /\ log + n <= MaxRows
        /\ log' = log + n
        /\ \/ /\ writer' = w
              /\ used' = [used EXCEPT !.calls = @ + 1]
              /\ UNCHANGED storage
           \/ /\ Len(w.current) >= TargetSize
              /\ writer' = [w EXCEPT !.rolled = @ \cup {CurrentFile(w, used.id)}, !.current = <<>>]
              /\ storage' = storage \cup {used.id}
              /\ used' = [used EXCEPT !.calls = @ + 1, !.id = @ + 1]
        /\ UNCHANGED <<options, table, messages, task, op>>

\* Flush up to the wait: the files are closed and given to the compact manager.
StartFlush(call, u) ==
    LET last == IF writer.current = <<>> THEN {} ELSE {CurrentFile(writer, u.id)}
        flushed == writer.rolled \cup last
    IN  /\ Ready
        /\ op' = call
        /\ writer' = [writer EXCEPT !.rolled = {}, !.current = <<>>,
                                    !.inc.new = @ \cup flushed, !.end = log,
                                    !.queue = IF options.bucketed THEN @ \cup flushed ELSE @]
        /\ storage' = storage \cup Ids(last)
        /\ used' = [u EXCEPT !.id = @ + Cardinality(last), !.calls = @ + 1]
        /\ UNCHANGED <<options, log, table, messages, task>>

Call(blocking, full, prepare, wait) ==
    [pc |-> "sync", blocking |-> blocking, full |-> full, prepare |-> prepare, wait |-> wait,
     committed |-> table.identifier]

\* Compact(full_compaction); without buckets a forced compaction is refused.
Compact(full) ==
    /\ full => options.bucketed
    /\ StartFlush(Call(TRUE, full, FALSE, FALSE), used)

PrepareCommit ==
    /\ used.prepares < MaxPrepares
    /\ \E wait \in options.wait :
         StartFlush(Call(FALSE, FALSE, TRUE, wait), [used EXCEPT !.prepares = @ + 1])

-----------------------------------------------------------------------------
(* BucketedAppendCompactManager                                             *)

\* The next file of the queue enters the window of PickCompactBefore; a window
\* that is large with too few files loses its oldest.
Slide(pick, file) ==
    LET window == Append(pick.window, file)
    IN  IF pick.picked # <<>> THEN [pick EXCEPT !.rest = @ \cup {file}]
        ELSE IF Len(window) >= options.minFileNum THEN [pick EXCEPT !.picked = window]
        ELSE IF Size(window) >= TargetSize * 2 THEN [pick EXCEPT !.window = Tail(window)]
        ELSE [pick EXCEPT !.window = window]

\* The files to compact, and what is left of the queue.
PickCompactBefore(queue) ==
    LET pick == FoldLeft(Slide, [window |-> <<>>, picked |-> <<>>, rest |-> {}], BySequence(queue))
    IN  [files |-> pick.picked,
         queue |-> IF pick.picked # <<>> THEN pick.rest ELSE Range(pick.window)]

\* CompactRewrite reads the files in the order given and writes files of the
\* target size, numbered from the first one's smallest sequence number on.
CompactRewrite(files, id) ==
    LET rows == FlattenSeq([i \in DOMAIN files |-> files[i].rows])
        n == (Len(rows) + TargetSize - 1) \div TargetSize
    IN  [i \in 1..n |-> [id |-> id + i - 1, min |-> files[1].min + (i - 1) * TargetSize,
                         rows |-> SubSeq(rows, (i - 1) * TargetSize + 1,
                                         IF i = n THEN Len(rows) ELSE i * TargetSize)]]

\* FullCompactTask::DoCompact: the leading large files stay, and the others are
\* rewritten if most of them are small.
FullCompactInput(files) ==
    LET first == SelectInSeq(files, IsSmall)
        rest == IF first = 0 THEN <<>> ELSE SubSeq(files, first, Len(files))
        small == Len(SelectSeq(rest, IsSmall))
    IN  IF options.force THEN files
        ELSE IF small > Len(rest) - small /\ Len(rest) >= FULL_COMPACT_MIN_FILE THEN rest
        ELSE <<>>

\* A task that was submitted; what it will do is settled by its input.
Running(input) ==
    [pc |-> "running", before |-> input, after |-> CompactRewrite(input, used.id)]

TriggerFullCompaction(w) ==
    IF ~options.force /\ Cardinality(w.queue) < FULL_COMPACT_MIN_FILE
    THEN [writer |-> w, task |-> NoTask]
    ELSE [writer |-> [w EXCEPT !.queue = {}],
          task |-> Running(FullCompactInput(BySequence(w.queue)))]

TriggerCompactionWithBestEffort(w, t) ==
    LET pick == PickCompactBefore(w.queue)
    IN  IF t.pc # "none" THEN [writer |-> w, task |-> t]
        ELSE [writer |-> [w EXCEPT !.queue = pick.queue],
              task |-> IF pick.files # <<>> THEN Running(pick.files) ELSE t]

\* TriggerCompaction; that of NoopCompactManager does nothing.
TriggerCompaction(w, t, full) ==
    IF ~options.bucketed THEN [writer |-> w, task |-> t]
    ELSE IF full THEN TriggerFullCompaction(w)
    ELSE TriggerCompactionWithBestEffort(w, t)

\* The ids of the files that a new task will write are taken.
Settle(t) ==
    /\ task' = t
    /\ used' = IF task # t /\ t.pc = "running" THEN [used EXCEPT !.id = @ + Len(t.after)] ELSE used

FinishTask ==
    /\ task.pc = "running"
    /\ task' = [task EXCEPT !.pc = "done"]
    /\ storage' = storage \cup Ids(Range(task.after))
    /\ UNCHANGED <<options, log, table, messages, writer, op, used>>

FailTask ==
    /\ task.pc = "running" /\ used.faults < MaxFaults
    /\ task' = [task EXCEPT !.pc = "failed"]
    /\ used' = [used EXCEPT !.faults = @ + 1]
    /\ UNCHANGED <<options, log, table, messages, storage, writer, op>>

-----------------------------------------------------------------------------
(* The rest of a call                                                       *)

\* GetCompactionResult: a last file that is still small is compacted again.
PutBack(after) == IF after # <<>> /\ IsSmall(Last(after)) THEN {Last(after)} ELSE {}

\* TrySyncLatestCompaction: when it may go on, and what it leaves.
TrySync(blocking) == task.pc # "failed" /\ (blocking => task.pc # "running")

Synced ==
    IF task.pc # "done" THEN [writer |-> writer, task |-> task]
    ELSE [writer |-> [writer EXCEPT !.queue = @ \cup PutBack(task.after),
                                    !.inc.before = @ \cup Range(task.before),
                                    !.inc.after = @ \cup Range(task.after)],
          task |-> NoTask]

\* The rest of Flush.
SyncAndTrigger ==
    /\ op.pc = "sync" /\ TrySync(op.blocking)
    /\ LET triggered == TriggerCompaction(Synced.writer, Synced.task, op.full)
       IN  writer' = triggered.writer /\ Settle(triggered.task)
    /\ op' = IF op.prepare THEN [op EXCEPT !.pc = "drain"] ELSE Idle
    /\ UNCHANGED <<options, log, table, messages, storage>>

\* Mutant: the compacted files stay with the writer.
DrainNew(w) == [w EXCEPT !.inc.new = {}]

Drain(w) == [w EXCEPT !.inc = NoIncrement]

\* The writer is released when its last increment is certainly published and,
\* after one more trigger, no compaction is outstanding.
ReleaseCondition(w, committed) == w.lastModified < committed

\* DrainIncrement and the rest of AbstractFileStoreWrite::PrepareCommit; other:
\* another bucket has something to commit under the same identifier.
DrainIncrement ==
    LET w == Synced.writer
        empty == w.inc = NoIncrement
        message == w.inc @@ [end |-> w.end, identifier |-> used.prepares, half |-> "append"]
        triggered == TriggerCompaction(w, Synced.task, FALSE)
    IN  /\ op.pc = "drain" /\ TrySync(op.wait)
        /\ \E other \in {FALSE, empty} :
             messages' = IF empty /\ ~other THEN messages
                         ELSE Append(messages, message @@ [other |-> other])
        /\ IF empty /\ ReleaseCondition(w, op.committed)
           THEN /\ Settle(triggered.task)
                /\ writer' = IF triggered.task.pc = "none" THEN NoWriter(FALSE)
                             ELSE triggered.writer
           ELSE /\ Settle(Synced.task)
                /\ writer' = [Drain(w) EXCEPT !.lastModified = IF empty THEN @ ELSE used.prepares]
        /\ op' = Idle
        /\ UNCHANGED <<options, log, table, storage>>

-----------------------------------------------------------------------------
(* The committer and failures.  A snapshot is published between two calls of *)
(* the writer: during one it touches nothing the call reads after its start. *)

PublishAppend ==
    LET m == Head(messages)
    IN  /\ op.pc = "idle" /\ messages # <<>> /\ m.half = "append"
        /\ table' = IF m.new = {} /\ ~m.other THEN table
                    ELSE [table EXCEPT !.files = @ \cup m.new, !.end = m.end,
                                       !.identifier = m.identifier]
        /\ messages' = IF m.before \cup m.after = {} THEN Tail(messages)
                       ELSE <<[m EXCEPT !.half = "compact"]>> \o Tail(messages)
        /\ UNCHANGED <<options, log, storage, writer, task, op, used>>

\* Mutant: files that are gone may be replaced again.
NoConflict(files, before, after) == before \cap after = {}

\* CheckConflicts: the deletions are collected before the additions, so a file
\* that is in both is added although it is known; a deleted file must be there.
CheckConflicts(files, before, after) == before \cap after = {} /\ before \subseteq files

PublishCompact ==
    LET m == Head(messages)
    IN  /\ op.pc = "idle" /\ messages # <<>> /\ m.half = "compact"
        /\ CheckConflicts(table.files, m.before, m.after)
        /\ table' = [table EXCEPT !.files = (@ \ m.before) \cup m.after,
                                  !.identifier = m.identifier]
        /\ messages' = Tail(messages)
        /\ UNCHANGED <<options, log, storage, writer, task, op, used>>

\* The writer is gone, by Close or in a crash; Close deletes what compaction has
\* written for the next commit and the files of the open rolling writer.  Only
\* the messages in kept will be committed.
Recover(kept, graceful) ==
    /\ messages' = kept
    /\ log' = IF kept = <<>> THEN table.end ELSE Last(kept).end
    /\ storage' = IF graceful /\ writer.open
                  THEN storage \ Ids(Synced.writer.inc.after \cup writer.rolled)
                  ELSE storage
    /\ writer' = NoWriter(TRUE)
    /\ task' = NoTask
    /\ op' = Idle
    /\ UNCHANGED <<options, table>>

Restart ==
    /\ writer.open /\ used.faults < MaxFaults
    /\ \E n \in 0..Len(messages), graceful \in {FALSE, op.pc = "idle"} :
         Recover(SubSeq(messages, 1, n), graceful)
    /\ used' = [used EXCEPT !.faults = @ + 1]

\* A call finds that the compaction failed.
FailCall ==
    /\ op.pc # "idle" /\ task.pc = "failed"
    /\ \E n \in 0..Len(messages) : Recover(SubSeq(messages, 1, n), TRUE)
    /\ UNCHANGED used

\* The second half of a commit is refused.
RejectCompact ==
    LET m == Head(messages)
    IN  /\ op.pc = "idle" /\ messages # <<>> /\ m.half = "compact"
        /\ ~CheckConflicts(table.files, m.before, m.after)
        /\ Recover(<<>>, TRUE)
        /\ UNCHANGED used

-----------------------------------------------------------------------------

Next ==
    \/ GetWriter
    \/ \E n \in BatchSizes : Write(n)
    \/ \E full \in BOOLEAN : Compact(full)
    \/ PrepareCommit
    \/ FinishTask
    \/ FailTask
    \/ SyncAndTrigger
    \/ DrainIncrement
    \/ PublishAppend
    \/ PublishCompact
    \/ Restart
    \/ FailCall
    \/ RejectCompact

Spec == Init /\ [][Next]_vars

-----------------------------------------------------------------------------
(* Properties                                                               *)

TypeOK ==
    /\ log \in 0..MaxRows /\ table.end \in 0..log
    /\ storage \subseteq 1..(used.id - 1)
    /\ op.pc \in {"idle", "sync", "drain"}
    /\ task.pc \in {"none", "running", "done", "failed"}
    /\ \A f \in table.files : f.rows # <<>> /\ f.min \in Nat
    /\ writer.open => \A f \in writer.queue : f.rows # <<>>
    /\ ~writer.open => task = NoTask /\ op = Idle

\* AppendOnlySplitGenerator::SplitForBatch: the files of a bucket are read in
\* the order of their sequence numbers.
BatchRows(files) ==
    LET split == SetToSortSeq(files, LAMBDA f, g : f.min < g.min)
    IN  FlattenSeq([i \in DOMAIN split |-> split[i].rows])

\* Every row that was committed is in the table exactly once, however
\* compactions, refused commits, crashes and restarts fall.
RowsOnce ==
    /\ UNION {Range(f.rows) : f \in table.files} = 0..(table.end - 1)
    /\ Size(SetToSeq(table.files)) = table.end

\* A batch read of a bucket (AppendOnlySplitGenerator) returns the rows in the
\* order in which they were written: compaction keeps append order.
AppendOrder ==
    options.bucketed => BatchRows(table.files) = [i \in 1..table.end |-> i - 1]

\* The files the bucket will have when all that is prepared is published.
Publish(files, m) ==
    ((IF m.half = "append" THEN files \cup m.new ELSE files) \ m.before) \cup (m.after \ m.before)

BucketFiles ==
    Publish(FoldLeft(Publish, table.files, messages), writer.inc @@ [half |-> "append"])

\* The files that the compact manager has let go of are older than all that it
\* still has, so what it picks next is contiguous.
QueueIsSuffix ==
    writer.open /\ options.bucketed =>
      LET held == writer.queue \cup (IF task.pc = "none" THEN {} ELSE Range(task.before))
      IN  /\ held \subseteq BucketFiles
          /\ \A f \in held, g \in BucketFiles \ held : g.min < f.min

\* No file that a snapshot, a prepared message or the compact manager refers to
\* has been deleted, although Close deletes files.
FilesKept ==
    /\ Ids(table.files) \subseteq storage
    /\ \A i \in DOMAIN messages : Ids(messages[i].new \cup messages[i].after) \subseteq storage
    /\ writer.open => Ids(writer.queue) \subseteq storage

\* No commit deletes and adds the same file.
DeltaIsClean == \A i \in DOMAIN messages : messages[i].before \cap messages[i].after = {}

==============================================================================
