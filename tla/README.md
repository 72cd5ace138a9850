# A TLA+ model of paimon-cpp

paimon-cpp is a C++ implementation of the Apache Paimon table format. A table is
a directory of data files, manifests that list them, and numbered snapshot files
that name the manifests; many processes write to it and coordinate through the
file system, or through a REST catalog, alone. This directory holds TLA+ modules
of the parts that make such a table correct, the TLC configurations that check
them on small instances, and TLAPS proofs for every instance.

Paths below are relative to `src/paimon/` of the repository unless they start
with `include/` or `docs/`.

## 1. Inventory

What the system consists of, which state each part keeps, who touches it, and
what could go wrong. *M* marks what is modelled, (*M*) what is modelled in part.

| part | state | operations | interacts with | hard behaviour | what should hold |
|---|---|---|---|---|---|
| *M* Commit protocol, `core/operation/file_store_commit_impl.cpp` | snapshot files, manifests, data files; per call: stage, retry count, loaded base | Commit, FilterAndCommit, Overwrite, FilterAndOverwrite, DropPartition, TruncateTable, RollbackToAsLatest, Abort | other committers, snapshot publication, expiration, writers | optimistic races, uncertain outcomes, crash between two halves, cleanup by losers | no lost update, exactly once, nothing in use is removed, counts and row ids stay right, calls settle |
| *M* Publication, `core/catalog/renaming_snapshot_commit.h`, `common/fs/file_system.cpp`, `fs/local/local_file_system.cpp` | the snapshot file | Commit, AtomicStore, Rename | committers | check-then-rename, error after effect | a published snapshot is final |
| (*M*) `SnapshotManager`, `core/utils/snapshot_manager.cpp` | LATEST and EARLIEST hints | FindLatest, CommitHint, LatestSnapshotOfUser | committers, expiration, readers | stale, overwritten or torn hints | a hint never hides a snapshot |
| *M* REST commit lease, `rest/rest_commit_lock.cpp` | the lease on the server, the scope and its deadline, the renewal thread | Acquire, RenewLoop, EnsureValid, Close | committers, server | clocks, slow and lost answers, late requests, no unlock | a valid scope is covered by a lease; leases end |
| (*M*) Manifest merging, `core/operation/manifest_file_merger.cpp` | manifests | minor and full compaction | commit | cleanup of what was merged | merged entries equal the unmerged ones |
| *M* Expiration, `core/operation/expire_snapshots.cpp` | EARLIEST hint, snapshots, data files | Expire | commits, rollback, tags, readers | reads retained files once, deletes later; crash in between | no retained snapshot loses a file |
| *M* Orphan cleaning, `core/operation/orphan_files_cleaner_impl.cpp` | directory listing | Clean | commits in flight | listing and used files are read at different times | only unreferenced old files go |
| (*M*) Tags, branches, `core/utils/{tag,branch}_manager.cpp` | tag and branch files | list, load | expiration | tag created during expiration | tagged files survive |
| (*M*) Write path, `core/operation/abstract_file_store_write.cpp`, `core/mergetree/merge_tree_writer.cpp`, `core/append/append_only_writer.cpp` | write buffers, containers, increments | Write, Compact, PrepareCommit, Close | compaction, commit | files produced and not handed over | every file is handed over once or deleted |
| (*M*) Merge tree, `core/mergetree/levels.cpp`, `core/mergetree/compact/*` | levels, the task in flight | pick, submit, result, cancel | writer thread, executor | levels grow while a task runs; deletes dropped too early | levels hold disjoint runs; no deleted key returns |
| (*M*) Append compaction, `core/append/bucketed_append_compact_manager.cpp`, `core/append/append_compact_coordinator.cpp` | `to_compact_` queue, the task in flight | trigger, result, cancel | writer | files of a failed task | order and content of files kept |
| (*M*) Merge functions and readers, `core/mergetree/compact/*` | none | merge, sort-merge | readers | ties, retracts | equal to a reference merge |
| (*M*) Lookup, `core/mergetree/lookup_levels.cpp` | local lookup files | lookup, drop | compaction | files dropped while used | finds the newest value |
| (*M*) Index manifests, deletion vectors, `core/manifest/index_manifest_file_handler.cpp`, `core/deletionvectors/` | index manifest, deletion vectors | combine | commit | two index changes | one vector per data file |
| (*M*) Scan, split planning, `core/operation/file_store_scan.cpp` | none | plan | snapshots | expiration under a reader | reads one snapshot |
| (*M*) Streaming scan, `core/table/source/data_table_stream_scan.cpp` | `next_snapshot_id_` | Plan | commits, expiration | snapshot gone between check and load | no snapshot is skipped or repeated |
| (*M*) Real time, `core/realtime/*` | memory stores, sealed stores, offsets, read views | write, seal, commit, refresh, recover | commit, readers | lock released around I/O; offsets recovered after a crash | every offset once, in memory or in a snapshot |
| Schemas, catalogs, REST client, formats, indexes, caches, data types | — | — | — | I/O and data representation | see `PROJECT.json` |

`PROJECT.json` lists each part with its sources and status, and every hazard
with the line where it bites and the properties that would catch it.

## 2. Modules

| module | models | 
|---|---|
| `FileStoreCommit` | the commit protocol on a file system |
| `TableHistory` | the abstract specification: a history of changes, each applied whole and at most once |
| `MCFileStoreCommit` | plans of operations for two users |
| `FileStoreCommitInvariants` | the inductive invariants of the commit protocol and the assumptions on plans |
| `FileStoreCommitSteps` | lemmas: what the operators return, and what a step of one user does to the table, to the other users and to the halves that are published |
| `FileStoreCommitTypes` | the type invariant and the chain of snapshots are kept by every step |
| `FileStoreCommitHistory` | so are the row id counter, the metadata files, the halves of the operations and what was acknowledged |
| `FileStoreCommitFiles` | so are the deltas, the record counts and the data files in use; publishing is a step of `TableHistory` |
| `FileStoreCommitProofs` | the theorems about the commit protocol |
| `RestCommitLock` | commits under the lease of a REST catalog |
| `MCRestCommitLock` | symmetry of its writers |
| `RestCommitLockProofs` | the lease invariant and the safety theorems |
| `SnapshotExpiration` | expiration beside commits, rollbacks, tags and crashes |
| `OrphanFilesCleaner` | the orphan cleaner beside all of them; extends `SnapshotExpiration` |
| `MCMaintenance` | which combinations of them are searched |
| `MergeTreeLevels` | the LSM tree of a bucket: picking, rewriting, lookups, as operators |
| `MergeTreeWriter` | its writer, compaction task, prepared messages and committer |
| `MCMergeTree` | events and option sets |
| `AppendTable` | the writer and the compaction of a bucket of an append table |
| `AppendCoordinator` | coordinators that compact a table without buckets; extends `AppendTable` |
| `MCAppend` | option sets |
| `RealtimeStore` | the memory store of a bucket of a real-time table, as operators |
| `RealtimeTable` | context, writer threads, commits with progress, refresh, scans, recovery |
| `MCRealtime` | which combinations are searched |
| `StreamScan` | a streaming or batch scan beside commits and expiration |
| `MCStreamScan` | the scans |
| `StreamScanProofs` | the invariant of a scan and its theorems |

### 2.1 `FileStoreCommit`

State. `snapshots` is the snapshot directory, `latestHint` the LATEST file,
`files` and `manifests` the data and metadata files that exist. A snapshot is a
record of the fields the protocol computes with: id, uuid, user, commit
identifier and kind, the delta (`add`, `del`), the live files, the manifests of
the base and the delta list, the index manifest, the total record count and the
next row id. Each user has one committer; `pc` is the place in the code, and
`stage`, `retry`, `hint`, `base`, `prep` are the locals of `TryCommit` and
`TryCommitOnce`. `next`, `upto`, `outcome`, `acked` and `aborted` are what the
caller knows: the operation of its `Plan` it works on, the last operation of the
batch it submitted, what the last call said, which operations were reported as
committed and which it gave up.

Operations. A plan is a sequence of `Operation` records. `Submit` starts
`Commit`, `Overwrite`, `DropPartition`, `TruncateTable` or `RollbackToAsLatest`;
`SubmitFiltered` starts `FilterAndCommit` (of one or several committables) or
`FilterAndOverwrite`. `FilterAndCommit` is `ReadHint`, `LoadLatest`, `Filter`.
An attempt is

    ReadHint -> LoadLatest -> Prepare -> CheckExists -> Rename (-> Replace)
        -> PublishHint                      published
        -> LoseRace -> ReadHint ...         lost, rebase
    Rename -> Confirm -> PublishHint | LoseRace | error

with `Prepare` the body of `TryCommitOnce` up to `CommitSnapshotImpl`: conflict
check, manifest merge, new manifests, row ids, counts. A committable with append
and compact changes runs the attempt twice (`stage`), both under the same
identifier. `Abort` is the caller's.

Steps are split where another process can interleave: each read of the hint, the
look for the next snapshot file, the look for one's own, and the rename are
separate. `Prepare` is one step because everything in it reads the immutable
snapshot `base` or writes files no one else knows of.

Faults. `Crash` may hit between any two steps; `FaultyPrepare`, `FaultyRename`
(error with or without effect) and `FaultyHint` are I/O errors. `MaxFaults`
bounds their number in a behaviour.

Kinds. An append that deletes files or carries deletion vectors is published as an
overwrite (`ShouldBeOverwriteCommit`). Its conflicts are checked then, as they are
through the filter, with `AppendCommitCheckConflict`, and when it adds global
index files; other appends skip the check.

Abstractions. A data file stands for its manifest entry and one record. Which
manifests a merge rewrites (sizes and thresholds) is any group of at least two.
Whether an overwrite finds index entries in its partitions is a choice. Times
are not modelled: `commit.timeout` may strike at every retry.

Assumptions on callers, in `PlanAssumption`: a user numbers its committables in
increasing order, and no two committables write a file of the same name. One
process per user commits at a time, since `FilterCommitted` knows a committable by
its user and identifier only. Rollback races with commits in the model, as
nothing in the code keeps them apart.

### 2.2 `TableHistory`

The abstract table: `history`, a sequence of changes, and `table`, the files.
`Publish` applies a change whole, if its deletes are there and its adds are not,
and if no change of the same user, identifier and half is in the history.
`FileStoreCommit` maps its published snapshots to it (`ChangeOf`, `Abstract`).

### 2.3 `RestCommitLock`

State. On the server: who got the last lease (`holder`), how long it lasts
(`left`) and the published snapshots (`history`). On each writer: the place in
`TryCommit` (`pc`), the acquisition request, the scope (`LeaseState`: closed,
open, or open with a failure recorded, and how long ago the request of the last
grant was sent), the renewal thread and its request, the head that was read, and
the commit request. `late` holds requests whose sender has stopped waiting.

The code compares differences of one clock with limits, so the model keeps ages
that stop at the limit instead of absolute times; `Tick` ages everything at once.
The server's side is not in the repository: `CanAcquire`, `GrantLease`,
`CanPublish` and the `Serve...` actions are what `rest_commit_lock.h` and
`rest_api.cpp` rely on, and are marked external.

### 2.4 `SnapshotExpiration` and `OrphanFilesCleaner`

State. `files` are the names that exist, `entries` the contents of every manifest
ever written, `snapshots` the snapshot files, `tags` copies of snapshots, and both
hints. One commit at a time is in flight: an append, a compaction, a drop or a
rollback, with the manifest merge that its snapshot does. Each expirer has one
`Expire` call, split where the code reads the directory again or deletes:

    ExpireBounds -> LoadRetained -> FindRange -> CleanData, snapshot by snapshot
        -> StartMeta -> CleanPayloads, CleanIndexManifest, CleanManifests,
           CleanManifestList, DeleteSnapshot, snapshot by snapshot
        -> CommitEarliestHint

`Publish` is one step although `TryCommit` reads its base long before it renames.
The rename succeeds only if the id after the base is missing. Ids are published
in order, so either the base is still the latest, and the step is exact, or
others have published that id and it has expired since. `AttemptedIds` has the
second case when `OutrunAttempts`; `published` keeps the bases it needs.

`LoadRetained` computes the skipping sets from the retained snapshots once
(`ManifestSkippingSet`, `DataFileSkippingSet`), and `PreviousTag` is the tag
whose data files are spared. The cleaner lists, collects what is used from one
snapshot after another, and deletes file by file.

Assumptions. Tags are made by other programs, and not during an expiration. Rollback
and expiration follow the note in `file_store_commit.h` ("Coordinate rollback and
expiration so they do not run concurrently"): a rollback's target is not being
expired (`RollbackToExpiring = FALSE`). The cleaner runs beside commits but not
beside expirations (`ExpireWhileCleaning = FALSE`), and a commit publishes its
files before they are `older_than_ms` old. No attempt takes so long that the id it
is for is published by others and expires (`OutrunAttempts = FALSE`): retention by
time and number is meant to last longer than an attempt, but nothing enforces it.
Section 5 says what happens without these assumptions.

### 2.5 `MergeTreeLevels` and `MergeTreeWriter`

A row is its key, sequence number, kind and position in the upstream log; a file is
its level and rows. `MergeTreeLevels` has, as operators, the sorted runs, the
units that `UniversalCompaction` and the forced strategies pick, the interval
partition, what a task upgrades and what it rewrites, the rows and changelog
that a lookup merge produces and the deletion vectors it sets. Comparisons of
file sizes in the picking may come out either way.

`MergeTreeWriter` has the writer's thread (`Write`, `Compact`, `PrepareCommit`, with
the waits that each may do), the task thread (`FinishTask`, or `FailTask` when a
read or write fails; what a task does depends on its input alone), and the
committer, which publishes a message in two snapshots. The call that meets a failed
task fails too (`FailCall`), and the job is restarted: `Recover` closes the writer,
or loses it with the process. `writer.inc` is the
increment, with the intermediate files that `UpdateCompactResult` removes;
`messages` are prepared and not published. A writer is released as
`AbstractFileStoreWrite::PrepareCommit` decides and restored from the latest
snapshot. After a crash the prepared messages are committed or given up, and the
log is written again from where the table ends.

The task sets the deletion vectors of all its rewrites when it ends, where the code
sets them rewrite by rewrite. Only a deletion file that is computed in the meantime
could tell, and this is the hazard that `lazy_deletion` shows.

A message is published between calls of the writer's thread only: what the
committer changes is the table, which the writer reads when it is restored and
when it looks at the latest committed identifier, both at the start of a call.

### 2.6 `AppendTable` and `AppendCoordinator`

A row is its position in the upstream log and a file a sequence of rows, so that
the order in which a table is read can be compared with the order of writing. The
writer rolls files at `TargetSize`, the manager picks a contiguous window of its
queue (`PickCompactBefore`) or everything for a full compaction, a task rewrites
and its small last file is put back. `DrainIncrement`, `PublishAppend` and
`PublishCompact` are prepare and the two halves of a commit; `RejectCompact` is
a compact half that conflict detection refuses. A failed call closes the writer
(`FailCall`), which deletes what it has written and not handed over.

`AppendCoordinator` adds `AppendCompactCoordinator::Run` for tables without
buckets: planning from the latest snapshot, packing into groups, rewriting, and
the commit of the messages by the caller, for several coordinators at once. A task
of a single file, which a plan has only if `compaction.min.file-num` is 1, is
refused and ends the run (`RefuseTask`).

A failed call is assumed to be the last of its writer: after a `Flush` that
failed between adding the files to the queue and resetting `writer_`, a second
`PrepareCommit` of the same writer would add the same files again. The same is
assumed of `MergeTreeWriter`.

### 2.7 `RealtimeStore` and `RealtimeTable`

One bucket, append-only, primary-key with merge on read, or append deduplicate. `RealtimeStore` has one operator per
critical section of the store's mutex. `RealtimeTable` has the threads: one in
`Write` (validation, lookup of superseded offsets, append, index), one in `Seal`
or `PrepareCommitWithProgress` (freeze, flush to files, publish the progress),
one that commits, filters and refreshes; a compaction by an ordinary writer,
which moves rows and so remaps deletion vectors; and a scan, which pins a memory
view and reads a snapshot at another moment. A failed write poisons the context.
`Crash` loses everything in memory; the coordinator recovers some prefix of the
prepared progress, as `docs/source/user_guide/realtime.rst` asks it to, and
upstream replays from the durable offset.

A refresh whose snapshot has new index files is two steps: `OpenIndexFiles` reads
them without the progress lock, while writers, commits and scans go on, and
`FinishRefresh` installs the result. `refresh_mutex_` is held over both, so there is
one refresh at a time, and a snapshot that is not newer than the installed one is
skipped at the start.

### 2.8 `StreamScan`

`snaps` is every snapshot ever published, `first` the smallest whose file exists
and `meta` the smallest whose manifests do: `SnapshotExpiration` removes manifests
first and snapshots in order (`RetainedContiguous`). `pc` goes through
`CreatePlan` read by read: creating the starting scanner (with the bisection of
`FindSnapshotBeforeTimestamp`), its first plan, then for each later call the look for
the next snapshot, its load and the read of its manifests, with the range check
that turns a missing snapshot into "expired" or "too big". `IoError` fails any
read; the caller polls again. `plans` records what was delivered.

## 3. Runs

Two users, writers, expirers or coordinators where several interact: the
properties here are broken, if at all, by one process against another.
`MaxRetries = 1` lets an attempt lose, rebase and lose again. Faults and crashes
are bounded by one in a behaviour (a second one, in the commit and lease models,
was checked once on larger bounds and showed nothing new). Plans of committers have one
to three operations per user, so that a third snapshot is built on a raced one.
For `SnapshotChain`, `FindLatestIsLatest`, `DeliveredExactly`, `ErrorsAreTrue`,
`ValidIsHeld`, `BaseIsHead` and `CommittedOnce` the proofs of section 4 remove the
bounds.

| run | instance | checks | states |
|---|---|---|---|
| `commit_race` | both halves against deletion vectors, then both users compact one file | `SnapshotChain`, `ManifestsPresent`, `DataFilesPresent`, `AckedIsPublished`, `FindLatestIsLatest`, refinement of `TableHistory` | 46 k |
| `commit_overwrite` | appends, one with a global index, against overwrites and a truncate | `TotalIsLive`, `DeltaApplies` | 627 k |
| `commit_options` | dynamic overwrite, duplicate discarding, empty commits, a rollback | `ExactlyOnce`, `RowIdsNotReused` | 155 k |
| `commit_liveness` | local file system, commits that cannot conflict | `CallsReturn`, `AllSettled` | 28 k |
| `rest_lease` | lease 2, one retry, one fault | `ValidIsHeld`, `BaseIsHead`, `CommittedOnce`, `CallsEnd`, `LeasesEnd` | 305 k |
| `maintenance` | four snapshots, two expirers, the cleaner, a tag, a crash, rollbacks | `RetainedReadable`, `RetainedContiguous`, `TagsKept`, `NothingLeaks` | 505 k |
| `merge_tree` | two keys, four option sets, three levels, four to five calls | `SnapshotIsLogPrefix`, `ChangelogIsDiff`, `FullPhaseMeetsChangelog`, `LevelsMatchTable`, `FilesKept`, `RunsAreBounded` | 318 k |
| `append_table` | five rows, three kinds of bucket and two of table without, two coordinators | `RowsOnce`, `AppendOrder`, `FilesKept`, `GroupsArePartition` | 2.0 M |
| `realtime` | two keys, three events, three store modes, two of compaction, scan and fault | `SnapshotIsLogPrefix`, `ScanIsLogPrefix`, `ScanSeesAccepted`, `EveryRowHasAnOwner` | 701 k |
| `stream_scan` | ten scans, three snapshots, one failed read | `DeliveredExactly`, `StartsWhereAsked`, `ErrorsAreTrue`, `CatchesUp` | 222 k |
| `local_rename` | as `commit_race`, with the local file system's rename | violates `PublishedIsFinal` (section 5) | |
| `lazy_deletion` | deletion vectors, a caller that does not wait | violates `SnapshotIsLogPrefix` (section 5) | |

The interesting cases do happen within these bounds: every action and disjunct of
the next-state relations fires, and every property has a mutant, a definition next
to the one it stands for, that a plausible bug would produce and that the
property catches; `PROJECT.json` pairs them. What the bounds are chosen for:

* `maintenance`: `RetainMin` 1 and `RetainMax` 3 of four snapshots leave a range
  of several snapshots to expire, before and after a rollback that restores an
  expired file. A crash may hit between any two deletions, and the next expiration
  completes what is left. The constraint `Focus` keeps the combinations of two of: second
  expirer, tag, crash, cleaner.
* `merge_tree`: triggers of 1 make every second flush compact; three levels are
  the fewest with an output level between the first and the last. A search of a
  larger instance (one more call for every option set), made before failing tasks were
  added to the module, went through 13.3 million states without an error and was stopped.
* `append_table`: files of at most two rows, so that a window of two or three files
  leaves a small last file to put back. Tables without buckets have a
  `compaction.min.file-num` of 1 and of 2; the smaller lets a plan ask for a group of one
  file, and four prepares leave enough files for a plan of two real groups. The
  coordinators are symmetric.
* `realtime`: with three events a key is added, superseded in memory and superseded
  again after its segment was sealed. `Focus` bounds the combinations; the search without
  it finished once (20,825,134 states, 17 minutes) without an error, when the refresh
  was still a single step.
* `rest_lease`: with one retry a writer loses a lease, or finds it taken, and comes
  back. `RestLeaseLarge.cfg` has a lease of three ticks and two faults (799 k
  states, the safety properties).

Supporting invariants, true on the same instances, explain the others but are not
part of the runs: `TypeOK` of each module, `LatestFound` (`SnapshotExpiration`),
`LevelsOrdered` (`MergeTreeWriter`), `QueueIsSuffix` (`AppendTable`) and
`WriterFollowsUpstream` (`RealtimeTable`).

Deadlock is checked in the commit, lease and scan runs. A commit behaviour ends in
`Terminated`, when every caller is through with its plan or waits for files that
can no longer come; in the lease model `Tick` is always possible, and a scan can
always be polled. The other models stop where their bounds are used up.

### Fairness

`FileStoreCommit`: weak fairness of `Step(u)`, since a committer is a thread that
runs, and of the caller's submission. A failed operation is resubmitted through
the filter, as the error message of `TryCommitOnce` asks ("You need to call
FilterAndCommit to retry commit"). No fairness is assumed of faults, of `Abort`
or of who wins a race. `AllSettled` holds for plans without logical conflicts;
with conflicts a resubmission may be refused for ever, which is the code's
intention.

`RestCommitLock`: weak fairness of each writer's thread, of its renewal thread,
of the server's answer to each kind of request separately, and of time. Late
requests get none: they may be lost.

`StreamScan`: weak fairness of the thread inside `CreatePlan` and of the caller
that polls. None of commits, expiration or faults: `CatchesUp` says that a stream
delivers every snapshot that stays, whatever they do.

## 4. Proofs

`FileStoreCommitProofs` proves, for every set of users, plan, option and bound (the
first twelve), `StreamScanProofs` for every set of scans and bound, and `RestCommitLockProofs`
for every set of writers, lease, timeout and bound:

| theorem | says | assumes |
|---|---|---|
| `TypeCorrect` | `[]TypeOK` | nothing more |
| `NoLostUpdate` | `[]SnapshotChain` | `AtomicRename` |
| `HintNeverMisleads` | `[]FindLatestIsLatest` | `AtomicRename` |
| `SnapshotsAreFinal` | `PublishedIsFinal` | `AtomicRename` |
| `RowIdsAreFresh` | `[]RowIdsNotReused` | `AtomicRename` |
| `CleanupIsHarmless` | `[]ManifestsPresent` | `AtomicRename` |
| `NothingIsPublishedTwice` | `[]ExactlyOnce` | `AtomicRename`, `RollbackIsApart` |
| `AcknowledgedIsPublished` | `[]AckedIsPublished` | `AtomicRename`, `RollbackIsApart`, `RollbackIsLast` |
| `DeltasApply` | `[]DeltaApplies` | `AtomicRename`, `RollbackIsApart`, `DeletesAreOlder` |
| `TotalsAreExact` | `[]TotalIsLive` | `AtomicRename`, `RollbackIsApart`, `DeletesAreOlder` |
| `AbortIsHarmless` | `[]DataFilesPresent` | `AtomicRename`, `RollbackIsApart`, `DeletesAreOlder`, `~AbortHalfCommitted` |
| `RefinesTableHistory` | `ImplementsTableHistory` | `AtomicRename`, `RollbackIsApart`, `DeletesAreOlder` |
| `ScansStartWhereAsked` | `[]StartsWhereAsked` | `SteadyClocks` |
| `ScanIsExact` | `[]DeliveredExactly` | nothing more |
| `ErrorsAreJustified` | `ErrorsAreTrue` | nothing more |
| `ValidScopesAreHeld` | `[]ValidIsHeld` | `LateRequests = FALSE` |
| `HeadIsStable` | `[]BaseIsHead` | `LateRequests = FALSE` |
| `PublishedOnce` | `[]CommittedOnce` | `LateRequests = FALSE` |

`AtomicRename` is the assumption the class comment of `RenamingSnapshotCommit`
makes, and `local_rename` shows that it is needed. `LateRequests = FALSE` says that
an acquisition or commit request is not served after its sender was told of an
error (a renewal may be); `RestLateCommit` in section 5 shows what happens otherwise.
`SteadyClocks` says that snapshots carry times in the order of their ids; each is the
wall clock of its committer, and `SkewedClocks` in section 5 shows that the search
by time needs it. The other assumptions are about what the callers submit, and the plans of the runs
satisfy them:

- `RollbackIsApart`: `RollbackToAsLatest` publishes under the largest 64-bit
  identifier, which batch commits use too; a user who rolls back has no committable
  with that identifier, or a snapshot would not say which of the two it is of.
- `RollbackIsLast`: a user submits nothing through the filter after a rollback.
  `FilterCommitted` compares with the identifier of the user's latest snapshot, and
  would report every later committable as committed (`RollbackFilter` in section 5).
- `DeletesAreOlder`: no increment of a commit deletes a file that it adds.
- `~AbortHalfCommitted`: a caller aborts a committable only when none of it is
  published; `AbortHalf` in section 5 shows what happens otherwise.

`TypeOK` alone is not inductive: a prepared snapshot must be one, and a call in
progress must be about an operation of the plan. `CallInv` adds both, and
`TypeInv == TypeOK /\ CallInv` is proved by one step per action (`CallType` for
the steps outside an attempt, `TypeInvNext` for all).

`SnapshotChain` speaks of published snapshots only, and needs to know what is
about to be published. `ChainInv` says that the ids are contiguous from 1, that
each snapshot extends its predecessor, that what a committer has loaded is still
the published snapshot of that id, and that what it has prepared extends what it
has loaded. `HintNeverMisleads` needs nothing of the hint itself: with contiguous
ids, no file after the hinted id means no later snapshot.
The step that matters is the rename: the target is missing, so the base, whose
id is one less, is the last snapshot, and the prepared one extends it
(`ChainPublish`). All other steps leave `snapshots` alone (`ChainStep`,
`ChainFlight`, `ChainIdle`).

On top of the chain, five more invariants are carried through every step, each by
one lemma per group of actions that look alike from the table (`StoreSteps`: a step
publishes, builds a new attempt, cleans up, moves a call on, or leaves the table alone)
and one that says what a step of one user leaves to the others (`OthersKept`).

- `RowInv`: what is in flight starts its row ids where its base ended
  (`NextRowIdGrows`), so publishing it after its base cannot lower the counter.
- `ManifestInv`: `ManifestsPresent` fails to be inductive because a cleanup removes
  files by name. Each attempt has a uuid of its own; as long as it is unpublished nobody
  else mentions its files, and what `CleanUpTmpManifests` would remove is its own
  (`OwnNames`). A rollback reuses its target's files, which is why its cleanup is
  treated apart.
- `HistoryInv`: per user, which halves of which operations the history holds. The
  half that a running `TryCommit` is about is not there before it is published
  (`Staged`), what is in flight is that half (`Carried`), the user's snapshots come from
  its operations so far and those of the current one are the last (`Listed`). The
  case that needs this is the restart: `FilterSees` shows that if the filter lets an
  operation through, no half of it is published, although the filter looks only at the
  user's latest snapshot. `AckInv` says that what was acknowledged is published.
- `FileInv`: every live file was added by a published half (`Owned`) and what is in
  flight applies to its base (`Grounded`). A commit may skip the conflict check (an
  append without deletions, or a commit on an empty table: `Fresh`); it still applies,
  because its files belong to an operation of which no half is published
  (`DeltaFits`). `TotalInv` follows from it by counting.
- `DataInv`: files that operations still to come refer to are there, since an abort
  removes files of an operation its user has passed, and `AbortKeeps` shows that these
  are live nowhere.

For the refinement, `Changes` and `LatestFiles` name the mapping. `PublishIsPublish`
shows that the step that puts a snapshot is a `Publish` step of `TableHistory`: the
delta applies by `FileInv` and the half is new by `HistoryInv`
(`NotYetThere`). All other steps leave both mapped variables alone.

Cardinalities come in through `Counting`, the four facts about finite sets of files
that the counts need; it is a hypothesis of the lemmas that count and is discharged
once, in `CountingHolds`.

`DeliveredExactly` relates the plans to `next_snapshot_id_` between calls; inside
a call, what has been read so far must still mean something after commits and
expiration went on. The invariant `IInv` of `StreamScanProofs` says for each place
of `CreatePlan` what the locals know (`Knows`: an id that was found is published, a
lower bound is at most the present earliest, the upper end of the range check is
at most the present latest), that the next id is at most one past the latest
unless the caller asked for an id of the future (`Started`), and that what was
delivered is what was wanted up to the next id (`Delivered`). Commits and
expiration only make these facts weaker in the right direction (`TableKeeps`);
then there is one lemma for the steps of the search, the starting scanners and the
follow-up. `ErrorsAreJustified` is read off the invariant at the step that returns
the error.

`ScansStartWhereAsked` adds `StartInv` to it. The bisection reads one snapshot at a
time while old ones expire and new ones come: everything below its range is known to
be before the timestamp and everything above it, up to the latest at the first call,
to be after it (`Searching`), and `Sorted` carries this from the snapshot that was
read to the rest. `StartsAt` says what the starting scanner then knows, by mode, and
`Reading` and `FirstPlan` take it through the first plan, where the later of the
start and the earliest snapshot is chosen.

The invariant `IInv` of `RestCommitLockProofs` ties ages on the client to time left on
the server. `ValidIsHeld` speaks of the open scope only, but a scope gets its age from
a grant whose answer is still on its way, so `Covered` says the same of granted
acquisitions and renewals: if the age is below the limit, the lease is the
writer's and its remaining time and the age add up to at least the lease.
`GrantLease` establishes it, since the age is counted from the sending of the
request, and `Tick` keeps it, since it takes one from the lease and adds one to the
age (`TickKeeps`). `BaseIsHead` is not preserved as it stands: an expired scope may be
revived by a late answer. `HeadHeld` therefore ties the head that was read to
the lease and not to the scope: while the server's lease lasts nobody else can
publish. For `CommittedOnce`, `PublishedSettled` says that a writer whose snapshot is
published is at a place from which it does not commit again. There is one lemma per
action; a step of one writer that the server does not notice cannot disturb
the others (`OwnStep`), and the server serves another writer only when this one holds
nothing (`GrantIsExclusive`, `ElsewhereKeeps`).

Only model-checked: liveness (out of the prover's reach), and all of the maintenance, merge-tree, append and real-time models.

## 5. Where code and documentation disagree

Two runs state what a comment says and show that the code does otherwise:

* `local_rename`. `LocalFileSystem::Rename` looks whether the target exists and
  then calls `rename(2)`, which replaces it. Two committers can both pass the
  look, and the later overwrites the earlier one's snapshot; both report success.
  `renaming_snapshot_commit.h` says that rename on a local file system is atomic
  and detects conflicts. A process-wide lock for it is declared and not used.
* `lazy_deletion`. With deletion vectors and the default `lookup-wait`, the
  deletion file of a compaction is computed in `PrepareCommit`, from vectors that
  the next task is already changing. A caller that passes
  `wait_compaction = false` publishes deletions without the rows that replace
  them: an updated key is missing until a later commit. `defs.h` says that "commit
  will wait for compaction by lookup".

The other configurations in this directory show further disagreements, and what the
assumptions of the passing runs exclude; each ends in a counterexample of the named
property, with `tlc -config X.cfg M`:

| configuration | module | property | what happens |
|---|---|---|---|
| `AbortHalf` | `MCFileStoreCommit` | `DataFilesPresent` | `Commit` publishes the append half first. If the compact half then fails, `Abort`, which `file_store_commit.h` offers for an unsuccessful commit, deletes files the append half published. The passing runs let callers abort only if nothing can have been published. |
| `RollbackFilter` | `MCFileStoreCommit` | `AckedIsPublished` | `RollbackToAsLatest` publishes under the user's name with the largest identifier, so `FilterAndCommit` of the same user takes everything that follows for committed. |
| `CompactHalfLost` | `MCFileStoreCommit` | `AckedIsComplete` | Both halves carry one identifier: after a crash between them `FilterAndCommit` reports success and the compact changes are never published. The table stays correct; the compacted files are orphans. |
| `RestRevive` | `MCRestCommitLock` | `LateAnswerCannotRevive` | A renewal answer that arrives after the scope's deadline revives the scope if nobody asked in between, unlike the comment in `RenewLoop` says. `ValidIsHeld` shows that the revived scope is still covered by a lease. |
| `RestLateCommit` | `MCRestCommitLock` | `CommittedOnce` | A commit request that outlives its sender's error can be published after `FilterAndCommit` looked, next to the one it sends. |
| `TagRollback` | `MCMaintenance` | `TagsReadable` | Expiring a snapshot spares what the nearest earlier tag refers to. A file that it deleted and a later rollback restored goes, although a tag after the rollback refers to it. `clean.rst`: "Data files ... referenced by retained snapshots or current-branch tags are preserved". |
| `RollbackExpiring` | `MCMaintenance` | `RetainedReadable` | A rollback to a snapshot that is being expired publishes one whose files go. The header promises protection for "files restored by rollback" and, in a note, asks callers not to run both at once. |
| `CleanerRace` | `MCMaintenance` | `RetainedReadable` | The cleaner takes a manifest that an expiration has just removed for empty, and so a file of a retained snapshot for unused. `clean.rst` promises to preserve "files referenced by retained snapshots" and does not exclude expiration. |
| `SlowCommit` | `MCMaintenance` | `RetainedContiguous` | An attempt reads its base and is outrun: others publish the next id and it expires before the attempt renames. Nothing is in the way of the rename, and an old id comes back, before the EARLIEST hint; LATEST is set to it. |
| `SkewedClocks` | `MCStreamScan` | `StartsWhereAsked` | A committer whose clock is behind publishes a snapshot with an earlier time than the one before it; a scan from a timestamp starts with a snapshot that is older than asked for. |
| `StaleLookup` | `MCMergeTree` | `VectorChangelogIsDiff` | A lookup file built before a deletion vector grew still returns the deleted row, and the changelog retracts a row that its reader no longer has. |
| `AppendChain` | `MCAppend` | `DeltaIsClean` | One increment takes the results of two compactions, the second of which rewrites the small last file of the first. `AppendOnlyWriter` leaves that file among both the removed and the added ones, and `ManifestEntryChanges::Collect` lists removals first, so the conflict check (`file_entry.h`: "each dataFile will only be added once and deleted once") refuses the compact half of a lone writer after its append half was published. The rows stay right: `RowsOnce` and `AppendOrder` hold through the recovery. |

Smaller ones, read in the code and not checked: the comment in `FindLatest` that
the hint is the latest "only there is no next one" holds unless expiration passed the
hint (`LatestFound` has the condition); the header's "Retained snapshots with
index manifests return `NotImplemented`" is no longer so; and a primary-key
real-time scan that asks for an older snapshot may hide newer rows, because
sequence numbers restart after the files of the latest one (the exception in
`ScanIsLogPrefix`).

## 6. Not modelled

* Commit: the conflict rules on key ranges, bucket counts and row ids (with the check
  of an append's row ids from a snapshot on), watermarks,
  statistics, and the level upgrade of overwritten files. Bucket counts do not
  change in the model.
* Maintenance: branches, changelog lifetimes, partition expiry, external paths,
  empty directories, the offset files of real-time commits, the delete threads
  (deletions of one phase are independent of each other).
* Merge tree: spilling, cancellation inside a running task, early full compaction
  by time, remote lookup files, merge functions other than deduplicate. Liveness
  of the writer is not checked: it waits only for a task that its executor runs, and
  the enabledness of its larger steps is too costly to evaluate along every cycle.
  `RunsAreBounded` is about tables without lookup and forced compactions.
* Append: deletion vectors in append buckets, blob and vector files, tasks
  cancelled by `Close` before they start.
* Real time: the primary-key mode with deletion vectors, tickets and time-outs of read views, the clean-up thread, spill files,
  gaps in the offsets, offsets at the largest 64-bit integer, several buckets, schema changes, metrics, and destructive
  table operations beside a context.
* Scans: scans of a tag, limit push-down, a table that is dropped and created again
  under a stream. A stream whose first full plan failed because that snapshot was expired
  keeps failing: the code keeps its starting scanner, and so does the model.
* Schemas and catalogs (directory operations of one process at a time), the REST
  client, formats, file and global indexes, readers, caches and data types are I/O
  or data representation: their correctness is about bytes and values, which a
  model of this kind would have to leave out.

## 7. Next steps

Proofs about expiration and the append table. A model of several buckets that
share a memory pool. Index manifest entries over several buckets, and the
conflict rules on key ranges, as operators against a reference.
