--------------------------- MODULE FileStoreCommit ---------------------------
(***************************************************************************)
(* The optimistic commit protocol of a table on a file system:             *)
(* FileStoreCommitImpl over RenamingSnapshotCommit and SnapshotManager.    *)
(*                                                                         *)
(* Every commit user runs one FileStoreCommitImpl at a time and works      *)
(* through the operations of its Plan.  An attempt reads the latest        *)
(* snapshot, prepares manifests against it, and publishes snapshot         *)
(* latest + 1 by renaming a temporary file; whoever loses the race removes *)
(* its manifests and rebases.  A user may crash between any two steps, and *)
(* an I/O call of the publication may fail with or without its effect; the *)
(* caller then recovers through FilterAndCommit, as the error asks it to.  *)
(***************************************************************************)
EXTENDS Integers, FiniteSets, Sequences

CONSTANTS
    Users,          \* commit users, one committer each
    Files,          \* names of data files
    Partitions,     \* partition values
    Partition,      \* the partition of a data file
    Plan,           \* Plan[u]: the operations the caller of u submits, in order
    MaxRetries,     \* commit.max-retries
    MaxFaults,      \* bound on crashes and I/O errors in a behaviour
    MaxIdentifier,  \* std::numeric_limits<int64_t>::max() of RollbackToAsLatest
    AtomicRename,   \* TRUE: rename refuses an existing target in one step (HDFS)
                    \* FALSE: LocalFileSystem::Rename, Exists() and then rename(2)
    IgnoreEmptyCommit,      \* ignore_empty_commit_
    DiscardDuplicate,       \* commit.discard-duplicate-files
    DynamicOverwrite,       \* dynamic-partition-overwrite
    AppendCommitCheckConflict, \* append_commit_check_conflict_
    AbortHalfCommitted,     \* TRUE: the caller aborts after any failed Commit
    None                    \* no file name, no user

Kinds == {"APPEND", "OVERWRITE", "COMPACT"}
Ops == {"commit", "overwrite", "drop", "rollback"}

\* A ManifestCommittable with the call it is passed to.  add/del and
\* before/after are its append and compact table files (ManifestEntryChanges),
\* index tells which halves carry index entries, and whether the append half has
\* deletion vectors or adds global index files, parts is the partition filter of
\* an overwrite or drop ({} for the whole table, as TruncateTable passes) and
\* target the snapshot id of a rollback.
Operation ==
    [op : Ops, identifier : Nat, add : SUBSET Files, del : SUBSET Files,
     before : SUBSET Files, after : SUBSET Files,
     index : SUBSET {"APPEND", "COMPACT", "VECTORS", "GLOBAL"},
     parts : SUBSET Partitions, target : Nat]

ASSUME PlanAssumption ==
    /\ Plan \in [Users -> Seq(Operation)]
    /\ Partition \in [Files -> Partitions]
    /\ IsFiniteSet(Files)
    /\ MaxRetries \in Nat
    /\ MaxFaults \in Nat
    /\ MaxIdentifier \in Nat
    /\ None \notin Users
    \* A caller numbers its committables in increasing order.
    /\ \A u \in Users : \A i, j \in DOMAIN Plan[u] :
        i < j => Plan[u][i].identifier < Plan[u][j].identifier
    \* An overwrite carries new files only, a drop or rollback none at all.
    /\ \A u \in Users : \A i \in DOMAIN Plan[u] :
        LET o == Plan[u][i] IN
        /\ o.op = "overwrite" => o.del = {}
        /\ o.index \cap {"VECTORS", "GLOBAL"} # {} => "APPEND" \in o.index
        /\ o.op \in {"drop", "rollback"} =>
                /\ o.add \cup o.del \cup o.before \cup o.after = {}
                /\ o.index = {}
    \* File names are generated: no two committables write the same file.
    /\ \A u, v \in Users : \A i \in DOMAIN Plan[u], j \in DOMAIN Plan[v] :
        (Plan[u][i].add \cup Plan[u][i].after)
            \cap (Plan[v][j].add \cup Plan[v][j].after) # {}
        => u = v /\ i = j
    /\ {AtomicRename, IgnoreEmptyCommit, DiscardDuplicate, DynamicOverwrite,
        AppendCommitCheckConflict, AbortHalfCommitted} \subseteq BOOLEAN

VARIABLES
    snapshots,  \* the snapshot files: id -> snapshot
    latestHint, \* content of the LATEST hint file, 0 before the first write
    files,      \* data files that exist
    manifests,  \* manifest lists, manifests and index manifests that exist
    pc,         \* where each committer is
    next,       \* index in Plan[u] of the operation being submitted
    upto,       \* index of the last operation of the call in progress
    stage,      \* which TryCommit of the operation is running
    filtering,  \* the call came through FilterAndCommit / FilterAndOverwrite
    retry,      \* retry_count of TryCommit
    hint,       \* LATEST hint as read
    base,       \* latest snapshot as loaded, EmptyTable if there is none
    prep,       \* the snapshot this attempt wants to publish
    attempt,    \* number of snapshot uuids generated so far
    outcome,    \* what the last call told the caller about operation next
    acked,      \* indexes of operations reported as committed
    aborted,    \* indexes of operations the caller gave up
    faults      \* crashes and I/O errors so far

store == <<snapshots, latestHint, files, manifests>>
call == <<next, upto, filtering, outcome, acked, aborted>>
attemptVars == <<hint, base, prep>>
vars == <<store, call, stage, retry, attempt, attemptVars, pc, faults>>

Stages == {"APPEND", "COMPACT", "ROLLBACK"}
Outcomes == {"none", "failed", "uncertain"}
Locations == {"idle", "filterHint", "filterLatest", "filter", "hint", "latest",
              "prepare", "exists", "rename", "replace", "confirm",
              "publishHint", "lost", "reject", "finish"}

-----------------------------------------------------------------------------
(* Snapshots and the files they refer to                                    *)

FileNames == Users \X Nat \X {"list", "delta", "merged", "index"}

Snapshot ==
    [id : Nat \ {0}, uuid : Users \X Nat, user : Users, identifier : Nat,
     kind : Kinds, add : SUBSET Files, del : SUBSET Files,
     live : SUBSET Files, base : SUBSET FileNames, delta : SUBSET FileNames,
     list : FileNames, index : FileNames \cup {None}, total : Int,
     nextRowId : Nat]

\* The table before its first snapshot: what the code spells std::nullopt.
EmptyTable ==
    [id |-> 0, uuid |-> <<None, 0>>, user |-> None, identifier |-> 0,
     kind |-> "APPEND", add |-> {}, del |-> {}, live |-> {}, base |-> {},
     delta |-> {}, list |-> <<None, 0, "list">>, index |-> None, total |-> 0,
     nextRowId |-> 0]

At(n) == IF n = 0 THEN EmptyTable ELSE snapshots[n]

\* Metadata files a reader of snapshot s opens.
Referenced(s) ==
    IF s.id = 0 THEN {}
    ELSE (s.base \cup s.delta \cup {s.list, s.index}) \ {None}

-----------------------------------------------------------------------------
(* SnapshotManager                                                          *)

\* Mutant: trust the hint.
FindLatestByHint(h, id) ==
    IF h > 0 THEN id = h
    ELSE IF DOMAIN snapshots = {} THEN id = 0
    ELSE id \in DOMAIN snapshots /\ \A m \in DOMAIN snapshots : m <= id

\* id is what FindLatest returns for hint h: the hint if no next snapshot
\* file exists, the largest listed id otherwise, 0 if nothing is listed.
FindLatest(h, id) ==
    IF h > 0 /\ h + 1 \notin DOMAIN snapshots THEN id = h
    ELSE IF DOMAIN snapshots = {} THEN id = 0
    ELSE id \in DOMAIN snapshots /\ \A m \in DOMAIN snapshots : m <= id

\* The snapshots LatestSnapshotOfUserAtOrBefore reaches walking back from id:
\* the walk stops at the first missing file.
Reachable(id) ==
    {n \in DOMAIN snapshots : n <= id /\ n..id \subseteq DOMAIN snapshots}

\* Mutant: look at the latest snapshot only, whoever wrote it.
CommittedByLatest(u, id, i) ==
    id # 0 /\ snapshots[id].user = u /\ i <= snapshots[id].identifier

\* LatestSnapshotOfUser has a snapshot with an identifier at or above i.
CommittedByUser(u, id, i) ==
    \E n \in Reachable(id) :
        /\ snapshots[n].user = u
        /\ \A m \in Reachable(id) : snapshots[m].user = u => m <= n
        /\ i <= snapshots[n].identifier

-----------------------------------------------------------------------------
(* ManifestEntryChanges, CommitChangesProvider and ConflictDetection        *)

Op(u) == Plan[u][next[u]]

HasAppendChanges(o) == o.add \cup o.del # {} \/ "APPEND" \in o.index
HasCompactChanges(o) == o.before \cup o.after # {} \/ "COMPACT" \in o.index

\* Partitions an overwrite replaces; dynamic mode takes those it writes to.
OverwriteParts(o) ==
    IF DynamicOverwrite /\ o.op = "overwrite"
    THEN {Partition[f] : f \in o.add}
    ELSE IF o.parts = {} THEN Partitions ELSE o.parts

\* A static overwrite that writes outside the partitions it replaces.
Misplaced(o) ==
    /\ o.op = "overwrite" /\ ~DynamicOverwrite
    /\ ~({Partition[f] : f \in o.add} \subseteq OverwriteParts(o))

\* Whether the operation has an append half, and so a first TryCommit.
NeedsAppend(o) ==
    \/ o.op = "commit" /\ (~IgnoreEmptyCommit \/ HasAppendChanges(o))
    \/ o.op = "overwrite" /\ ~(DynamicOverwrite /\ o.add = {})
    \/ o.op = "drop"

FirstStage(o) ==
    IF o.op = "rollback" THEN "ROLLBACK"
    ELSE IF NeedsAppend(o) THEN "APPEND" ELSE "COMPACT"

\* ConflictDetection::ShouldBeOverwriteCommit: an append that deletes files or
\* rows.
ShouldBeOverwriteCommit(o) == o.del # {} \/ "VECTORS" \in o.index

\* commit_kind of the running TryCommit.
CommitKind(o, st) ==
    IF st = "COMPACT" THEN "COMPACT"
    ELSE IF o.op = "commit" /\ ~ShouldBeOverwriteCommit(o) THEN "APPEND" ELSE "OVERWRITE"

\* detect_conflicts of the running TryCommit; a rollback diffs against latest
\* itself and checks nothing.
DetectConflicts(u, st) ==
    /\ st # "ROLLBACK"
    /\ \/ filtering[u] \/ AppendCommitCheckConflict
       \/ CommitKind(Op(u), st) # "APPEND"
       \/ "GLOBAL" \in Op(u).index

\* Mutant: an overwrite deletes the files found in its partitions, committed
\* or not.
OverwriteUncommitted(o, b) ==
    [add |-> o.add,
     del |-> {f \in files \ o.add : Partition[f] \in OverwriteParts(o)}]

\* OverwriteChangesProvider: delete what is live in the partitions.
OverwriteChanges(o, b) ==
    [add |-> o.add,
     del |-> {f \in b.live : Partition[f] \in OverwriteParts(o)}]

\* RollbackToAsLatest: the difference between the target and the latest.
RollbackChanges(o, b) ==
    [add |-> At(o.target).live \ b.live, del |-> b.live \ At(o.target).live]

\* The delta an attempt publishes on top of snapshot b.
Delta(o, st, b) ==
    IF st = "COMPACT" THEN [add |-> o.after, del |-> o.before]
    ELSE IF st = "ROLLBACK" THEN RollbackChanges(o, b)
    ELSE IF o.op \in {"overwrite", "drop"} THEN OverwriteChanges(o, b)
    ELSE [add |-> IF DiscardDuplicate /\ CommitKind(o, st) = "APPEND" THEN o.add \ b.live
                  ELSE o.add,
          del |-> o.del]

\* ConflictDetection::CheckConflicts: merging the delta into the live entries
\* neither adds a file twice nor deletes one that is not there.
CheckConflicts(b, d) == d.del \subseteq b.live /\ d.add \cap b.live = {}

-----------------------------------------------------------------------------
(* The calls of the API                                                     *)

\* The locals of an attempt go out of scope.
Forget(u) ==
    /\ hint' = [hint EXCEPT ![u] = 0]
    /\ base' = [base EXCEPT ![u] = EmptyTable]
    /\ prep' = [prep EXCEPT ![u] = EmptyTable]

\* Start the first TryCommit of operation i, or return at once if the
\* operation has nothing to publish.
Begin(u, i) ==
    LET o == Plan[u][i] IN
    /\ stage' = [stage EXCEPT ![u] = FirstStage(o)]
    /\ pc' = [pc EXCEPT ![u] =
                IF Misplaced(o) THEN "reject"
                ELSE IF FirstStage(o) = "COMPACT" /\ ~HasCompactChanges(o)
                THEN "finish" ELSE "hint"]

\* The call returns.
Return(u) ==
    /\ pc' = [pc EXCEPT ![u] = "idle"]
    /\ upto' = [upto EXCEPT ![u] = 0]
    /\ filtering' = [filtering EXCEPT ![u] = FALSE]
    /\ retry' = [retry EXCEPT ![u] = 0]
    /\ Forget(u)

\* FilterAndCommit and FilterAndOverwrite resubmit; a drop or a rollback has no
\* such call.
Filterable(o) == o.op \in {"commit", "overwrite"}

\* The call returns an error.  The caller resubmits through the filter, as the
\* error message asks, or gives up what cannot be filtered.
Fail(u, how) ==
    /\ Return(u)
    /\ next' = [next EXCEPT ![u] = IF Filterable(Op(u)) THEN @ ELSE @ + 1]
    /\ outcome' = [outcome EXCEPT ![u] = IF Filterable(Op(u)) THEN how ELSE "none"]
    /\ UNCHANGED <<acked, aborted, stage>>

\* The caller has operation i: the writers that delete or compact files found
\* them in a published snapshot or wrote them themselves.
Written(u, i) ==
    LET o == Plan[u][i] IN
    o.del \cup o.before \subseteq
        o.add \cup UNION {snapshots[n].live : n \in DOMAIN snapshots}

Ready(u) ==
    /\ pc[u] = "idle" /\ next[u] <= Len(Plan[u])
    /\ Written(u, next[u])

\* Commit, Overwrite, DropPartition, TruncateTable or RollbackToAsLatest.
Submit(u) ==
    /\ Ready(u) /\ outcome[u] = "none"
    /\ Begin(u, next[u])
    /\ upto' = [upto EXCEPT ![u] = next[u]]
    /\ UNCHANGED <<store, next, filtering, outcome, acked, aborted, retry,
                   attempt, attemptVars, faults>>

\* FilterAndCommit of the operations up to k, or FilterAndOverwrite of one.
SubmitFiltered(u) ==
    /\ Ready(u) /\ Filterable(Op(u))
    /\ \E k \in next[u]..Len(Plan[u]) :
        /\ \A i \in (next[u] + 1)..k : Written(u, i)
        /\ k > next[u] => \A i \in next[u]..k : Plan[u][i].op = "commit"
        /\ upto' = [upto EXCEPT ![u] = k]
    /\ filtering' = [filtering EXCEPT ![u] = TRUE]
    /\ outcome' = [outcome EXCEPT ![u] = "uncertain"]
    /\ pc' = [pc EXCEPT ![u] = "filterHint"]
    /\ UNCHANGED <<store, next, acked, aborted, stage, retry, attempt,
                   attemptVars, faults>>

\* FilterCommitted drops the operations whose identifier the user's latest
\* snapshot already reached; CheckFilesExistence guards the remaining ones.
Filter(u) ==
    /\ pc[u] = "filter"
    /\ \E k \in next[u]..(upto[u] + 1) :
        LET committed(i) ==
                CommittedByUser(u, base[u].id, Plan[u][i].identifier)
            rest == k..upto[u]
            missing == \E i \in rest :
                /\ Plan[u][i].op = "commit"
                /\ ~(Plan[u][i].add \cup Plan[u][i].after \subseteq files) IN
        /\ \A i \in next[u]..(k - 1) : committed(i)
        /\ \A i \in rest : ~committed(i)
        /\ next' = [next EXCEPT ![u] = k]
        /\ acked' = [acked EXCEPT ![u] = @ \cup next[u]..(k - 1)]
        /\ \/ /\ rest = {}
              /\ Return(u)
              /\ outcome' = [outcome EXCEPT ![u] = "none"]
              /\ UNCHANGED stage
           \/ /\ missing
              /\ Return(u)
              /\ outcome' = [outcome EXCEPT ![u] = "failed"]
              /\ stage' = [stage EXCEPT ![u] = FirstStage(Plan[u][k])]
           \/ /\ rest # {} /\ ~missing
              /\ Begin(u, k)
              /\ Forget(u)
              /\ UNCHANGED <<upto, filtering, outcome, retry>>
    /\ UNCHANGED <<store, aborted, attempt, faults>>

\* All TryCommits of the operation succeeded: the call goes on with the next
\* committable of its batch, or returns OK.
Finish(u) ==
    /\ pc[u] = "finish"
    /\ next' = [next EXCEPT ![u] = @ + 1]
    /\ acked' = [acked EXCEPT ![u] = @ \cup {next[u]}]
    /\ \/ /\ next[u] < upto[u]
          /\ Begin(u, next[u] + 1)
          /\ UNCHANGED <<upto, filtering, outcome, retry, attemptVars>>
       \/ /\ next[u] = upto[u]
          /\ Return(u)
          /\ outcome' = [outcome EXCEPT ![u] = "none"]
          /\ UNCHANGED stage
    /\ UNCHANGED <<store, aborted, attempt, faults>>

\* ExecuteOverwrite refuses changes outside the partitions it replaces.
Reject(u) ==
    /\ pc[u] = "reject"
    /\ Fail(u, "failed")
    /\ UNCHANGED <<store, attempt, faults>>

\* No half of operation next can have been published: the caller knows it
\* failed, and it did not fail after its append half succeeded.
NothingPublished(u) ==
    outcome[u] = "failed" /\ (stage[u] = "COMPACT" => ~NeedsAppend(Op(u)))

\* The caller gives up an unsuccessful operation and deletes its new files.
Abort(u) ==
    /\ pc[u] = "idle" /\ next[u] <= Len(Plan[u])
    /\ \/ NothingPublished(u)
       \/ AbortHalfCommitted /\ outcome[u] = "failed"
    /\ files' = files \ (Op(u).add \cup Op(u).after)
    /\ aborted' = [aborted EXCEPT ![u] = @ \cup {next[u]}]
    /\ next' = [next EXCEPT ![u] = @ + 1]
    /\ outcome' = [outcome EXCEPT ![u] = "none"]
    /\ UNCHANGED <<snapshots, latestHint, manifests, upto, filtering, acked,
                   stage, retry, attempt, attemptVars, pc, faults>>

-----------------------------------------------------------------------------
(* TryCommit and TryCommitOnce                                              *)

\* ReadHint is best effort: an unreadable or half-written LATEST counts as
\* absent.
ReadHint(u) ==
    /\ pc[u] \in {"hint", "filterHint"}
    /\ \E h \in {0, latestHint} : hint' = [hint EXCEPT ![u] = h]
    /\ pc' = [pc EXCEPT ![u] =
                IF pc[u] = "hint" THEN "latest" ELSE "filterLatest"]
    /\ UNCHANGED <<store, call, stage, retry, attempt, base, prep, faults>>

\* FindLatest and the load of the snapshot it names.
LoadLatest(u) ==
    /\ pc[u] \in {"latest", "filterLatest"}
    /\ \E id \in {0, hint[u]} \cup DOMAIN snapshots :
        /\ FindLatest(hint[u], id)
        /\ IF id # 0 /\ id \notin DOMAIN snapshots
           THEN Fail(u, "uncertain")
           ELSE /\ base' = [base EXCEPT ![u] = At(id)]
                /\ hint' = [hint EXCEPT ![u] = 0]
                /\ pc' = [pc EXCEPT ![u] =
                            IF pc[u] = "latest" THEN "prepare" ELSE "filter"]
                /\ UNCHANGED <<call, stage, retry, prep>>
    /\ UNCHANGED <<store, attempt, faults>>

\* The manifests of the base list when those in S are merged into one.
MergeManifests(b, S, merged) ==
    IF S = {} THEN b.base \cup b.delta
    ELSE ((b.base \cup b.delta) \ S) \cup {merged}

\* ManifestFileMerger rewrites a group of at least two manifests, if any.
MergeGroups(b) == {S \in SUBSET (b.base \cup b.delta) : Cardinality(S) # 1}

\* Mutant: deleted records are not subtracted.
TotalOfAdded(o, st, b) ==
    IF st = "ROLLBACK" THEN At(o.target).total
    ELSE b.total + Cardinality(Delta(o, st, b).add)

\* The delta record count is added up; a rollback copies its target's total.
TotalRecordCount(o, st, b) ==
    LET d == Delta(o, st, b) IN
    IF st = "ROLLBACK" THEN At(o.target).total
    ELSE b.total + Cardinality(d.add) - Cardinality(d.del)

\* Mutant: a rollback restores the row id counter of its target.
NextRowIdOfTarget(o, st, b) ==
    CASE st = "ROLLBACK" -> At(o.target).nextRowId
      [] st = "APPEND" -> b.nextRowId + Cardinality(Delta(o, st, b).add)
      [] OTHER -> b.nextRowId

\* Row tracking assigns ids to the new files of an append, not to compacted
\* ones; a rollback keeps the larger counter.
NextRowId(o, st, b) ==
    CASE st = "ROLLBACK" -> IF At(o.target).nextRowId > b.nextRowId
                            THEN At(o.target).nextRowId ELSE b.nextRowId
      [] st = "APPEND" -> b.nextRowId + Cardinality(Delta(o, st, b).add)
      [] OTHER -> b.nextRowId

\* The index manifest of the new snapshot.  WriteIndexFiles writes one, called
\* file here, when there are index entries: those of the committable, and in an
\* overwrite the deletions of what is indexed in its partitions.
IndexManifests(o, st, b, file) ==
    IF st = "ROLLBACK" THEN {At(o.target).index}
    ELSE IF st \in o.index THEN {file}
    ELSE IF st = "APPEND" /\ o.op \in {"overwrite", "drop"} /\ b.index # None
    THEN {b.index, file}
    ELSE {b.index}

\* The snapshot TryCommitOnce and RollbackToAsLatest build on top of b.
NewSnapshot(u, b, S, x) ==
    LET o == Op(u)
        st == stage[u]
        d == Delta(o, st, b)
        a == attempt[u] + 1
        file(part) == <<u, a, part>> IN
    [id |-> b.id + 1, uuid |-> <<u, a>>, user |-> u,
     identifier |-> IF st = "ROLLBACK" THEN MaxIdentifier ELSE o.identifier,
     kind |-> CommitKind(o, st), add |-> d.add, del |-> d.del,
     live |-> (b.live \ d.del) \cup d.add,
     base |-> IF st = "ROLLBACK" THEN {file("merged")}
              ELSE MergeManifests(b, S, file("merged")),
     delta |-> {file("delta")}, list |-> file("list"), index |-> x,
     total |-> TotalRecordCount(o, st, b),
     nextRowId |-> NextRowId(o, st, b)]

NewIndexes(u) ==
    IndexManifests(Op(u), stage[u], base[u], <<u, attempt[u] + 1, "index">>)

\* The checks that end an attempt with an error before it writes anything.
Rejected(u) ==
    LET o == Op(u)
        b == base[u] IN
    \/ stage[u] = "ROLLBACK" /\ (b.id = 0 \/ o.target \notin DOMAIN snapshots)
    \/ ~(Referenced(b) \subseteq manifests)
    \/ /\ b.id # 0
       /\ \/ DetectConflicts(u, stage[u])
          \/ DiscardDuplicate /\ CommitKind(o, stage[u]) = "APPEND"
       /\ ~CheckConflicts(b, Delta(o, stage[u], b))

\* TryCommitOnce up to CommitSnapshotImpl: check conflicts against the loaded
\* snapshot, merge old manifests, write the new metadata files.
Prepare(u) ==
    /\ pc[u] = "prepare"
    /\ IF Rejected(u)
       THEN Fail(u, "failed") /\ UNCHANGED <<manifests, attempt>>
       ELSE \E S \in MergeGroups(base[u]), x \in NewIndexes(u) :
              LET s == NewSnapshot(u, base[u], S, x) IN
              /\ prep' = [prep EXCEPT ![u] = s]
              /\ manifests' = manifests \cup
                    {n \in Referenced(s) : <<n[1], n[2]>> = s.uuid}
              /\ attempt' = [attempt EXCEPT ![u] = @ + 1]
              /\ pc' = [pc EXCEPT ![u] = "exists"]
              /\ UNCHANGED <<call, stage, retry, hint, base>>
    /\ UNCHANGED <<snapshots, latestHint, files, faults>>

\* Mutant: the manifests taken over from the base are removed as well.
CleanUpAllManifests(s, b) == {s.list} \cup s.base \cup s.delta

\* CleanUpTmpManifests: the lists, the manifests that were not there before
\* the merge, and the index manifest if the attempt wrote one.
CleanUpTmpManifests(s, b) ==
    {s.list} \cup ((s.base \cup s.delta) \ (b.base \cup b.delta))
    \cup IF s.index # b.index THEN {s.index} \ {None} ELSE {}

\* RenamingSnapshotCommit::Commit looks for the snapshot file first.
CheckExists(u) ==
    /\ pc[u] = "exists"
    /\ pc' = [pc EXCEPT ![u] =
                IF prep[u].id \in DOMAIN snapshots THEN "lost" ELSE "rename"]
    /\ UNCHANGED <<store, call, stage, retry, attempt, attemptVars, faults>>

\* The snapshot file appears under its final name, replacing what is there.
PutSnapshot(s) ==
    snapshots' = [n \in DOMAIN snapshots \cup {s.id} |->
                    IF n = s.id THEN s ELSE snapshots[n]]

\* FileSystem::AtomicStore: Rename refuses an existing target.  On a local
\* file system the check and rename(2), which replaces, are two steps.
Rename(u) ==
    /\ pc[u] = "rename"
    /\ IF prep[u].id \in DOMAIN snapshots
       THEN pc' = [pc EXCEPT ![u] = "confirm"] /\ UNCHANGED snapshots
       ELSE IF AtomicRename
       THEN PutSnapshot(prep[u]) /\ pc' = [pc EXCEPT ![u] = "publishHint"]
       ELSE pc' = [pc EXCEPT ![u] = "replace"] /\ UNCHANGED snapshots
    /\ UNCHANGED <<latestHint, files, manifests, call, stage, retry, attempt,
                   attemptVars, faults>>

Replace(u) ==
    /\ pc[u] = "replace"
    /\ PutSnapshot(prep[u])
    /\ pc' = [pc EXCEPT ![u] = "publishHint"]
    /\ UNCHANGED <<latestHint, files, manifests, call, stage, retry, attempt,
                   attemptVars, faults>>

\* Mutant: any snapshot file found is taken for one's own.
ConfirmAny(u) ==
    /\ pc[u] = "confirm"
    /\ IF prep[u].id \notin DOMAIN snapshots THEN Fail(u, "uncertain")
       ELSE /\ pc' = [pc EXCEPT ![u] = "publishHint"]
            /\ UNCHANGED <<call, stage, retry, attemptVars>>
    /\ UNCHANGED <<store, attempt, faults>>

\* Mutant: a failed store is taken for a lost race without looking.
ConfirmNone(u) ==
    /\ pc[u] = "confirm"
    /\ pc' = [pc EXCEPT ![u] = "lost"]
    /\ UNCHANGED <<store, call, stage, retry, attempt, attemptVars, faults>>

\* AtomicStore failed: an identical file means this attempt won after all, a
\* different one that it lost, none that nobody knows.
Confirm(u) ==
    /\ pc[u] = "confirm"
    /\ IF prep[u].id \notin DOMAIN snapshots THEN Fail(u, "uncertain")
       ELSE /\ pc' = [pc EXCEPT ![u] =
                        IF snapshots[prep[u].id] = prep[u]
                        THEN "publishHint" ELSE "lost"]
            /\ UNCHANGED <<call, stage, retry, attemptVars>>
    /\ UNCHANGED <<store, attempt, faults>>

\* CommitLatestHint, the last step of a successful TryCommit; a compact half
\* follows the append half of the same operation.
PublishHint(u) ==
    /\ pc[u] = "publishHint"
    /\ latestHint' = prep[u].id
    /\ Forget(u)
    /\ retry' = [retry EXCEPT ![u] = 0]
    /\ IF stage[u] = "APPEND" /\ HasCompactChanges(Op(u))
       THEN /\ stage' = [stage EXCEPT ![u] = "COMPACT"]
            /\ pc' = [pc EXCEPT ![u] = "hint"]
       ELSE pc' = [pc EXCEPT ![u] = "finish"] /\ UNCHANGED stage
    /\ UNCHANGED <<snapshots, files, manifests, call, attempt, faults>>

\* Mutant: retry under the next id without rebasing.
LoseRaceRenumber(u) ==
    /\ pc[u] = "lost"
    /\ \/ /\ stage[u] # "ROLLBACK" /\ retry[u] < MaxRetries
          /\ retry' = [retry EXCEPT ![u] = @ + 1]
          /\ pc' = [pc EXCEPT ![u] = "exists"]
          /\ prep' = [prep EXCEPT ![u].id = @ + 1]
          /\ UNCHANGED <<call, stage, hint, base>>
       \/ Fail(u, "failed")
    /\ UNCHANGED <<store, attempt, faults>>

\* Mutant: try the same snapshot again until the race is won.
LoseRaceAgain(u) ==
    /\ pc[u] = "lost"
    /\ pc' = [pc EXCEPT ![u] = "exists"]
    /\ UNCHANGED <<store, call, stage, retry, attempt, attemptVars, faults>>

\* A lost race: the attempt removes its metadata and rebases, or gives up
\* after commit.max-retries or commit.timeout.  A rollback keeps its files and
\* returns false.
LoseRace(u) ==
    /\ pc[u] = "lost"
    /\ manifests' = IF stage[u] = "ROLLBACK" THEN manifests
                    ELSE manifests \ CleanUpTmpManifests(prep[u], base[u])
    /\ \/ /\ stage[u] # "ROLLBACK" /\ retry[u] < MaxRetries
          /\ retry' = [retry EXCEPT ![u] = @ + 1]
          /\ pc' = [pc EXCEPT ![u] = "hint"]
          /\ Forget(u)
          /\ UNCHANGED <<call, stage>>
       \/ Fail(u, "failed")
    /\ UNCHANGED <<snapshots, latestHint, files, attempt, faults>>

-----------------------------------------------------------------------------
(* Faults                                                                   *)

\* The process dies; its caller restarts it and recovers through the filter.
Crash(u) ==
    /\ pc[u] # "idle" /\ faults < MaxFaults
    /\ faults' = faults + 1
    /\ Fail(u, "uncertain")
    /\ UNCHANGED <<store, attempt>>

\* An I/O error before publication; the scope guard removes what was written.
FaultyPrepare(u) ==
    /\ pc[u] = "prepare" /\ faults < MaxFaults
    /\ faults' = faults + 1
    /\ Fail(u, "failed")
    /\ UNCHANGED <<store, attempt>>

\* AtomicStore reports an error, with or without the rename having happened.
FaultyRename(u) ==
    /\ pc[u] \in {"rename", "replace"} /\ faults < MaxFaults
    /\ faults' = faults + 1
    /\ pc' = [pc EXCEPT ![u] = "confirm"]
    /\ \/ UNCHANGED snapshots
       \/ /\ prep[u].id \notin DOMAIN snapshots
          /\ PutSnapshot(prep[u])
    /\ UNCHANGED <<latestHint, files, manifests, call, stage, retry, attempt,
                   attemptVars>>

\* All tries to write the hint fail: the call errs although it published.
FaultyHint(u) ==
    /\ pc[u] = "publishHint" /\ faults < MaxFaults
    /\ faults' = faults + 1
    /\ Fail(u, "uncertain")
    /\ UNCHANGED <<store, attempt>>

-----------------------------------------------------------------------------
PlannedFiles(u) ==
    UNION {Plan[u][i].add \cup Plan[u][i].after : i \in DOMAIN Plan[u]}

\* A table without snapshots; the writers have written the files of every
\* committable.
Init ==
    /\ snapshots = [n \in {} |-> EmptyTable]
    /\ latestHint = 0
    /\ files = UNION {PlannedFiles(u) : u \in Users}
    /\ manifests = {}
    /\ pc = [u \in Users |-> "idle"]
    /\ next = [u \in Users |-> 1]
    /\ upto = [u \in Users |-> 0]
    /\ stage = [u \in Users |-> "APPEND"]
    /\ filtering = [u \in Users |-> FALSE]
    /\ retry = [u \in Users |-> 0]
    /\ hint = [u \in Users |-> 0]
    /\ base = [u \in Users |-> EmptyTable]
    /\ prep = [u \in Users |-> EmptyTable]
    /\ attempt = [u \in Users |-> 0]
    /\ outcome = [u \in Users |-> "none"]
    /\ acked = [u \in Users |-> {}]
    /\ aborted = [u \in Users |-> {}]
    /\ faults = 0

\* A step of the committer of u, driven by its own thread.
Step(u) ==
    \/ Filter(u) \/ Finish(u) \/ Reject(u) \/ ReadHint(u) \/ LoadLatest(u)
    \/ Prepare(u) \/ CheckExists(u) \/ Rename(u) \/ Replace(u) \/ Confirm(u)
    \/ PublishHint(u) \/ LoseRace(u)

Fault(u) == Crash(u) \/ FaultyPrepare(u) \/ FaultyRename(u) \/ FaultyHint(u)

\* Every caller is through with its plan, or waits for files that never came.
Terminated ==
    /\ \A u \in Users : pc[u] = "idle" /\ outcome[u] = "none" /\ ~Ready(u)
    /\ UNCHANGED vars

Next ==
    \/ \E u \in Users : \/ Submit(u) \/ SubmitFiltered(u) \/ Abort(u)
                        \/ Step(u) \/ Fault(u)
    \/ Terminated

Spec == Init /\ [][Next]_vars

\* A committer that runs is scheduled, and a caller keeps submitting: new
\* operations directly, failed or interrupted ones through the filter.
Fairness ==
    \A u \in Users :
        /\ WF_vars(Step(u))
        /\ WF_vars(Submit(u) \/ (SubmitFiltered(u) /\ outcome[u] # "none"))

FairSpec == Spec /\ Fairness

-----------------------------------------------------------------------------
(* Properties                                                               *)

\* Every variable has its type.
TypeOK ==
    /\ DOMAIN snapshots \subseteq Nat \ {0}
    /\ \A n \in DOMAIN snapshots : snapshots[n] \in Snapshot
    /\ latestHint \in Nat
    /\ files \subseteq Files
    /\ manifests \subseteq FileNames
    /\ pc \in [Users -> Locations]
    /\ next \in [Users -> Nat]
    /\ \A u \in Users : next[u] \in 1..(Len(Plan[u]) + 1)
    /\ upto \in [Users -> Nat]
    /\ stage \in [Users -> Stages]
    /\ filtering \in [Users -> BOOLEAN]
    /\ retry \in [Users -> 0..MaxRetries]
    /\ hint \in [Users -> Nat]
    /\ base \in [Users -> Snapshot \cup {EmptyTable}]
    /\ prep \in [Users -> Snapshot \cup {EmptyTable}]
    /\ attempt \in [Users -> Nat]
    /\ outcome \in [Users -> Outcomes]
    /\ acked \in [Users -> SUBSET Nat]
    /\ aborted \in [Users -> SUBSET Nat]
    /\ faults \in 0..MaxFaults

\* No update is lost: every published snapshot is its predecessor plus the
\* delta it carries, whatever was published between the moment TryCommitOnce
\* loaded its base and the moment the snapshot file appeared.
SnapshotChain ==
    \A n \in DOMAIN snapshots :
        LET s == snapshots[n]
            b == At(n - 1) IN
        /\ n - 1 \in DOMAIN snapshots \cup {0}
        /\ s.live = (b.live \ s.del) \cup s.add

\* The delta of every published snapshot applies to its predecessor: no file
\* is deleted that is not live and none is added twice, also for the deltas
\* that TryCommitOnce publishes without calling CheckConflicts.
DeltaApplies ==
    \A n \in DOMAIN snapshots :
        LET s == snapshots[n]
            b == At(n - 1) IN
        s.del \subseteq b.live /\ s.add \cap b.live = {}

\* The total record count TryCommitOnce carries forward by addition, and
\* RollbackToAsLatest copies from its target, is the number of live records
\* (one per file here).
TotalIsLive ==
    \A n \in DOMAIN snapshots :
        snapshots[n].total = Cardinality(snapshots[n].live)

\* Published halves of operation i of user u.
PublishedHalf(u, i, kinds) ==
    {n \in DOMAIN snapshots :
        /\ snapshots[n].user = u
        /\ snapshots[n].identifier = Plan[u][i].identifier
        /\ snapshots[n].kind \in kinds}

\* An operation is published at most once per half, over any crashes, I/O
\* errors, lost races and resubmissions through FilterAndCommit.
ExactlyOnce ==
    \A u \in Users : \A i \in DOMAIN Plan[u] :
        Filterable(Plan[u][i]) =>
            /\ Cardinality(PublishedHalf(u, i, {"APPEND", "OVERWRITE"})) <= 1
            /\ Cardinality(PublishedHalf(u, i, {"COMPACT"})) <= 1

\* What a call or the filter reported as committed is in the history, as far
\* as its first half goes.
AckedIsPublished ==
    \A u \in Users : \A i \in acked[u] :
        LET o == Plan[u][i] IN
        /\ NeedsAppend(o) => PublishedHalf(u, i, {"APPEND", "OVERWRITE"}) # {}
        /\ FirstStage(o) = "COMPACT" /\ HasCompactChanges(o) =>
                PublishedHalf(u, i, {"COMPACT"}) # {}

\* FilterAndCommit commits what remains of an operation: once an operation is
\* reported as committed, its compact changes are published too.
AckedIsComplete ==
    \A u \in Users : \A i \in acked[u] :
        HasCompactChanges(Plan[u][i]) => PublishedHalf(u, i, {"COMPACT"}) # {}

\* Nobody's cleanup, however its race went, removes a manifest list, manifest
\* or index manifest of a published snapshot.
ManifestsPresent ==
    \A n \in DOMAIN snapshots : Referenced(snapshots[n]) \subseteq manifests

\* Abort never removes a data file a published snapshot refers to.
DataFilesPresent ==
    \A n \in DOMAIN snapshots : snapshots[n].live \subseteq files

\* A hint that is stale, was overwritten by an older one or cannot be read
\* never hides a published snapshot from FindLatest.
FindLatestIsLatest ==
    \A h \in {0, latestHint} : \A id \in {0, h} \cup DOMAIN snapshots :
        FindLatest(h, id) => \A n \in DOMAIN snapshots : n <= id

\* Row ids are handed out once: next_row_id never falls along the history, not
\* even when a rollback restores a snapshot from before ids were assigned.
RowIdsNotReused ==
    \A m, n \in DOMAIN snapshots :
        m < n => snapshots[m].nextRowId <= snapshots[n].nextRowId

\* A published snapshot is never replaced: of two committers that race for an
\* id, RenamingSnapshotCommit lets one succeed.
PublishedIsFinal ==
    [][\A n \in DOMAIN snapshots :
        n \in DOMAIN snapshots' /\ snapshots'[n] = snapshots[n]]_snapshots

\* Every call returns to its caller: the retries of TryCommit are bounded.
CallsReturn == \A u \in Users : pc[u] # "idle" ~> pc[u] = "idle"

\* With callers that resubmit through the filter, every operation of a plan
\* without logical conflicts is committed in the end, however often it loses a
\* race or fails, unless its caller gives it up.
AllSettled ==
    \A u \in Users :
        <>(\A i \in DOMAIN Plan[u] : i \in acked[u] \cup aborted[u])

\* The published snapshots as the history of an abstract table.
ChangeOf(s) ==
    [user |-> s.user, identifier |-> s.identifier,
     half |-> IF s.kind = "COMPACT" THEN "compact" ELSE "append",
     once |-> \E i \in DOMAIN Plan[s.user] :
                /\ Filterable(Plan[s.user][i])
                /\ Plan[s.user][i].identifier = s.identifier,
     add |-> s.add, del |-> s.del]

Changes == [n \in 1..Cardinality(DOMAIN snapshots) |-> ChangeOf(snapshots[n])]
LatestFiles == At(Cardinality(DOMAIN snapshots)).live

Abstract == INSTANCE TableHistory WITH history <- Changes, table <- LatestFiles

\* The commit protocol implements the table history: retries, lost races,
\* crashes and resubmissions only ever show as whole changes, once each.
ImplementsTableHistory == Abstract!Spec

=============================================================================
